------------------------- MODULE ServerTasksProofs -------------------------
(* For any number of slots, requests and tasks: the server never unloads   *)
(* the model under a busy slot; no task is in two places or answered       *)
(* twice, none is lost while its request waits, no result is left behind;  *)
(* and as long as nothing fails, no child waits without its parent and no  *)
(* deferred task is stranded.                                              *)
EXTENDS ServerTasks, FiniteSetTheorems, SequenceTheorems, TLAPS

-----------------------------------------------------------------------------
(* Ranks: in a finite set of numbers the k-th element exists.              *)

LEMMA RankFacts ==
  ASSUME NEW S \in SUBSET Int, IsFiniteSet(S)
  PROVE  /\ Cardinality(S) \in Nat
         /\ \A x \in S : Rank(S, x) \in 1 .. Cardinality(S)
         /\ \A x, y \in S : x < y => Rank(S, x) < Rank(S, y)
<1>1. Cardinality(S) \in Nat
  BY FS_CardinalityType
<1>2. ASSUME NEW x \in S PROVE Rank(S, x) \in 1 .. Cardinality(S)
  <2> DEFINE B == {y \in S : y <= x}
  <2>1. IsFiniteSet(B) /\ Cardinality(B) <= Cardinality(S) /\ Cardinality(B) \in Nat
    BY FS_Subset, FS_CardinalityType
  <2>2. B # {}
    OBVIOUS
  <2>3. Cardinality(B) # 0
    BY <2>1, <2>2, FS_EmptySet
  <2> QED
    BY <2>1, <2>3, <1>1 DEF Rank
<1>3. ASSUME NEW x \in S, NEW y \in S, x < y PROVE Rank(S, x) < Rank(S, y)
  <2> DEFINE B == {z \in S : z <= x}
             C == {z \in S : z <= y}
  <2>1. IsFiniteSet(C) /\ Cardinality(C) \in Nat
    BY FS_Subset, FS_CardinalityType
  <2>2. B \in SUBSET C /\ y \in C /\ y \notin B
    <3>1. x \in Int /\ y \in Int /\ \A z \in S : z \in Int
      OBVIOUS
    <3>2. ASSUME NEW z \in S, z <= x PROVE z <= y
      BY <3>1, <3>2, <1>3
    <3>3. y <= y /\ ~(y <= x)
      BY <3>1, <1>3
    <3> QED
      BY <3>2, <3>3
  <2>3. Cardinality(B) <= Cardinality(C) /\ Cardinality(B) # Cardinality(C)
    BY <2>1, <2>2, FS_Subset
  <2>4. Cardinality(B) \in Nat
    BY <2>1, <2>2, FS_Subset, FS_CardinalityType
  <2> QED
    BY <2>1, <2>3, <2>4 DEF Rank
<1> QED
  BY <1>1, <1>2, <1>3

LEMMA NthFacts ==
  ASSUME NEW S \in SUBSET Int, IsFiniteSet(S)
  PROVE  /\ \A k \in 1 .. Cardinality(S) : Nth(S, k) \in S /\ Rank(S, Nth(S, k)) = k
         /\ \A x \in S : Nth(S, Rank(S, x)) = x
<1> DEFINE N == 1 .. Cardinality(S)
           f == [x \in S |-> Rank(S, x)]
<1>1. Cardinality(S) \in Nat
  BY RankFacts
<1>2. \A x, y \in S : Rank(S, x) = Rank(S, y) => x = y
  <2> SUFFICES ASSUME NEW x \in S, NEW y \in S, Rank(S, x) = Rank(S, y), x # y PROVE FALSE
    OBVIOUS
  <2>1. x < y \/ y < x
    OBVIOUS
  <2> QED
    BY <2>1, RankFacts
<1>3. f \in [S -> N]
  BY RankFacts
<1>4. f \in Injection(S, N)
  BY <1>2, <1>3 DEF Injection, IsInjective
<1>5. IsFiniteSet(N) /\ Cardinality(N) = Cardinality(S)
  BY <1>1, FS_Interval
<1>6. f \in Surjection(S, N)
  BY <1>4, <1>5, FS_Injection
<1>7. \A k \in N : \E x \in S : Rank(S, x) = k
  BY <1>6 DEF Surjection
<1>8. ASSUME NEW k \in N PROVE Nth(S, k) \in S /\ Rank(S, Nth(S, k)) = k
  BY <1>7 DEF Nth
<1>9. ASSUME NEW x \in S PROVE Nth(S, Rank(S, x)) = x
  <2>1. Rank(S, x) \in N
    BY RankFacts
  <2> QED
    BY <2>1, <1>8, <1>2
<1> QED
  BY <1>8, <1>9

(* Every non-empty finite set of numbers has a least element.              *)
LEMMA LeastElement ==
  ASSUME NEW S \in SUBSET Int, IsFiniteSet(S), S # {}
  PROVE  \E x \in S : \A y \in S : x <= y
<1>1. Cardinality(S) \in Nat \ {0}
  BY FS_CardinalityType, FS_EmptySet
<1>2. Nth(S, 1) \in S /\ Rank(S, Nth(S, 1)) = 1
  BY <1>1, NthFacts
<1> DEFINE m == Nth(S, 1)
<1>3. ASSUME NEW y \in S, y < m PROVE FALSE
  <2>1. Rank(S, y) < Rank(S, m) /\ Rank(S, y) \in 1 .. Cardinality(S)
    BY <1>2, <1>3, RankFacts
  <2> QED
    BY <1>1, <1>2, <2>1
<1>4. \A y \in S : y \in Int /\ m \in Int
  BY <1>2
<1>5. \A y \in S : m <= y
  BY <1>3, <1>4
<1> QED
  BY <1>2, <1>5

-----------------------------------------------------------------------------
(* Sequences and their elements.                                           *)

LEMMA ElemsFacts ==
  ASSUME NEW E, NEW q \in Seq(E)
  PROVE  /\ Elems(q) \subseteq E
         /\ IsFiniteSet(Elems(q))
         /\ IsFiniteSet(DOMAIN q) /\ DOMAIN q \in SUBSET Int
<1>1. Len(q) \in Nat /\ DOMAIN q = 1 .. Len(q) /\ q \in [1 .. Len(q) -> E]
  BY LenProperties
<1>2. IsFiniteSet(1 .. Len(q))
  BY <1>1, FS_Interval
<1>3. q \in [1 .. Len(q) -> Elems(q)] /\ \A e \in Elems(q) : \E k \in 1 .. Len(q) : q[k] = e
  BY <1>1 DEF Elems
<1>4. q \in Surjection(1 .. Len(q), Elems(q))
  BY <1>3 DEF Surjection
<1> QED
  BY <1>1, <1>2, <1>4, FS_Surjection DEF Elems

LEMMA ElemsConcat ==
  ASSUME NEW E, NEW q \in Seq(E), NEW r \in Seq(E)
  PROVE  q \o r \in Seq(E) /\ Elems(q \o r) = Elems(q) \cup Elems(r)
<1>1. /\ q \o r \in Seq(E) /\ Len(q \o r) = Len(q) + Len(r)
      /\ \A i \in 1 .. Len(q) + Len(r) :
            (q \o r)[i] = IF i <= Len(q) THEN q[i] ELSE r[i - Len(q)]
  BY ConcatProperties
<1>2. /\ Len(q) \in Nat /\ DOMAIN q = 1 .. Len(q)
      /\ Len(r) \in Nat /\ DOMAIN r = 1 .. Len(r)
      /\ DOMAIN (q \o r) = 1 .. Len(q) + Len(r)
  BY <1>1, LenProperties
<1>3. ASSUME NEW k \in DOMAIN (q \o r) PROVE (q \o r)[k] \in Elems(q) \cup Elems(r)
  BY <1>1, <1>2 DEF Elems
<1>4. ASSUME NEW k \in DOMAIN q PROVE q[k] \in Elems(q \o r)
  BY <1>1, <1>2 DEF Elems
<1>5. ASSUME NEW k \in DOMAIN r PROVE r[k] \in Elems(q \o r)
  <2>1. Len(q) + k \in 1 .. Len(q) + Len(r) /\ ~(Len(q) + k <= Len(q)) /\ (Len(q) + k) - Len(q) = k
    BY <1>2
  <2>2. (q \o r)[Len(q) + k] = r[k]
    BY <1>1, <2>1
  <2> QED
    BY <1>2, <2>1, <2>2 DEF Elems
<1> QED
  BY <1>1, <1>3, <1>4, <1>5 DEF Elems

LEMMA PickFacts ==
  ASSUME NEW E, NEW q \in Seq(E), NEW K \in SUBSET DOMAIN q
  PROVE  Pick(q, K) \in Seq(E) /\ Elems(Pick(q, K)) = {q[k] : k \in K}
<1>1. K \in SUBSET Int /\ IsFiniteSet(K)
  BY ElemsFacts, FS_Subset
<1>2. Cardinality(K) \in Nat
  BY <1>1, FS_CardinalityType
<1>3. \A j \in 1 .. Cardinality(K) : Nth(K, j) \in K
  BY <1>1, NthFacts
<1>4. \A k \in DOMAIN q : q[k] \in E
  BY LenProperties
<1>5. Pick(q, K) \in [1 .. Cardinality(K) -> E]
  BY <1>3, <1>4 DEF Pick
<1>6. Pick(q, K) \in Seq(E)
  BY <1>2, <1>5, SeqDef
<1>7. DOMAIN Pick(q, K) = 1 .. Cardinality(K)
  BY DEF Pick
<1>8. ASSUME NEW k \in K PROVE q[k] \in Elems(Pick(q, K))
  <2>1. Rank(K, k) \in 1 .. Cardinality(K) /\ Nth(K, Rank(K, k)) = k
    BY <1>1, RankFacts, NthFacts
  <2> QED
    BY <1>7, <2>1 DEF Pick, Elems
<1>9. ASSUME NEW e \in Elems(Pick(q, K)) PROVE e \in {q[k] : k \in K}
  BY <1>3, <1>7 DEF Pick, Elems
<1> QED
  BY <1>6, <1>8, <1>9

-----------------------------------------------------------------------------
(* How many entries hold a task.                                           *)

LEMMA SameCount ==
  ASSUME NEW A, NEW B, NEW f \in [A -> B], IsFiniteSet(B),
         \A x, y \in A : f[x] = f[y] => x = y, \A y \in B : \E x \in A : f[x] = y
  PROVE  IsFiniteSet(A) /\ Cardinality(A) = Cardinality(B)
<1>1. f \in Injection(A, B) /\ f \in Surjection(A, B)
  BY DEF Injection, IsInjective, Surjection
<1> QED
  BY <1>1, FS_Injection

InAt(q, P) == {k \in DOMAIN q : q[k] \in P}
Num(q, P) == Cardinality(InAt(q, P))

LEMMA NumFacts ==
  ASSUME NEW E, NEW q \in Seq(E), NEW P
  PROVE  /\ IsFiniteSet(InAt(q, P)) /\ Num(q, P) \in Nat
         /\ Num(q, P) = 0 <=> \A e \in Elems(q) : e \notin P
<1>1. IsFiniteSet(InAt(q, P)) /\ Num(q, P) = Cardinality(InAt(q, P))
  BY ElemsFacts, FS_Subset DEF InAt, Num
<1>2. InAt(q, P) = {} <=> \A e \in Elems(q) : e \notin P
  BY DEF InAt, Elems
<1> QED
  BY <1>1, <1>2, FS_CardinalityType, FS_EmptySet

LEMMA NumConcat ==
  ASSUME NEW E, NEW q \in Seq(E), NEW r \in Seq(E), NEW P
  PROVE  Num(q \o r, P) = Num(q, P) + Num(r, P)
<1> DEFINE A == InAt(q, P)
           B == InAt(r, P)
           C == InAt(q \o r, P)
           D == C \ A
           f == [k \in B |-> Len(q) + k]
<1>1. /\ q \o r \in Seq(E) /\ Len(q \o r) = Len(q) + Len(r)
      /\ \A i \in 1 .. Len(q) + Len(r) :
            (q \o r)[i] = IF i <= Len(q) THEN q[i] ELSE r[i - Len(q)]
  BY ConcatProperties
<1>2. /\ Len(q) \in Nat /\ DOMAIN q = 1 .. Len(q)
      /\ Len(r) \in Nat /\ DOMAIN r = 1 .. Len(r)
      /\ DOMAIN (q \o r) = 1 .. Len(q) + Len(r)
  BY <1>1, LenProperties
<1>3. A \subseteq C /\ A = {k \in C : k <= Len(q)}
  <2>1. ASSUME NEW k \in 1 .. Len(q) PROVE (q \o r)[k] = q[k] /\ k \in 1 .. Len(q) + Len(r)
    BY <1>1, <1>2
  <2>2. A \subseteq C
    BY <1>2, <2>1 DEF InAt
  <2>3. ASSUME NEW k \in C, k <= Len(q) PROVE k \in A
    <3>1. k \in 1 .. Len(q)
      BY <1>2, <2>3 DEF InAt
    <3> QED
      BY <1>2, <2>1, <3>1 DEF InAt
  <2>4. ASSUME NEW k \in A PROVE k <= Len(q)
    BY <1>2 DEF InAt
  <2> QED
    BY <2>2, <2>3, <2>4
<1>4. IsFiniteSet(A) /\ IsFiniteSet(B) /\ IsFiniteSet(C) /\ IsFiniteSet(D)
  BY <1>1, NumFacts, FS_Subset
<1>5. ASSUME NEW k \in B PROVE Len(q) + k \in D /\ k \in Int
  <2>1. k \in 1 .. Len(r) /\ r[k] \in P
    BY <1>2 DEF InAt
  <2>2. /\ Len(q) + k \in 1 .. Len(q) + Len(r) /\ ~(Len(q) + k <= Len(q))
        /\ (Len(q) + k) - Len(q) = k
    BY <1>2, <2>1
  <2>3. (q \o r)[Len(q) + k] = r[k]
    BY <1>1, <2>2
  <2>4. Len(q) + k \in C
    BY <1>2, <2>1, <2>2, <2>3 DEF InAt
  <2> QED
    BY <1>3, <2>1, <2>2, <2>4
<1>6. ASSUME NEW y \in D PROVE \E k \in B : f[k] = y
  <2>1. y \in 1 .. Len(q) + Len(r) /\ (q \o r)[y] \in P /\ ~(y <= Len(q))
    BY <1>2, <1>3 DEF InAt
  <2>2. y - Len(q) \in 1 .. Len(r) /\ Len(q) + (y - Len(q)) = y
    BY <1>2, <2>1
  <2>3. (q \o r)[y] = r[y - Len(q)]
    BY <1>1, <2>1
  <2>4. y - Len(q) \in B
    BY <1>2, <2>1, <2>2, <2>3 DEF InAt
  <2> QED
    BY <2>2, <2>4
<1> HIDE DEF A, B, C, D
<1>7. f \in [B -> D] /\ \A x, y \in B : f[x] = f[y] => x = y
  BY <1>2, <1>5
<1>8. Cardinality(B) = Cardinality(D)
  BY <1>4, <1>6, <1>7, SameCount
<1>9. C = A \cup D /\ A \cap D = {}
  BY <1>3 DEF D
<1>10. Cardinality(C) = Cardinality(A) + Cardinality(D) - 0
  BY <1>4, <1>9, FS_Union, FS_EmptySet
<1>11. Cardinality(A) \in Nat /\ Cardinality(D) \in Nat
  BY <1>4, FS_CardinalityType
<1>12. Cardinality(C) = Cardinality(A) + Cardinality(B)
  BY <1>8, <1>10, <1>11
<1> QED
  BY <1>12 DEF A, B, C, InAt, Num

LEMMA NumPick ==
  ASSUME NEW E, NEW q \in Seq(E), NEW K \in SUBSET DOMAIN q, NEW P
  PROVE  Num(Pick(q, K), P) = Cardinality({k \in K : q[k] \in P})
<1> DEFINE A == {k \in K : q[k] \in P}
           B == InAt(Pick(q, K), P)
           f == [j \in B |-> Nth(K, j)]
<1>1. K \in SUBSET Int /\ IsFiniteSet(K) /\ IsFiniteSet(A)
  BY ElemsFacts, FS_Subset
<1>2. /\ \A j \in 1 .. Cardinality(K) : Nth(K, j) \in K /\ Rank(K, Nth(K, j)) = j
      /\ \A k \in K : Rank(K, k) \in 1 .. Cardinality(K) /\ Nth(K, Rank(K, k)) = k
  BY <1>1, NthFacts, RankFacts
<1>3. B = {j \in 1 .. Cardinality(K) : q[Nth(K, j)] \in P}
  BY DEF InAt, Pick
<1>4. f \in [B -> A] /\ \A x, y \in B : f[x] = f[y] => x = y
  <2>1. \A j \in B : Nth(K, j) \in A /\ Rank(K, Nth(K, j)) = j
    BY <1>2, <1>3
  <2> HIDE DEF A, B
  <2> QED
    BY <2>1
<1>5. \A k \in A : \E j \in B : f[j] = k
  <2> SUFFICES ASSUME NEW k \in A PROVE \E j \in B : f[j] = k
    OBVIOUS
  <2>1. Rank(K, k) \in B /\ Nth(K, Rank(K, k)) = k
    BY <1>2, <1>3
  <2> QED
    BY <2>1
<1> HIDE DEF f, A, B
<1>6. Cardinality(B) = Cardinality(A)
  BY <1>1, <1>4, <1>5, SameCount
<1> QED
  BY <1>6 DEF A, B, InAt, Num

LEMMA NumPickLe ==
  ASSUME NEW E, NEW q \in Seq(E), NEW K \in SUBSET DOMAIN q, NEW P
  PROVE  Num(Pick(q, K), P) <= Num(q, P)
<1>1. {k \in K : q[k] \in P} \in SUBSET InAt(q, P)
  BY DEF InAt
<1>2. IsFiniteSet(InAt(q, P)) /\ Num(q, P) = Cardinality(InAt(q, P))
  BY NumFacts DEF Num
<1>3. Num(Pick(q, K), P) = Cardinality({k \in K : q[k] \in P})
  BY NumPick
<1> QED
  BY <1>1, <1>2, <1>3, FS_Subset

LEMMA NumOne ==
  ASSUME NEW e, NEW P
  PROVE  Num(<<e>>, P) = IF e \in P THEN 1 ELSE 0
<1>1. InAt(<<e>>, P) = IF e \in P THEN {1} ELSE {}
  BY DEF InAt
<1> QED
  BY <1>1, FS_Singleton, FS_EmptySet DEF Num

LEMMA NumDrop ==
  ASSUME NEW E, NEW q \in Seq(E), NEW k \in DOMAIN q, NEW P
  PROVE  Num(q, P) = Num(Drop(q, k), P) + (IF q[k] \in P THEN 1 ELSE 0)
<1> DEFINE A == InAt(q, P)
<1>1. Num(Drop(q, k), P) = Cardinality(A \ {k})
  <2>1. A \ {k} = {j \in DOMAIN q \ {k} : q[j] \in P}
    BY DEF InAt
  <2> QED
    BY <2>1, NumPick DEF Drop
<1>2. IsFiniteSet(A) /\ Cardinality(A) = Num(q, P) /\ Num(q, P) \in Nat
  BY NumFacts DEF InAt, Num
<1>3. Cardinality(A \ {k}) = IF k \in A THEN Cardinality(A) - 1 ELSE Cardinality(A)
  BY <1>2, FS_RemoveElement
<1>4. k \in A <=> q[k] \in P
  BY DEF InAt
<1> QED
  BY <1>1, <1>2, <1>3, <1>4

LEMMA CountNum ==
  ASSUME NEW E, NEW q \in Seq(E), NEW t
  PROVE  Count(q, t) = Num(q, {e \in E : Holds(e, t)})
<1>1. \A k \in DOMAIN q : q[k] \in E
  BY LenProperties
<1>2. {k \in DOMAIN q : Holds(q[k], t)} = InAt(q, {e \in E : Holds(e, t)})
  BY <1>1 DEF InAt
<1> QED
  BY <1>2 DEF Count, Num

LEMMA CountFacts ==
  ASSUME NEW E, NEW q \in Seq(E), NEW t
  PROVE  /\ Count(q, t) \in Nat
         /\ Count(q, t) = 0 <=> \A e \in Elems(q) : ~Holds(e, t)
<1> DEFINE P == {e \in E : Holds(e, t)}
<1>1. \A e \in Elems(q) : e \in P <=> Holds(e, t)
  BY ElemsFacts
<1>2. Count(q, t) = Num(q, P)
  BY CountNum
<1> HIDE DEF P
<1>3. Num(q, P) \in Nat /\ (Num(q, P) = 0 <=> \A e \in Elems(q) : e \notin P)
  BY NumFacts
<1> QED
  BY <1>1, <1>2, <1>3

LEMMA CountConcat ==
  ASSUME NEW E, NEW q \in Seq(E), NEW r \in Seq(E), NEW t
  PROVE  Count(q \o r, t) = Count(q, t) + Count(r, t)
<1> DEFINE P == {e \in E : Holds(e, t)}
<1>1. q \o r \in Seq(E)
  BY ElemsConcat
<1>2. Count(q, t) = Num(q, P) /\ Count(r, t) = Num(r, P) /\ Count(q \o r, t) = Num(q \o r, P)
  BY <1>1, CountNum
<1> HIDE DEF P
<1>3. Num(q \o r, P) = Num(q, P) + Num(r, P)
  BY NumConcat
<1> QED
  BY <1>2, <1>3

LEMMA CountPick ==
  ASSUME NEW E, NEW q \in Seq(E), NEW K \in SUBSET DOMAIN q, NEW t
  PROVE  Count(Pick(q, K), t) <= Count(q, t)
<1> DEFINE P == {e \in E : Holds(e, t)}
<1>1. Pick(q, K) \in Seq(E)
  BY PickFacts
<1>2. Count(q, t) = Num(q, P) /\ Count(Pick(q, K), t) = Num(Pick(q, K), P)
  BY <1>1, CountNum
<1> HIDE DEF P
<1> QED
  BY <1>2, NumPickLe

LEMMA CountDrop ==
  ASSUME NEW E, NEW q \in Seq(E), NEW k \in DOMAIN q, NEW t
  PROVE  Count(q, t) = Count(Drop(q, k), t) + (IF Holds(q[k], t) THEN 1 ELSE 0)
<1> DEFINE P == {e \in E : Holds(e, t)}
<1>1. Drop(q, k) \in Seq(E) /\ q[k] \in E
  BY PickFacts, LenProperties DEF Drop
<1>2. q[k] \in P <=> Holds(q[k], t)
  BY <1>1
<1> HIDE DEF P
<1>3. Num(q, P) = Num(Drop(q, k), P) + (IF q[k] \in P THEN 1 ELSE 0)
  BY NumDrop
<1> QED
  BY <1>1, <1>2, <1>3, CountNum DEF P

LEMMA CountOne ==
  ASSUME NEW e, NEW t
  PROVE  Count(<<e>>, t) = IF Holds(e, t) THEN 1 ELSE 0
<1>1. {k \in DOMAIN <<e>> : Holds(<<e>>[k], t)} = IF Holds(e, t) THEN {1} ELSE {}
  OBVIOUS
<1> QED
  BY <1>1, FS_Singleton, FS_EmptySet DEF Count

LEMMA CountAppend ==
  ASSUME NEW E, NEW q \in Seq(E), NEW e \in E, NEW t
  PROVE  Count(Append(q, e), t) = Count(q, t) + (IF Holds(e, t) THEN 1 ELSE 0)
<1>1. Append(q, e) = q \o <<e>>
  BY AppendIsConcat
<1>2. <<e>> \in Seq(E)
  OBVIOUS
<1>3. Count(q \o <<e>>, t) = Count(q, t) + Count(<<e>>, t)
  BY <1>2, CountConcat
<1> QED
  BY <1>1, <1>3, CountOne

LEMMA CountHead ==
  ASSUME NEW E, NEW q \in Seq(E), q # <<>>, NEW t
  PROVE  Count(q, t) = (IF Holds(Head(q), t) THEN 1 ELSE 0) + Count(Tail(q), t)
<1>1. Head(q) \in E /\ Tail(q) \in Seq(E) /\ <<Head(q)>> \in Seq(E)
  BY HeadTailProperties
<1>2. q = <<Head(q)>> \o Tail(q)
  OBVIOUS
<1>3. Count(<<Head(q)>> \o Tail(q), t) = Count(<<Head(q)>>, t) + Count(Tail(q), t)
  BY <1>1, CountConcat
<1> QED
  BY <1>2, <1>3, CountOne

-----------------------------------------------------------------------------
(* What releasing slots does to the queues: they stay queues, nothing      *)
(* leaves queue_tasks, and no entry is lost, made up or doubled.           *)

After(q, d) ==
  {x \in Seq(EntryType) \X Seq(TaskType) :
     /\ Elems(q) \subseteq Elems(x[1])
     /\ Elems(x[1]) \cup Elems(x[2]) \subseteq Elems(q) \cup Elems(d)
     /\ \A t \in TaskId : Count(x[1], t) + Count(x[2], t) = Count(q, t) + Count(d, t)}

LEMMA AfterPair ==
  ASSUME NEW q, NEW d, NEW a \in Seq(EntryType), NEW b \in Seq(TaskType),
         Elems(q) \subseteq Elems(a), Elems(a) \cup Elems(b) \subseteq Elems(q) \cup Elems(d),
         \A t \in TaskId : Count(a, t) + Count(b, t) = Count(q, t) + Count(d, t)
  PROVE  <<a, b>> \in After(q, d)
<1>1. <<a, b>> \in Seq(EntryType) \X Seq(TaskType) /\ <<a, b>>[1] = a /\ <<a, b>>[2] = b
  OBVIOUS
<1> QED
  BY <1>1 DEF After

LEMMA PopDeferredFacts ==
  ASSUME NEW q \in Seq(EntryType), NEW d \in Seq(TaskType), NEW s
  PROVE  PopDeferred(q, d, s) \in After(q, d)
<1> DEFINE own == {k \in DOMAIN d : AsksFor(d[k].id, s)}
           k   == IF own = {} THEN 1 ELSE CHOOSE i \in own : \A j \in own : i <= j
<1>1. CASE d = <<>>
  <2>1. PopDeferred(q, d, s) = <<q, d>>
    BY <1>1 DEF PopDeferred
  <2> QED
    BY <2>1, AfterPair
<1>2. CASE d # <<>>
  <2>1. Len(d) \in Nat \ {0} /\ DOMAIN d = 1 .. Len(d)
    BY <1>2, EmptySeq, LenProperties
  <2>2. k \in DOMAIN d
    <3>1. CASE own = {}
      BY <2>1, <3>1
    <3>2. CASE own # {}
      <4>1. own \in SUBSET Int /\ IsFiniteSet(own)
        BY ElemsFacts, FS_Subset
      <4>2. \E i \in own : \A j \in own : i <= j
        BY <3>2, <4>1, LeastElement
      <4> QED
        BY <3>2, <4>2
    <3> QED
      BY <3>1, <3>2
  <2>3. PopDeferred(q, d, s) = << <<d[k]>> \o q, Drop(d, k) >>
    BY <1>2 DEF PopDeferred
  <2> HIDE DEF k
  <2>4. d[k] \in EntryType /\ d[k] \in Elems(d)
    BY <2>2, LenProperties DEF EntryType, Elems
  <2> DEFINE h == <<d[k]>>
  <2>5. h \in Seq(EntryType) /\ Elems(h) = {d[k]}
    BY <2>4 DEF Elems
  <2>6. \A t : Count(h, t) = IF Holds(d[k], t) THEN 1 ELSE 0
    BY CountOne
  <2> HIDE DEF h
  <2>7. /\ h \o q \in Seq(EntryType) /\ Elems(h \o q) = Elems(h) \cup Elems(q)
        /\ \A t : Count(h \o q, t) = Count(h, t) + Count(q, t)
    BY <2>5, ElemsConcat, CountConcat
  <2>8. Drop(d, k) \in Seq(TaskType) /\ Elems(Drop(d, k)) \subseteq Elems(d)
    <3>1. /\ Drop(d, k) \in Seq(TaskType)
          /\ Elems(Drop(d, k)) = {d[j] : j \in DOMAIN d \ {k}}
      BY PickFacts DEF Drop
    <3>2. {d[j] : j \in DOMAIN d \ {k}} \subseteq Elems(d)
      BY DEF Elems
    <3> QED
      BY <3>1, <3>2
  <2>9. \A t : Count(d, t) = Count(Drop(d, k), t) + (IF Holds(d[k], t) THEN 1 ELSE 0)
    BY <2>2, CountDrop
  <2>10. \A t : Count(q, t) \in Nat /\ Count(Drop(d, k), t) \in Nat
    BY <2>8, CountFacts
  <2>11. \A t : Count(h \o q, t) + Count(Drop(d, k), t) = Count(q, t) + Count(d, t)
    BY <2>6, <2>7, <2>9, <2>10
  <2>12. <<h \o q, Drop(d, k)>> \in After(q, d)
    <3>1. /\ Elems(q) \subseteq Elems(h \o q)
          /\ Elems(h \o q) \cup Elems(Drop(d, k)) \subseteq Elems(q) \cup Elems(d)
      BY <2>4, <2>5, <2>7, <2>8
    <3> DEFINE a == h \o q
    <3>2. /\ a \in Seq(EntryType) /\ Elems(q) \subseteq Elems(a)
          /\ Elems(a) \cup Elems(Drop(d, k)) \subseteq Elems(q) \cup Elems(d)
          /\ \A t \in TaskId : Count(a, t) + Count(Drop(d, k), t) = Count(q, t) + Count(d, t)
      BY <2>7, <2>11, <3>1
    <3> HIDE DEF a
    <3>3. <<a, Drop(d, k)>> \in After(q, d)
      BY <2>8, <3>2, AfterPair
    <3> QED
      BY <3>3 DEF a
  <2> QED
    BY <2>3, <2>12 DEF h
<1> QED
  BY <1>1, <1>2

(* The queues after each of the releases.                                  *)
LEMMA PopChain ==
  ASSUME NEW q \in Seq(EntryType), NEW d \in Seq(TaskType), NEW S
  PROVE  \E f : /\ f[-1] = <<q, d>>
                /\ \A s \in Slot : f[s] = IF s \in S THEN PopDeferred(f[s - 1][1], f[s - 1][2], s)
                                                    ELSE f[s - 1]
                /\ \A s \in -1 .. NSlots - 1 : f[s] \in After(q, d)
                /\ PopAll(S, q, d) = f[NSlots - 1]
<1> DEFINE Body(g, s) == IF s = -1 THEN <<q, d>>
                         ELSE IF s \in S THEN PopDeferred(g[s - 1][1], g[s - 1][2], s)
                         ELSE g[s - 1]
           IsPop(g, n) == g = [s \in -1 .. n |-> Body(g, s)]
           N == -1 .. NSlots - 1
<1>1. /\ NSlots \in Nat \ {0}
      /\ \A M \in SUBSET N : M \in SUBSET Int /\ IsFiniteSet(M)
  <2>1. NSlots \in Nat \ {0} /\ -1 \in Int /\ NSlots - 1 \in Int
    BY NSlotsAssumption
  <2>2. IsFiniteSet(N) /\ N \in SUBSET Int
    BY <2>1, FS_Interval
  <2> QED
    BY <2>1, <2>2, FS_Subset
<1>2. \A n \in N : \E g : IsPop(g, n)
  <2> DEFINE Bad == {n \in N : ~ \E g : IsPop(g, n)}
  <2> SUFFICES ASSUME Bad # {} PROVE FALSE
    OBVIOUS
  <2>1. PICK n \in Bad : \A m \in Bad : n <= m
    <3>1. Bad \in SUBSET N
      OBVIOUS
    <3> QED
      BY <1>1, <3>1, LeastElement
  <2>2. CASE n = -1
    <3> DEFINE g == [s \in -1 .. -1 |-> <<q, d>>]
    <3>1. IsPop(g, n)
      BY <2>2
    <3> QED
      BY <2>1, <3>1
  <2>3. CASE n # -1
    <3>1. n - 1 \in N /\ n \in Int /\ ~(n <= n - 1)
      BY <1>1, <2>1, <2>3
    <3>2. PICK h : IsPop(h, n - 1)
      BY <2>1, <3>1
    <3> DEFINE g == [s \in -1 .. n |-> IF s = n THEN Body(h, n) ELSE h[s]]
    <3>3. ASSUME NEW s \in -1 .. n PROVE g[s] = Body(g, s)
      <4>1. s # -1 => g[s - 1] = h[s - 1]
        BY <3>1
      <4>2. Body(g, s) = Body(h, s)
        BY <4>1
      <4>3. s # n => h[s] = Body(h, s)
        <5>1. s # n => s \in -1 .. n - 1
          BY <3>1
        <5> QED
          BY <3>2, <5>1
      <4> QED
        BY <4>2, <4>3
    <3>4. IsPop(g, n)
      BY <3>3
    <3> QED
      BY <2>1, <3>4
  <2> QED
    BY <2>2, <2>3
<1> DEFINE f == CHOOSE g : IsPop(g, NSlots - 1)
<1>3. NSlots - 1 \in N /\ IsPop(f, NSlots - 1)
  <2>1. NSlots - 1 \in N
    BY <1>1
  <2> HIDE DEF IsPop
  <2>2. \E g : IsPop(g, NSlots - 1)
    BY <1>2, <2>1
  <2> QED
    BY <2>1, <2>2
<1>4. \A s \in N : f[s] = Body(f, s)
  BY <1>3
<1>5. \A s \in N : f[s] \in After(q, d)
  <2> DEFINE Bad == {s \in N : f[s] \notin After(q, d)}
  <2> SUFFICES ASSUME Bad # {} PROVE FALSE
    OBVIOUS
  <2>1. PICK s \in Bad : \A m \in Bad : s <= m
    <3>1. Bad \in SUBSET N
      OBVIOUS
    <3> QED
      BY <1>1, <3>1, LeastElement
  <2>2. CASE s = -1
    <3>1. f[s] = <<q, d>>
      BY <1>4, <2>1, <2>2
    <3> QED
      BY <2>1, <3>1, AfterPair
  <2>3. CASE s # -1
    <3>1. s - 1 \in N /\ s \in Int /\ ~(s <= s - 1)
      BY <1>1, <2>1, <2>3
    <3>2. f[s - 1] \in After(q, d)
      BY <2>1, <3>1
    <3>3. f[s] = IF s \in S THEN PopDeferred(f[s - 1][1], f[s - 1][2], s) ELSE f[s - 1]
      BY <1>4, <2>1, <2>3
    <3>4. f[s - 1][1] \in Seq(EntryType) /\ f[s - 1][2] \in Seq(TaskType)
      BY <3>2 DEF After
    <3>5. PopDeferred(f[s - 1][1], f[s - 1][2], s) \in After(f[s - 1][1], f[s - 1][2])
      BY <3>4, PopDeferredFacts
    <3>6. After(f[s - 1][1], f[s - 1][2]) \subseteq After(q, d)
      BY <3>2 DEF After
    <3> QED
      BY <2>1, <3>2, <3>3, <3>5, <3>6
  <2> QED
    BY <2>2, <2>3
<1>6. PopAll(S, q, d) = f[NSlots - 1]
  BY DEF PopAll
<1>7. f[-1] = <<q, d>>
  <2>1. -1 \in N
    BY <1>1
  <2>2. f[-1] = Body(f, -1)
    BY <1>4, <2>1, Zenon
  <2>3. Body(f, -1) = <<q, d>>
    OBVIOUS
  <2> HIDE DEF f, N, Body
  <2> QED
    BY <2>2, <2>3
<1>8. ASSUME NEW s \in Slot
      PROVE  f[s] = IF s \in S THEN PopDeferred(f[s - 1][1], f[s - 1][2], s) ELSE f[s - 1]
  <2>1. s \in N /\ s # -1
    BY <1>1 DEF Slot
  <2> QED
    BY <1>4, <2>1
<1> HIDE DEF f
<1> QED
  BY <1>5, <1>6, <1>7, <1>8

LEMMA PopAllFacts ==
  ASSUME NEW q \in Seq(EntryType), NEW d \in Seq(TaskType), NEW S
  PROVE  PopAll(S, q, d) \in After(q, d)
<1>1. NSlots - 1 \in -1 .. NSlots - 1
  BY NSlotsAssumption
<1> QED
  BY <1>1, PopChain

(* When a slot is released, a deferred task gets into the queue.           *)
LEMMA PopDeferredTask ==
  ASSUME NEW q \in Seq(EntryType), NEW d \in Seq(TaskType), d # <<>>, NEW s
  PROVE  \E e \in Elems(PopDeferred(q, d, s)[1]) : e.type = "task"
<1> DEFINE own == {k \in DOMAIN d : AsksFor(d[k].id, s)}
           k   == IF own = {} THEN 1 ELSE CHOOSE i \in own : \A j \in own : i <= j
<1>1. Len(d) \in Nat \ {0} /\ DOMAIN d = 1 .. Len(d)
  BY EmptySeq, LenProperties
<1>2. k \in DOMAIN d
  <2>1. CASE own = {}
    BY <1>1, <2>1
  <2>2. CASE own # {}
    <3>1. own \in SUBSET Int /\ IsFiniteSet(own)
      BY ElemsFacts, FS_Subset
    <3>2. \E i \in own : \A j \in own : i <= j
      BY <2>2, <3>1, LeastElement
    <3> QED
      BY <2>2, <3>2
  <2> QED
    BY <2>1, <2>2
<1>3. PopDeferred(q, d, s)[1] = <<d[k]>> \o q
  BY DEF PopDeferred
<1> HIDE DEF k
<1>4. d[k] \in TaskType /\ d[k] \in EntryType /\ d[k].type = "task"
  <2>1. d[k] \in TaskType
    BY <1>2, LenProperties
  <2> QED
    BY <2>1 DEF EntryType, TaskType
<1> DEFINE h == <<d[k]>>
<1>5. h \in Seq(EntryType) /\ Elems(h) = {d[k]}
  BY <1>4 DEF Elems
<1> HIDE DEF h
<1>6. Elems(h \o q) = Elems(h) \cup Elems(q)
  BY <1>5, ElemsConcat
<1> QED
  BY <1>3, <1>4, <1>5, <1>6 DEF h

LEMMA PopAllTask ==
  ASSUME NEW q \in Seq(EntryType), NEW d \in Seq(TaskType), d # <<>>, NEW S, NEW z \in Slot, z \in S
  PROVE  \E e \in Elems(PopAll(S, q, d)[1]) : e.type = "task"
<1> DEFINE HasTask(x) == \E e \in Elems(x) : e.type = "task"
           N == -1 .. NSlots - 1
<1>1. PICK f : /\ f[-1] = <<q, d>>
               /\ \A s \in Slot : f[s] = IF s \in S THEN PopDeferred(f[s - 1][1], f[s - 1][2], s)
                                                   ELSE f[s - 1]
               /\ \A s \in N : f[s] \in After(q, d)
               /\ PopAll(S, q, d) = f[NSlots - 1]
  BY PopChain
<1>2. /\ NSlots \in Nat \ {0} /\ Slot = 0 .. NSlots - 1
      /\ \A s \in Slot : s \in Int /\ s \in N /\ s - 1 \in N
  BY NSlotsAssumption DEF Slot
<1>3. ASSUME NEW s \in Slot, s \in S PROVE HasTask(f[s][1])
  <2>1. f[s - 1] \in After(q, d)
    BY <1>1, <1>2
  <2> DEFINE a == f[s - 1][1]
             b == f[s - 1][2]
  <2>2. /\ a \in Seq(EntryType) /\ b \in Seq(TaskType)
        /\ \A t \in TaskId : Count(a, t) + Count(b, t) = Count(q, t) + Count(d, t)
    BY <2>1 DEF After
  <2>3. f[s] = PopDeferred(a, b, s)
    BY <1>1, <1>3
  <2> HIDE DEF a, b
  <2>4. CASE b # <<>>
    BY <2>2, <2>3, <2>4, PopDeferredTask
  <2>5. CASE b = <<>>
    <3>1. f[s] = <<a, b>>
      BY <2>3, <2>5 DEF PopDeferred
    <3>2. PICK k \in DOMAIN d : TRUE
      <4>1. Len(d) \in Nat \ {0} /\ DOMAIN d = 1 .. Len(d)
        BY EmptySeq, LenProperties
      <4>2. 1 \in 1 .. Len(d)
        BY <4>1
      <4> QED
        BY <4>1, <4>2, Zenon
    <3>3. d[k] \in TaskType /\ d[k] \in Elems(d)
      BY LenProperties DEF Elems
    <3>4. PICK t \in TaskId : Holds(d[k], t)
      BY <3>3 DEF TaskType, Holds, Family
    <3>5. Elems(<<>>) = {} /\ <<>> \in Seq(TaskType)
      BY DEF Elems
    <3>6. Count(b, t) = 0
      BY <2>2, <2>5, <3>5, CountFacts
    <3>7. Count(d, t) # 0 /\ Count(d, t) \in Nat /\ Count(q, t) \in Nat /\ Count(a, t) \in Nat
      BY <2>2, <3>3, <3>4, CountFacts
    <3>8. Count(a, t) # 0
      BY <2>2, <3>6, <3>7
    <3>9. \E e \in Elems(a) : Holds(e, t)
      BY <2>2, <3>8, CountFacts
    <3> QED
      BY <3>1, <3>9 DEF Holds
  <2> QED
    BY <2>4, <2>5
<1>4. \A s \in Slot : s \notin S => f[s] = f[s - 1]
  BY <1>1
<1> DEFINE Bad == {n \in Slot : z <= n /\ ~HasTask(f[n][1])}
<1>5. Bad = {}
  <2> SUFFICES ASSUME Bad # {} PROVE FALSE
    OBVIOUS
  <2>1. Bad \in SUBSET Int /\ IsFiniteSet(Bad)
    <3>1. IsFiniteSet(Slot)
      <4>1. 0 \in Int /\ NSlots - 1 \in Int
        BY <1>2
      <4> QED
        BY <1>2, <4>1, FS_Interval
    <3>2. Bad \in SUBSET Slot
      OBVIOUS
    <3> QED
      BY <1>2, <3>1, <3>2, FS_Subset
  <2>2. PICK n \in Bad : \A m \in Bad : n <= m
    BY <2>1, LeastElement
  <2> HIDE DEF HasTask
  <2>3. n \in Slot /\ z <= n /\ ~HasTask(f[n][1])
    BY <2>2
  <2>4. n \notin S
    BY <1>3, <2>3
  <2>5. n # z /\ n - 1 \in Slot /\ z <= n - 1 /\ ~(n <= n - 1)
    BY <1>2, <2>3, <2>4
  <2>6. n - 1 \notin Bad
    BY <2>2, <2>5
  <2>7. HasTask(f[n - 1][1])
    BY <2>5, <2>6
  <2> QED
    BY <1>4, <2>3, <2>4, <2>7
<1>6. NSlots - 1 \in Slot /\ z <= NSlots - 1
  BY <1>2
<1>7. HasTask(f[NSlots - 1][1])
  BY <1>5, <1>6
<1> QED
  BY <1>1, <1>7

-----------------------------------------------------------------------------
(* The inductive invariant: what ties the place of the main loop to the    *)
(* slots and the queue.  While a slot is at work the NEXT_RESPONSE task is *)
(* in the queue until the loop takes its next task, so the loop does not   *)
(* wait, and falls asleep only when all slots are idle.                    *)

LoopOK ==
  /\ main # "slots" => todo = {}
  /\ main # "handle" => in_hand = NoEntry
  /\ main # "aborted" => n_empty_consecutive \in 0 .. MaxEmpty
  /\ main \in {"slots", "idle"} /\ Busy # {} => NextEntry \in Elems(queue_tasks)
  /\ main = "wait" => Busy = {}
  /\ main = "sleep" => sleeping
  /\ sleeping => Busy = {} /\ (main = "sleep" \/ (main \in {"take", "ended"} /\ ~running))

IInv == TypeOK /\ LoopOK

LEMMA TaskFacts ==
  /\ NextEntry \in EntryType /\ TaskType \subseteq EntryType
  /\ \A t \in TaskId : /\ TaskEntry(t) \in TaskType /\ Entry("cancel", t) \in EntryType
                       /\ Children[t] \in Seq(TaskId)
                       /\ ChildrenOf(t) \subseteq TaskId /\ IsFiniteSet(ChildrenOf(t))
  /\ \A r \in Reader : /\ Post[r] \in Seq(TaskId)
                       /\ Ids(r) \subseteq TaskId /\ IsFiniteSet(Ids(r))
<1>1. ASSUME NEW t \in TaskId
      PROVE  Children[t] \in Seq(TaskId) /\ ChildrenOf(t) \subseteq TaskId /\ IsFiniteSet(ChildrenOf(t))
  <2>1. Children[t] \in Seq(TaskId)
    BY TasksAssumption
  <2> QED
    BY <2>1, ElemsFacts DEF ChildrenOf
<1>2. ASSUME NEW r \in Reader
      PROVE  Post[r] \in Seq(TaskId) /\ Ids(r) \subseteq TaskId /\ IsFiniteSet(Ids(r))
  <2> DEFINE P == Elems(Post[r])
             F == {Family(t) : t \in P}
             f == [t \in P |-> Family(t)]
  <2>1. Post[r] \in Seq(TaskId)
    BY TasksAssumption
  <2>2. P \subseteq TaskId /\ IsFiniteSet(P)
    BY <2>1, ElemsFacts
  <2>3. f \in Surjection(P, F)
    BY DEF Surjection
  <2>4. IsFiniteSet(F)
    BY <2>2, <2>3, FS_Surjection
  <2>5. \A t \in P : Family(t) \subseteq TaskId /\ IsFiniteSet(Family(t))
    BY <1>1, <2>2, FS_Singleton, FS_Union DEF Family
  <2>6. IsFiniteSet(UNION F) /\ UNION F \subseteq TaskId
    BY <2>4, <2>5, FS_UNION
  <2> QED
    BY <2>1, <2>6 DEF Ids
<1>3. /\ NextEntry \in EntryType /\ TaskType \subseteq EntryType
      /\ \A t \in TaskId : TaskEntry(t) \in TaskType /\ Entry("cancel", t) \in EntryType
  BY DEF NextEntry, EntryType, TaskType, TaskEntry, Entry
<1> QED
  BY <1>1, <1>2, <1>3

LEMMA BusyFacts ==
  ASSUME TypeOK
  PROVE  /\ Busy \in SUBSET Slot /\ Busy \in SUBSET Int /\ IsFiniteSet(Busy)
         /\ Slot \in SUBSET Int /\ IsFiniteSet(Slot)
         /\ \A s \in Busy : slots[s] \in SlotType
         /\ \A s \in Slot \ Busy : slots[s] = Idle
<1>1. Slot \in SUBSET Int /\ IsFiniteSet(Slot)
  <2>1. 0 \in Int /\ NSlots - 1 \in Int
    BY NSlotsAssumption
  <2> QED
    BY <2>1, FS_Interval DEF Slot
<1>2. Busy \in SUBSET Slot
  BY DEF Busy
<1>3. \A s \in Slot : slots[s] \in SlotType \cup {Idle}
  BY DEF TypeOK
<1>4. \A s \in Busy : slots[s] \in SlotType
  BY <1>2, <1>3 DEF Busy, Idle
<1>5. \A s \in Slot \ Busy : slots[s] = Idle
  BY <1>3 DEF Busy, SlotType
<1> QED
  BY <1>1, <1>2, <1>4, <1>5, FS_Subset

(* A result that is sent and kept is waited for.                           *)
LEMMA SendFacts ==
  ASSUME TypeOK, NEW results \in Seq(ResultType), Send(results)
  PROVE  /\ queue_results' \in Seq(ResultType) /\ answered' \in [TaskId -> Nat]
         /\ waiting_task_ids' = waiting_task_ids
         /\ \A x \in Elems(queue_results') :
               x \in Elems(queue_results) \/ x.id \in waiting_task_ids
<1> DEFINE kept == Pick(results, {k \in DOMAIN results : results[k].id \in waiting_task_ids})
<1>1. /\ queue_results' = queue_results \o kept
      /\ answered' = [t \in TaskId |->
                         answered[t] + Cardinality({k \in DOMAIN kept : kept[k].id = t})]
      /\ waiting_task_ids' = waiting_task_ids
  BY DEF Send
<1>2. kept \in Seq(ResultType) /\ \A x \in Elems(kept) : x.id \in waiting_task_ids
  BY PickFacts
<1> HIDE DEF kept
<1>3. queue_results \in Seq(ResultType) /\ answered \in [TaskId -> Nat]
  BY DEF TypeOK
<1>4. /\ queue_results' \in Seq(ResultType)
      /\ Elems(queue_results') = Elems(queue_results) \cup Elems(kept)
  BY <1>1, <1>2, <1>3, ElemsConcat
<1>5. ASSUME NEW t \in TaskId PROVE Cardinality({k \in DOMAIN kept : kept[k].id = t}) \in Nat
  BY <1>2, ElemsFacts, FS_Subset, FS_CardinalityType
<1>6. answered' \in [TaskId -> Nat]
  BY <1>1, <1>3, <1>5
<1> QED
  BY <1>1, <1>2, <1>4, <1>6

LEMMA ReleaseFacts ==
  ASSUME TypeOK, NEW S, Release(S, queue_tasks)
  PROVE  /\ queue_tasks' \in Seq(EntryType) /\ queue_tasks_deferred' \in Seq(TaskType)
         /\ Elems(queue_tasks) \subseteq Elems(queue_tasks')
         /\ Elems(queue_tasks') \cup Elems(queue_tasks_deferred')
              \subseteq Elems(queue_tasks) \cup Elems(queue_tasks_deferred)
         /\ \A t \in TaskId : Count(queue_tasks', t) + Count(queue_tasks_deferred', t)
                              = Count(queue_tasks, t) + Count(queue_tasks_deferred, t)
         /\ slots' = [s \in Slot |-> IF s \in S THEN Idle ELSE slots[s]]
         /\ slots' \in [Slot -> SlotType \cup {Idle}]
         /\ Busy' = Busy \ S
         /\ idled' \in BOOLEAN
<1>1. PopAll(S, queue_tasks, queue_tasks_deferred) \in After(queue_tasks, queue_tasks_deferred)
  BY PopAllFacts DEF TypeOK
<1>2. slots' = [s \in Slot |-> IF s \in S THEN Idle ELSE slots[s]]
  BY DEF Release
<1>3. Busy' = Busy \ S
  BY <1>2 DEF Busy, Idle
<1> QED
  BY <1>1, <1>2, <1>3 DEF Release, After, TypeOK

LEMMA InitIInv == Init => IInv
<1> SUFFICES ASSUME Init PROVE IInv
  OBVIOUS
<1>1. Busy = {}
  BY DEF Init, Busy, Idle
<1>2. <<>> \in Seq(EntryType) /\ <<>> \in Seq(TaskType) /\ <<>> \in Seq(ResultType)
  BY EmptySeq
<1>3. TypeOK
  <2>1. queue_tasks \in Seq(EntryType) /\ queue_tasks_deferred \in Seq(TaskType)
    BY <1>2 DEF Init
  <2>2. queue_results \in Seq(ResultType) /\ waiting_task_ids \subseteq TaskId
    BY <1>2 DEF Init
  <2>3. /\ {running, sleeping, req_stop_sleeping, idled} \subseteq BOOLEAN
        /\ batched \in BOOLEAN
    BY DEF Init
  <2>4. n_empty_consecutive \in 0 .. MaxEmpty + 1
    BY DEF Init, MaxEmpty
  <2>5. slots \in [Slot -> SlotType \cup {Idle}] /\ todo \subseteq Busy
    BY DEF Init
  <2>6. /\ received_count \in [Reader -> Nat] /\ answered \in [TaskId -> Nat]
        /\ rd \in [Reader -> {"new", "await", "build", "post", "next", "stop", "purge", "cancel",
                             "done"}]
    BY DEF Init
  <2> QED
    BY <2>1, <2>2, <2>3, <2>4, <2>5, <2>6 DEF Init, TypeOK
<1>4. LoopOK
  BY <1>1 DEF Init, LoopOK, MaxEmpty
<1> QED
  BY <1>3, <1>4 DEF IInv

(* A step that leaves the slots and the results alone, and what it may do  *)
(* with the rest.                                                          *)
LEMMA TakeStep ==
  ASSUME IInv, Start \/ Take
  PROVE  IInv'
<1>1. Busy' = Busy
  BY DEF Busy, Start, Take
<1>2. queue_tasks # <<>> => /\ Head(queue_tasks) \in EntryType
                            /\ Tail(queue_tasks) \in Seq(EntryType)
  BY HeadTailProperties DEF IInv, TypeOK
<1>3. TypeOK'
  <2>1. CASE Start
    BY <1>1, <2>1 DEF IInv, TypeOK, Start, resultVars, readerVars
  <2>2. CASE Take
    BY <1>1, <1>2, <2>2 DEF IInv, TypeOK, Take, resultVars, readerVars
  <2> QED
    BY <2>1, <2>2
<1>4. LoopOK'
  BY <1>1 DEF IInv, LoopOK, Start, Take
<1> QED
  BY <1>3, <1>4 DEF IInv

(* process_single_task.                                                    *)
LEMMA HandledFacts ==
  ASSUME IInv, Handled
  PROVE  /\ todo = {} /\ n_empty_consecutive \in 0 .. MaxEmpty /\ ~sleeping
         /\ in_hand.type = "task" => in_hand \in TaskType /\ in_hand.id \in TaskId
<1>1. in_hand \in EntryType \cup {NoEntry}
  BY DEF IInv, TypeOK
<1> QED
  BY <1>1 DEF IInv, LoopOK, Handled, EntryType, TaskType, NextEntry, NoEntry, Entry

LEMMA HandledKeeps ==
  ASSUME IInv, Handled,
         queue_tasks' \in Seq(EntryType), queue_tasks_deferred' \in Seq(TaskType),
         idled' \in BOOLEAN, slots' \in [Slot -> SlotType \cup {Idle}],
         n_empty_consecutive' \in 0 .. MaxEmpty,
         queue_results' \in Seq(ResultType), answered' \in [TaskId -> Nat],
         waiting_task_ids' = waiting_task_ids
  PROVE  IInv'
<1>1. TypeOK'
  BY HandledFacts DEF IInv, TypeOK, Handled, readerVars, MaxEmpty
<1>2. LoopOK'
  BY HandledFacts DEF LoopOK, Handled
<1> QED
  BY <1>1, <1>2 DEF IInv

LEMMA HandleStep ==
  ASSUME IInv, HandleDefer \/ HandleSlotAction \/ HandleLaunch \/ HandleLaunchFail
                 \/ HandleCancel \/ HandleNext
  PROVE  IInv'
<1> DEFINE t == in_hand.id
           n == Len(Children[t])
<1>t. TypeOK /\ Handled
  BY DEF IInv, HandleDefer, HandleSlotAction, HandleLaunch, HandleLaunchFail, HandleCancel, HandleNext
<1>i. in_hand.type = "task" => in_hand \in TaskType /\ t \in TaskId /\ n \in Nat
  BY <1>t, HandledFacts, TaskFacts, LenProperties
<1>n. n_empty_consecutive \in 0 .. MaxEmpty /\ 0 \in 0 .. MaxEmpty
  BY <1>t, HandledFacts DEF MaxEmpty
<1>u. /\ queue_tasks \in Seq(EntryType) /\ queue_tasks_deferred \in Seq(TaskType)
      /\ idled \in BOOLEAN /\ slots \in [Slot -> SlotType \cup {Idle}]
      /\ queue_results \in Seq(ResultType) /\ answered \in [TaskId -> Nat]
  BY <1>t DEF TypeOK
<1>1. CASE HandleDefer
  <2>1. Append(queue_tasks_deferred, in_hand) \in Seq(TaskType)
    BY <1>1, <1>i, <1>u, AppendProperties DEF HandleDefer
  <2> QED
    BY <1>1, <1>t, <1>n, <1>u, <2>1, HandledKeeps DEF HandleDefer, Defer, resultVars
<1>2. CASE HandleSlotAction
  <2>1. <<Result(t, FALSE)>> \in Seq(ResultType)
    BY <1>2, <1>i DEF HandleSlotAction, Result, ResultType
  <2>2. Send(<<Result(t, FALSE)>>)
    BY <1>2 DEF HandleSlotAction
  <2> QED
    BY <1>2, <1>t, <1>n, <1>u, <2>1, <2>2, SendFacts, HandledKeeps DEF HandleSlotAction
<1>3. CASE HandleLaunch
  <2>1. PICK s \in Candidates(t) :
           LET S == FreeSlots(s, n)
           IN  /\ Cardinality(S) = n
               /\ slots' = [x \in Slot |->
                    IF x = s THEN Launched("started", t)
                    ELSE IF x \in S THEN Launched("wait_other", Children[t][Rank(S, x)])
                    ELSE slots[x]]
    BY <1>3 DEF HandleLaunch
  <2> DEFINE S == FreeSlots(s, n)
  <2>2. S \in SUBSET Int /\ IsFiniteSet(S)
    BY <1>t, BusyFacts, FS_Subset DEF FreeSlots
  <2>3. t \in TaskId /\ Children[t] \in Seq(TaskId)
    BY <1>3, <1>i, TaskFacts DEF HandleLaunch
  <2>4. \A x \in S : Children[t][Rank(S, x)] \in TaskId
    BY <2>1, <2>2, <2>3, RankFacts, ElementOfSeq
  <2>5. \A id \in TaskId : /\ Launched("started", id) \in SlotType
                           /\ Launched("wait_other", id) \in SlotType
    BY RoundsAssumption DEF Launched, SlotType
  <2>6. slots' \in [Slot -> SlotType \cup {Idle}]
    <3> HIDE DEF S
    <3> QED
      BY <1>u, <2>1, <2>3, <2>4, <2>5 DEF S
  <2> QED
    BY <1>3, <1>t, <1>n, <1>u, <2>6, HandledKeeps DEF HandleLaunch, resultVars
<1>4. CASE HandleLaunchFail
  <2>1. PICK s \in Candidates(t), k \in 1 .. n + 1 :
           /\ Send(<<Result(IF k <= n THEN Children[t][k] ELSE t, TRUE)>>)
           /\ Release(FreeSlots(s, k - 1), queue_tasks)
           /\ n_empty_consecutive' = IF k > 1 THEN 0 ELSE n_empty_consecutive
    BY <1>4 DEF HandleLaunchFail
  <2>2. t \in TaskId /\ Children[t] \in Seq(TaskId) /\ n \in Nat
    BY <1>4, <1>i, TaskFacts DEF HandleLaunchFail
  <2>3. (IF k <= n THEN Children[t][k] ELSE t) \in TaskId
    BY <2>2, ElementOfSeq
  <2>4. <<Result(IF k <= n THEN Children[t][k] ELSE t, TRUE)>> \in Seq(ResultType)
    BY <2>3 DEF Result, ResultType
  <2>5. n_empty_consecutive' \in 0 .. MaxEmpty
    BY <1>n, <2>1
  <2> QED
    BY <1>t, <1>u, <2>1, <2>4, <2>5, SendFacts, ReleaseFacts, HandledKeeps
<1>5. CASE HandleCancel
  BY <1>5, <1>t, <1>n, <1>u, ReleaseFacts, HandledKeeps DEF HandleCancel, resultVars
<1>6. CASE HandleNext
  BY <1>6, <1>t, <1>n, <1>u, HandledKeeps DEF HandleNext, resultVars
<1> QED
  BY <1>1, <1>2, <1>3, <1>4, <1>5, <1>6

-----------------------------------------------------------------------------
(* update_slots.                                                           *)

LEMMA UpdateStep ==
  ASSUME IInv, Update
  PROVE  IInv'
<1>1. Busy' = Busy
  BY DEF Busy, Update
<1>2. /\ Append(queue_tasks, NextEntry) \in Seq(EntryType)
      /\ NextEntry \in Elems(Append(queue_tasks, NextEntry))
  <2>1. queue_tasks \in Seq(EntryType) /\ NextEntry \in EntryType
    BY TaskFacts DEF IInv, TypeOK
  <2>2. /\ Append(queue_tasks, NextEntry) \in Seq(EntryType)
        /\ Len(Append(queue_tasks, NextEntry)) = Len(queue_tasks) + 1
        /\ Append(queue_tasks, NextEntry)[Len(queue_tasks) + 1] = NextEntry
        /\ Len(queue_tasks) \in Nat
    BY <2>1, AppendProperties, LenProperties
  <2>3. Len(queue_tasks) + 1 \in DOMAIN Append(queue_tasks, NextEntry)
    BY <2>2, LenProperties
  <2> QED
    BY <2>2, <2>3 DEF Elems
<1>3. TypeOK'
  BY <1>1, <1>2 DEF IInv, TypeOK, Update, resultVars, readerVars, NextEntry
<1>4. LoopOK'
  BY <1>1, <1>2 DEF IInv, LoopOK, Update, NextEntry
<1> QED
  BY <1>3, <1>4 DEF IInv

(* In update_slots slots move on or leave; queue_tasks only grows.         *)
LEMMA InUpdateKeeps ==
  ASSUME IInv, InUpdate, main' = main, n_empty_consecutive' = n_empty_consecutive,
         queue_tasks' \in Seq(EntryType), queue_tasks_deferred' \in Seq(TaskType),
         Elems(queue_tasks) \subseteq Elems(queue_tasks'),
         idled' \in BOOLEAN, batched' \in BOOLEAN,
         slots' \in [Slot -> SlotType \cup {Idle}], todo' \subseteq Busy', Busy' \subseteq Busy,
         queue_results' \in Seq(ResultType), answered' \in [TaskId -> Nat],
         waiting_task_ids' = waiting_task_ids
  PROVE  IInv'
<1>1. TypeOK'
  BY DEF IInv, TypeOK, InUpdate, readerVars
<1>2. LoopOK'
  BY DEF IInv, LoopOK, InUpdate
<1> QED
  BY <1>1, <1>2 DEF IInv

LEMMA LeaveStep ==
  ASSUME IInv, InUpdate, NEW S \in SUBSET Busy, NEW error \in BOOLEAN,
         Leave(S, error), batched' \in BOOLEAN
  PROVE  IInv'
<1> DEFINE results == [k \in 1 .. Cardinality(S) |-> Result(slots[Nth(S, k)].task, error)]
<1>1. TypeOK /\ todo \subseteq Busy
  BY DEF IInv, TypeOK
<1>2. S \in SUBSET Int /\ IsFiniteSet(S) /\ \A s \in S : slots[s] \in SlotType
  BY <1>1, BusyFacts, FS_Subset
<1>3. Cardinality(S) \in Nat /\ \A k \in 1 .. Cardinality(S) : Nth(S, k) \in S
  BY <1>2, NthFacts, FS_CardinalityType
<1>4. \A s \in S : Result(slots[s].task, error) \in ResultType
  BY <1>2 DEF SlotType, Result, ResultType
<1>5. results \in [1 .. Cardinality(S) -> ResultType]
  BY <1>3, <1>4
<1>6. results \in Seq(ResultType)
  BY <1>3, <1>5, SeqDef
<1>7. Send(results) /\ Release(S, queue_tasks) /\ todo' = todo \ S
      /\ main' = main /\ n_empty_consecutive' = n_empty_consecutive
  BY DEF Leave
<1> HIDE DEF results
<1> QED
  BY <1>1, <1>6, <1>7, SendFacts, ReleaseFacts, InUpdateKeeps

LEMMA SlotStep ==
  ASSUME IInv, NEW s \in Slot,
         SlotStay(s) \/ PromptDone(s) \/ Finish(s) \/ EmptyPrompt(s) \/ SlotError(s)
  PROVE  IInv'
<1>1. /\ TypeOK /\ InUpdate /\ s \in todo /\ todo \subseteq Busy /\ batched \in BOOLEAN
      /\ slots \in [Slot -> SlotType \cup {Idle}]
  BY DEF IInv, TypeOK, SlotStay, PromptDone, Finish, EmptyPrompt, SlotError
<1>2. slots[s] \in SlotType /\ {s} \in SUBSET Busy
  BY <1>1, BusyFacts
<1>u. /\ queue_tasks \in Seq(EntryType) /\ queue_tasks_deferred \in Seq(TaskType)
      /\ idled \in BOOLEAN /\ queue_results \in Seq(ResultType) /\ answered \in [TaskId -> Nat]
  BY <1>1 DEF TypeOK
<1>3. CASE SlotStay(s)
  <2>1. slots' \in [Slot -> SlotType \cup {Idle}] /\ Busy' = Busy
    <3>1. CASE slots[s].state = "wait_other"
      BY <1>1, <1>3, <3>1 DEF SlotStay, Busy
    <3>2. CASE slots[s].state # "wait_other"
      <4>1. slots[s].left \in 0 .. Rounds /\ slots[s].left > 0
        BY <1>2, <1>3, <3>2 DEF SlotStay, SlotType
      <4>2. slots[s].left - 1 \in 0 .. Rounds
        BY <4>1, RoundsAssumption
      <4>3. slots' = [slots EXCEPT ![s] = [slots[s] EXCEPT !.left = slots[s].left - 1]]
        BY <1>3, <3>2 DEF SlotStay
      <4>4. /\ [slots[s] EXCEPT !.left = slots[s].left - 1] \in SlotType
            /\ [slots[s] EXCEPT !.left = slots[s].left - 1].state = slots[s].state
        BY <1>2, <4>2 DEF SlotType
      <4> QED
        BY <1>1, <4>3, <4>4 DEF Busy
    <3> QED
      BY <3>1, <3>2
  <2> QED
    BY <1>1, <1>3, <1>u, <2>1, InUpdateKeeps DEF SlotStay, resultVars
<1>4. CASE PromptDone(s)
  <2> DEFINE S == {s} \cup Waiters(slots[s].task)
  <2>1. S \subseteq Busy
    BY <1>2 DEF Waiters
  <2>2. slots' = [x \in Slot |-> IF x \in S THEN Launched("generating", slots[x].task) ELSE slots[x]]
    BY <1>4 DEF PromptDone
  <2>3. \A x \in S : Launched("generating", slots[x].task) \in SlotType
    BY <1>1, <2>1, BusyFacts, RoundsAssumption DEF Launched, SlotType
  <2>4. slots' \in [Slot -> SlotType \cup {Idle}]
    <3> HIDE DEF S
    <3> QED
      BY <1>1, <2>2, <2>3
  <2>5. Busy' = Busy
    <3> HIDE DEF S
    <3>1. \A x \in S : Launched("generating", slots[x].task).state # "idle"
      BY DEF Launched
    <3> QED
      BY <2>1, <2>2, <3>1 DEF Busy
  <2>6. todo' = todo \cup S
    BY <1>4 DEF PromptDone
  <2> QED
    BY <1>1, <1>4, <1>u, <2>1, <2>4, <2>5, <2>6, InUpdateKeeps DEF PromptDone, resultVars
<1>5. CASE Finish(s)
  BY <1>1, <1>2, <1>5, LeaveStep DEF Finish
<1>6. CASE EmptyPrompt(s)
  BY <1>1, <1>2, <1>6, LeaveStep DEF EmptyPrompt
<1>7. CASE SlotError(s)
  BY <1>1, <1>2, <1>7, LeaveStep DEF SlotError
<1> QED
  BY <1>3, <1>4, <1>5, <1>6, <1>7

LEMMA DecodeErrorStep ==
  ASSUME IInv, DecodeError
  PROVE  IInv'
BY LeaveStep DEF DecodeError

LEMMA UpdateEndStep ==
  ASSUME IInv, UpdateEnd
  PROVE  IInv'
<1>1. Busy' = Busy
  BY DEF Busy, UpdateEnd
<1>2. n_empty_consecutive \in 0 .. MaxEmpty
  BY DEF IInv, LoopOK, UpdateEnd, InUpdate
<1>3. n_empty_consecutive' \in 0 .. MaxEmpty + 1
  BY <1>2 DEF UpdateEnd, MaxEmpty
<1>4. /\ main' \in {"aborted", "idle"}
      /\ main' # "aborted" => n_empty_consecutive' \in 0 .. MaxEmpty
  BY <1>3 DEF UpdateEnd, MaxEmpty
<1>5. TypeOK'
  BY <1>1, <1>3, <1>4 DEF IInv, TypeOK, UpdateEnd, InUpdate, resultVars, readerVars
<1>6. LoopOK'
  BY <1>1, <1>4 DEF IInv, LoopOK, UpdateEnd, InUpdate
<1> QED
  BY <1>5, <1>6 DEF IInv

-----------------------------------------------------------------------------
(* Waiting, sleeping and shutdown.                                         *)

LEMMA WaitStep ==
  ASSUME IInv, IdleCheck \/ WaitWake \/ WaitTimeout \/ SleepWake
  PROVE  IInv'
<1>t. InWait
  BY DEF IdleCheck, WaitWake, WaitTimeout, SleepWake
<1>1. Busy' = Busy
  BY <1>t DEF Busy, InWait
<1>2. main = "idle" /\ queue_tasks = <<>> => Busy = {}
  <2> SUFFICES ASSUME main = "idle", queue_tasks = <<>> PROVE Busy = {}
    OBVIOUS
  <2>1. Elems(queue_tasks) = {}
    BY DEF Elems
  <2> QED
    BY <2>1 DEF IInv, LoopOK
<1>3. /\ {running', sleeping', req_stop_sleeping', idled'} \subseteq BOOLEAN
      /\ waiting' \subseteq Reader \cup {Main}
      /\ main' \in {"take", "wait", "sleep", "idle"}
  BY <1>t, ModeAssumption
     DEF IInv, TypeOK, IdleCheck, WaitWake, WaitTimeout, SleepWake, InWait
<1>4. TypeOK'
  BY <1>t, <1>1, <1>3 DEF IInv, TypeOK, InWait, resultVars, readerVars
<1>5. LoopOK'
  <2>1. CASE IdleCheck
    BY <1>t, <1>1, <1>2, <2>1 DEF IInv, LoopOK, IdleCheck, InWait, WorkToDo
  <2>2. CASE WaitWake
    BY <1>t, <1>1, <2>2 DEF IInv, LoopOK, WaitWake, InWait
  <2>3. CASE WaitTimeout
    BY <1>t, <1>1, <2>3 DEF IInv, LoopOK, WaitTimeout, InWait
  <2>4. CASE SleepWake
    <3>1. main = "sleep" /\ sleeping /\ Busy = {} /\ todo = {} /\ in_hand = NoEntry
          /\ n_empty_consecutive \in 0 .. MaxEmpty
      BY <2>4 DEF IInv, LoopOK, SleepWake
    <3>2. UNCHANGED <<running, in_hand, todo, n_empty_consecutive>>
      BY <2>4 DEF SleepWake, InWait
    <3>3. \/ main' = "take" /\ ~running
          \/ main' = "take" /\ sleeping' = FALSE
          \/ main' = "sleep" /\ sleeping' = sleeping
      BY <2>4, <3>1 DEF SleepWake
    <3> QED
      BY <1>1, <3>1, <3>2, <3>3 DEF LoopOK
  <2> QED
    BY <2>1, <2>2, <2>3, <2>4
<1> QED
  BY <1>4, <1>5 DEF IInv

LEMMA TerminateStep ==
  ASSUME IInv, Terminate
  PROVE  IInv'
<1>1. Busy' = Busy
  BY DEF Busy, Terminate, loopVars
<1>2. TypeOK'
  BY <1>1 DEF IInv, TypeOK, Terminate, loopVars, resultVars, readerVars
<1>3. LoopOK'
  BY <1>1 DEF IInv, LoopOK, Terminate, loopVars
<1> QED
  BY <1>2, <1>3 DEF IInv

-----------------------------------------------------------------------------
(* The readers.                                                            *)

Where == {"new", "await", "build", "post", "next", "stop", "purge", "cancel", "done"}

(* A reader moves, the loop stays; the NEXT_RESPONSE task stays queued.    *)
LEMMA ReaderKeeps ==
  ASSUME IInv, UNCHANGED loopVars, UNCHANGED <<running, sleeping>>,
         queue_tasks' \in Seq(EntryType), queue_tasks_deferred' \in Seq(TaskType),
         NextEntry \in Elems(queue_tasks) => NextEntry \in Elems(queue_tasks'),
         req_stop_sleeping' \in BOOLEAN, idled' \in BOOLEAN, waiting' \subseteq Reader \cup {Main},
         waiting_task_ids' \subseteq TaskId, queue_results' \in Seq(ResultType),
         answered' = answered, rd' \in [Reader -> Where], received_count' \in [Reader -> Nat]
  PROVE  IInv'
<1>1. Busy' = Busy
  BY DEF Busy, loopVars
<1>2. TypeOK'
  BY <1>1 DEF IInv, TypeOK, loopVars, Where
<1>3. LoopOK'
  BY <1>1 DEF IInv, LoopOK, loopVars
<1> QED
  BY <1>2, <1>3 DEF IInv

LEMMA ReaderTypes ==
  ASSUME IInv
  PROVE  /\ queue_tasks \in Seq(EntryType) /\ queue_tasks_deferred \in Seq(TaskType)
         /\ req_stop_sleeping \in BOOLEAN /\ idled \in BOOLEAN
         /\ waiting \subseteq Reader \cup {Main} /\ waiting_task_ids \subseteq TaskId
         /\ queue_results \in Seq(ResultType) /\ rd \in [Reader -> Where]
         /\ received_count \in [Reader -> Nat]
BY DEF IInv, TypeOK, Where

LEMMA AtWhere ==
  ASSUME IInv, NEW r \in Reader, NEW from, NEW to \in Where, At(r, from, to)
  PROVE  rd' \in [Reader -> Where]
BY ReaderTypes DEF At

LEMMA SleepersStep ==
  ASSUME IInv, NEW r \in Reader, Arrive(r) \/ Awake(r)
  PROVE  IInv'
<1>1. waiting' \subseteq Reader \cup {Main} /\ req_stop_sleeping' \in BOOLEAN
  BY ReaderTypes DEF Arrive, Awake
<1>2. rd' = rd \/ \E to \in Where : \E from : At(r, from, to)
  BY DEF Arrive, Awake, Where
<1>3. rd' \in [Reader -> Where]
  BY <1>2, ReaderTypes, AtWhere
<1> QED
  BY <1>1, <1>3, ReaderTypes, ReaderKeeps DEF Arrive, Awake, resultVars

LEMMA SubscribeStep ==
  ASSUME IInv, NEW r \in Reader, Subscribe(r)
  PROVE  IInv'
<1>1. rd' \in [Reader -> Where] /\ waiting_task_ids' \subseteq TaskId
  BY AtWhere, ReaderTypes, TaskFacts DEF Subscribe, Where
<1> QED
  BY <1>1, ReaderTypes, ReaderKeeps DEF Subscribe, queueVars

LEMMA PostTasksStep ==
  ASSUME IInv, NEW r \in Reader, PostTasks(r)
  PROVE  IInv'
<1> DEFINE p == [k \in DOMAIN Post[r] |-> TaskEntry(Post[r][k])]
<1>1. p \in Seq(EntryType)
  <2>1. Post[r] \in [1 .. Len(Post[r]) -> TaskId] /\ Len(Post[r]) \in Nat
        /\ DOMAIN Post[r] = 1 .. Len(Post[r])
    BY TaskFacts, LenProperties
  <2>2. p \in [1 .. Len(Post[r]) -> EntryType]
    BY <2>1, TaskFacts
  <2> QED
    BY <2>1, <2>2, SeqDef
<1>2. queue_tasks' = queue_tasks \o p
  BY DEF PostTasks
<1> HIDE DEF p
<1>3. queue_tasks' \in Seq(EntryType) /\ Elems(queue_tasks) \subseteq Elems(queue_tasks')
  BY <1>1, <1>2, ReaderTypes, ElemsConcat
<1>4. rd' \in [Reader -> Where] /\ waiting' \subseteq Reader \cup {Main}
  BY AtWhere, ReaderTypes DEF PostTasks, Where, NotifyOne
<1> QED
  BY <1>3, <1>4, ReaderTypes, ReaderKeeps DEF PostTasks, resultVars

LEMMA ReceiveStep ==
  ASSUME IInv, NEW r \in Reader, Receive(r)
  PROVE  IInv'
<1> DEFINE k == CHOOSE i \in Mine(r) : \A j \in Mine(r) : i <= j
           n == received_count[r] + (IF queue_results[k].error THEN 0 ELSE 1)
<1>1. /\ queue_results' = Drop(queue_results, k)
      /\ received_count' = [received_count EXCEPT ![r] = n]
      /\ rd' = rd \/ At(r, "next", "stop")
      /\ n \in Nat
  BY ReaderTypes DEF Receive
<1> HIDE DEF k, n
<1>2. queue_results' \in Seq(ResultType)
  BY <1>1, ReaderTypes, PickFacts DEF Drop
<1>3. rd' \in [Reader -> Where] /\ received_count' \in [Reader -> Nat]
  BY <1>1, ReaderTypes, AtWhere DEF Where
<1> QED
  BY <1>2, <1>3, ReaderTypes, ReaderKeeps DEF Receive, queueVars

LEMMA LeaverStep ==
  ASSUME IInv, NEW r \in Reader, Disconnect(r) \/ Stop(r) \/ Purge(r)
  PROVE  IInv'
<1>1. rd' \in [Reader -> Where]
  BY AtWhere DEF Disconnect, Stop, Purge, Where
<1>2. queue_results' \in Seq(ResultType) /\ waiting_task_ids' \subseteq TaskId
  BY ReaderTypes, PickFacts DEF Disconnect, Stop, Purge, resultVars
<1> QED
  BY <1>1, <1>2, ReaderTypes, ReaderKeeps DEF Disconnect, Stop, Purge, queueVars, resultVars

(* The tasks that are cancelled leave the queues, the NEXT_RESPONSE stays. *)
LEMMA WithoutFacts ==
  ASSUME NEW E, NEW q \in Seq(E), NEW T
  PROVE  /\ Without(q, T) \in Seq(E)
         /\ NextEntry \in Elems(q) => NextEntry \in Elems(Without(q, T))
<1> DEFINE K == {k \in DOMAIN q : ~(q[k].type = "task" /\ q[k].id \in T)}
<1>1. Without(q, T) \in Seq(E) /\ Elems(Without(q, T)) = {q[k] : k \in K}
  BY PickFacts DEF Without
<1>2. ASSUME NextEntry \in Elems(q) PROVE NextEntry \in {q[k] : k \in K}
  <2>1. PICK k \in DOMAIN q : q[k] = NextEntry
    BY <1>2 DEF Elems
  <2>2. k \in K
    BY <2>1 DEF NextEntry, Entry
  <2> QED
    BY <2>1, <2>2
<1> QED
  BY <1>1, <1>2

LEMMA CancelStep ==
  ASSUME IInv, NEW r \in Reader, Cancel(r)
  PROVE  IInv'
<1> DEFINE w == Without(queue_tasks, Ids(r))
<1>1. PICK f \in Orders(Ids(r)) :
        queue_tasks' = [k \in DOMAIN f |-> Entry("cancel", f[k])] \o w
  BY DEF Cancel
<1> DEFINE c == [k \in DOMAIN f |-> Entry("cancel", f[k])]
<1>2. c \in Seq(EntryType)
  <2>1. Cardinality(Ids(r)) \in Nat /\ Ids(r) \subseteq TaskId
    BY TaskFacts, FS_CardinalityType
  <2>2. f \in [1 .. Cardinality(Ids(r)) -> TaskId]
    BY <2>1 DEF Orders
  <2>3. c \in [1 .. Cardinality(Ids(r)) -> EntryType]
    BY <2>2, TaskFacts
  <2> QED
    BY <2>1, <2>3, SeqDef
<1>3. /\ w \in Seq(EntryType)
      /\ NextEntry \in Elems(queue_tasks) => NextEntry \in Elems(w)
      /\ queue_tasks_deferred' \in Seq(TaskType)
  BY ReaderTypes, WithoutFacts DEF Cancel
<1> HIDE DEF w, c
<1>4. /\ queue_tasks' \in Seq(EntryType)
      /\ NextEntry \in Elems(queue_tasks) => NextEntry \in Elems(queue_tasks')
  <2>1. queue_tasks' = c \o w
    BY <1>1 DEF c
  <2> QED
    BY <1>2, <1>3, <2>1, ElemsConcat
<1>5. rd' \in [Reader -> Where] /\ waiting' \subseteq Reader \cup {Main}
  BY AtWhere, ReaderTypes DEF Cancel, Where, NotifyOne
<1> QED
  BY <1>3, <1>4, <1>5, ReaderTypes, ReaderKeeps DEF Cancel, resultVars

-----------------------------------------------------------------------------
LEMMA StepIInv == IInv /\ [Next]_vars => IInv'
<1> SUFFICES ASSUME IInv, [Next]_vars PROVE IInv'
  OBVIOUS
<1>1. CASE Loop
  BY <1>1, TakeStep, HandleStep, UpdateStep, UpdateEndStep, DecodeErrorStep, SlotStep, WaitStep DEF Loop
<1>2. CASE \E r \in Reader : ReaderStep(r) \/ Disconnect(r)
  BY <1>2, SleepersStep, SubscribeStep, PostTasksStep, ReceiveStep, LeaverStep, CancelStep
     DEF ReaderStep
<1>3. CASE Terminate
  BY <1>3, TerminateStep
<1>4. CASE UNCHANGED vars
  <2>1. Busy' = Busy
    BY <1>4 DEF Busy, vars, loopVars
  <2> QED
    BY <1>4, <2>1 DEF IInv, TypeOK, LoopOK, vars, queueVars, loopVars, resultVars, readerVars
<1> QED
  BY <1>1, <1>2, <1>3, <1>4 DEF Next

(* The invariant holds in every reachable state.                           *)
THEOREM Invariance == Spec => []IInv
<1>1. Init => IInv
  BY InitIInv
<1>2. IInv /\ [Next]_vars => IInv'
  BY StepIInv
<1> QED
  BY <1>1, <1>2, PTL DEF Spec

(* Type correctness of queues, slots, results and readers: every entry of  *)
(* the queues is one the loop can handle, update_slots visits busy slots   *)
(* only, and the kill switch counts no further than its limit.             *)
THEOREM TypeSafety == Spec => []TypeOK
<1>1. IInv => TypeOK
  BY DEF IInv
<1> QED
  BY <1>1, Invariance, PTL

(* start_loop never goes to sleep - and so never unloads the model - while *)
(* a slot is at work, however requests, cancellations and failures         *)
(* interleave with the loop.                                               *)
THEOREM SleepSafety == Spec => []SleepsIdle
<1>1. IInv => SleepsIdle
  BY DEF IInv, LoopOK, SleepsIdle
<1> QED
  BY <1>1, Invariance, PTL

(***************************************************************************)
(* Every task is in one place: the accounting of the tasks of requests.    *)
(***************************************************************************)

(* The places of a task, with the values of the variables as parameters.   *)

RunningIn(sl, t) == {s \in Slot : sl[s].state # "idle" /\ sl[s].task = t}

PlacesIn(q, d, e, sl, a, t) ==
  Count(q, t) + Count(d, t) + (IF Holds(e, t) THEN 1 ELSE 0) + Cardinality(RunningIn(sl, t)) + a[t]

LEMMA PlacesSplit ==
  \A t : /\ Places(t) = PlacesIn(queue_tasks, queue_tasks_deferred, in_hand, slots, answered, t)
         /\ Places(t)' = PlacesIn(queue_tasks', queue_tasks_deferred', in_hand', slots', answered', t)
<1>1. ASSUME NEW t PROVE Running(t) = RunningIn(slots, t) /\ Running(t)' = RunningIn(slots', t)
  BY DEF Running, Busy, RunningIn
<1> QED
  BY <1>1 DEF Places, PlacesIn

LEMMA RunningFacts ==
  ASSUME NEW sl, NEW t
  PROVE  /\ RunningIn(sl, t) \in SUBSET Slot /\ IsFiniteSet(RunningIn(sl, t))
         /\ Cardinality(RunningIn(sl, t)) \in Nat
<1>1. IsFiniteSet(Slot)
  BY NSlotsAssumption, FS_Interval DEF Slot
<1>2. RunningIn(sl, t) \in SUBSET Slot
  BY DEF RunningIn
<1> QED
  BY <1>1, <1>2, FS_Subset, FS_CardinalityType

(* Fewer slots run the task, or one more.                                  *)
LEMMA RunningLe ==
  ASSUME NEW sl, NEW sm, NEW t, RunningIn(sm, t) \subseteq RunningIn(sl, t)
  PROVE  Cardinality(RunningIn(sm, t)) <= Cardinality(RunningIn(sl, t))
BY RunningFacts, FS_Subset

LEMMA RunningOneMore ==
  ASSUME NEW sl, NEW sm, NEW t, NEW z, RunningIn(sm, t) \subseteq RunningIn(sl, t) \cup {z}
  PROVE  Cardinality(RunningIn(sm, t)) <= Cardinality(RunningIn(sl, t)) + 1
<1> DEFINE A == RunningIn(sl, t)
           B == RunningIn(sm, t)
<1>1. IsFiniteSet(A) /\ Cardinality(A) \in Nat /\ IsFiniteSet(B) /\ Cardinality(B) \in Nat
  BY RunningFacts
<1>2. B \subseteq A \cup {z}
  OBVIOUS
<1> HIDE DEF A, B
<1>3. /\ IsFiniteSet(A \cup {z}) /\ Cardinality(A \cup {z}) \in Nat
      /\ Cardinality(A \cup {z}) <= Cardinality(A) + 1
  BY <1>1, FS_AddElement
<1>4. Cardinality(B) <= Cardinality(A \cup {z})
  BY <1>2, <1>3, FS_Subset
<1> QED
  BY <1>1, <1>3, <1>4 DEF A, B

LEMMA PlacesNat ==
  ASSUME NEW q \in Seq(EntryType), NEW d \in Seq(TaskType), NEW e, NEW sl,
         NEW a \in [TaskId -> Nat], NEW t \in TaskId
  PROVE  /\ Count(q, t) \in Nat /\ Count(d, t) \in Nat
         /\ Cardinality(RunningIn(sl, t)) \in Nat
         /\ a[t] \in Nat /\ PlacesIn(q, d, e, sl, a, t) \in Nat
         /\ a[t] <= PlacesIn(q, d, e, sl, a, t)
<1>1. /\ Count(q, t) \in Nat /\ Count(d, t) \in Nat
      /\ Cardinality(RunningIn(sl, t)) \in Nat /\ a[t] \in Nat
  BY CountFacts, RunningFacts
<1> QED
  BY <1>1 DEF PlacesIn

(* The results of a task that nobody has received yet.                     *)
For(t) == {x \in ResultType : x.id = t}
Pending(t) == Num(queue_results, For(t))

LEMMA PendingFacts ==
  ASSUME NEW q \in Seq(ResultType), NEW t
  PROVE  /\ Num(q, For(t)) \in Nat
         /\ Num(q, For(t)) = Cardinality({k \in DOMAIN q : q[k].id = t})
         /\ Num(q, For(t)) = 0 <=> \A k \in DOMAIN q : q[k].id # t
<1>1. \A k \in DOMAIN q : q[k] \in ResultType
  BY LenProperties
<1>2. {k \in DOMAIN q : q[k].id = t} = InAt(q, For(t))
  BY <1>1 DEF InAt, For
<1>3. Num(q, For(t)) \in Nat /\ (Num(q, For(t)) = 0 <=> \A e \in Elems(q) : e \notin For(t))
  BY NumFacts
<1>4. (\A e \in Elems(q) : e \notin For(t)) <=> \A k \in DOMAIN q : q[k].id # t
  BY <1>1 DEF Elems, For
<1> QED
  BY <1>2, <1>3, <1>4 DEF Num

-----------------------------------------------------------------------------
(* What a step of the main loop may do: places of a task go or move, and a *)
(* result that is queued is counted and waited for.                        *)

Shrink == \A t \in TaskId : Places(t)' <= Places(t)

Sends ==
  /\ \A t \in TaskId : \E n \in Nat : answered'[t] = answered[t] + n /\ Pending(t)' = Pending(t) + n
  /\ \A x \in Elems(queue_results') : x \in Elems(queue_results) \/ x.id \in waiting_task_ids
  /\ UNCHANGED <<waiting_task_ids, readerVars>>

LEMMA SendCounts ==
  ASSUME TypeOK, NEW results \in Seq(ResultType), Send(results), NEW t \in TaskId
  PROVE  \E n \in Nat : /\ n <= Num(results, For(t))
                        /\ answered'[t] = answered[t] + n /\ Pending(t)' = Pending(t) + n
<1> DEFINE K == {k \in DOMAIN results : results[k].id \in waiting_task_ids}
           kept == Pick(results, K)
<1>1. /\ queue_results' = queue_results \o kept
      /\ answered' = [u \in TaskId |->
                         answered[u] + Cardinality({k \in DOMAIN kept : kept[k].id = u})]
  BY DEF Send
<1>2. kept \in Seq(ResultType) /\ Num(kept, For(t)) <= Num(results, For(t))
  BY PickFacts, NumPickLe
<1> HIDE DEF kept
<1>3. queue_results \in Seq(ResultType)
  BY DEF TypeOK
<1>4. /\ Num(kept, For(t)) \in Nat
      /\ Num(kept, For(t)) = Cardinality({k \in DOMAIN kept : kept[k].id = t})
  BY <1>2, PendingFacts
<1>5. Num(queue_results \o kept, For(t)) = Num(queue_results, For(t)) + Num(kept, For(t))
  BY <1>2, <1>3, NumConcat
<1>6. Pending(t)' = Num(queue_results', For(t))
  BY DEF Pending, For, ResultType
<1> QED
  BY <1>1, <1>2, <1>4, <1>5, <1>6 DEF Pending

LEMMA SendSends ==
  ASSUME TypeOK, NEW results \in Seq(ResultType), Send(results), UNCHANGED readerVars
  PROVE  Sends
<1>1. \A t \in TaskId : \E n \in Nat : answered'[t] = answered[t] + n /\ Pending(t)' = Pending(t) + n
  BY SendCounts
<1> QED
  BY <1>1, SendFacts DEF Sends

LEMMA SilentSends ==
  ASSUME TypeOK, UNCHANGED <<resultVars, readerVars>>
  PROVE  Sends
<1>1. queue_results \in Seq(ResultType) /\ answered \in [TaskId -> Nat]
  BY DEF TypeOK
<1>2. queue_results' = queue_results /\ answered' = answered /\ waiting_task_ids' = waiting_task_ids
  BY DEF resultVars
<1>3. ASSUME NEW t \in TaskId
      PROVE  \E n \in Nat : answered'[t] = answered[t] + n /\ Pending(t)' = Pending(t) + n
  <2>1. Pending(t) \in Nat /\ answered[t] \in Nat /\ Pending(t)' = Pending(t)
    BY <1>1, <1>2, PendingFacts DEF Pending
  <2>2. answered'[t] = answered[t] + 0 /\ Pending(t)' = Pending(t) + 0
    BY <1>2, <2>1
  <2> QED
    BY <2>2
<1> QED
  BY <1>2, <1>3 DEF Sends

(* Nothing that Places looks at changes.                                   *)
LEMMA StillShrink ==
  ASSUME IInv, UNCHANGED <<queue_tasks, queue_tasks_deferred, in_hand, slots, answered>>
  PROVE  Shrink
<1> SUFFICES ASSUME NEW t \in TaskId PROVE Places(t)' <= Places(t)
  BY DEF Shrink
<1>1. Places(t) \in Nat
  BY PlacesSplit, PlacesNat DEF IInv, TypeOK
<1>2. Places(t)' = Places(t)
  BY PlacesSplit
<1> QED
  BY <1>1, <1>2

LEMMA NoTaskEntry == \A t : ~Holds(NoEntry, t) /\ ~Holds(NextEntry, t) /\ ~Holds(Entry("next", NoTask), t)
BY DEF Holds, NoEntry, NextEntry, Entry

LEMMA TakeShrinks ==
  ASSUME IInv, IInv', Start \/ Take
  PROVE  Shrink
<1> SUFFICES ASSUME NEW t \in TaskId PROVE Places(t)' <= Places(t)
  BY DEF Shrink
<1>1. CASE Start
  BY <1>1, StillShrink DEF Start, Shrink, resultVars
<1>2. CASE Take /\ ~(running /\ queue_tasks # <<>>)
  BY <1>2, StillShrink DEF Take, Shrink, resultVars
<1>3. CASE Take /\ running /\ queue_tasks # <<>>
  <2>1. queue_tasks \in Seq(EntryType) /\ queue_tasks_deferred \in Seq(TaskType)
        /\ answered \in [TaskId -> Nat] /\ Tail(queue_tasks) \in Seq(EntryType)
    BY <1>3, HeadTailProperties DEF IInv, TypeOK
  <2>2. Count(queue_tasks, t) = (IF Holds(Head(queue_tasks), t) THEN 1 ELSE 0)
                                + Count(Tail(queue_tasks), t)
    BY <1>3, <2>1, CountHead
  <2>3. /\ in_hand' = Head(queue_tasks) /\ queue_tasks' = Tail(queue_tasks)
        /\ UNCHANGED <<queue_tasks_deferred, slots, answered>>
    BY <1>3 DEF Take, resultVars
  <2>4. /\ Count(Tail(queue_tasks), t) \in Nat /\ Count(queue_tasks_deferred, t) \in Nat
        /\ Cardinality(RunningIn(slots, t)) \in Nat /\ answered[t] \in Nat
    BY <2>1, PlacesNat
  <2> QED
    BY <2>2, <2>3, <2>4, PlacesSplit DEF PlacesIn
<1> QED
  BY <1>1, <1>2, <1>3

-----------------------------------------------------------------------------
(* process_single_task: the task leaves the hand of the loop.              *)

LEMMA InHandFacts ==
  ASSUME IInv, in_hand.type = "task"
  PROVE  /\ in_hand \in TaskType /\ in_hand.id \in TaskId
         /\ \A t : Holds(in_hand, t) <=> t \in Family(in_hand.id)
<1>1. in_hand \in EntryType \cup {NoEntry}
  BY DEF IInv, TypeOK
<1> QED
  BY <1>1 DEF EntryType, TaskType, NextEntry, NoEntry, Entry, Holds

(* The slots that are released were not busy, or leave.                    *)
LEMMA ReleaseRunning ==
  ASSUME NEW S, slots' = [s \in Slot |-> IF s \in S THEN Idle ELSE slots[s]], NEW t
  PROVE  RunningIn(slots', t) = RunningIn(slots, t) \ S
BY DEF RunningIn, Idle

LEMMA DeferShrinks ==
  ASSUME IInv, IInv', HandleDefer
  PROVE  Shrink /\ Sends
<1>1. /\ in_hand.type = "task" /\ in_hand' = NoEntry
      /\ queue_tasks_deferred' = Append(queue_tasks_deferred, in_hand)
      /\ UNCHANGED <<queue_tasks, slots, resultVars, readerVars>>
  BY DEF HandleDefer, Handled, Defer
<1>2. queue_tasks \in Seq(EntryType) /\ queue_tasks_deferred \in Seq(TaskType)
      /\ answered \in [TaskId -> Nat]
  BY DEF IInv, TypeOK
<1>3. ASSUME NEW t \in TaskId PROVE Places(t)' <= Places(t)
  <2>1. Count(queue_tasks_deferred', t) = Count(queue_tasks_deferred, t)
                                          + (IF Holds(in_hand, t) THEN 1 ELSE 0)
    BY <1>1, <1>2, InHandFacts, CountAppend
  <2>2. /\ Count(queue_tasks, t) \in Nat /\ Count(queue_tasks_deferred, t) \in Nat
        /\ Cardinality(RunningIn(slots, t)) \in Nat /\ answered[t] \in Nat
    BY <1>2, PlacesNat
  <2>3. answered' = answered /\ ~Holds(in_hand', t)
    BY <1>1, NoTaskEntry DEF resultVars
  <2> QED
    BY <1>1, <2>1, <2>2, <2>3, PlacesSplit DEF PlacesIn
<1> QED
  BY <1>1, <1>3, SilentSends DEF IInv, Shrink

(* One result, for a task of the family in hand; the slots of S were idle. *)
LEMMA OneResultShrinks ==
  ASSUME IInv, IInv', in_hand.type = "task", in_hand' = NoEntry, UNCHANGED readerVars,
         NEW id \in Family(in_hand.id), id \in TaskId, NEW error \in BOOLEAN,
         Send(<<Result(id, error)>>),
         \A t \in TaskId : /\ Count(queue_tasks', t) + Count(queue_tasks_deferred', t)
                              = Count(queue_tasks, t) + Count(queue_tasks_deferred, t)
                           /\ RunningIn(slots', t) \subseteq RunningIn(slots, t)
  PROVE  Shrink /\ Sends
<1> DEFINE results == <<Result(id, error)>>
<1>1. results \in Seq(ResultType)
  BY DEF Result, ResultType
<1>2. ASSUME NEW t \in TaskId PROVE Places(t)' <= Places(t)
  <2>1. PICK n \in Nat : n <= Num(results, For(t)) /\ answered'[t] = answered[t] + n
    BY <1>1, SendCounts DEF IInv
  <2>2. Num(results, For(t)) <= (IF Holds(in_hand, t) THEN 1 ELSE 0)
    <3>1. Num(results, For(t)) = IF Result(id, error) \in For(t) THEN 1 ELSE 0
      BY NumOne
    <3>2. Result(id, error) \in For(t) => t = id
      BY DEF Result, For
    <3> QED
      BY <3>1, <3>2, InHandFacts
  <2>3. /\ Count(queue_tasks, t) \in Nat /\ Count(queue_tasks_deferred, t) \in Nat
        /\ Count(queue_tasks', t) \in Nat /\ Count(queue_tasks_deferred', t) \in Nat
        /\ Cardinality(RunningIn(slots, t)) \in Nat /\ Cardinality(RunningIn(slots', t)) \in Nat
        /\ answered[t] \in Nat /\ Num(results, For(t)) \in Nat
    BY <1>1, PlacesNat, PendingFacts DEF IInv, TypeOK
  <2>4. Cardinality(RunningIn(slots', t)) <= Cardinality(RunningIn(slots, t))
    BY RunningLe
  <2>5. ~Holds(in_hand', t)
    BY NoTaskEntry
  <2> HIDE DEF results
  <2> QED
    BY <2>1, <2>2, <2>3, <2>4, <2>5, PlacesSplit DEF PlacesIn
<1> QED
  BY <1>1, <1>2, SendSends DEF IInv, Shrink

LEMMA SlotActionShrinks ==
  ASSUME IInv, IInv', HandleSlotAction
  PROVE  Shrink /\ Sends
<1>1. /\ in_hand.type = "task" /\ in_hand' = NoEntry /\ UNCHANGED readerVars
      /\ Send(<<Result(in_hand.id, FALSE)>>)
      /\ UNCHANGED <<queue_tasks, queue_tasks_deferred, slots>>
  BY DEF HandleSlotAction, Handled
<1>2. in_hand.id \in Family(in_hand.id) /\ in_hand.id \in TaskId
  BY <1>1, InHandFacts DEF Family
<1> QED
  BY <1>1, <1>2, OneResultShrinks

LEMMA LaunchFailShrinks ==
  ASSUME IInv, IInv', HandleLaunchFail
  PROVE  Shrink /\ Sends
<1> DEFINE t == in_hand.id
           n == Len(Children[t])
<1>1. PICK s \in Candidates(t), k \in 1 .. n + 1 :
         /\ Send(<<Result(IF k <= n THEN Children[t][k] ELSE t, TRUE)>>)
         /\ Release(FreeSlots(s, k - 1), queue_tasks)
  BY DEF HandleLaunchFail
<1> DEFINE id == IF k <= n THEN Children[t][k] ELSE t
<1>2. in_hand.type = "task" /\ in_hand' = NoEntry /\ UNCHANGED readerVars
  BY DEF HandleLaunchFail, Handled
<1>3. t \in TaskId /\ Children[t] \in Seq(TaskId) /\ n \in Nat /\ DOMAIN Children[t] = 1 .. n
  BY <1>2, InHandFacts, TaskFacts, LenProperties
<1>4. id \in Family(t) /\ id \in TaskId
  <2>1. CASE k <= n
    <3>1. k \in DOMAIN Children[t]
      BY <1>3, <2>1
    <3> QED
      BY <1>3, <2>1, <3>1, ElementOfSeq DEF Family, ChildrenOf, Elems
  <2>2. CASE ~(k <= n)
    BY <1>3, <2>2 DEF Family
  <2> QED
    BY <2>1, <2>2
<1>5. ASSUME NEW u \in TaskId
      PROVE  /\ Count(queue_tasks', u) + Count(queue_tasks_deferred', u)
                = Count(queue_tasks, u) + Count(queue_tasks_deferred, u)
             /\ RunningIn(slots', u) \subseteq RunningIn(slots, u)
  BY <1>1, ReleaseFacts, ReleaseRunning DEF IInv
<1> HIDE DEF id
<1>6. Send(<<Result(id, TRUE)>>)
  BY <1>1 DEF id
<1> QED
  BY <1>2, <1>4, <1>5, <1>6, OneResultShrinks

LEMMA CancelShrinks ==
  ASSUME IInv, IInv', HandleCancel \/ HandleNext
  PROVE  Shrink /\ Sends
<1>1. in_hand' = NoEntry /\ UNCHANGED <<resultVars, readerVars>>
  BY DEF HandleCancel, HandleNext, Handled
<1>2. ASSUME NEW t \in TaskId
      PROVE  /\ Count(queue_tasks', t) + Count(queue_tasks_deferred', t)
                = Count(queue_tasks, t) + Count(queue_tasks_deferred, t)
             /\ RunningIn(slots', t) \subseteq RunningIn(slots, t)
  <2>1. CASE HandleCancel
    BY <2>1, ReleaseFacts, ReleaseRunning DEF IInv, HandleCancel
  <2>2. CASE HandleNext
    BY <2>2 DEF HandleNext
  <2> QED
    BY <2>1, <2>2
<1>3. ASSUME NEW t \in TaskId PROVE Places(t)' <= Places(t)
  <2>1. /\ Count(queue_tasks, t) \in Nat /\ Count(queue_tasks_deferred, t) \in Nat
        /\ Count(queue_tasks', t) \in Nat /\ Count(queue_tasks_deferred', t) \in Nat
        /\ Cardinality(RunningIn(slots, t)) \in Nat /\ Cardinality(RunningIn(slots', t)) \in Nat
        /\ answered[t] \in Nat
    BY PlacesNat DEF IInv, TypeOK
  <2>2. Cardinality(RunningIn(slots', t)) <= Cardinality(RunningIn(slots, t))
    BY <1>2, RunningLe
  <2>3. ~Holds(in_hand', t) /\ answered' = answered
    BY <1>1, NoTaskEntry DEF resultVars
  <2> QED
    BY <1>2, <2>1, <2>2, <2>3, PlacesSplit DEF PlacesIn
<1> QED
  BY <1>1, <1>3, SilentSends DEF IInv, Shrink

(* The parent goes to one slot, its children to one slot each.             *)
LEMMA LaunchShrinks ==
  ASSUME IInv, IInv', HandleLaunch
  PROVE  Shrink /\ Sends
<1> DEFINE p == in_hand.id
           n == Len(Children[p])
<1>1. PICK s \in Candidates(p) :
         LET S == FreeSlots(s, n)
         IN  /\ Cardinality(S) = n
             /\ slots' = [x \in Slot |->
                  IF x = s THEN Launched("started", p)
                  ELSE IF x \in S THEN Launched("wait_other", Children[p][Rank(S, x)])
                  ELSE slots[x]]
  BY DEF HandleLaunch
<1> DEFINE S == FreeSlots(s, n)
<1>2. /\ in_hand.type = "task" /\ in_hand' = NoEntry
      /\ UNCHANGED <<queue_tasks, queue_tasks_deferred, resultVars, readerVars>>
  BY DEF HandleLaunch, Handled
<1>3. /\ p \in TaskId /\ Children[p] \in Seq(TaskId) /\ n \in Nat /\ DOMAIN Children[p] = 1 .. n
      /\ Distinct(Children[p]) /\ p \notin ChildrenOf(p)
  BY <1>2, InHandFacts, TaskFacts, LenProperties, IdsAssumption
<1>4. S \in SUBSET Int /\ IsFiniteSet(S) /\ Cardinality(S) = n
  BY <1>1, BusyFacts, FS_Subset DEF FreeSlots, IInv
<1>5. slots' = [x \in Slot |->
                  IF x = s THEN Launched("started", p)
                  ELSE IF x \in S THEN Launched("wait_other", Children[p][Rank(S, x)])
                  ELSE slots[x]]
  BY <1>1
<1> HIDE DEF S
<1>6. ASSUME NEW x \in S
      PROVE  /\ Rank(S, x) \in 1 .. n /\ Children[p][Rank(S, x)] \in ChildrenOf(p)
             /\ \A y \in S : Children[p][Rank(S, x)] = Children[p][Rank(S, y)] => x = y
  <2>1. \A y \in S : Rank(S, y) \in 1 .. n
    BY <1>4, RankFacts
  <2>2. Children[p][Rank(S, x)] \in ChildrenOf(p)
    BY <1>3, <2>1 DEF ChildrenOf, Elems
  <2>3. ASSUME NEW y \in S, Children[p][Rank(S, x)] = Children[p][Rank(S, y)] PROVE x = y
    <3>1. Rank(S, x) = Rank(S, y)
      BY <1>3, <2>1, <2>3 DEF Distinct
    <3>2. Nth(S, Rank(S, x)) = x /\ Nth(S, Rank(S, y)) = y
      BY <1>4, NthFacts
    <3> QED
      BY <3>1, <3>2
  <2> QED
    BY <2>1, <2>2, <2>3
<1>7. ASSUME NEW t \in TaskId
      PROVE  /\ t \notin Family(p) => RunningIn(slots', t) \subseteq RunningIn(slots, t)
             /\ t \in Family(p) => \E z : RunningIn(slots', t) \subseteq RunningIn(slots, t) \cup {z}
  <2>1. ASSUME NEW x \in RunningIn(slots', t), x # s, x \notin S PROVE x \in RunningIn(slots, t)
    BY <1>5, <2>1 DEF RunningIn
  <2>2. ASSUME s \in RunningIn(slots', t) PROVE t = p
    BY <1>5, <2>2 DEF RunningIn, Launched
  <2>3. ASSUME NEW x \in RunningIn(slots', t), x # s, x \in S
        PROVE  t = Children[p][Rank(S, x)]
    BY <1>5, <2>3 DEF RunningIn, Launched
  <2>4. CASE t = p
    <3>1. \A x \in RunningIn(slots', t) : x # s => x \notin S
      BY <1>3, <1>6, <2>3, <2>4
    <3>2. RunningIn(slots', t) \subseteq RunningIn(slots, t) \cup {s}
      BY <2>1, <3>1
    <3> QED
      BY <2>4, <3>2 DEF Family
  <2>5. CASE t # p /\ t \in ChildrenOf(p)
    <3> DEFINE z == CHOOSE x \in S : Children[p][Rank(S, x)] = t
    <3>1. \A x \in RunningIn(slots', t) : x \in S => x = z
      BY <1>6, <2>2, <2>3, <2>5
    <3>2. RunningIn(slots', t) \subseteq RunningIn(slots, t) \cup {z}
      BY <2>1, <2>2, <2>5, <3>1
    <3> QED
      BY <2>5, <3>2 DEF Family
  <2>6. CASE t # p /\ t \notin ChildrenOf(p)
    <3>1. \A x \in RunningIn(slots', t) : x # s /\ x \notin S
      BY <1>6, <2>2, <2>3, <2>6
    <3> QED
      BY <2>1, <2>6, <3>1 DEF Family
  <2> QED
    BY <2>4, <2>5, <2>6
<1>8. ASSUME NEW t \in TaskId PROVE Places(t)' <= Places(t)
  <2>1. /\ Count(queue_tasks, t) \in Nat /\ Count(queue_tasks_deferred, t) \in Nat
        /\ Cardinality(RunningIn(slots, t)) \in Nat /\ Cardinality(RunningIn(slots', t)) \in Nat
        /\ answered[t] \in Nat
    BY PlacesNat DEF IInv, TypeOK
  <2>2. Cardinality(RunningIn(slots', t)) <= Cardinality(RunningIn(slots, t))
                                              + (IF Holds(in_hand, t) THEN 1 ELSE 0)
    <3>1. CASE t \in Family(p)
      BY <1>2, <1>7, <2>1, <3>1, InHandFacts, RunningOneMore
    <3>2. CASE t \notin Family(p)
      BY <1>2, <1>7, <2>1, <3>2, InHandFacts, RunningLe
    <3> QED
      BY <3>1, <3>2
  <2>3. ~Holds(in_hand', t) /\ answered' = answered
    BY <1>2, NoTaskEntry DEF resultVars
  <2> QED
    BY <1>2, <2>1, <2>2, <2>3, PlacesSplit DEF PlacesIn
<1> QED
  BY <1>2, <1>8, SilentSends DEF IInv, Shrink

-----------------------------------------------------------------------------
(* update_slots.                                                           *)

LEMMA UpdateShrinks ==
  ASSUME IInv, IInv', Update
  PROVE  Shrink /\ Sends
<1>1. /\ queue_tasks' = queue_tasks \/ queue_tasks' = Append(queue_tasks, NextEntry)
      /\ UNCHANGED <<queue_tasks_deferred, in_hand, slots, resultVars, readerVars>>
  BY DEF Update, NextEntry
<1>2. queue_tasks \in Seq(EntryType) /\ queue_tasks_deferred \in Seq(TaskType)
      /\ answered \in [TaskId -> Nat]
  BY DEF IInv, TypeOK
<1>3. ASSUME NEW t \in TaskId PROVE Places(t)' <= Places(t)
  <2>1. /\ Count(queue_tasks, t) \in Nat /\ Count(queue_tasks_deferred, t) \in Nat
        /\ Cardinality(RunningIn(slots, t)) \in Nat /\ answered[t] \in Nat
    BY <1>2, PlacesNat
  <2>2. Count(queue_tasks', t) = Count(queue_tasks, t)
    <3>1. Count(Append(queue_tasks, NextEntry), t)
          = Count(queue_tasks, t) + (IF Holds(NextEntry, t) THEN 1 ELSE 0)
      BY <1>2, TaskFacts, CountAppend
    <3>2. ~Holds(NextEntry, t)
      BY NoTaskEntry
    <3>3. Count(Append(queue_tasks, NextEntry), t) = Count(queue_tasks, t)
      BY <2>1, <3>1, <3>2
    <3> QED
      BY <1>1, <3>3, Zenon
  <2>3. answered' = answered
    BY <1>1 DEF resultVars
  <2> QED
    BY <1>1, <2>1, <2>2, <2>3, PlacesSplit DEF PlacesIn
<1> QED
  BY <1>1, <1>3, SilentSends DEF IInv, Shrink

(* Every slot that leaves turns into one answer at most.                   *)
LEMMA LeaveShrinks ==
  ASSUME IInv, IInv', InUpdate, NEW S \in SUBSET Busy, NEW error \in BOOLEAN, Leave(S, error)
  PROVE  Shrink /\ Sends
<1> DEFINE results == [k \in 1 .. Cardinality(S) |-> Result(slots[Nth(S, k)].task, error)]
<1>1. TypeOK /\ UNCHANGED <<in_hand, readerVars>>
  BY DEF IInv, InUpdate
<1>2. S \in SUBSET Int /\ S \in SUBSET Slot /\ IsFiniteSet(S) /\ \A s \in S : slots[s] \in SlotType
  BY <1>1, BusyFacts, FS_Subset
<1>3. /\ Cardinality(S) \in Nat
      /\ \A k \in 1 .. Cardinality(S) : Nth(S, k) \in S /\ Rank(S, Nth(S, k)) = k
      /\ \A s \in S : Nth(S, Rank(S, s)) = s /\ Rank(S, s) \in 1 .. Cardinality(S)
  BY <1>2, NthFacts, RankFacts, FS_CardinalityType
<1>4. \A s \in S : Result(slots[s].task, error) \in ResultType
  BY <1>2 DEF SlotType, Result, ResultType
<1>5. results \in [1 .. Cardinality(S) -> ResultType]
  BY <1>3, <1>4
<1>6. results \in Seq(ResultType)
  BY <1>3, <1>5, SeqDef
<1>7. Send(results) /\ Release(S, queue_tasks)
  BY DEF Leave
<1>8. ASSUME NEW t \in TaskId PROVE Places(t)' <= Places(t)
  <2> DEFINE D == {s \in S : slots[s].task = t}
             I == InAt(results, For(t))
             f == [k \in I |-> Nth(S, k)]
             R == RunningIn(slots, t)
  <2>1. D \in SUBSET R /\ R \ S = R \ D
    BY <1>2 DEF RunningIn, Busy
  <2>2. IsFiniteSet(D) /\ Cardinality(D) \in Nat /\ IsFiniteSet(R) /\ Cardinality(R) \in Nat
    BY <2>1, RunningFacts, FS_Subset, FS_CardinalityType
  <2>3. I = {k \in 1 .. Cardinality(S) : slots[Nth(S, k)].task = t}
    BY <1>3, <1>4 DEF InAt, For, Result
  <2>4. Cardinality(I) = Cardinality(D)
    <3>1. f \in [I -> D] /\ \A x, y \in I : f[x] = f[y] => x = y
      <4>1. \A k \in I : Nth(S, k) \in D /\ Rank(S, Nth(S, k)) = k
        BY <1>3, <2>3
      <4> HIDE DEF I, D
      <4> QED
        BY <4>1
    <3>2. \A s \in D : \E k \in I : f[k] = s
      <4> SUFFICES ASSUME NEW s \in D PROVE \E k \in I : f[k] = s
        OBVIOUS
      <4>1. Rank(S, s) \in I /\ Nth(S, Rank(S, s)) = s
        BY <1>3, <2>3
      <4> QED
        BY <4>1
    <3> HIDE DEF f, I, D
    <3> QED
      BY <2>2, <3>1, <3>2, SameCount
  <2>5. Num(results, For(t)) = Cardinality(D)
    BY <2>4 DEF Num
  <2> HIDE DEF results, I, f, D
  <2>6. Cardinality(RunningIn(slots', t)) = Cardinality(R) - Cardinality(D)
    <3>1. RunningIn(slots', t) = R \ D
      BY <1>1, <1>7, <2>1, ReleaseFacts, ReleaseRunning
    <3>2. R \cap D = D
      BY <2>1
    <3> HIDE DEF R
    <3>3. Cardinality(R \ D) = Cardinality(R) - Cardinality(R \cap D)
      BY <2>2, FS_Difference
    <3> QED
      BY <3>1, <3>2, <3>3
  <2>7. PICK n \in Nat : n <= Num(results, For(t)) /\ answered'[t] = answered[t] + n
    BY <1>1, <1>6, <1>7, SendCounts
  <2>8. /\ Count(queue_tasks, t) \in Nat /\ Count(queue_tasks_deferred, t) \in Nat
        /\ Count(queue_tasks', t) \in Nat /\ Count(queue_tasks_deferred', t) \in Nat
        /\ answered[t] \in Nat
    BY PlacesNat DEF IInv, TypeOK
  <2>9. Count(queue_tasks', t) + Count(queue_tasks_deferred', t)
        = Count(queue_tasks, t) + Count(queue_tasks_deferred, t)
    BY <1>1, <1>7, ReleaseFacts
  <2> QED
    BY <1>1, <2>2, <2>5, <2>6, <2>7, <2>8, <2>9, PlacesSplit DEF PlacesIn
<1> HIDE DEF results
<1> QED
  BY <1>1, <1>6, <1>7, <1>8, SendSends DEF Shrink

LEMMA SlotShrinks ==
  ASSUME IInv, IInv', NEW s \in Slot,
         SlotStay(s) \/ PromptDone(s) \/ Finish(s) \/ EmptyPrompt(s) \/ SlotError(s)
  PROVE  Shrink /\ Sends
<1>1. /\ TypeOK /\ InUpdate /\ s \in todo /\ todo \subseteq Busy
      /\ slots \in [Slot -> SlotType \cup {Idle}]
  BY DEF IInv, TypeOK, SlotStay, PromptDone, Finish, EmptyPrompt, SlotError
<1>2. slots[s] \in SlotType /\ {s} \in SUBSET Busy
  BY <1>1, BusyFacts
<1>3. ASSUME UNCHANGED <<queue_tasks, queue_tasks_deferred, in_hand, resultVars, readerVars>>,
             \A t \in TaskId : RunningIn(slots', t) \subseteq RunningIn(slots, t)
      PROVE  Shrink /\ Sends
  <2>1. ASSUME NEW t \in TaskId PROVE Places(t)' <= Places(t)
    <3>1. /\ Count(queue_tasks, t) \in Nat /\ Count(queue_tasks_deferred, t) \in Nat
          /\ Cardinality(RunningIn(slots, t)) \in Nat /\ Cardinality(RunningIn(slots', t)) \in Nat
          /\ answered[t] \in Nat
      BY PlacesNat DEF IInv, TypeOK
    <3>2. Cardinality(RunningIn(slots', t)) <= Cardinality(RunningIn(slots, t))
      BY <1>3, RunningLe
    <3>3. answered' = answered
      BY <1>3 DEF resultVars
    <3> QED
      BY <1>3, <3>1, <3>2, <3>3, PlacesSplit DEF PlacesIn
  <2> QED
    BY <1>1, <1>3, <2>1, SilentSends DEF Shrink
<1>4. CASE SlotStay(s)
  <2>1. slots' = slots \/ slots' = [slots EXCEPT ![s].left = slots[s].left - 1]
    BY <1>4 DEF SlotStay
  <2>2. \A x \in Slot : slots'[x].state = slots[x].state /\ slots'[x].task = slots[x].task
    BY <1>1, <1>2, <2>1 DEF SlotType
  <2>3. \A t \in TaskId : RunningIn(slots', t) \subseteq RunningIn(slots, t)
    BY <2>2 DEF RunningIn
  <2> QED
    BY <1>1, <1>3, <1>4, <2>3 DEF SlotStay, InUpdate
<1>5. CASE PromptDone(s)
  <2> DEFINE S == {s} \cup Waiters(slots[s].task)
  <2>1. \A x \in S : slots[x].state # "idle"
    BY <1>2 DEF Waiters, Busy
  <2>2. slots' = [x \in Slot |-> IF x \in S THEN Launched("generating", slots[x].task) ELSE slots[x]]
    BY <1>5 DEF PromptDone
  <2> HIDE DEF S
  <2>3. \A t \in TaskId : RunningIn(slots', t) \subseteq RunningIn(slots, t)
    BY <2>1, <2>2 DEF RunningIn, Launched
  <2> QED
    BY <1>1, <1>3, <1>5, <2>3 DEF PromptDone, InUpdate
<1>6. CASE Finish(s) \/ EmptyPrompt(s) \/ SlotError(s)
  BY <1>1, <1>2, <1>6, LeaveShrinks DEF Finish, EmptyPrompt, SlotError
<1> QED
  BY <1>4, <1>5, <1>6

LEMMA LoopShrinks ==
  ASSUME IInv, IInv', Loop \/ Terminate
  PROVE  Shrink /\ Sends
<1>1. CASE Start \/ Take
  <2>1. UNCHANGED <<resultVars, readerVars>>
    BY <1>1 DEF Start, Take
  <2> QED
    BY <1>1, <2>1, TakeShrinks, SilentSends DEF IInv
<1>2. CASE HandleDefer \/ HandleSlotAction \/ HandleLaunch \/ HandleLaunchFail
             \/ HandleCancel \/ HandleNext
  BY <1>2, DeferShrinks, SlotActionShrinks, LaunchShrinks, LaunchFailShrinks, CancelShrinks
<1>3. CASE Update
  BY <1>3, UpdateShrinks
<1>4. CASE DecodeError
  BY <1>4, LeaveShrinks DEF DecodeError
<1>5. CASE \E s \in Slot : SlotStay(s) \/ PromptDone(s) \/ Finish(s) \/ EmptyPrompt(s) \/ SlotError(s)
  BY <1>5, SlotShrinks
<1>6. CASE UpdateEnd \/ IdleCheck \/ WaitWake \/ WaitTimeout \/ SleepWake \/ Terminate
  <2>1. UNCHANGED <<queue_tasks, queue_tasks_deferred, in_hand, slots, resultVars, readerVars>>
    BY <1>6 DEF UpdateEnd, InUpdate, IdleCheck, WaitWake, WaitTimeout, SleepWake, InWait,
                Terminate, loopVars
  <2>2. answered' = answered
    BY <2>1 DEF resultVars
  <2> QED
    BY <2>1, <2>2, StillShrink, SilentSends DEF IInv
<1> QED
  BY <1>1, <1>2, <1>3, <1>4, <1>5, <1>6 DEF Loop

-----------------------------------------------------------------------------
(* The invariant.  Before a request has queued its tasks they are nowhere. *)
(* While it collects results it has received no more than the tasks whose  *)
(* result is not queued any more; this is why a request that has them all  *)
(* may stop without purging.                                               *)

Before == {"new", "await", "build", "post"}

Got(r) == {t \in Ids(r) : Pending(t) < answered[t]}

OnceOK ==
  /\ \A t \in TaskId : Places(t) <= 1 /\ Pending(t) <= answered[t]
  /\ \A r \in Reader :
       /\ rd[r] \in Before => received_count[r] = 0 /\ \A t \in Ids(r) : Places(t) = 0
       /\ rd[r] \in {"next", "stop"} => received_count[r] <= Cardinality(Got(r))
       /\ received_count[r] <= Cardinality(Ids(r))
  /\ ResultsWanted

LEMMA WantedElems ==
  /\ ResultsWanted <=> \A x \in Elems(queue_results) :
                          \/ x.id \in waiting_task_ids
                          \/ \E r \in Reader : rd[r] = "purge" /\ x.id \in Ids(r)
  /\ ResultsWanted' <=> \A x \in Elems(queue_results') :
                          \/ x.id \in waiting_task_ids'
                          \/ \E r \in Reader : rd'[r] = "purge" /\ x.id \in Ids(r)
BY DEF ResultsWanted, Elems, Ids

LEMMA Numbers ==
  ASSUME IInv, IInv', NEW t \in TaskId
  PROVE  /\ Places(t) \in Nat /\ Places(t)' \in Nat
         /\ Pending(t) \in Nat /\ Pending(t)' \in Nat
         /\ answered[t] \in Nat /\ answered'[t] \in Nat
         /\ answered[t] <= Places(t) /\ answered'[t] <= Places(t)'
<1>1. Pending(t)' = Num(queue_results', For(t))
  BY DEF Pending, For, ResultType
<1> QED
  BY <1>1, PlacesSplit, PlacesNat, PendingFacts DEF IInv, TypeOK, Pending

LEMMA GotFacts ==
  ASSUME NEW r \in Reader
  PROVE  /\ Got(r) \in SUBSET Ids(r) /\ Got(r)' \in SUBSET Ids(r)
         /\ Got(r)' = {t \in Ids(r) : Pending(t)' < answered'[t]}
         /\ IsFiniteSet(Ids(r)) /\ Cardinality(Ids(r)) \in Nat
         /\ IsFiniteSet(Got(r)) /\ Cardinality(Got(r)) \in Nat
         /\ IsFiniteSet(Got(r)') /\ Cardinality(Got(r)') \in Nat
         /\ Cardinality(Got(r)) <= Cardinality(Ids(r))
         /\ Cardinality(Got(r)') <= Cardinality(Ids(r))
         /\ Ids(r) \subseteq TaskId
<1>1. /\ Got(r) \in SUBSET Ids(r) /\ Got(r)' \in SUBSET Ids(r)
      /\ Got(r)' = {t \in Ids(r) : Pending(t)' < answered'[t]}
  BY DEF Got, Ids
<1> QED
  BY <1>1, TaskFacts, FS_Subset, FS_CardinalityType

LEMMA InitOnce == Init => OnceOK
<1> SUFFICES ASSUME Init PROVE OnceOK
  OBVIOUS
<1>1. IInv
  BY InitIInv
<1>2. ASSUME NEW t \in TaskId PROVE Places(t) = 0 /\ Pending(t) = 0 /\ answered[t] = 0
  <2>1. Count(<<>>, t) = 0 /\ Num(<<>>, For(t)) = 0
    <3>1. <<>> \in Seq(EntryType) /\ <<>> \in Seq(ResultType) /\ Elems(<<>>) = {}
      BY EmptySeq DEF Elems
    <3> QED
      BY <3>1, CountFacts, NumFacts
  <2>2. RunningIn(slots, t) = {}
    BY DEF Init, RunningIn, Idle
  <2>3. ~Holds(in_hand, t) /\ answered[t] = 0
    BY NoTaskEntry DEF Init
  <2>4. Cardinality(RunningIn(slots, t)) = 0
    BY <2>2, FS_EmptySet
  <2> QED
    BY <2>1, <2>3, <2>4, PlacesSplit DEF PlacesIn, Pending, Init
<1>3. ASSUME NEW r \in Reader
      PROVE  /\ rd[r] = "new" /\ received_count[r] = 0
             /\ \A t \in Ids(r) : Places(t) = 0 /\ received_count[r] <= Cardinality(Ids(r))
             /\ received_count[r] <= Cardinality(Ids(r))
  BY <1>2, GotFacts DEF Init
<1>4. ResultsWanted
  BY DEF Init, ResultsWanted
<1> QED
  BY <1>2, <1>3, <1>4 DEF OnceOK

(* A step of the main loop: what is queued is answered and waited for.     *)
LEMMA LoopOnce ==
  ASSUME IInv, IInv', OnceOK, Shrink, Sends
  PROVE  OnceOK'
<1>1. ASSUME NEW t \in TaskId
      PROVE  /\ Places(t)' <= 1 /\ Pending(t)' <= answered'[t]
             /\ Places(t) = 0 => Places(t)' = 0
             /\ Pending(t)' < answered'[t] <=> Pending(t) < answered[t]
  <2>1. Places(t)' <= Places(t) /\ Places(t) <= 1 /\ Pending(t) <= answered[t]
    BY DEF Shrink, OnceOK
  <2>2. PICK n \in Nat : answered'[t] = answered[t] + n /\ Pending(t)' = Pending(t) + n
    BY DEF Sends
  <2> QED
    BY <2>1, <2>2, Numbers
<1>2. rd' = rd /\ received_count' = received_count /\ waiting_task_ids' = waiting_task_ids
  BY DEF Sends, readerVars
<1>3. ASSUME NEW r \in Reader
      PROVE  /\ rd'[r] \in Before => received_count'[r] = 0 /\ \A t \in Ids(r) : Places(t)' = 0
             /\ rd'[r] \in {"next", "stop"} => received_count'[r] <= Cardinality(Got(r)')
             /\ received_count'[r] <= Cardinality(Ids(r))
  <2>1. Got(r)' = Got(r)
    BY <1>1, GotFacts DEF Got
  <2> QED
    BY <1>1, <1>2, <2>1, GotFacts DEF OnceOK
<1>4. ResultsWanted'
  BY <1>2, WantedElems DEF OnceOK, Sends
<1> QED
  BY <1>1, <1>3, <1>4 DEF OnceOK, Ids, Before

(* A step of a reader other than the one that queues its tasks.            *)
LEMMA ReaderOnce ==
  ASSUME IInv, IInv', OnceOK, NEW r \in Reader,
         \A t \in TaskId : Places(t)' <= Places(t) /\ Pending(t)' <= Pending(t),
         answered' = answered,
         \A x \in Reader : x # r => rd'[x] = rd[x] /\ received_count'[x] = received_count[x],
         rd'[r] \in Before => rd[r] \in Before /\ received_count'[r] = received_count[r],
         rd'[r] \in {"next", "stop"} => received_count'[r] <= Cardinality(Got(r)'),
         received_count'[r] <= Cardinality(Ids(r)),
         ResultsWanted'
  PROVE  OnceOK'
<1>1. ASSUME NEW t \in TaskId
      PROVE  /\ Places(t)' <= 1 /\ Pending(t)' <= answered'[t]
             /\ Places(t) = 0 => Places(t)' = 0
             /\ Pending(t) < answered[t] => Pending(t)' < answered'[t]
  <2>1. Places(t)' <= Places(t) /\ Pending(t)' <= Pending(t)
    OBVIOUS
  <2>2. Places(t) <= 1 /\ Pending(t) <= answered[t] /\ answered'[t] = answered[t]
    BY DEF OnceOK
  <2> QED
    BY <2>1, <2>2, Numbers
<1>2. ASSUME NEW x \in Reader
      PROVE  /\ rd'[x] \in Before => received_count'[x] = 0 /\ \A t \in Ids(x) : Places(t)' = 0
             /\ rd'[x] \in {"next", "stop"} => received_count'[x] <= Cardinality(Got(x)')
             /\ received_count'[x] <= Cardinality(Ids(x))
  <2>1. /\ rd[x] \in Before => received_count[x] = 0 /\ \A t \in Ids(x) : Places(t) = 0
        /\ rd[x] \in {"next", "stop"} => received_count[x] <= Cardinality(Got(x))
        /\ received_count[x] <= Cardinality(Ids(x))
    BY DEF OnceOK
  <2>2. Cardinality(Got(x)) <= Cardinality(Got(x)')
    <3>1. Got(x) \subseteq Got(x)'
      BY <1>1, GotFacts DEF Got
    <3> QED
      BY <3>1, GotFacts, FS_Subset
  <2>3. received_count[x] \in Nat /\ received_count'[x] \in Nat
    BY DEF IInv, TypeOK
  <2>4. rd'[x] \in Before => rd[x] \in Before /\ received_count'[x] = received_count[x]
    OBVIOUS
  <2>5. rd'[x] \in {"next", "stop"} => received_count'[x] <= Cardinality(Got(x)')
    <3>1. CASE x = r
      BY <3>1
    <3>2. CASE x # r
      BY <2>1, <2>2, <2>3, <3>2, GotFacts
    <3> QED
      BY <3>1, <3>2
  <2> QED
    BY <1>1, <2>1, <2>4, <2>5, GotFacts
<1> QED
  BY <1>1, <1>2 DEF OnceOK, Ids, Before

-----------------------------------------------------------------------------
(* The readers, one by one.                                                *)

LEMMA PendingSame ==
  ASSUME queue_results' = queue_results
  PROVE  \A t : Pending(t)' = Pending(t)
BY DEF Pending

LEMMA StillPlaces ==
  ASSUME IInv, IInv',
         UNCHANGED <<queue_tasks, queue_tasks_deferred, in_hand, slots, answered>>,
         \A t \in TaskId : Pending(t)' <= Pending(t)
  PROVE  \A t \in TaskId : Places(t)' <= Places(t) /\ Pending(t)' <= Pending(t)
BY StillShrink DEF Shrink

LEMMA PendingRefl ==
  ASSUME IInv, IInv', queue_results' = queue_results
  PROVE  \A t \in TaskId : Pending(t)' <= Pending(t)
<1> SUFFICES ASSUME NEW t \in TaskId PROVE Pending(t)' <= Pending(t)
  OBVIOUS
<1>1. Pending(t)' = Pending(t) /\ Pending(t) \in Nat
  BY PendingSame, Numbers
<1> QED
  BY <1>1

(* wait_until_no_sleep, subscribing and disconnecting.                     *)
LEMMA ArriveOnce ==
  ASSUME IInv, IInv', OnceOK, NEW r \in Reader, Arrive(r) \/ Awake(r) \/ Subscribe(r) \/ Disconnect(r)
  PROVE  OnceOK'
<1>1. /\ UNCHANGED <<queue_tasks, queue_tasks_deferred, in_hand, slots, answered, queue_results,
                     received_count>>
      /\ waiting_task_ids \subseteq waiting_task_ids'
  BY DEF Arrive, Awake, Subscribe, Disconnect, queueVars, loopVars, resultVars
<1>2. \A t \in TaskId : Places(t)' <= Places(t) /\ Pending(t)' <= Pending(t)
  BY <1>1, StillPlaces, PendingRefl
<1>3. /\ rd \in [Reader -> Where]
      /\ \/ rd' = rd
         \/ \E to \in {"await", "build", "post"} : rd[r] \in Before /\ rd' = [rd EXCEPT ![r] = to]
         \/ rd[r] = "next" /\ rd' = [rd EXCEPT ![r] = "stop"]
  BY ReaderTypes DEF Arrive, Awake, Subscribe, Disconnect, At, Before
<1>4. /\ \A x \in Reader : x # r => rd'[x] = rd[x]
      /\ rd'[r] \in Before => rd[r] \in Before
      /\ rd'[r] \in {"next", "stop"} => rd[r] \in {"next", "stop"}
      /\ \A x \in Reader : rd[x] = "purge" => rd'[x] = "purge"
  BY <1>3 DEF Before
<1>5. Got(r)' = Got(r)
  BY <1>1, GotFacts, PendingSame DEF Got
<1>6. ResultsWanted'
  BY <1>1, <1>4, WantedElems DEF OnceOK
<1>7. /\ rd'[r] \in {"next", "stop"} => received_count'[r] <= Cardinality(Got(r)')
      /\ received_count'[r] <= Cardinality(Ids(r))
  BY <1>1, <1>4, <1>5 DEF OnceOK
<1> QED
  BY <1>1, <1>2, <1>4, <1>6, <1>7, ReaderOnce

(* A request that has all its results leaves none: it received one of each *)
(* task, and a task has one answer only.                                   *)
LEMMA StopOnce ==
  ASSUME IInv, IInv', OnceOK, NEW r \in Reader, Stop(r)
  PROVE  OnceOK'
<1>1. /\ UNCHANGED <<queue_tasks, queue_tasks_deferred, in_hand, slots, answered, queue_results,
                     received_count>>
      /\ waiting_task_ids' = waiting_task_ids \ Ids(r)
      /\ rd[r] = "stop"
      /\ rd' = [rd EXCEPT ![r] = IF received_count[r] < Cardinality(Ids(r)) THEN "purge" ELSE "done"]
  BY DEF Stop, At, queueVars, loopVars
<1>2. \A t \in TaskId : Places(t)' <= Places(t) /\ Pending(t)' <= Pending(t)
  BY <1>1, StillPlaces, PendingRefl
<1>3. rd \in [Reader -> Where] /\ queue_results \in Seq(ResultType)
  BY ReaderTypes
<1>4. /\ rd'[r] = IF received_count[r] < Cardinality(Ids(r)) THEN "purge" ELSE "done"
      /\ \A x \in Reader : x # r => rd'[x] = rd[x]
  BY <1>1, <1>3
<1>5. ASSUME rd'[r] = "done", NEW x \in Elems(queue_results) PROVE x.id \notin Ids(r)
  <2> SUFFICES ASSUME x.id \in Ids(r) PROVE FALSE
    OBVIOUS
  <2>1. received_count[r] <= Cardinality(Got(r)) /\ received_count[r] \in Nat
    BY <1>1 DEF OnceOK, IInv, TypeOK
  <2>2. ~(received_count[r] < Cardinality(Ids(r)))
    BY <1>4, <1>5
  <2>3. Got(r) = Ids(r)
    <3>1. Cardinality(Got(r)) = Cardinality(Ids(r))
      BY <2>1, <2>2, GotFacts
    <3> QED
      BY <3>1, GotFacts, FS_Subset
  <2>4. Pending(x.id) < answered[x.id] /\ x.id \in TaskId
    BY <2>3, GotFacts DEF Got
  <2>5. Places(x.id) <= 1
    BY <2>4 DEF OnceOK
  <2>6. Pending(x.id) = 0
    BY <2>4, <2>5, Numbers
  <2>7. \A k \in DOMAIN queue_results : queue_results[k].id # x.id
    BY <1>3, <2>6, PendingFacts DEF Pending
  <2> QED
    BY <2>7 DEF Elems
<1>6. ResultsWanted'
  <2> SUFFICES ASSUME NEW x \in Elems(queue_results)
               PROVE  \/ x.id \in waiting_task_ids'
                      \/ \E y \in Reader : rd'[y] = "purge" /\ x.id \in Ids(y)
    BY <1>1, WantedElems
  <2>1. CASE x.id \in Ids(r)
    BY <1>4, <1>5, <2>1
  <2>2. CASE x.id \notin Ids(r)
    BY <1>1, <1>4, <2>2, WantedElems DEF OnceOK
  <2> QED
    BY <2>1, <2>2
<1>7. received_count'[r] <= Cardinality(Ids(r))
  BY <1>1 DEF OnceOK
<1> QED
  BY <1>1, <1>2, <1>4, <1>6, <1>7, ReaderOnce DEF Before

LEMMA PurgeOnce ==
  ASSUME IInv, IInv', OnceOK, NEW r \in Reader, Purge(r)
  PROVE  OnceOK'
<1> DEFINE K == {k \in DOMAIN queue_results : queue_results[k].id \notin Ids(r)}
<1>1. /\ UNCHANGED <<queue_tasks, queue_tasks_deferred, in_hand, slots, answered, received_count,
                     waiting_task_ids>>
      /\ queue_results' = Pick(queue_results, K)
      /\ rd[r] = "purge" /\ rd' = [rd EXCEPT ![r] = "cancel"]
  BY DEF Purge, At, queueVars, loopVars
<1>2. rd \in [Reader -> Where] /\ queue_results \in Seq(ResultType)
  BY ReaderTypes
<1>3. /\ rd'[r] = "cancel" /\ \A x \in Reader : x # r => rd'[x] = rd[x]
  BY <1>1, <1>2
<1>4. \A t \in TaskId : Pending(t)' <= Pending(t)
  BY <1>1, <1>2, NumPickLe DEF Pending, For, ResultType
<1>5. \A t \in TaskId : Places(t)' <= Places(t) /\ Pending(t)' <= Pending(t)
  BY <1>1, <1>4, StillPlaces
<1>6. ResultsWanted'
  <2>1. Elems(queue_results') = {queue_results[k] : k \in K}
    BY <1>1, <1>2, PickFacts
  <2>2. ASSUME NEW x \in Elems(queue_results') PROVE x \in Elems(queue_results) /\ x.id \notin Ids(r)
    BY <2>1 DEF Elems
  <2> QED
    BY <1>1, <1>3, <2>2, WantedElems DEF OnceOK
<1>7. received_count'[r] <= Cardinality(Ids(r))
  BY <1>1 DEF OnceOK
<1> QED
  BY <1>1, <1>3, <1>5, <1>6, <1>7, ReaderOnce DEF Before

(* The cancelled tasks leave the queues; a CANCEL entry holds no task.     *)
LEMMA CancelOnce ==
  ASSUME IInv, IInv', OnceOK, NEW r \in Reader, Cancel(r)
  PROVE  OnceOK'
<1> DEFINE w == Without(queue_tasks, Ids(r))
<1>1. PICK f \in Orders(Ids(r)) :
        queue_tasks' = [k \in DOMAIN f |-> Entry("cancel", f[k])] \o w
  BY DEF Cancel
<1> DEFINE c == [k \in DOMAIN f |-> Entry("cancel", f[k])]
<1>2. /\ queue_tasks' = c \o w
      /\ queue_tasks_deferred' = Without(queue_tasks_deferred, Ids(r))
      /\ UNCHANGED <<in_hand, slots, answered, queue_results, received_count, waiting_task_ids>>
      /\ rd[r] = "cancel" /\ rd' = [rd EXCEPT ![r] = "done"]
  BY <1>1 DEF Cancel, At, loopVars, resultVars
<1>3. c \in Seq(EntryType) /\ \A e \in Elems(c), t \in TaskId : ~Holds(e, t)
  <2>1. Cardinality(Ids(r)) \in Nat /\ Ids(r) \subseteq TaskId
    BY TaskFacts, FS_CardinalityType
  <2>2. f \in [1 .. Cardinality(Ids(r)) -> TaskId]
    BY <2>1 DEF Orders
  <2>3. c \in [1 .. Cardinality(Ids(r)) -> EntryType]
    BY <2>2, TaskFacts
  <2>4. \A k \in DOMAIN c, t \in TaskId : ~Holds(c[k], t)
    BY DEF Holds, Entry
  <2> QED
    BY <2>1, <2>3, <2>4, SeqDef DEF Elems
<1> HIDE DEF c
<1>4. ASSUME NEW t \in TaskId PROVE Places(t)' <= Places(t)
  <2>1. w \in Seq(EntryType) /\ queue_tasks \in Seq(EntryType) /\ queue_tasks_deferred \in Seq(TaskType)
    BY ReaderTypes, WithoutFacts
  <2>2. Count(w, t) <= Count(queue_tasks, t)
    BY <2>1, CountPick DEF Without
  <2>3. Count(queue_tasks_deferred', t) <= Count(queue_tasks_deferred, t)
    BY <1>2, <2>1, CountPick DEF Without
  <2> HIDE DEF w
  <2>4. Count(queue_tasks', t) = Count(c, t) + Count(w, t) /\ Count(c, t) = 0
    BY <1>2, <1>3, <2>1, CountConcat, CountFacts
  <2>5. /\ Count(queue_tasks, t) \in Nat /\ Count(queue_tasks_deferred, t) \in Nat
        /\ Count(w, t) \in Nat /\ Count(queue_tasks_deferred', t) \in Nat
        /\ Cardinality(RunningIn(slots, t)) \in Nat /\ answered[t] \in Nat
    BY <2>1, PlacesNat, CountFacts DEF IInv, TypeOK
  <2>6. Count(queue_tasks', t) \in Nat /\ Count(queue_tasks', t) <= Count(queue_tasks, t)
    BY <2>2, <2>4, <2>5
  <2>7. in_hand' = in_hand /\ slots' = slots /\ answered' = answered
    BY <1>2
  <2> QED
    BY <2>3, <2>5, <2>6, <2>7, PlacesSplit DEF PlacesIn
<1>5. \A t \in TaskId : Places(t)' <= Places(t) /\ Pending(t)' <= Pending(t)
  BY <1>2, <1>4, PendingRefl
<1>6. rd'[r] = "done" /\ \A x \in Reader : x # r => rd'[x] = rd[x]
  BY <1>2, ReaderTypes
<1>7. ResultsWanted'
  BY <1>2, <1>6, WantedElems DEF OnceOK
<1>8. received_count'[r] <= Cardinality(Ids(r))
  BY <1>2 DEF OnceOK
<1> QED
  BY <1>2, <1>5, <1>6, <1>7, <1>8, ReaderOnce DEF Before

(* A received result is the only one of its task.                          *)
LEMMA ReceiveOnce ==
  ASSUME IInv, IInv', OnceOK, NEW r \in Reader, Receive(r)
  PROVE  OnceOK'
<1> DEFINE k == CHOOSE i \in Mine(r) : \A j \in Mine(r) : i <= j
           n == received_count[r] + (IF queue_results[k].error THEN 0 ELSE 1)
<1>1. rd \in [Reader -> Where] /\ queue_results \in Seq(ResultType)
      /\ received_count \in [Reader -> Nat]
  BY ReaderTypes
<1>2. k \in DOMAIN queue_results /\ queue_results[k].id \in Ids(r)
  <2>1. Mine(r) \in SUBSET Int /\ IsFiniteSet(Mine(r)) /\ Mine(r) # {}
    BY <1>1, ElemsFacts, FS_Subset DEF Mine, Receive
  <2>2. \E i \in Mine(r) : \A j \in Mine(r) : i <= j
    BY <2>1, LeastElement
  <2> QED
    BY <2>2 DEF Mine
<1>3. /\ UNCHANGED <<queue_tasks, queue_tasks_deferred, in_hand, slots, answered, waiting_task_ids>>
      /\ queue_results' = Drop(queue_results, k)
      /\ received_count' = [received_count EXCEPT ![r] = n]
      /\ rd[r] = "next" /\ (rd' = rd \/ rd' = [rd EXCEPT ![r] = "stop"])
  BY DEF Receive, At, queueVars, loopVars
<1>4. n \in Nat /\ n <= received_count[r] + 1
  BY <1>1
<1> HIDE DEF k, n
<1>5. \A u : Num(queue_results, For(u)) = Num(queue_results', For(u))
                                            + (IF queue_results[k] \in For(u) THEN 1 ELSE 0)
  BY <1>1, <1>2, <1>3, NumDrop
<1>6. \A u \in TaskId : Pending(u)' <= Pending(u)
  <2>1. \A u \in TaskId : Pending(u)' = Num(queue_results', For(u)) /\ Pending(u)' \in Nat
    BY Numbers DEF Pending, For, ResultType
  <2> QED
    BY <1>5, <2>1 DEF Pending
<1>7. \A u \in TaskId : Places(u)' <= Places(u) /\ Pending(u)' <= Pending(u)
  BY <1>3, <1>6, StillPlaces
<1>8. /\ rd'[r] \in {"next", "stop"} /\ \A x \in Reader : x # r => rd'[x] = rd[x]
      /\ \A x \in Reader : rd[x] = "purge" => rd'[x] = "purge"
      /\ received_count'[r] = n
      /\ \A x \in Reader : x # r => received_count'[x] = received_count[x]
  BY <1>1, <1>3
<1> PICK t \in Ids(r) : t = queue_results[k].id
  BY <1>2
<1>9. t \in TaskId /\ t \in Got(r)' /\ t \notin Got(r)
  <2>1. t \in TaskId
    BY <1>2, GotFacts
  <2>2. queue_results[k] \in For(t)
    BY <1>1, <1>2, LenProperties DEF For
  <2>3. Pending(t) = Pending(t)' + 1
    <3>1. Pending(t)' = Num(queue_results', For(t))
      BY DEF Pending, For, ResultType
    <3> QED
      BY <1>5, <2>2, <3>1 DEF Pending
  <2>4. Places(t) <= 1 /\ Pending(t) <= answered[t] /\ answered'[t] = answered[t]
    BY <1>3, <2>1 DEF OnceOK
  <2>5. answered[t] = 1 /\ Pending(t) = 1 /\ Pending(t)' = 0
    BY <2>1, <2>3, <2>4, Numbers
  <2>6. Pending(t)' < answered'[t] /\ ~(Pending(t) < answered[t])
    BY <2>4, <2>5
  <2> QED
    BY <1>2, <2>1, <2>6, GotFacts DEF Got
<1>10. Cardinality(Got(r)) + 1 <= Cardinality(Got(r)')
  <2>1. Got(r) \subseteq Got(r)'
    <3> SUFFICES ASSUME NEW u \in Got(r) PROVE u \in Got(r)'
      OBVIOUS
    <3>1. u \in Ids(r) /\ u \in TaskId /\ Pending(u) < answered[u]
      BY GotFacts DEF Got
    <3>2. Pending(u)' < answered'[u]
      BY <1>3, <1>6, <3>1, Numbers
    <3> QED
      BY <3>1, <3>2, GotFacts
  <2>2. Cardinality(Got(r) \cup {t}) = Cardinality(Got(r)) + 1
    BY <1>9, GotFacts, FS_AddElement
  <2>3. Got(r) \cup {t} \in SUBSET Got(r)'
    BY <1>9, <2>1
  <2> QED
    BY <2>2, <2>3, GotFacts, FS_Subset
<1>11. received_count'[r] <= Cardinality(Got(r)') /\ received_count'[r] <= Cardinality(Ids(r))
  <2>1. received_count[r] <= Cardinality(Got(r)) /\ received_count[r] \in Nat
    BY <1>1, <1>3 DEF OnceOK
  <2> QED
    BY <1>4, <1>8, <1>10, <2>1, GotFacts
<1>12. ResultsWanted'
  <2>1. Elems(queue_results') \subseteq Elems(queue_results)
    <3>1. Elems(queue_results') = {queue_results[j] : j \in DOMAIN queue_results \ {k}}
      BY <1>1, <1>3, PickFacts DEF Drop
    <3> QED
      BY <3>1 DEF Elems
  <2> QED
    BY <1>3, <1>8, <2>1, WantedElems DEF OnceOK
<1> QED
  BY <1>3, <1>7, <1>8, <1>11, <1>12, ReaderOnce DEF Before

(* The ids of a request are its own; each of its tasks is queued once.     *)
LEMMA OwnIds ==
  ASSUME NEW r \in Reader, NEW x \in Reader, x # r
  PROVE  Ids(r) \cap Ids(x) = {}
<1> SUFFICES ASSUME NEW t \in Ids(r), t \in Ids(x) PROVE FALSE
  OBVIOUS
<1>1. PICK a \in Elems(Post[r]) : t \in Family(a)
  BY DEF Ids
<1>2. PICK b \in Elems(Post[x]) : t \in Family(b)
  BY DEF Ids
<1>3. a \in Posted /\ b \in Posted /\ a # b
  BY IdsAssumption DEF Posted
<1> QED
  BY <1>1, <1>2, <1>3, IdsAssumption

LEMMA PostedOnce ==
  ASSUME NEW r \in Reader, NEW t \in TaskId,
         NEW p, p = [k \in DOMAIN Post[r] |-> TaskEntry(Post[r][k])]
  PROVE  /\ p \in Seq(EntryType)
         /\ Count(p, t) \in Nat /\ Count(p, t) <= 1
         /\ t \notin Ids(r) => Count(p, t) = 0
<1>1. /\ Post[r] \in [1 .. Len(Post[r]) -> TaskId] /\ Len(Post[r]) \in Nat
      /\ DOMAIN Post[r] = 1 .. Len(Post[r])
  BY TaskFacts, LenProperties
<1>2. p \in Seq(EntryType)
  <2>1. p \in [1 .. Len(Post[r]) -> EntryType]
    BY <1>1, TaskFacts
  <2> QED
    BY <1>1, <2>1, SeqDef
<1> DEFINE H == {k \in DOMAIN p : Holds(p[k], t)}
<1>3. \A k \in H : k \in DOMAIN Post[r] /\ t \in Family(Post[r][k]) /\ Post[r][k] \in Elems(Post[r])
  BY <1>1 DEF Holds, TaskEntry, Entry, Elems
<1>4. \A k, j \in H : k = j
  <2> SUFFICES ASSUME NEW k \in H, NEW j \in H PROVE k = j
    OBVIOUS
  <2>1. Post[r][k] \in Posted /\ Post[r][j] \in Posted
    BY <1>3 DEF Posted
  <2>2. Post[r][k] = Post[r][j]
    BY <1>3, <2>1, IdsAssumption
  <2> QED
    BY <1>3, <2>2, IdsAssumption DEF Distinct
<1>5. t \notin Ids(r) => H = {}
  BY <1>3 DEF Ids
<1>6. Count(p, t) = Cardinality(H)
  BY DEF Count
<1> HIDE DEF H
<1>7. H = {} \/ \E k : H = {k}
  BY <1>4
<1>8. Cardinality(H) \in {0, 1} /\ (H = {} => Cardinality(H) = 0)
  BY <1>7, FS_EmptySet, FS_Singleton
<1> QED
  BY <1>2, <1>5, <1>6, <1>8

LEMMA PostOnce ==
  ASSUME IInv, IInv', OnceOK, NEW r \in Reader, PostTasks(r)
  PROVE  OnceOK'
<1> DEFINE p == [k \in DOMAIN Post[r] |-> TaskEntry(Post[r][k])]
<1>1. /\ queue_tasks' = queue_tasks \o p
      /\ UNCHANGED <<queue_tasks_deferred, in_hand, slots, answered, queue_results, received_count,
                     waiting_task_ids>>
      /\ rd[r] = "post" /\ rd' = [rd EXCEPT ![r] = "next"]
  BY DEF PostTasks, At, loopVars, resultVars
<1>2. \A t \in TaskId : /\ p \in Seq(EntryType) /\ Count(p, t) \in Nat /\ Count(p, t) <= 1
                        /\ t \notin Ids(r) => Count(p, t) = 0
  BY PostedOnce
<1> HIDE DEF p
<1>3. /\ rd'[r] = "next" /\ \A x \in Reader : x # r => rd'[x] = rd[x]
      /\ \A x \in Reader : rd[x] = "purge" => rd'[x] = "purge"
  BY <1>1, ReaderTypes
<1>4. ASSUME NEW t \in TaskId
      PROVE  /\ Places(t)' = Places(t) + Count(p, t)
             /\ Places(t)' <= 1 /\ Pending(t)' <= answered'[t]
             /\ t \notin Ids(r) => Places(t)' = Places(t)
  <2>1. queue_tasks \in Seq(EntryType) /\ queue_tasks_deferred \in Seq(TaskType)
        /\ answered \in [TaskId -> Nat]
    BY DEF IInv, TypeOK
  <2>2. Count(queue_tasks', t) = Count(queue_tasks, t) + Count(p, t)
    BY <1>1, <1>2, <2>1, CountConcat
  <2>3. /\ Count(queue_tasks, t) \in Nat /\ Count(queue_tasks_deferred, t) \in Nat
        /\ Cardinality(RunningIn(slots, t)) \in Nat /\ answered[t] \in Nat
    BY <2>1, PlacesNat
  <2>4. in_hand' = in_hand /\ slots' = slots /\ answered' = answered
        /\ queue_tasks_deferred' = queue_tasks_deferred
    BY <1>1
  <2>5. Places(t)' = Places(t) + Count(p, t)
    BY <1>2, <2>2, <2>3, <2>4, PlacesSplit DEF PlacesIn
  <2>6. t \in Ids(r) => Places(t) = 0
    BY <1>1 DEF OnceOK, Before
  <2>7. Places(t) <= 1 /\ Pending(t) <= answered[t] /\ Pending(t)' = Pending(t)
    BY <1>1, PendingSame DEF OnceOK
  <2> QED
    BY <1>2, <2>4, <2>5, <2>6, <2>7, Numbers
<1>5. ASSUME NEW x \in Reader
      PROVE  /\ rd'[x] \in Before => received_count'[x] = 0 /\ \A t \in Ids(x) : Places(t)' = 0
             /\ rd'[x] \in {"next", "stop"} => received_count'[x] <= Cardinality(Got(x)')
             /\ received_count'[x] <= Cardinality(Ids(x))
  <2>1. /\ rd[x] \in Before => received_count[x] = 0 /\ \A t \in Ids(x) : Places(t) = 0
        /\ rd[x] \in {"next", "stop"} => received_count[x] <= Cardinality(Got(x))
        /\ received_count[x] <= Cardinality(Ids(x)) /\ received_count'[x] = received_count[x]
    BY <1>1 DEF OnceOK
  <2>2. Got(x)' = Got(x)
    BY <1>1, GotFacts, PendingSame DEF Got
  <2>3. CASE x = r
    BY <1>1, <1>3, <2>1, <2>3, GotFacts DEF Before
  <2>4. CASE x # r
    <3>1. \A t \in Ids(x) : t \in TaskId /\ t \notin Ids(r)
      BY <2>4, OwnIds, GotFacts
    <3> QED
      BY <1>3, <1>4, <2>1, <2>2, <2>4, <3>1
  <2> QED
    BY <2>3, <2>4
<1>6. ResultsWanted'
  BY <1>1, <1>3, WantedElems DEF OnceOK
<1> QED
  BY <1>4, <1>5, <1>6 DEF OnceOK, Ids, Before

-----------------------------------------------------------------------------
LEMMA StepOnce == IInv /\ IInv' /\ OnceOK /\ [Next]_vars => OnceOK'
<1> SUFFICES ASSUME IInv, IInv', OnceOK, [Next]_vars PROVE OnceOK'
  OBVIOUS
<1>1. CASE Loop \/ Terminate
  BY <1>1, LoopShrinks, LoopOnce
<1>2. CASE \E r \in Reader : ReaderStep(r) \/ Disconnect(r)
  BY <1>2, ArriveOnce, PostOnce, ReceiveOnce, StopOnce, PurgeOnce, CancelOnce DEF ReaderStep
<1>3. CASE UNCHANGED vars
  <2>1. /\ UNCHANGED <<queue_tasks, queue_tasks_deferred, in_hand, slots, answered>>
        /\ UNCHANGED <<resultVars, readerVars>>
    BY <1>3 DEF vars, queueVars, loopVars, resultVars
  <2> QED
    BY <2>1, StillShrink, SilentSends, LoopOnce DEF IInv
<1> QED
  BY <1>1, <1>2, <1>3 DEF Next

LEMMA Accounting == Spec => []OnceOK
<1>1. Init => OnceOK
  BY InitOnce
<1>2. IInv /\ IInv' /\ OnceOK /\ [Next]_vars => OnceOK'
  BY StepOnce
<1> QED
  BY <1>1, <1>2, Invariance, PTL DEF Spec

(* defer, pop_deferred_task, launch_slots_with_parent_task, a failing      *)
(* launch or decode and cleanup_pending_task never put a task in two       *)
(* places or answer it twice, and a request never receives more results    *)
(* than it has tasks.                                                      *)
THEOREM Once == Spec => []AtMostOnce
<1>1. OnceOK => AtMostOnce
  BY DEF OnceOK, AtMostOnce
<1> QED
  BY <1>1, Accounting, PTL

(* remove_waiting_task_ids: what stays queued after a request has stopped  *)
(* waiting is only what it purges next.                                    *)
THEOREM NoResultLeft == Spec => []ResultsWanted
<1>1. OnceOK => ResultsWanted
  BY DEF OnceOK
<1> QED
  BY <1>1, Accounting, PTL

-----------------------------------------------------------------------------
(* No task is lost.  The invariant: while a request waits for its tasks    *)
(* their results are kept, each of them is somewhere unless an error is    *)
(* queued, and nothing that the loop may still meet cancels them.          *)

InSeq(q, t) == \E e \in Elems(q) : Holds(e, t)

Somewhere(t) ==
  \/ InSeq(queue_tasks, t) \/ InSeq(queue_tasks_deferred, t) \/ Holds(in_hand, t)
  \/ RunningIn(slots, t) # {} \/ answered[t] > 0

Entries == Elems(queue_tasks) \cup Elems(queue_tasks_deferred) \cup {in_hand}

EntriesOK ==
  \A e \in Entries : /\ e.type = "task" => e.id \in Posted
                     /\ e.type = "cancel" => \A r \in Reader : e.id \in Ids(r) => rd[r] = "done"

WaitedFor == \A r \in Reader : rd[r] \in {"post", "next"} => Ids(r) \subseteq waiting_task_ids

Kept == \A r \in Reader : rd[r] = "next" /\ ~HasError(r) => \A t \in Ids(r) : Somewhere(t)

KeepOK == EntriesOK /\ WaitedFor /\ Kept

LEMMA SomewherePlaces ==
  ASSUME IInv, NEW t \in TaskId
  PROVE  Somewhere(t) <=> Places(t) >= 1
<1>1. queue_tasks \in Seq(EntryType) /\ queue_tasks_deferred \in Seq(TaskType)
      /\ answered \in [TaskId -> Nat]
  BY DEF IInv, TypeOK
<1>2. /\ Count(queue_tasks, t) \in Nat /\ Count(queue_tasks_deferred, t) \in Nat
      /\ Count(queue_tasks, t) # 0 <=> InSeq(queue_tasks, t)
      /\ Count(queue_tasks_deferred, t) # 0 <=> InSeq(queue_tasks_deferred, t)
  BY <1>1, CountFacts DEF InSeq
<1>3. /\ Cardinality(RunningIn(slots, t)) \in Nat
      /\ Cardinality(RunningIn(slots, t)) # 0 <=> RunningIn(slots, t) # {}
  BY RunningFacts, FS_EmptySet
<1>4. answered[t] \in Nat
  BY <1>1
<1> QED
  BY <1>2, <1>3, <1>4, PlacesSplit DEF PlacesIn, Somewhere

LEMMA ErrorElems ==
  \A r : /\ HasError(r) <=> \E x \in Elems(queue_results) : x.id \in Ids(r) /\ x.error
         /\ HasError(r)' <=> \E x \in Elems(queue_results') : x.id \in Ids(r) /\ x.error
BY DEF HasError, Mine, Elems, Ids

LEMMA ElemsOne ==
  ASSUME NEW E, NEW e \in E
  PROVE  <<e>> \in Seq(E) /\ Elems(<<e>>) = {e}
BY DEF Elems

LEMMA ElemsAppend ==
  ASSUME NEW E, NEW q \in Seq(E), NEW e \in E
  PROVE  Elems(Append(q, e)) = Elems(q) \cup {e}
<1>1. Append(q, e) = q \o <<e>> /\ <<e>> \in Seq(E)
  BY AppendIsConcat
<1>2. Elems(<<e>>) = {e}
  BY DEF Elems
<1>3. Elems(q \o <<e>>) = Elems(q) \cup Elems(<<e>>)
  BY <1>1, ElemsConcat
<1> QED
  BY <1>1, <1>2, <1>3

LEMMA ElemsHead ==
  ASSUME NEW E, NEW q \in Seq(E), q # <<>>
  PROVE  Elems(q) = {Head(q)} \cup Elems(Tail(q))
<1> DEFINE h == <<Head(q)>>
           l == Tail(q)
<1>1. Head(q) \in E /\ l \in Seq(E) /\ q = h \o l
  BY HeadTailProperties
<1>2. h \in Seq(E) /\ Elems(h) = {Head(q)}
  BY <1>1 DEF Elems
<1>3. ASSUME NEW g \in Seq(E), NEW k \in Seq(E)
      PROVE  Elems(g \o k) = Elems(g) \cup Elems(k)
  BY ElemsConcat
<1>4. l \in Seq(E)
  BY <1>1
<1> HIDE DEF h, l
<1>5. Elems(h \o l) = Elems(h) \cup Elems(l)
  BY <1>2, <1>3, <1>4
<1> QED
  BY <1>1, <1>2, <1>5 DEF l

(* The tasks of a request and of no other one.                             *)
LEMMA FamilyOwner ==
  ASSUME NEW p \in Posted, NEW r \in Reader, NEW u \in Family(p), u \in Ids(r)
  PROVE  Family(p) \subseteq Ids(r)
<1>1. PICK a \in Elems(Post[r]) : u \in Family(a)
  BY DEF Ids
<1>2. a \in Posted
  BY DEF Posted
<1>3. a = p
  BY <1>1, <1>2, IdsAssumption
<1> QED
  BY <1>1, <1>3 DEF Ids

-----------------------------------------------------------------------------
(* What a step of the main loop does to a task that is waited for.         *)

LoopMoves ==
  /\ UNCHANGED <<rd, waiting_task_ids>>
  /\ Elems(queue_results) \subseteq Elems(queue_results')
  /\ Entries' \subseteq Entries \cup {NoEntry, NextEntry}
  /\ \A r \in Reader : \A t \in Ids(r) :
        rd[r] = "next" /\ Somewhere(t) => Somewhere(t)' \/ HasError(r)'

LEMMA LoopKeep ==
  ASSUME KeepOK, LoopMoves
  PROVE  KeepOK'
<1>1. EntriesOK'
  <2> SUFFICES ASSUME NEW e \in Entries'
               PROVE  /\ e.type = "task" => e.id \in Posted
                      /\ e.type = "cancel" => \A r \in Reader : e.id \in Ids(r) => rd'[r] = "done"
    BY DEF EntriesOK, Posted, Ids
  <2>1. CASE e \in Entries
    BY <2>1 DEF KeepOK, EntriesOK, LoopMoves
  <2>2. CASE e \in {NoEntry, NextEntry}
    BY <2>2 DEF NoEntry, NextEntry, Entry
  <2> QED
    BY <2>1, <2>2 DEF LoopMoves
<1>2. WaitedFor'
  BY DEF KeepOK, WaitedFor, LoopMoves, Ids
<1>3. Kept'
  <2> SUFFICES ASSUME NEW r \in Reader, rd'[r] = "next", ~HasError(r)', NEW t \in Ids(r)
               PROVE  Somewhere(t)'
    BY DEF Kept, Ids
  <2>1. rd[r] = "next"
    BY DEF LoopMoves
  <2>2. ~HasError(r)
    BY ErrorElems DEF LoopMoves
  <2>3. Somewhere(t)
    BY <2>1, <2>2 DEF KeepOK, Kept
  <2> QED
    BY <2>1, <2>3 DEF LoopMoves
<1> QED
  BY <1>1, <1>2, <1>3 DEF KeepOK

LEMMA SendKeeps ==
  ASSUME TypeOK, NEW results \in Seq(ResultType), Send(results)
  PROVE  /\ Elems(queue_results) \subseteq Elems(queue_results')
         /\ \A t \in TaskId : answered[t] > 0 => answered'[t] > 0
         /\ \A x \in Elems(results) : x.id \in waiting_task_ids =>
               x \in Elems(queue_results') /\ answered'[x.id] > 0
         /\ waiting_task_ids' = waiting_task_ids
<1> DEFINE K == {k \in DOMAIN results : results[k].id \in waiting_task_ids}
           kept == Pick(results, K)
           H(t) == {k \in DOMAIN kept : kept[k].id = t}
<1>1. /\ queue_results' = queue_results \o kept
      /\ answered' = [t \in TaskId |-> answered[t] + Cardinality(H(t))]
      /\ waiting_task_ids' = waiting_task_ids
  BY DEF Send
<1>2. kept \in Seq(ResultType) /\ Elems(kept) = {results[k] : k \in K}
  BY PickFacts
<1> HIDE DEF kept
<1>3. queue_results \in Seq(ResultType) /\ answered \in [TaskId -> Nat]
  BY DEF TypeOK
<1>4. Elems(queue_results') = Elems(queue_results) \cup Elems(kept)
  BY <1>1, <1>2, <1>3, ElemsConcat
<1>5. ASSUME NEW t \in TaskId
      PROVE  IsFiniteSet(H(t)) /\ Cardinality(H(t)) \in Nat
  BY <1>2, ElemsFacts, FS_Subset, FS_CardinalityType
<1>6. ASSUME NEW t \in TaskId, answered[t] > 0 PROVE answered'[t] > 0
  <2>1. answered[t] \in Nat /\ answered'[t] = answered[t] + Cardinality(H(t))
    BY <1>1, <1>3
  <2> HIDE DEF H
  <2> QED
    BY <1>5, <1>6, <2>1
<1>7. ASSUME NEW x \in Elems(results), x.id \in waiting_task_ids
      PROVE  x \in Elems(queue_results') /\ answered'[x.id] > 0
  <2>1. x \in Elems(kept) /\ x \in ResultType
    BY <1>2, <1>7, ElemsFacts DEF Elems
  <2>2. PICK k \in DOMAIN kept : kept[k] = x
    BY <2>1 DEF Elems
  <2>3. x.id \in TaskId
    BY <2>1 DEF ResultType
  <2>4. k \in H(x.id)
    BY <2>2
  <2>5. answered[x.id] \in Nat /\ answered'[x.id] = answered[x.id] + Cardinality(H(x.id))
    BY <1>1, <1>3, <2>3
  <2> HIDE DEF H
  <2>6. H(x.id) # {}
    BY <2>4
  <2>7. Cardinality(H(x.id)) \in Nat /\ Cardinality(H(x.id)) # 0
    BY <1>5, <2>3, <2>6, FS_EmptySet
  <2>8. answered'[x.id] > 0
    BY <2>5, <2>7
  <2> QED
    BY <1>4, <2>1, <2>8
<1> QED
  BY <1>1, <1>4, <1>6, <1>7

(* Results and readers alone, entries alone, and every task where it was.  *)
LEMMA SilentMoves ==
  ASSUME UNCHANGED <<resultVars, readerVars>>,
         Entries' \subseteq Entries \cup {NoEntry, NextEntry},
         \A r \in Reader : \A t \in Ids(r) : rd[r] = "next" /\ Somewhere(t) => Somewhere(t)'
  PROVE  LoopMoves
BY DEF LoopMoves, resultVars, readerVars

LEMMA TakeMoves ==
  ASSUME IInv, Start \/ Take
  PROVE  LoopMoves
<1>0. UNCHANGED <<resultVars, readerVars, queue_tasks_deferred, slots>>
  BY DEF Start, Take
<1>1. CASE UNCHANGED <<queue_tasks, in_hand>>
  <2>1. Entries' = Entries /\ \A t : Somewhere(t)' = Somewhere(t)
    BY <1>0, <1>1 DEF Entries, Somewhere, resultVars
  <2> QED
    BY <1>0, <2>1, SilentMoves
<1>2. CASE queue_tasks # <<>> /\ in_hand' = Head(queue_tasks) /\ queue_tasks' = Tail(queue_tasks)
           /\ main = "take"
  <2>5. Elems(queue_tasks) = {Head(queue_tasks)} \cup Elems(Tail(queue_tasks))
    BY <1>2, ElemsHead DEF IInv, TypeOK
  <2>6. in_hand = NoEntry
    BY <1>2 DEF IInv, LoopOK
  <2>7. Entries' \subseteq Entries
    BY <1>0, <1>2, <2>5 DEF Entries
  <2>8. \A t : Somewhere(t) => Somewhere(t)'
    BY <1>0, <1>2, <2>5, <2>6, NoTaskEntry DEF Somewhere, InSeq, resultVars
  <2> QED
    BY <1>0, <2>7, <2>8, SilentMoves
<1> QED
  BY <1>1, <1>2 DEF Start, Take

LEMMA DeferMoves ==
  ASSUME IInv, HandleDefer
  PROVE  LoopMoves
<1>1. /\ in_hand.type = "task" /\ in_hand' = NoEntry
      /\ queue_tasks_deferred' = Append(queue_tasks_deferred, in_hand)
      /\ UNCHANGED <<queue_tasks, slots, resultVars, readerVars>>
  BY DEF HandleDefer, Handled, Defer
<1>2. Elems(queue_tasks_deferred') = Elems(queue_tasks_deferred) \cup {in_hand}
  BY <1>1, InHandFacts, ElemsAppend DEF IInv, TypeOK
<1>3. Entries' \subseteq Entries \cup {NoEntry}
  BY <1>1, <1>2 DEF Entries
<1>4. \A t : Somewhere(t) => Somewhere(t)'
  BY <1>1, <1>2 DEF Somewhere, InSeq, resultVars
<1> QED
  BY <1>1, <1>3, <1>4, SilentMoves

LEMMA UpdateMoves ==
  ASSUME IInv, Update
  PROVE  LoopMoves
<1>1. /\ queue_tasks' = queue_tasks \/ queue_tasks' = Append(queue_tasks, NextEntry)
      /\ UNCHANGED <<queue_tasks_deferred, in_hand, slots, resultVars, readerVars>>
  BY DEF Update, NextEntry
<1>2. Elems(Append(queue_tasks, NextEntry)) = Elems(queue_tasks) \cup {NextEntry}
  BY TaskFacts, ElemsAppend DEF IInv, TypeOK
<1>3. Elems(queue_tasks) \subseteq Elems(queue_tasks')
      /\ Elems(queue_tasks') \subseteq Elems(queue_tasks) \cup {NextEntry}
  BY <1>1, <1>2
<1>4. Entries' \subseteq Entries \cup {NextEntry}
  BY <1>1, <1>3 DEF Entries
<1>5. \A t : Somewhere(t) => Somewhere(t)'
  BY <1>1, <1>3 DEF Somewhere, InSeq, resultVars
<1> QED
  BY <1>1, <1>4, <1>5, SilentMoves

(* The slots that are released give queues the same tasks as before.       *)
LEMMA ReleaseMoves ==
  ASSUME IInv, IInv', NEW S, Release(S, queue_tasks), in_hand' \in {in_hand, NoEntry}
  PROVE  /\ Entries' \subseteq Entries \cup {NoEntry}
         /\ \A t \in TaskId : InSeq(queue_tasks, t) \/ InSeq(queue_tasks_deferred, t) =>
               InSeq(queue_tasks', t) \/ InSeq(queue_tasks_deferred', t)
         /\ \A t : RunningIn(slots', t) = RunningIn(slots, t) \ S
<1>1. Entries' \subseteq Entries \cup {NoEntry}
  BY ReleaseFacts DEF Entries, IInv
<1>2. ASSUME NEW t \in TaskId, InSeq(queue_tasks, t) \/ InSeq(queue_tasks_deferred, t)
      PROVE  InSeq(queue_tasks', t) \/ InSeq(queue_tasks_deferred', t)
  <2>1. /\ queue_tasks \in Seq(EntryType) /\ queue_tasks_deferred \in Seq(TaskType)
        /\ queue_tasks' \in Seq(EntryType) /\ queue_tasks_deferred' \in Seq(TaskType)
    BY DEF IInv, TypeOK
  <2>2. /\ Count(queue_tasks, t) \in Nat /\ Count(queue_tasks_deferred, t) \in Nat
        /\ Count(queue_tasks, t) # 0 <=> InSeq(queue_tasks, t)
        /\ Count(queue_tasks_deferred, t) # 0 <=> InSeq(queue_tasks_deferred, t)
    BY <2>1, CountFacts DEF InSeq
  <2>3. /\ Count(queue_tasks', t) \in Nat /\ Count(queue_tasks_deferred', t) \in Nat
        /\ Count(queue_tasks', t) # 0 <=> InSeq(queue_tasks', t)
        /\ Count(queue_tasks_deferred', t) # 0 <=> InSeq(queue_tasks_deferred', t)
    BY <2>1, CountFacts DEF InSeq
  <2>4. Count(queue_tasks', t) + Count(queue_tasks_deferred', t)
        = Count(queue_tasks, t) + Count(queue_tasks_deferred, t)
    BY ReleaseFacts DEF IInv
  <2> QED
    BY <1>2, <2>2, <2>3, <2>4
<1>3. \A t : RunningIn(slots', t) = RunningIn(slots, t) \ S
  BY ReleaseFacts, ReleaseRunning DEF IInv
<1> QED
  BY <1>1, <1>2, <1>3

LEMMA SlotActionMoves ==
  ASSUME IInv, KeepOK, HandleSlotAction
  PROVE  LoopMoves
<1> DEFINE p == in_hand.id
           results == <<Result(p, FALSE)>>
<1>1. /\ in_hand.type = "task" /\ in_hand' = NoEntry /\ Kind[p] = "slot"
      /\ UNCHANGED <<queue_tasks, queue_tasks_deferred, slots, readerVars>>
      /\ Send(results)
  BY DEF HandleSlotAction, Handled
<1>2. p \in TaskId /\ \A t : Holds(in_hand, t) <=> t \in Family(p)
  BY <1>1, InHandFacts
<1>3. Family(p) = {p}
  <2>1. Children[p] = <<>>
    BY <1>1, <1>2, ChildrenAssumption
  <2> QED
    BY <2>1 DEF Family, ChildrenOf, Elems
<1>4. results \in Seq(ResultType) /\ Result(p, FALSE) \in Elems(results)
      /\ Result(p, FALSE).id = p
  <2>1. Result(p, FALSE) \in ResultType /\ Result(p, FALSE).id = p
    BY <1>2 DEF Result, ResultType
  <2> QED
    BY <2>1, ElemsOne
<1> HIDE DEF results
<1>5. /\ Elems(queue_results) \subseteq Elems(queue_results')
      /\ \A t \in TaskId : answered[t] > 0 => answered'[t] > 0
      /\ p \in waiting_task_ids => answered'[p] > 0
      /\ waiting_task_ids' = waiting_task_ids
  BY <1>1, <1>4, SendKeeps DEF IInv
<1>6. Entries' \subseteq Entries \cup {NoEntry}
  BY <1>1 DEF Entries
<1>7. ASSUME NEW r \in Reader, NEW t \in Ids(r), rd[r] = "next", Somewhere(t) PROVE Somewhere(t)'
  <2>1. t \in TaskId /\ t \in waiting_task_ids
    BY <1>7, TaskFacts DEF KeepOK, WaitedFor
  <2>2. CASE Holds(in_hand, t)
    BY <1>2, <1>3, <1>5, <2>1, <2>2 DEF Somewhere
  <2>3. CASE ~Holds(in_hand, t)
    BY <1>1, <1>5, <1>7, <2>1, <2>3 DEF Somewhere
  <2> QED
    BY <2>2, <2>3
<1> QED
  BY <1>1, <1>5, <1>6, <1>7 DEF LoopMoves, readerVars

(* A failing launch gives an error to the request that owns the task.      *)
LEMMA LaunchFailMoves ==
  ASSUME IInv, IInv', KeepOK, HandleLaunchFail
  PROVE  LoopMoves
<1> DEFINE p == in_hand.id
           n == Len(Children[p])
<1>1. PICK s \in Candidates(p), k \in 1 .. n + 1 :
         /\ Send(<<Result(IF k <= n THEN Children[p][k] ELSE p, TRUE)>>)
         /\ Release(FreeSlots(s, k - 1), queue_tasks)
  BY DEF HandleLaunchFail
<1> DEFINE id == IF k <= n THEN Children[p][k] ELSE p
           results == <<Result(id, TRUE)>>
           S == FreeSlots(s, k - 1)
<1>2. in_hand.type = "task" /\ in_hand' = NoEntry /\ UNCHANGED readerVars
  BY DEF HandleLaunchFail, Handled
<1>3. /\ p \in TaskId /\ Children[p] \in Seq(TaskId) /\ n \in Nat /\ DOMAIN Children[p] = 1 .. n
      /\ \A t : Holds(in_hand, t) <=> t \in Family(p)
  BY <1>2, InHandFacts, TaskFacts, LenProperties
<1>4. id \in Family(p) /\ id \in TaskId
  <2>1. CASE k <= n
    <3>1. k \in DOMAIN Children[p]
      BY <1>3, <2>1
    <3> QED
      BY <1>3, <2>1, <3>1, ElementOfSeq DEF Family, ChildrenOf, Elems
  <2>2. CASE ~(k <= n)
    BY <1>3, <2>2 DEF Family
  <2> QED
    BY <2>1, <2>2
<1>5. Send(results) /\ Release(S, queue_tasks) /\ S \cap Busy = {}
  BY <1>1 DEF FreeSlots
<1> HIDE DEF id, S
<1>6. /\ results \in Seq(ResultType) /\ Result(id, TRUE) \in Elems(results)
      /\ Result(id, TRUE).id = id /\ Result(id, TRUE).error
  <2>1. Result(id, TRUE) \in ResultType /\ Result(id, TRUE).id = id /\ Result(id, TRUE).error
    BY <1>4 DEF Result, ResultType
  <2> QED
    BY <2>1, ElemsOne
<1> HIDE DEF results
<1>7. /\ Elems(queue_results) \subseteq Elems(queue_results')
      /\ \A t \in TaskId : answered[t] > 0 => answered'[t] > 0
      /\ id \in waiting_task_ids => Result(id, TRUE) \in Elems(queue_results')
      /\ waiting_task_ids' = waiting_task_ids
  BY <1>5, <1>6, SendKeeps DEF IInv
<1>8. /\ Entries' \subseteq Entries \cup {NoEntry}
      /\ \A t \in TaskId : InSeq(queue_tasks, t) \/ InSeq(queue_tasks_deferred, t) =>
            InSeq(queue_tasks', t) \/ InSeq(queue_tasks_deferred', t)
      /\ \A t : RunningIn(slots', t) = RunningIn(slots, t) \ S
  BY <1>2, <1>5, ReleaseMoves
<1>9. ASSUME NEW r \in Reader, NEW t \in Ids(r), rd[r] = "next", Somewhere(t)
      PROVE  Somewhere(t)' \/ HasError(r)'
  <2>1. t \in TaskId /\ Ids(r) \subseteq waiting_task_ids
    BY <1>9, TaskFacts DEF KeepOK, WaitedFor
  <2>2. CASE Holds(in_hand, t)
    <3>1. p \in Posted
      BY <1>2 DEF KeepOK, EntriesOK, Entries
    <3>2. id \in Ids(r)
      BY <1>3, <1>4, <2>2, <3>1, FamilyOwner
    <3>3. Result(id, TRUE) \in Elems(queue_results')
      BY <1>7, <2>1, <3>2
    <3> QED
      BY <1>6, <3>2, <3>3, ErrorElems
  <2>3. CASE ~Holds(in_hand, t)
    <3>1. RunningIn(slots', t) = RunningIn(slots, t)
      BY <1>5, <1>8 DEF RunningIn, Busy
    <3> QED
      BY <1>7, <1>8, <1>9, <2>1, <2>3, <3>1 DEF Somewhere
  <2> QED
    BY <2>2, <2>3
<1> QED
  BY <1>2, <1>7, <1>8, <1>9 DEF LoopMoves, readerVars

(* A CANCEL releases only slots of a request that has gone.                *)
LEMMA CancelMoves ==
  ASSUME IInv, IInv', KeepOK, HandleCancel \/ HandleNext
  PROVE  LoopMoves
<1>1. in_hand' = NoEntry /\ UNCHANGED <<resultVars, readerVars>> /\ \A t : ~Holds(in_hand, t)
  BY DEF HandleCancel, HandleNext, Handled, Holds
<1>2. CASE HandleCancel
  <2> DEFINE S == {s \in Busy : slots[s].task = in_hand.id}
  <2>1. /\ Entries' \subseteq Entries \cup {NoEntry}
        /\ \A t \in TaskId : InSeq(queue_tasks, t) \/ InSeq(queue_tasks_deferred, t) =>
              InSeq(queue_tasks', t) \/ InSeq(queue_tasks_deferred', t)
        /\ \A t : RunningIn(slots', t) = RunningIn(slots, t) \ S
    BY <1>1, <1>2, ReleaseMoves DEF HandleCancel
  <2>2. ASSUME NEW r \in Reader, NEW t \in Ids(r), rd[r] = "next", Somewhere(t) PROVE Somewhere(t)'
    <3>1. t # in_hand.id
      BY <1>2, <2>2 DEF KeepOK, EntriesOK, Entries, HandleCancel
    <3>2. RunningIn(slots', t) = RunningIn(slots, t)
      BY <2>1, <3>1 DEF RunningIn
    <3> QED
      BY <1>1, <2>1, <2>2, <3>2, TaskFacts DEF Somewhere, resultVars
  <2> QED
    BY <1>1, <2>1, <2>2, SilentMoves
<1>3. CASE HandleNext
  <2>1. Entries' \subseteq Entries \cup {NoEntry} /\ \A t : Somewhere(t) => Somewhere(t)'
    BY <1>1, <1>3 DEF HandleNext, Entries, Somewhere, resultVars
  <2> QED
    BY <1>1, <2>1, SilentMoves
<1> QED
  BY <1>2, <1>3

(* Each task of the family in hand gets a slot.                            *)
LEMMA LaunchMoves ==
  ASSUME IInv, HandleLaunch
  PROVE  LoopMoves
<1> DEFINE p == in_hand.id
           n == Len(Children[p])
<1>1. PICK s \in Candidates(p) :
         LET S == FreeSlots(s, n)
         IN  /\ Cardinality(S) = n
             /\ slots' = [x \in Slot |->
                  IF x = s THEN Launched("started", p)
                  ELSE IF x \in S THEN Launched("wait_other", Children[p][Rank(S, x)])
                  ELSE slots[x]]
  BY DEF HandleLaunch
<1> DEFINE S == FreeSlots(s, n)
<1>2. /\ in_hand.type = "task" /\ in_hand' = NoEntry
      /\ UNCHANGED <<queue_tasks, queue_tasks_deferred, resultVars, readerVars>>
  BY DEF HandleLaunch, Handled
<1>3. /\ p \in TaskId /\ Children[p] \in Seq(TaskId) /\ n \in Nat /\ DOMAIN Children[p] = 1 .. n
      /\ \A t : Holds(in_hand, t) <=> t \in Family(p)
  BY <1>2, InHandFacts, TaskFacts, LenProperties
<1>4. S \in SUBSET Int /\ IsFiniteSet(S) /\ Cardinality(S) = n /\ S \subseteq Slot \ (Busy \cup {s})
  BY <1>1, BusyFacts, FS_Subset DEF FreeSlots, IInv
<1>5. s \in Slot \ Busy
  BY <1>3, TasksAssumption DEF Candidates
<1>6. slots' = [x \in Slot |->
                  IF x = s THEN Launched("started", p)
                  ELSE IF x \in S THEN Launched("wait_other", Children[p][Rank(S, x)])
                  ELSE slots[x]]
  BY <1>1
<1> HIDE DEF S
<1>7. ASSUME NEW t \in Family(p) PROVE RunningIn(slots', t) # {}
  <2>1. CASE t = p
    <3>1. s \in RunningIn(slots', t)
      BY <1>5, <1>6, <2>1 DEF RunningIn, Launched
    <3> QED
      BY <3>1
  <2>2. CASE t # p
    <3>1. PICK k \in 1 .. n : t = Children[p][k]
      BY <1>3, <2>2 DEF Family, ChildrenOf, Elems
    <3>2. Nth(S, k) \in S /\ Rank(S, Nth(S, k)) = k
      BY <1>4, <3>1, NthFacts
    <3>3. PICK x \in S : Rank(S, x) = k
      BY <3>2
    <3>4. x \in Slot /\ x # s
      BY <1>4
    <3>5. slots'[x] = Launched("wait_other", t)
      BY <1>6, <3>1, <3>3, <3>4
    <3>6. x \in RunningIn(slots', t)
      BY <3>4, <3>5 DEF RunningIn, Launched
    <3> QED
      BY <3>6
  <2> QED
    BY <2>1, <2>2
<1>8. ASSUME NEW t PROVE RunningIn(slots, t) \subseteq RunningIn(slots', t)
  BY <1>4, <1>5, <1>6 DEF RunningIn, Busy
<1>9. \A t : Somewhere(t) => Somewhere(t)'
  BY <1>2, <1>3, <1>7, <1>8 DEF Somewhere, resultVars
<1>10. Entries' \subseteq Entries \cup {NoEntry}
  BY <1>2 DEF Entries
<1> QED
  BY <1>2, <1>9, <1>10, SilentMoves

(* Slots that leave answer their tasks.                                    *)
LEMMA LeaveMoves ==
  ASSUME IInv, IInv', KeepOK, InUpdate, NEW S \in SUBSET Busy, NEW error \in BOOLEAN,
         Leave(S, error)
  PROVE  LoopMoves
<1> DEFINE results == [k \in 1 .. Cardinality(S) |-> Result(slots[Nth(S, k)].task, error)]
<1>1. TypeOK /\ UNCHANGED <<in_hand, readerVars>>
  BY DEF IInv, InUpdate
<1>2. S \in SUBSET Int /\ S \in SUBSET Slot /\ IsFiniteSet(S) /\ \A s \in S : slots[s] \in SlotType
  BY <1>1, BusyFacts, FS_Subset
<1>3. /\ Cardinality(S) \in Nat
      /\ \A k \in 1 .. Cardinality(S) : Nth(S, k) \in S /\ Rank(S, Nth(S, k)) = k
      /\ \A s \in S : Nth(S, Rank(S, s)) = s /\ Rank(S, s) \in 1 .. Cardinality(S)
  BY <1>2, NthFacts, RankFacts, FS_CardinalityType
<1>4. \A s \in S : Result(slots[s].task, error) \in ResultType
  BY <1>2 DEF SlotType, Result, ResultType
<1>5. results \in [1 .. Cardinality(S) -> ResultType]
  BY <1>3, <1>4
<1>6. results \in Seq(ResultType)
  BY <1>3, <1>5, SeqDef
<1>7. \A s \in S : Result(slots[s].task, error) \in Elems(results)
  <2> SUFFICES ASSUME NEW s \in S PROVE Result(slots[s].task, error) \in Elems(results)
    OBVIOUS
  <2>1. PICK k \in 1 .. Cardinality(S) : Nth(S, k) = s
    BY <1>3
  <2>2. k \in DOMAIN results /\ results[k] = Result(slots[s].task, error)
    BY <2>1
  <2> HIDE DEF results
  <2> QED
    BY <2>2 DEF Elems
<1>8. Send(results) /\ Release(S, queue_tasks)
  BY DEF Leave
<1> HIDE DEF results
<1>9. /\ Elems(queue_results) \subseteq Elems(queue_results')
      /\ \A t \in TaskId : answered[t] > 0 => answered'[t] > 0
      /\ \A x \in Elems(results) : x.id \in waiting_task_ids => answered'[x.id] > 0
      /\ waiting_task_ids' = waiting_task_ids
  BY <1>1, <1>6, <1>8, SendKeeps
<1>10. /\ Entries' \subseteq Entries \cup {NoEntry}
       /\ \A t \in TaskId : InSeq(queue_tasks, t) \/ InSeq(queue_tasks_deferred, t) =>
             InSeq(queue_tasks', t) \/ InSeq(queue_tasks_deferred', t)
       /\ \A t : RunningIn(slots', t) = RunningIn(slots, t) \ S
  BY <1>1, <1>8, ReleaseMoves
<1>11. ASSUME NEW r \in Reader, NEW t \in Ids(r), rd[r] = "next", Somewhere(t) PROVE Somewhere(t)'
  <2>1. t \in TaskId /\ t \in waiting_task_ids
    BY <1>11, TaskFacts DEF KeepOK, WaitedFor
  <2>2. CASE \E s \in S : slots[s].task = t
    <3>1. PICK s \in S : slots[s].task = t
      BY <2>2
    <3>2. Result(t, error) \in Elems(results) /\ Result(t, error).id = t
      BY <1>7, <3>1 DEF Result
    <3> QED
      BY <1>9, <2>1, <3>2 DEF Somewhere
  <2>3. CASE \A s \in S : slots[s].task # t
    <3>1. RunningIn(slots', t) = RunningIn(slots, t)
      BY <1>10, <2>3 DEF RunningIn
    <3> QED
      BY <1>1, <1>9, <1>10, <1>11, <2>1, <3>1 DEF Somewhere
  <2> QED
    BY <2>2, <2>3
<1> QED
  BY <1>1, <1>9, <1>10, <1>11 DEF LoopMoves, readerVars

LEMMA SlotMoves ==
  ASSUME IInv, IInv', KeepOK, NEW s \in Slot,
         SlotStay(s) \/ PromptDone(s) \/ Finish(s) \/ EmptyPrompt(s) \/ SlotError(s)
  PROVE  LoopMoves
<1>1. /\ TypeOK /\ InUpdate /\ s \in todo /\ todo \subseteq Busy
      /\ slots \in [Slot -> SlotType \cup {Idle}]
  BY DEF IInv, TypeOK, SlotStay, PromptDone, Finish, EmptyPrompt, SlotError
<1>2. slots[s] \in SlotType /\ {s} \in SUBSET Busy
  BY <1>1, BusyFacts
<1>3. ASSUME UNCHANGED <<queue_tasks, queue_tasks_deferred, in_hand, resultVars, readerVars>>,
             \A x \in Slot : slots'[x].state = "idle" <=> slots[x].state = "idle",
             \A x \in Slot : slots[x].state # "idle" => slots'[x].task = slots[x].task
      PROVE  LoopMoves
  <2>1. \A t : RunningIn(slots', t) = RunningIn(slots, t)
    BY <1>3 DEF RunningIn
  <2>2. Entries' = Entries /\ \A t : Somewhere(t) => Somewhere(t)'
    BY <1>3, <2>1 DEF Entries, Somewhere, resultVars
  <2> QED
    BY <1>3, <2>2, SilentMoves
<1>4. CASE SlotStay(s)
  <2>1. slots' = slots \/ slots' = [slots EXCEPT ![s].left = slots[s].left - 1]
    BY <1>4 DEF SlotStay
  <2>2. \A x \in Slot : slots'[x].state = slots[x].state /\ slots'[x].task = slots[x].task
    BY <1>1, <1>2, <2>1 DEF SlotType
  <2> QED
    BY <1>1, <1>3, <1>4, <2>2 DEF SlotStay, InUpdate
<1>5. CASE PromptDone(s)
  <2> DEFINE S == {s} \cup Waiters(slots[s].task)
  <2>1. \A x \in S : slots[x].state # "idle"
    BY <1>2 DEF Waiters, Busy
  <2>2. slots' = [x \in Slot |-> IF x \in S THEN Launched("generating", slots[x].task) ELSE slots[x]]
    BY <1>5 DEF PromptDone
  <2> HIDE DEF S
  <2>3. /\ \A x \in Slot : slots'[x].state = "idle" <=> slots[x].state = "idle"
        /\ \A x \in Slot : slots[x].state # "idle" => slots'[x].task = slots[x].task
    BY <2>1, <2>2 DEF Launched
  <2> QED
    BY <1>1, <1>3, <1>5, <2>3 DEF PromptDone, InUpdate
<1>6. CASE Finish(s) \/ EmptyPrompt(s) \/ SlotError(s)
  BY <1>1, <1>2, <1>6, LeaveMoves DEF Finish, EmptyPrompt, SlotError
<1> QED
  BY <1>4, <1>5, <1>6, <1>1

LEMMA LoopMove ==
  ASSUME IInv, IInv', KeepOK, Loop \/ Terminate
  PROVE  LoopMoves
<1>1. CASE Start \/ Take
  BY <1>1, TakeMoves
<1>2. CASE HandleDefer \/ HandleSlotAction \/ HandleLaunch \/ HandleLaunchFail
             \/ HandleCancel \/ HandleNext
  BY <1>2, DeferMoves, SlotActionMoves, LaunchMoves, LaunchFailMoves, CancelMoves
<1>3. CASE Update
  BY <1>3, UpdateMoves
<1>4. CASE DecodeError
  BY <1>4, LeaveMoves DEF DecodeError
<1>5. CASE \E s \in Slot : SlotStay(s) \/ PromptDone(s) \/ Finish(s) \/ EmptyPrompt(s) \/ SlotError(s)
  BY <1>5, SlotMoves
<1>6. CASE UpdateEnd \/ IdleCheck \/ WaitWake \/ WaitTimeout \/ SleepWake \/ Terminate
  <2>1. UNCHANGED <<queue_tasks, queue_tasks_deferred, in_hand, slots, resultVars, readerVars>>
    BY <1>6 DEF UpdateEnd, InUpdate, IdleCheck, WaitWake, WaitTimeout, SleepWake, InWait,
                Terminate, loopVars
  <2>2. Entries' = Entries /\ \A t : Somewhere(t) => Somewhere(t)'
    BY <2>1 DEF Entries, Somewhere, resultVars
  <2> QED
    BY <2>1, <2>2, SilentMoves
<1> QED
  BY <1>1, <1>2, <1>3, <1>4, <1>5, <1>6 DEF Loop

-----------------------------------------------------------------------------
(* The readers.                                                            *)

(* A reader that moves neither tasks nor results.                          *)
LEMMA StillReaderKeep ==
  ASSUME IInv, KeepOK, NEW r \in Reader,
         Arrive(r) \/ Awake(r) \/ Subscribe(r) \/ Disconnect(r) \/ Stop(r)
  PROVE  KeepOK'
<1>1. /\ UNCHANGED <<queue_tasks, queue_tasks_deferred, in_hand, slots, answered, queue_results>>
      /\ \/ waiting_task_ids' = waiting_task_ids /\ ~Subscribe(r)
         \/ waiting_task_ids' = waiting_task_ids \cup Ids(r) /\ Subscribe(r)
         \/ waiting_task_ids' = waiting_task_ids \ Ids(r) /\ Stop(r)
  BY DEF Arrive, Awake, Subscribe, Disconnect, Stop, At, queueVars, loopVars, resultVars
<1>2. rd \in [Reader -> Where]
  BY ReaderTypes
<1>3. /\ \A x \in Reader : x # r => rd'[x] = rd[x]
      /\ rd[r] # "done" /\ rd'[r] # "next"
      /\ rd'[r] = "post" => Subscribe(r)
      /\ Stop(r) => rd'[r] \notin {"post", "next"}
  BY <1>2 DEF Arrive, Awake, Subscribe, Disconnect, Stop, At
<1>4. EntriesOK'
  <2>1. Entries' = Entries
    BY <1>1 DEF Entries
  <2> QED
    BY <1>3, <2>1 DEF KeepOK, EntriesOK, Posted, Ids
<1>5. WaitedFor'
  <2> SUFFICES ASSUME NEW x \in Reader, rd'[x] \in {"post", "next"}
               PROVE  Ids(x) \subseteq waiting_task_ids'
    BY DEF WaitedFor, Ids
  <2>1. CASE x = r
    BY <1>1, <1>3, <2>1
  <2>2. CASE x # r
    <3>1. Ids(x) \subseteq waiting_task_ids /\ Ids(x) \cap Ids(r) = {}
      BY <1>3, <2>2, OwnIds DEF KeepOK, WaitedFor
    <3> QED
      BY <1>1, <3>1
  <2> QED
    BY <2>1, <2>2
<1>6. Kept'
  <2> SUFFICES ASSUME NEW x \in Reader, rd'[x] = "next", ~HasError(x)', NEW t \in Ids(x)
               PROVE  Somewhere(t)'
    BY DEF Kept, Ids
  <2>1. rd[x] = "next" /\ ~HasError(x)
    BY <1>1, <1>3, ErrorElems
  <2>2. Somewhere(t)
    BY <2>1 DEF KeepOK, Kept
  <2> QED
    BY <1>1, <2>2 DEF Somewhere
<1> QED
  BY <1>4, <1>5, <1>6 DEF KeepOK

(* Results of one reader go; what the others find stays.                   *)
LEMMA ResultsGoKeep ==
  ASSUME IInv, KeepOK, NEW r \in Reader, Receive(r) \/ Purge(r)
  PROVE  KeepOK'
<1>1. rd \in [Reader -> Where] /\ queue_results \in Seq(ResultType)
  BY ReaderTypes
<1>2. /\ UNCHANGED <<queue_tasks, queue_tasks_deferred, in_hand, slots, answered, waiting_task_ids>>
      /\ \A x \in Reader : x # r => rd'[x] = rd[x]
      /\ rd[r] # "done"
      /\ rd'[r] \in {"post", "next"} => rd[r] = "next" /\ rd'[r] = "next" /\ Receive(r)
  BY <1>1 DEF Receive, Purge, At, queueVars, loopVars
<1>3. /\ \A e \in Elems(queue_results) : e.id \notin Ids(r) => e \in Elems(queue_results')
      /\ rd'[r] = "next" => \A e \in Elems(queue_results) : e.error => e \in Elems(queue_results')
  <2>1. CASE Purge(r)
    <3> DEFINE K == {k \in DOMAIN queue_results : queue_results[k].id \notin Ids(r)}
    <3>1. Elems(queue_results') = {queue_results[k] : k \in K}
      BY <1>1, <2>1, PickFacts DEF Purge
    <3>2. rd'[r] # "next"
      BY <1>1, <2>1 DEF Purge, At
    <3> QED
      BY <3>1, <3>2 DEF Elems
  <2>2. CASE Receive(r)
    <3> DEFINE k == CHOOSE i \in Mine(r) : \A j \in Mine(r) : i <= j
    <3>1. k \in DOMAIN queue_results /\ queue_results[k].id \in Ids(r)
      <4>1. Mine(r) \in SUBSET Int /\ IsFiniteSet(Mine(r)) /\ Mine(r) # {}
        BY <1>1, <2>2, ElemsFacts, FS_Subset DEF Mine, Receive
      <4>2. \E i \in Mine(r) : \A j \in Mine(r) : i <= j
        BY <4>1, LeastElement
      <4> QED
        BY <4>2 DEF Mine
    <3>2. queue_results' = Drop(queue_results, k) /\ (queue_results[k].error => rd'[r] = "stop")
      BY <1>1, <2>2 DEF Receive, At
    <3> HIDE DEF k
    <3>3. Elems(queue_results') = {queue_results[j] : j \in DOMAIN queue_results \ {k}}
      BY <1>1, <3>2, PickFacts DEF Drop
    <3>4. \A e \in Elems(queue_results) : e = queue_results[k] \/ e \in Elems(queue_results')
      BY <3>3 DEF Elems
    <3> QED
      BY <3>1, <3>2, <3>4
  <2> QED
    BY <2>1, <2>2
<1>4. EntriesOK'
  <2>1. Entries' = Entries
    BY <1>2 DEF Entries
  <2> QED
    BY <1>2, <2>1 DEF KeepOK, EntriesOK, Posted, Ids
<1>5. WaitedFor'
  BY <1>2 DEF KeepOK, WaitedFor, Ids
<1>6. Kept'
  <2> SUFFICES ASSUME NEW x \in Reader, rd'[x] = "next", ~HasError(x)', NEW t \in Ids(x)
               PROVE  Somewhere(t)'
    BY DEF Kept, Ids
  <2>1. rd[x] = "next"
    BY <1>2
  <2>2. ~HasError(x)
    <3> SUFFICES ASSUME NEW e \in Elems(queue_results), e.id \in Ids(x), e.error PROVE FALSE
      BY ErrorElems
    <3>1. e \in Elems(queue_results')
      BY <1>3, OwnIds
    <3> QED
      BY <3>1, ErrorElems
  <2>3. Somewhere(t)
    BY <2>1, <2>2 DEF KeepOK, Kept
  <2> QED
    BY <1>2, <2>3 DEF Somewhere
<1> QED
  BY <1>4, <1>5, <1>6 DEF KeepOK

LEMMA PostKeep ==
  ASSUME IInv, KeepOK, NEW r \in Reader, PostTasks(r)
  PROVE  KeepOK'
<1> DEFINE p == [k \in DOMAIN Post[r] |-> TaskEntry(Post[r][k])]
<1>1. /\ queue_tasks' = queue_tasks \o p
      /\ UNCHANGED <<queue_tasks_deferred, in_hand, slots, answered, queue_results, waiting_task_ids>>
      /\ rd[r] = "post" /\ rd' = [rd EXCEPT ![r] = "next"]
  BY DEF PostTasks, At, loopVars, resultVars
<1>2. p \in Seq(EntryType)
  <2>1. /\ Post[r] \in [1 .. Len(Post[r]) -> TaskId] /\ Len(Post[r]) \in Nat
        /\ DOMAIN Post[r] = 1 .. Len(Post[r])
    BY TaskFacts, LenProperties
  <2>2. p \in [1 .. Len(Post[r]) -> EntryType]
    BY <2>1, TaskFacts
  <2> QED
    BY <2>1, <2>2, SeqDef
<1>3. /\ \A e \in Elems(p) : e.type = "task" /\ e.id \in Posted
      /\ \A t \in Ids(r) : InSeq(p, t)
  <2>1. \A e \in Elems(p) : e.type = "task" /\ e.id \in Posted
    <3>1. ASSUME NEW k \in DOMAIN Post[r] PROVE p[k].type = "task" /\ p[k].id \in Posted
      <4>1. Post[r][k] \in Posted
        BY DEF Elems, Posted
      <4> QED
        BY <4>1 DEF TaskEntry, Entry
    <3>2. DOMAIN p = DOMAIN Post[r]
      OBVIOUS
    <3> HIDE DEF p
    <3> QED
      BY <3>1, <3>2 DEF Elems
  <2>2. ASSUME NEW t \in Ids(r) PROVE InSeq(p, t)
    <3>1. PICK k \in DOMAIN Post[r] : t \in Family(Post[r][k])
      BY DEF Ids, Elems
    <3>2. k \in DOMAIN p /\ Holds(p[k], t)
      BY <3>1 DEF TaskEntry, Entry, Holds
    <3> QED
      BY <3>2 DEF InSeq, Elems
  <2> QED
    BY <2>1, <2>2
<1> HIDE DEF p
<1>4. Elems(queue_tasks') = Elems(queue_tasks) \cup Elems(p)
  BY <1>1, <1>2, ElemsConcat DEF IInv, TypeOK
<1>5. rd'[r] = "next" /\ \A x \in Reader : x # r => rd'[x] = rd[x]
  BY <1>1, ReaderTypes
<1>6. EntriesOK'
  <2> SUFFICES ASSUME NEW e \in Entries'
               PROVE  /\ e.type = "task" => e.id \in Posted
                      /\ e.type = "cancel" => \A x \in Reader : e.id \in Ids(x) => rd'[x] = "done"
    BY DEF EntriesOK, Posted, Ids
  <2>1. e \in Entries \/ e \in Elems(p)
    BY <1>1, <1>4 DEF Entries
  <2> QED
    BY <1>1, <1>3, <1>5, <2>1 DEF KeepOK, EntriesOK
<1>7. WaitedFor'
  <2> SUFFICES ASSUME NEW x \in Reader, rd'[x] \in {"post", "next"}
               PROVE  Ids(x) \subseteq waiting_task_ids
    BY <1>1 DEF WaitedFor, Ids
  <2> QED
    BY <1>1, <1>5 DEF KeepOK, WaitedFor
<1>8. Kept'
  <2> SUFFICES ASSUME NEW x \in Reader, rd'[x] = "next", ~HasError(x)', NEW t \in Ids(x)
               PROVE  Somewhere(t)'
    BY DEF Kept, Ids
  <2>1. CASE x = r
    BY <1>3, <1>4, <2>1 DEF Somewhere, InSeq
  <2>2. CASE x # r
    <3>1. rd[x] = "next" /\ ~HasError(x)
      BY <1>1, <1>5, <2>2, ErrorElems
    <3>2. Somewhere(t)
      BY <3>1 DEF KeepOK, Kept
    <3> QED
      BY <1>1, <1>4, <3>2 DEF Somewhere, InSeq
  <2> QED
    BY <2>1, <2>2
<1> QED
  BY <1>6, <1>7, <1>8 DEF KeepOK

(* A request takes only its own tasks out of the queues.                   *)
LEMMA CancelKeep ==
  ASSUME IInv, KeepOK, NEW r \in Reader, Cancel(r)
  PROVE  KeepOK'
<1> DEFINE w == Without(queue_tasks, Ids(r))
<1>1. PICK f \in Orders(Ids(r)) :
        queue_tasks' = [k \in DOMAIN f |-> Entry("cancel", f[k])] \o w
  BY DEF Cancel
<1> DEFINE c == [k \in DOMAIN f |-> Entry("cancel", f[k])]
<1>2. /\ queue_tasks' = c \o w
      /\ queue_tasks_deferred' = Without(queue_tasks_deferred, Ids(r))
      /\ UNCHANGED <<in_hand, slots, answered, queue_results, waiting_task_ids>>
      /\ rd[r] = "cancel" /\ rd' = [rd EXCEPT ![r] = "done"]
  BY <1>1 DEF Cancel, At, loopVars, resultVars
<1>3. c \in Seq(EntryType) /\ \A e \in Elems(c) : e.type = "cancel" /\ e.id \in Ids(r)
  <2>1. Cardinality(Ids(r)) \in Nat /\ Ids(r) \subseteq TaskId
    BY TaskFacts, FS_CardinalityType
  <2>2. f \in [1 .. Cardinality(Ids(r)) -> Ids(r)]
    BY DEF Orders
  <2>3. c \in [1 .. Cardinality(Ids(r)) -> EntryType]
    BY <2>1, <2>2, TaskFacts
  <2>4. \A k \in DOMAIN c : c[k].type = "cancel" /\ c[k].id \in Ids(r)
    BY <2>2 DEF Entry
  <2> QED
    BY <2>1, <2>3, <2>4, SeqDef DEF Elems
<1> HIDE DEF c
<1>4. /\ queue_tasks \in Seq(EntryType) /\ queue_tasks_deferred \in Seq(TaskType)
      /\ w \in Seq(EntryType)
  BY ReaderTypes, WithoutFacts
<1>5. ASSUME NEW E, NEW q \in Seq(E)
      PROVE  /\ Elems(Without(q, Ids(r))) \subseteq Elems(q)
             /\ \A e \in Elems(q) : e.id \notin Ids(r) => e \in Elems(Without(q, Ids(r)))
  <2> DEFINE K == {k \in DOMAIN q : ~(q[k].type = "task" /\ q[k].id \in Ids(r))}
  <2>1. Elems(Pick(q, K)) = {q[k] : k \in K}
    BY PickFacts
  <2> QED
    BY <2>1 DEF Without, Elems
<1>6. Elems(queue_tasks') = Elems(c) \cup Elems(w)
  <2> HIDE DEF w
  <2> QED
    BY <1>2, <1>3, <1>4, ElemsConcat
<1>7. rd'[r] = "done" /\ \A x \in Reader : x # r => rd'[x] = rd[x]
  BY <1>2, ReaderTypes
<1>8. Entries' \subseteq Entries \cup Elems(c)
  BY <1>2, <1>4, <1>5, <1>6 DEF Entries
<1>9. EntriesOK'
  <2> SUFFICES ASSUME NEW e \in Entries'
               PROVE  /\ e.type = "task" => e.id \in Posted
                      /\ e.type = "cancel" => \A x \in Reader : e.id \in Ids(x) => rd'[x] = "done"
    BY DEF EntriesOK, Posted, Ids
  <2>1. CASE e \in Entries
    BY <1>7, <2>1 DEF KeepOK, EntriesOK
  <2>2. CASE e \in Elems(c)
    <3>1. \A x \in Reader : e.id \in Ids(x) => x = r
      BY <1>3, <2>2, OwnIds
    <3> QED
      BY <1>3, <1>7, <2>2, <3>1
  <2> QED
    BY <1>8, <2>1, <2>2
<1>10. WaitedFor'
  BY <1>2, <1>7 DEF KeepOK, WaitedFor, Ids
<1>11. Kept'
  <2> SUFFICES ASSUME NEW x \in Reader, rd'[x] = "next", ~HasError(x)', NEW t \in Ids(x)
               PROVE  Somewhere(t)'
    BY DEF Kept, Ids
  <2>1. x # r /\ rd[x] = "next" /\ ~HasError(x)
    BY <1>2, <1>7, ErrorElems
  <2>2. Somewhere(t)
    BY <2>1 DEF KeepOK, Kept
  <2>3. ASSUME NEW e \in Entries, Holds(e, t) PROVE e.id \notin Ids(r)
    <3>1. e.id \in Posted /\ t \in Family(e.id) /\ e.id \in Family(e.id)
      BY <2>3 DEF KeepOK, EntriesOK, Holds, Family
    <3>2. e.id \in Ids(x)
      BY <3>1, FamilyOwner
    <3> QED
      BY <2>1, <3>2, OwnIds
  <2>4. InSeq(queue_tasks, t) => InSeq(queue_tasks', t)
    BY <1>4, <1>5, <1>6, <2>3 DEF InSeq, Entries
  <2>5. InSeq(queue_tasks_deferred, t) => InSeq(queue_tasks_deferred', t)
    BY <1>2, <1>4, <1>5, <2>3 DEF InSeq, Entries
  <2> QED
    BY <1>2, <2>2, <2>4, <2>5 DEF Somewhere
<1> QED
  BY <1>9, <1>10, <1>11 DEF KeepOK

LEMMA InitKeep == Init => KeepOK
<1> SUFFICES ASSUME Init PROVE KeepOK
  OBVIOUS
<1>1. Elems(<<>>) = {}
  BY DEF Elems
<1>2. Entries = {NoEntry} /\ \A r \in Reader : rd[r] = "new"
  BY <1>1 DEF Init, Entries
<1> QED
  BY <1>2 DEF KeepOK, EntriesOK, WaitedFor, Kept, NoEntry, Entry

LEMMA StepKeep == IInv /\ IInv' /\ KeepOK /\ [Next]_vars => KeepOK'
<1> SUFFICES ASSUME IInv, IInv', KeepOK, [Next]_vars PROVE KeepOK'
  OBVIOUS
<1>1. CASE Loop \/ Terminate
  BY <1>1, LoopMove, LoopKeep
<1>2. CASE \E r \in Reader : ReaderStep(r) \/ Disconnect(r)
  BY <1>2, StillReaderKeep, ResultsGoKeep, PostKeep, CancelKeep DEF ReaderStep
<1>3. CASE UNCHANGED vars
  <2>1. UNCHANGED <<queue_tasks, queue_tasks_deferred, in_hand, slots, resultVars, readerVars>>
    BY <1>3 DEF vars, queueVars, loopVars
  <2>2. Entries' = Entries /\ \A t : Somewhere(t) => Somewhere(t)'
    BY <2>1 DEF Entries, Somewhere, resultVars
  <2> QED
    BY <2>1, <2>2, SilentMoves, LoopKeep
<1> QED
  BY <1>1, <1>2, <1>3 DEF Next

LEMMA Keeping == Spec => []KeepOK
<1>1. Init => KeepOK
  BY InitKeep
<1>2. IInv /\ IInv' /\ KeepOK /\ [Next]_vars => KeepOK'
  BY StepKeep
<1> QED
  BY <1>1, <1>2, Invariance, PTL DEF Spec

(* Whatever is deferred, fails, is cancelled or shut down: as long as a    *)
(* request waits and no error is queued for it, each of its tasks is in    *)
(* exactly one place - a queue, the hand of the loop, a slot - or answered.*)
THEOREM TasksKept == Spec => []NeverLost
<1>1. IInv /\ OnceOK /\ KeepOK => NeverLost
  <2> SUFFICES ASSUME IInv, OnceOK, KeepOK, NEW r \in Reader, rd[r] = "next", ~HasError(r),
                      NEW t \in Ids(r)
               PROVE  Places(t) = 1
    BY DEF NeverLost
  <2>1. t \in TaskId
    BY TaskFacts
  <2>2. Places(t) >= 1
    BY <2>1, SomewherePlaces DEF KeepOK, Kept
  <2>3. Places(t) <= 1 /\ Places(t) \in Nat
    BY <2>1, PlacesSplit, PlacesNat DEF OnceOK, IInv, TypeOK
  <2> QED
    BY <2>2, <2>3
<1> QED
  BY <1>1, Invariance, Accounting, Keeping, PTL

-----------------------------------------------------------------------------
(* A child slot is not forgotten.  A request that has stopped waiting does *)
(* not wait for its tasks again, and a task is in one slot only: once the  *)
(* parent has left its slot it is in none, and it was answered or is not   *)
(* waited for.                                                             *)

Dropped == \A r \in Reader : rd[r] \in {"purge", "cancel", "done"} => Ids(r) \cap waiting_task_ids = {}

Prompting(sl, p) == \E x \in Slot : sl[x].state = "started" /\ sl[x].task = p
Over(sl, a, W, p) == RunningIn(sl, p) = {} /\ (a[p] > 0 \/ p \notin W)
Minded(sl, a, W, p) == Prompting(sl, p) \/ Over(sl, a, W, p)
HasParent(sl, a, W, w) == \E p \in Posted : sl[w].task \in ChildrenOf(p) /\ Minded(sl, a, W, p)

LEMMA ParentIs ==
  /\ WaitingChildHasParent <=>
       \A w \in Slot : slots[w].state = "wait_other" => HasParent(slots, answered, waiting_task_ids, w)
  /\ WaitingChildHasParent' <=>
       \A w \in Slot : slots'[w].state = "wait_other" => HasParent(slots', answered', waiting_task_ids', w)
<1>1. \A t : Running(t) = RunningIn(slots, t) /\ Running(t)' = RunningIn(slots', t)
  BY DEF Running, Busy, RunningIn
<1>2. \A p : /\ Minded(slots, answered, waiting_task_ids, p) <=>
                   \/ \E x \in Slot : slots[x].state = "started" /\ slots[x].task = p
                   \/ Running(p) = {} /\ (answered[p] > 0 \/ p \notin waiting_task_ids)
             /\ Minded(slots', answered', waiting_task_ids', p) <=>
                   \/ \E x \in Slot : slots'[x].state = "started" /\ slots'[x].task = p
                   \/ Running(p)' = {} /\ (answered'[p] > 0 \/ p \notin waiting_task_ids')
  BY <1>1 DEF Minded, Prompting, Over
<1>3. WaitingChildHasParent' <=>
        \A s \in Slot : slots'[s].state = "wait_other" =>
          \E p \in Posted :
            /\ slots'[s].task \in ChildrenOf(p)
            /\ \/ \E x \in Slot : slots'[x].state = "started" /\ slots'[x].task = p
               \/ Running(p)' = {} /\ (answered'[p] > 0 \/ p \notin waiting_task_ids')
  BY DEF WaitingChildHasParent, Posted, ChildrenOf
<1> QED
  BY <1>2, <1>3 DEF WaitingChildHasParent, HasParent

LEMMA PostedTask ==
  ASSUME NEW p \in Posted
  PROVE  p \in TaskId /\ \E r \in Reader : p \in Ids(r)
<1>1. PICK r \in Reader : p \in Elems(Post[r])
  BY DEF Posted
<1>2. p \in Ids(r)
  BY <1>1 DEF Ids, Family
<1> QED
  BY <1>2, TaskFacts

LEMMA DroppedStep == IInv /\ IInv' /\ Dropped /\ [Next]_vars => Dropped'
<1> SUFFICES ASSUME IInv, IInv', Dropped, [Next]_vars PROVE Dropped'
  OBVIOUS
<1>1. CASE UNCHANGED <<rd, waiting_task_ids>>
  BY <1>1 DEF Dropped, Ids
<1>2. Loop \/ Terminate => UNCHANGED <<rd, waiting_task_ids>>
  BY LoopShrinks DEF Sends, readerVars
<1>3. UNCHANGED vars => UNCHANGED <<rd, waiting_task_ids>>
  BY DEF vars, readerVars, resultVars
<1>4. ASSUME NEW r \in Reader, ReaderStep(r) \/ Disconnect(r) PROVE Dropped'
  <2>0. rd \in [Reader -> Where]
    BY ReaderTypes
  <2>1. CASE Subscribe(r)
    <3>1. /\ rd[r] = "build" /\ rd' = [rd EXCEPT ![r] = "post"]
          /\ waiting_task_ids' = waiting_task_ids \cup Ids(r)
      BY <2>1 DEF Subscribe, At
    <3>2. ASSUME NEW x \in Reader, rd'[x] \in {"purge", "cancel", "done"}
          PROVE  Ids(x) \cap waiting_task_ids' = {}
      <4>1. x # r /\ rd[x] \in {"purge", "cancel", "done"}
        BY <2>0, <3>1, <3>2
      <4>2. Ids(x) \cap waiting_task_ids = {} /\ Ids(x) \cap Ids(r) = {}
        BY <4>1, OwnIds DEF Dropped
      <4> QED
        BY <3>1, <4>2
    <3> QED
      BY <3>2 DEF Dropped, Ids
  <2>2. CASE Stop(r)
    <3>1. /\ waiting_task_ids' = waiting_task_ids \ Ids(r)
          /\ \A x \in Reader : x # r => rd'[x] = rd[x]
      BY <2>0, <2>2 DEF Stop, At
    <3>2. ASSUME NEW x \in Reader, rd'[x] \in {"purge", "cancel", "done"}
          PROVE  Ids(x) \cap waiting_task_ids' = {}
      BY <3>1, <3>2 DEF Dropped
    <3> QED
      BY <3>2 DEF Dropped, Ids
  <2>3. CASE Arrive(r) \/ Awake(r) \/ PostTasks(r) \/ Receive(r) \/ Disconnect(r) \/ Purge(r) \/ Cancel(r)
    <3>1. /\ waiting_task_ids' = waiting_task_ids
          /\ \/ rd' = rd
             \/ \E to \in {"await", "build", "next", "stop"} : rd' = [rd EXCEPT ![r] = to]
             \/ \E to \in Where : rd[r] \in {"purge", "cancel"} /\ rd' = [rd EXCEPT ![r] = to]
      BY <2>3 DEF Arrive, Awake, PostTasks, Receive, Disconnect, Purge, Cancel, At, resultVars, Where
    <3>2. ASSUME NEW x \in Reader, rd'[x] \in {"purge", "cancel", "done"}
          PROVE  rd[x] \in {"purge", "cancel", "done"}
      BY <2>0, <3>1, <3>2
    <3> QED
      BY <3>1, <3>2 DEF Dropped, Ids
  <2> QED
    BY <1>4, <2>1, <2>2, <2>3 DEF ReaderStep
<1> QED
  BY <1>1, <1>2, <1>3, <1>4 DEF Next

(* A child that has waited still has its parent, if the step does not take *)
(* it away.                                                                *)
LEMMA Inherit ==
  ASSUME WaitingChildHasParent, NEW w \in Slot, slots[w].state = "wait_other",
         slots'[w].task = slots[w].task,
         \A p \in Posted :
            slots[w].task \in ChildrenOf(p) /\ Minded(slots, answered, waiting_task_ids, p) =>
              Minded(slots', answered', waiting_task_ids', p)
  PROVE  HasParent(slots', answered', waiting_task_ids', w)
<1>1. PICK p \in Posted : slots[w].task \in ChildrenOf(p) /\ Minded(slots, answered, waiting_task_ids, p)
  BY ParentIs DEF HasParent
<1> QED
  BY <1>1 DEF HasParent

(* A step that leaves the slots where they are.                            *)
LEMMA StillParents ==
  ASSUME WaitingChildHasParent,
         \A x \in Slot : slots'[x].state = slots[x].state /\ slots'[x].task = slots[x].task,
         \A t \in TaskId : answered[t] > 0 => answered'[t] > 0,
         \A w \in Slot, p \in Posted :
            slots[w].state = "wait_other" /\ slots[w].task \in ChildrenOf(p) /\ p \notin waiting_task_ids =>
              p \notin waiting_task_ids'
  PROVE  WaitingChildHasParent'
<1>1. \A p : RunningIn(slots', p) = RunningIn(slots, p) /\ (Prompting(slots, p) => Prompting(slots', p))
  BY DEF RunningIn, Prompting
<1>2. ASSUME NEW w \in Slot, slots'[w].state = "wait_other"
      PROVE  HasParent(slots', answered', waiting_task_ids', w)
  <2>1. slots[w].state = "wait_other" /\ slots'[w].task = slots[w].task
    BY <1>2
  <2>2. ASSUME NEW p \in Posted, slots[w].task \in ChildrenOf(p),
               Minded(slots, answered, waiting_task_ids, p)
        PROVE  Minded(slots', answered', waiting_task_ids', p)
    BY <1>1, <2>1, <2>2, PostedTask DEF Minded, Over
  <2> QED
    BY <2>1, <2>2, Inherit
<1> QED
  BY <1>2, ParentIs

(* Slots leave, with a result of each.                                     *)
LEMMA LeaveParents ==
  ASSUME IInv, OnceOK, WaitingChildHasParent, NEW s \in Busy, slots[s].state # "wait_other",
         NEW error \in BOOLEAN, Leave({s}, error)
  PROVE  WaitingChildHasParent'
<1> DEFINE u == slots[s].task
           results == [k \in 1 .. Cardinality({s}) |-> Result(slots[Nth({s}, k)].task, error)]
<1>1. TypeOK /\ s \in Slot /\ s \in Int /\ slots[s] \in SlotType /\ u \in TaskId
  BY BusyFacts DEF IInv, SlotType
<1>2. results \in Seq(ResultType) /\ Result(u, error) \in Elems(results)
  <2>1. {s} \in SUBSET Int /\ IsFiniteSet({s}) /\ Cardinality({s}) = 1
    BY <1>1, FS_Singleton
  <2>2. Nth({s}, 1) \in {s}
    BY <2>1, NthFacts
  <2>3. results = [k \in 1 .. 1 |-> Result(u, error)]
    BY <2>1, <2>2
  <2>4. Result(u, error) \in ResultType
    BY <1>1 DEF Result, ResultType
  <2>5. DOMAIN results = 1 .. 1 /\ \A k \in 1 .. 1 : results[k] = Result(u, error)
    BY <2>3
  <2> HIDE DEF results
  <2>6. results \in [1 .. 1 -> ResultType] /\ 1 \in Nat
    BY <2>3, <2>4
  <2>7. results \in Seq(ResultType)
    BY <2>6, SeqDef
  <2> QED
    BY <2>5, <2>7 DEF Elems
<1>3. Send(results) /\ Release({s}, queue_tasks)
  BY DEF Leave
<1> HIDE DEF results
<1>4. /\ \A t \in TaskId : answered[t] > 0 => answered'[t] > 0
      /\ u \in waiting_task_ids => answered'[u] > 0
      /\ waiting_task_ids' = waiting_task_ids
  <2>1. PICK x \in Elems(results) : x.id = u
    BY <1>2 DEF Result
  <2>2. /\ \A t \in TaskId : answered[t] > 0 => answered'[t] > 0
        /\ x.id \in waiting_task_ids => answered'[x.id] > 0
        /\ waiting_task_ids' = waiting_task_ids
    BY <1>1, <1>2, <1>3, SendKeeps
  <2> QED
    BY <2>1, <2>2
<1>5. slots' = [x \in Slot |-> IF x \in {s} THEN Idle ELSE slots[x]]
  BY <1>1, <1>3, ReleaseFacts
<1>6. \A t : RunningIn(slots', t) = RunningIn(slots, t) \ {s}
  BY <1>5, ReleaseRunning
<1>7. RunningIn(slots, u) = {s}
  <2>1. s \in RunningIn(slots, u)
    BY <1>1 DEF RunningIn, Busy
  <2>2. Cardinality(RunningIn(slots, u)) <= 1
    <3>1. Places(u) <= 1
      BY <1>1 DEF OnceOK
    <3>2. /\ Count(queue_tasks, u) \in Nat /\ Count(queue_tasks_deferred, u) \in Nat
          /\ Cardinality(RunningIn(slots, u)) \in Nat /\ answered[u] \in Nat
      BY <1>1, PlacesNat DEF TypeOK
    <3> QED
      BY <3>1, <3>2, PlacesSplit DEF PlacesIn
  <2>3. ASSUME NEW y \in RunningIn(slots, u), y # s PROVE FALSE
    <3>1. {s, y} \in SUBSET RunningIn(slots, u) /\ Cardinality({s, y}) = 2
      <4>1. Cardinality({s} \cup {y}) = Cardinality({s}) + 1 /\ Cardinality({s}) = 1
        BY <2>3, FS_Singleton, FS_AddElement
      <4>2. {s} \cup {y} = {s, y}
        OBVIOUS
      <4> QED
        BY <2>1, <4>1, <4>2
    <3>2. Cardinality({s, y}) <= Cardinality(RunningIn(slots, u))
      BY <3>1, RunningFacts, FS_Subset
    <3> QED
      BY <2>2, <3>1, <3>2, RunningFacts
  <2> QED
    BY <2>1, <2>3
<1>8. ASSUME NEW w \in Slot, slots'[w].state = "wait_other"
      PROVE  HasParent(slots', answered', waiting_task_ids', w)
  <2>1. w # s /\ slots'[w] = slots[w] /\ slots[w].state = "wait_other"
    BY <1>5, <1>8 DEF Idle
  <2>2. ASSUME NEW p \in Posted, slots[w].task \in ChildrenOf(p),
               Minded(slots, answered, waiting_task_ids, p)
        PROVE  Minded(slots', answered', waiting_task_ids', p)
    <3>1. CASE p = u
      <4>1. RunningIn(slots', p) = {}
        BY <1>6, <1>7, <3>1
      <4> QED
        BY <1>4, <3>1, <4>1 DEF Minded, Over
    <3>2. CASE p # u /\ Prompting(slots, p)
      <4>1. PICK x \in Slot : slots[x].state = "started" /\ slots[x].task = p
        BY <3>2 DEF Prompting
      <4>2. x # s
        BY <3>2, <4>1
      <4>3. slots'[x] = slots[x]
        BY <1>5, <4>2
      <4> QED
        BY <4>1, <4>3 DEF Minded, Prompting
    <3>3. CASE Over(slots, answered, waiting_task_ids, p)
      BY <1>4, <1>6, <3>3, PostedTask DEF Minded, Over
    <3> QED
      BY <2>2, <3>1, <3>2, <3>3 DEF Minded
  <2> QED
    BY <2>1, <2>2, Inherit
<1> QED
  BY <1>8, ParentIs

LEMMA SlotParents ==
  ASSUME IInv, OnceOK, WaitingChildHasParent, NEW s \in Slot,
         SlotStay(s) \/ PromptDone(s) \/ Finish(s) \/ EmptyPrompt(s) \/ SlotError(s)
  PROVE  WaitingChildHasParent'
<1>0. slots \in [Slot -> SlotType \cup {Idle}] /\ s \in Busy
  BY DEF IInv, TypeOK, SlotStay, PromptDone, Finish, EmptyPrompt, SlotError
<1>1. CASE SlotStay(s)
  <2>1. slots' = slots \/ slots' = [slots EXCEPT ![s].left = @ - 1]
    BY <1>1 DEF SlotStay
  <2>2. \A x \in Slot : slots'[x].state = slots[x].state /\ slots'[x].task = slots[x].task
    <3>1. \A x \in Slot : slots[x] \in [state : {"started", "wait_other", "generating", "idle"},
                                        task : TaskId \cup {NoTask}, left : 0 .. Rounds \cup {0}]
      BY <1>0 DEF SlotType, Idle
    <3> QED
      BY <1>0, <2>1, <3>1
  <2>3. answered' = answered /\ waiting_task_ids' = waiting_task_ids
    BY <1>1 DEF SlotStay, resultVars
  <2> QED
    BY <2>2, <2>3, StillParents
<1>2. CASE PromptDone(s)
  <2> DEFINE u == slots[s].task
             S == {s} \cup Waiters(u)
  <2>1. /\ slots[s].state = "started"
        /\ slots' = [x \in Slot |-> IF x \in S THEN Launched("generating", slots[x].task) ELSE slots[x]]
        /\ answered' = answered /\ waiting_task_ids' = waiting_task_ids
    BY <1>2 DEF PromptDone, resultVars
  <2>2. \A x \in S : slots[x].state # "idle"
    BY <2>1 DEF Waiters, Busy
  <2>3. \A x \in S : slots[x].state = "started" => x = s
    BY DEF Waiters
  <2>4. \A w \in Slot : slots[w].state = "wait_other" /\ slots[w].task \in ChildrenOf(u) => w \in S
    BY DEF Waiters, Busy
  <2> HIDE DEF S
  <2>5. \A t : RunningIn(slots', t) = RunningIn(slots, t)
    BY <2>1, <2>2 DEF RunningIn, Launched
  <2>6. ASSUME NEW w \in Slot, slots'[w].state = "wait_other"
        PROVE  HasParent(slots', answered', waiting_task_ids', w)
    <3>1. w \notin S
      BY <2>1, <2>6 DEF Launched
    <3>2. slots'[w] = slots[w]
      BY <2>1, <3>1
    <3>3. slots[w].task \notin ChildrenOf(u)
      BY <2>4, <2>6, <3>1, <3>2
    <3>4. ASSUME NEW p \in Posted, slots[w].task \in ChildrenOf(p),
                 Minded(slots, answered, waiting_task_ids, p)
          PROVE  Minded(slots', answered', waiting_task_ids', p)
      <4>1. CASE Prompting(slots, p)
        <5>1. PICK x \in Slot : slots[x].state = "started" /\ slots[x].task = p
          BY <4>1 DEF Prompting
        <5>2. x \notin S
          BY <2>3, <3>3, <3>4, <5>1
        <5>3. slots'[x] = slots[x]
          BY <2>1, <5>2
        <5> QED
          BY <5>1, <5>3 DEF Minded, Prompting
      <4>2. CASE Over(slots, answered, waiting_task_ids, p)
        BY <2>1, <2>5, <4>2 DEF Minded, Over
      <4> QED
        BY <3>4, <4>1, <4>2 DEF Minded
    <3> QED
      BY <2>6, <3>2, <3>4, Inherit
  <2> QED
    BY <2>6, ParentIs
<1>3. CASE Finish(s) \/ EmptyPrompt(s) \/ SlotError(s)
  <2>1. slots[s].state # "wait_other" /\ (Leave({s}, FALSE) \/ Leave({s}, TRUE))
    BY <1>3 DEF Finish, EmptyPrompt, SlotError
  <2> QED
    BY <1>0, <2>1, LeaveParents
<1> QED
  BY <1>1, <1>2, <1>3

(* The slots that get the family in hand were idle: they take no parent of *)
(* another one away, and the parent in hand has no child in a slot yet.    *)
LEMMA LaunchParents ==
  ASSUME IInv, OnceOK, KeepOK, HandleLaunch, WaitingChildHasParent
  PROVE  WaitingChildHasParent'
<1> DEFINE h == in_hand.id
           n == Len(Children[h])
<1>1. PICK s \in Candidates(h) :
         LET S == FreeSlots(s, n)
         IN  /\ Cardinality(S) = n
             /\ slots' = [x \in Slot |->
                  IF x = s THEN Launched("started", h)
                  ELSE IF x \in S THEN Launched("wait_other", Children[h][Rank(S, x)])
                  ELSE slots[x]]
  BY DEF HandleLaunch
<1> DEFINE S == FreeSlots(s, n)
<1>2. in_hand.type = "task" /\ answered' = answered /\ waiting_task_ids' = waiting_task_ids
  BY DEF HandleLaunch, resultVars
<1>3. h \in TaskId /\ Children[h] \in Seq(TaskId) /\ n \in Nat /\ DOMAIN Children[h] = 1 .. n
      /\ \A t : Holds(in_hand, t) <=> t \in Family(h)
  BY <1>2, InHandFacts, TaskFacts, LenProperties
<1>4. S \in SUBSET Int /\ IsFiniteSet(S) /\ Cardinality(S) = n /\ S \subseteq Slot \ (Busy \cup {s})
  BY <1>1, BusyFacts, FS_Subset DEF FreeSlots, IInv
<1>5. s \in Slot \ Busy /\ h \in Posted
  <2>1. h \in Posted
    BY <1>2 DEF KeepOK, EntriesOK, Entries
  <2> QED
    BY <1>3, <2>1, TasksAssumption DEF Candidates
<1>6. slots' = [x \in Slot |->
                  IF x = s THEN Launched("started", h)
                  ELSE IF x \in S THEN Launched("wait_other", Children[h][Rank(S, x)])
                  ELSE slots[x]]
  BY <1>1
<1> HIDE DEF S
<1>7. \A x \in S : Children[h][Rank(S, x)] \in ChildrenOf(h)
  BY <1>3, <1>4, RankFacts DEF ChildrenOf, Elems
<1>8. Prompting(slots', h)
  BY <1>5, <1>6 DEF Launched, Prompting
<1>9. ASSUME NEW p, p \notin Family(h) PROVE RunningIn(slots', p) \subseteq RunningIn(slots, p)
  BY <1>6, <1>7, <1>9 DEF RunningIn, Launched, Family
<1>10. ASSUME NEW w \in Slot, slots'[w].state = "wait_other"
       PROVE  HasParent(slots', answered', waiting_task_ids', w)
  <2>1. w # s
    BY <1>6, <1>10 DEF Launched
  <2>2. CASE w \in S
    <3>1. slots'[w].task \in ChildrenOf(h)
      BY <1>6, <1>7, <2>1, <2>2 DEF Launched
    <3> QED
      BY <1>5, <1>8, <3>1 DEF HasParent, Minded
  <2>3. CASE w \notin S
    <3>1. slots'[w] = slots[w]
      BY <1>6, <2>1, <2>3
    <3>2. ASSUME NEW p \in Posted, slots[w].task \in ChildrenOf(p),
                 Minded(slots, answered, waiting_task_ids, p)
          PROVE  Minded(slots', answered', waiting_task_ids', p)
      <4>1. CASE Prompting(slots, p)
        <5>1. PICK x \in Slot : slots[x].state = "started" /\ slots[x].task = p
          BY <4>1 DEF Prompting
        <5>2. x \in Busy
          BY <5>1 DEF Busy
        <5>3. slots'[x] = slots[x]
          BY <1>4, <1>5, <1>6, <5>2
        <5> QED
          BY <5>1, <5>3 DEF Minded, Prompting
      <4>2. CASE Over(slots, answered, waiting_task_ids, p)
        <5>1. p # h
          <6> SUFFICES ASSUME p = h PROVE FALSE
            OBVIOUS
          <6> DEFINE t == slots[w].task
          <6>1. t \in Family(h) /\ t \in TaskId
            BY <1>3, <3>2, TaskFacts DEF Family
          <6>2. w \in RunningIn(slots, t)
            BY <1>10, <3>1 DEF RunningIn
          <6>3. Cardinality(RunningIn(slots, t)) \in Nat /\ Cardinality(RunningIn(slots, t)) # 0
            BY <6>2, RunningFacts, FS_EmptySet
          <6>4. Places(t) <= 1 /\ Holds(in_hand, t)
            BY <1>3, <6>1 DEF OnceOK
          <6>5. /\ Count(queue_tasks, t) \in Nat /\ Count(queue_tasks_deferred, t) \in Nat
                /\ answered[t] \in Nat
            BY <6>1, PlacesNat DEF IInv, TypeOK
          <6> HIDE DEF t
          <6> QED
            BY <6>3, <6>4, <6>5, PlacesSplit DEF PlacesIn
        <5>2. p \notin Family(h)
          BY <1>5, <5>1, IdsAssumption DEF Family
        <5>3. RunningIn(slots', p) = {}
          BY <1>9, <4>2, <5>2 DEF Over
        <5> QED
          BY <1>2, <4>2, <5>3 DEF Minded, Over
      <4> QED
        BY <3>2, <4>1, <4>2 DEF Minded
    <3> QED
      BY <1>10, <3>1, <3>2, Inherit
  <2> QED
    BY <2>2, <2>3
<1> QED
  BY <1>10, ParentIs

(* A task is cancelled when nobody waits for it any more.                  *)
LEMMA CancelParents ==
  ASSUME IInv, KeepOK, Dropped, HandleCancel, WaitingChildHasParent
  PROVE  WaitingChildHasParent'
<1> DEFINE u == in_hand.id
           S == {s \in Busy : slots[s].task = u}
<1>1. in_hand.type = "cancel" /\ Release(S, queue_tasks) /\ TypeOK
      /\ answered' = answered /\ waiting_task_ids' = waiting_task_ids
  BY DEF HandleCancel, resultVars, IInv
<1>2. slots' = [x \in Slot |-> IF x \in S THEN Idle ELSE slots[x]]
  BY <1>1, ReleaseFacts
<1>3. \A t : RunningIn(slots', t) = RunningIn(slots, t) \ S
  BY <1>2, ReleaseRunning
<1>4. RunningIn(slots', u) = {}
  BY <1>3 DEF RunningIn, Busy
<1>5. \A x \in S : slots[x].task = u
  OBVIOUS
<1>6. ASSUME u \in Posted PROVE u \notin waiting_task_ids
  <2>1. PICK r \in Reader : u \in Ids(r)
    BY <1>6, PostedTask
  <2>2. rd[r] = "done"
    BY <1>1, <2>1 DEF KeepOK, EntriesOK, Entries
  <2> QED
    BY <2>1, <2>2 DEF Dropped
<1> HIDE DEF S
<1>7. ASSUME NEW w \in Slot, slots'[w].state = "wait_other"
      PROVE  HasParent(slots', answered', waiting_task_ids', w)
  <2>1. slots'[w] = slots[w]
    BY <1>2, <1>7 DEF Idle
  <2>2. ASSUME NEW p \in Posted, slots[w].task \in ChildrenOf(p),
               Minded(slots, answered, waiting_task_ids, p)
        PROVE  Minded(slots', answered', waiting_task_ids', p)
    <3>1. CASE p = u
      BY <1>1, <1>4, <1>6, <3>1 DEF Minded, Over
    <3>2. CASE p # u /\ Prompting(slots, p)
      <4>1. PICK x \in Slot : slots[x].state = "started" /\ slots[x].task = p
        BY <3>2 DEF Prompting
      <4>2. slots'[x] = slots[x]
        BY <1>2, <1>5, <3>2, <4>1
      <4> QED
        BY <4>1, <4>2 DEF Minded, Prompting
    <3>3. CASE Over(slots, answered, waiting_task_ids, p)
      BY <1>1, <1>3, <3>3 DEF Minded, Over
    <3> QED
      BY <2>2, <3>1, <3>2, <3>3 DEF Minded
  <2> QED
    BY <1>7, <2>1, <2>2, Inherit
<1> QED
  BY <1>7, ParentIs

(* The slots of a family that fails to be launched were idle, and are.     *)
LEMMA LaunchFailSlots ==
  ASSUME IInv, HandleLaunchFail
  PROVE  slots' = slots
<1>1. PICK s \in Candidates(in_hand.id), k \in 1 .. Len(Children[in_hand.id]) + 1 :
        Release(FreeSlots(s, k - 1), queue_tasks)
  BY DEF HandleLaunchFail
<1>2. TypeOK /\ slots \in [Slot -> SlotType \cup {Idle}]
  BY DEF IInv, TypeOK
<1>3. slots' = [x \in Slot |-> IF x \in FreeSlots(s, k - 1) THEN Idle ELSE slots[x]]
  BY <1>1, <1>2, ReleaseFacts
<1>4. \A x \in FreeSlots(s, k - 1) : slots[x] = Idle
  BY <1>2, BusyFacts DEF FreeSlots
<1> QED
  BY <1>2, <1>3, <1>4

LEMMA LoopParents ==
  ASSUME IInv, IInv', OnceOK, KeepOK, Dropped, WaitingChildHasParent, Loop \/ Terminate
  PROVE  WaitingChildHasParent'
<1>1. CASE HandleLaunch
  BY <1>1, LaunchParents
<1>2. CASE HandleCancel
  BY <1>2, CancelParents
<1>3. CASE \E s \in Slot : SlotStay(s) \/ PromptDone(s) \/ Finish(s) \/ EmptyPrompt(s) \/ SlotError(s)
  BY <1>3, SlotParents
<1>4. CASE DecodeError
  <2>1. slots' = [x \in Slot |-> IF x \in Busy THEN Idle ELSE slots[x]]
    BY <1>4 DEF DecodeError, Leave, Release
  <2>2. \A x \in Slot : slots'[x].state = "idle"
    BY <2>1 DEF Busy, Idle
  <2> QED
    BY <2>2 DEF WaitingChildHasParent
<1>5. CASE UNCHANGED slots
  <2>1. Sends
    BY LoopShrinks
  <2>2. waiting_task_ids' = waiting_task_ids /\ \A t \in TaskId : answered[t] > 0 => answered'[t] > 0
    <3>1. ASSUME NEW t \in TaskId, answered[t] > 0 PROVE answered'[t] > 0
      <4>1. PICK m \in Nat : answered'[t] = answered[t] + m
        BY <2>1 DEF Sends
      <4>2. answered[t] \in Nat
        BY DEF IInv, TypeOK
      <4> QED
        BY <3>1, <4>1, <4>2
    <3> QED
      BY <2>1, <3>1 DEF Sends
  <2> QED
    BY <1>5, <2>2, StillParents
<1>6. Start \/ Take \/ HandleDefer \/ HandleSlotAction \/ HandleNext \/ Update \/ UpdateEnd
      \/ IdleCheck \/ WaitWake \/ WaitTimeout \/ SleepWake \/ Terminate => UNCHANGED slots
  BY DEF Start, Take, HandleDefer, HandleSlotAction, HandleNext, Update, UpdateEnd, InWait,
         IdleCheck, WaitWake, WaitTimeout, SleepWake, Terminate, loopVars
<1> QED
  BY <1>1, <1>2, <1>3, <1>4, <1>5, <1>6, LaunchFailSlots DEF Loop

(* A request that subscribes has no task in a slot.                        *)
LEMMA ReaderParents ==
  ASSUME IInv, OnceOK, WaitingChildHasParent, NEW r \in Reader, ReaderStep(r) \/ Disconnect(r)
  PROVE  WaitingChildHasParent'
<1>1. UNCHANGED <<slots, answered>>
  BY DEF ReaderStep, Disconnect, Arrive, Awake, Subscribe, PostTasks, Receive, Stop, Purge, Cancel,
         loopVars, resultVars
<1>2. CASE waiting_task_ids' \subseteq waiting_task_ids
  BY <1>1, <1>2, StillParents
<1>3. ~Subscribe(r) => waiting_task_ids' \subseteq waiting_task_ids
  BY DEF ReaderStep, Disconnect, Arrive, Awake, PostTasks, Receive, Stop, Purge, Cancel, resultVars
<1>4. CASE Subscribe(r)
  <2>1. rd[r] = "build" /\ waiting_task_ids' = waiting_task_ids \cup Ids(r)
    BY <1>4 DEF Subscribe, At
  <2>2. ASSUME NEW w \in Slot, NEW p \in Posted, slots[w].state = "wait_other",
               slots[w].task \in ChildrenOf(p)
        PROVE  p \notin Ids(r)
    <3> SUFFICES ASSUME p \in Ids(r) PROVE FALSE
      OBVIOUS
    <3> DEFINE t == slots[w].task
    <3>1. t \in Ids(r) /\ t \in TaskId
      BY <2>2, FamilyOwner, TaskFacts DEF Family
    <3>2. Places(t) = 0
      BY <2>1, <3>1 DEF OnceOK, Before
    <3>3. w \in RunningIn(slots, t)
      BY <2>2 DEF RunningIn
    <3>4. Cardinality(RunningIn(slots, t)) \in Nat /\ Cardinality(RunningIn(slots, t)) # 0
      BY <3>3, RunningFacts, FS_EmptySet
    <3>5. /\ Count(queue_tasks, t) \in Nat /\ Count(queue_tasks_deferred, t) \in Nat
          /\ answered[t] \in Nat
      BY <3>1, PlacesNat DEF IInv, TypeOK
    <3> HIDE DEF t
    <3> QED
      BY <3>2, <3>4, <3>5, PlacesSplit DEF PlacesIn
  <2> QED
    BY <1>1, <2>1, <2>2, StillParents
<1> QED
  BY <1>2, <1>3, <1>4

(* Whatever fails, leaves or is cancelled: a child slot waits for a parent *)
(* that has yet to process its prompt, or for one that is in no slot any   *)
(* more and has been answered or is not waited for - never for one that    *)
(* generates, and never for one that was lost without an answer.           *)
THEOREM ChildrenHaveParents == Spec => []WaitingChildHasParent
<1>1. Init => Dropped /\ WaitingChildHasParent
  BY DEF Init, Dropped, WaitingChildHasParent, Idle
<1>2. IInv /\ IInv' /\ OnceOK /\ KeepOK /\ Dropped /\ WaitingChildHasParent /\ [Next]_vars =>
        WaitingChildHasParent'
  <2> SUFFICES ASSUME IInv, IInv', OnceOK, KeepOK, Dropped, WaitingChildHasParent, [Next]_vars
               PROVE  WaitingChildHasParent'
    OBVIOUS
  <2>1. CASE Loop \/ Terminate
    BY <2>1, LoopParents
  <2>2. CASE \E r \in Reader : ReaderStep(r) \/ Disconnect(r)
    BY <2>2, ReaderParents
  <2>3. CASE UNCHANGED vars
    <3>1. UNCHANGED <<slots, answered, waiting_task_ids>>
      BY <2>3 DEF vars, loopVars, resultVars
    <3> QED
      BY <3>1, StillParents
  <2> QED
    BY <2>1, <2>2, <2>3 DEF Next
<1> QED
  BY <1>1, <1>2, DroppedStep, Invariance, Accounting, Keeping, PTL DEF Spec

-----------------------------------------------------------------------------
(* When requests neither fail nor leave, nothing is ever cancelled: every  *)
(* request stops with all its results.                                     *)

Smooth ==
  /\ \A e \in Entries : e.type # "cancel"
  /\ \A x \in Elems(queue_results) : ~x.error
  /\ \A r \in Reader : /\ rd[r] \notin {"purge", "cancel"}
                       /\ rd[r] = "stop" => received_count[r] = Cardinality(Ids(r))

LEMMA SendSmooth ==
  ASSUME TypeOK, NEW results \in Seq(ResultType), Send(results),
         \A x \in Elems(results) : ~x.error, \A x \in Elems(queue_results) : ~x.error
  PROVE  \A x \in Elems(queue_results') : ~x.error
<1> DEFINE K == {k \in DOMAIN results : results[k].id \in waiting_task_ids}
           kept == Pick(results, K)
<1>1. queue_results' = queue_results \o kept
  BY DEF Send
<1>2. kept \in Seq(ResultType) /\ Elems(kept) = {results[k] : k \in K}
  BY PickFacts
<1>3. Elems(kept) \subseteq Elems(results)
  BY <1>2 DEF Elems
<1> HIDE DEF kept
<1>4. Elems(queue_results') = Elems(queue_results) \cup Elems(kept)
  BY <1>1, <1>2, ElemsConcat DEF TypeOK
<1> QED
  BY <1>3, <1>4

LEMMA LeaveSmooth ==
  ASSUME TypeOK, NEW S \in SUBSET Busy, Leave(S, FALSE), \A x \in Elems(queue_results) : ~x.error
  PROVE  \A x \in Elems(queue_results') : ~x.error
<1> DEFINE results == [k \in 1 .. Cardinality(S) |-> Result(slots[Nth(S, k)].task, FALSE)]
<1>1. S \in SUBSET Int /\ IsFiniteSet(S) /\ \A s \in S : slots[s] \in SlotType
  BY BusyFacts, FS_Subset
<1>2. Cardinality(S) \in Nat /\ \A k \in 1 .. Cardinality(S) : Nth(S, k) \in S
  BY <1>1, NthFacts, FS_CardinalityType
<1>3. \A s \in S : Result(slots[s].task, FALSE) \in ResultType /\ ~Result(slots[s].task, FALSE).error
  BY <1>1 DEF SlotType, Result, ResultType
<1>4. results \in [1 .. Cardinality(S) -> ResultType] /\ \A k \in DOMAIN results : ~results[k].error
  BY <1>2, <1>3
<1>5. results \in Seq(ResultType)
  BY <1>2, <1>4, SeqDef
<1>6. Send(results)
  BY DEF Leave
<1>7. \A x \in Elems(results) : ~x.error
  <2> HIDE DEF results
  <2> QED
    BY <1>4 DEF Elems
<1> HIDE DEF results
<1> QED
  BY <1>5, <1>6, <1>7, SendSmooth

LEMMA LoopSmooth ==
  ASSUME Faults \subseteq {"empty"}, IInv, Smooth, LoopMoves, Loop \/ Terminate
  PROVE  Smooth'
<1>1. UNCHANGED readerVars
  BY DEF Loop, Terminate, Start, Take, Handled, HandleDefer, HandleSlotAction, HandleLaunch,
         HandleLaunchFail, HandleCancel, HandleNext, Update, InUpdate, UpdateEnd, DecodeError,
         SlotStay, PromptDone, Finish, EmptyPrompt, SlotError, InWait, IdleCheck, WaitWake,
         WaitTimeout, SleepWake
<1>2. \A x \in Elems(queue_results') : ~x.error
  <2>1. CASE UNCHANGED resultVars
    BY <2>1 DEF Smooth, resultVars
  <2>2. CASE HandleSlotAction
    <3> DEFINE x == Result(in_hand.id, FALSE)
    <3>1. x \in ResultType /\ ~x.error
      BY <2>2, InHandFacts DEF HandleSlotAction, Result, ResultType
    <3>2. <<x>> \in Seq(ResultType) /\ Elems(<<x>>) = {x}
      BY <3>1, ElemsOne
    <3>3. Send(<<x>>)
      BY <2>2 DEF HandleSlotAction
    <3> HIDE DEF x
    <3> QED
      BY <3>1, <3>2, <3>3, SendSmooth DEF IInv, Smooth
  <2>3. CASE \E s \in Slot : Finish(s) \/ EmptyPrompt(s)
    <3>1. PICK s \in Slot : s \in todo /\ Leave({s}, FALSE)
      BY <2>3 DEF Finish, EmptyPrompt
    <3>2. {s} \in SUBSET Busy
      BY <3>1 DEF IInv, TypeOK
    <3> QED
      BY <3>1, <3>2, LeaveSmooth DEF IInv, Smooth
  <2>4. ~HandleLaunchFail /\ ~DecodeError /\ \A s : ~SlotError(s)
    BY DEF HandleLaunchFail, DecodeError, SlotError
  <2>5. Start \/ Take \/ HandleDefer \/ HandleLaunch \/ HandleCancel \/ HandleNext \/ Update
        \/ UpdateEnd \/ (\E s \in Slot : SlotStay(s) \/ PromptDone(s))
        \/ IdleCheck \/ WaitWake \/ WaitTimeout \/ SleepWake \/ Terminate => UNCHANGED resultVars
    BY DEF Terminate, Start, Take, HandleDefer, HandleLaunch, HandleCancel, HandleNext, Update,
           UpdateEnd, SlotStay, PromptDone, InWait, IdleCheck, WaitWake, WaitTimeout, SleepWake
  <2> QED
    BY <2>1, <2>2, <2>3, <2>4, <2>5 DEF Loop
<1>3. \A e \in Entries' : e.type # "cancel"
  BY DEF Smooth, LoopMoves, NoEntry, NextEntry, Entry
<1> QED
  BY <1>1, <1>2, <1>3 DEF Smooth, readerVars, Ids

LEMMA ReaderSmooth ==
  ASSUME Leaves = {}, IInv, IInv', Smooth, NEW r \in Reader, ReaderStep(r) \/ Disconnect(r)
  PROVE  Smooth'
<1>0. rd \in [Reader -> Where] /\ received_count \in [Reader -> Nat]
      /\ queue_results \in Seq(ResultType)
  BY ReaderTypes
<1>1. ~Disconnect(r) /\ ~Purge(r) /\ ~Cancel(r)
  BY DEF Disconnect, Purge, Cancel, At, Smooth
<1>2. CASE Arrive(r) \/ Awake(r) \/ Subscribe(r)
  <2>1. /\ UNCHANGED <<queue_tasks, queue_tasks_deferred, in_hand, queue_results, received_count>>
        /\ \A x \in Reader : rd'[x] \in {rd[x], "await", "build", "post"}
    BY <1>0, <1>2 DEF Arrive, Awake, Subscribe, At, loopVars, resultVars, queueVars
  <2> QED
    BY <2>1 DEF Smooth, Entries, Ids
<1>3. CASE PostTasks(r)
  <2> DEFINE p == [k \in DOMAIN Post[r] |-> TaskEntry(Post[r][k])]
  <2>1. /\ queue_tasks' = queue_tasks \o p
        /\ UNCHANGED <<queue_tasks_deferred, in_hand, queue_results, received_count>>
        /\ \A x \in Reader : rd'[x] \in {rd[x], "next"}
    BY <1>0, <1>3 DEF PostTasks, At, loopVars, resultVars
  <2>2. DOMAIN p = DOMAIN Post[r] /\ \A k \in DOMAIN p : p[k].type = "task"
    BY DEF TaskEntry, Entry
  <2>3. p \in Seq(EntryType)
    <3>1. /\ Post[r] \in [1 .. Len(Post[r]) -> TaskId] /\ Len(Post[r]) \in Nat
          /\ DOMAIN Post[r] = 1 .. Len(Post[r])
      BY TaskFacts, LenProperties
    <3>2. p \in [1 .. Len(Post[r]) -> EntryType]
      BY <3>1, TaskFacts
    <3> QED
      BY <3>1, <3>2, SeqDef
  <2> HIDE DEF p
  <2>4. \A e \in Elems(p) : e.type # "cancel"
    BY <2>2 DEF Elems
  <2>5. Elems(queue_tasks') = Elems(queue_tasks) \cup Elems(p)
    BY <2>1, <2>3, ElemsConcat DEF IInv, TypeOK
  <2> QED
    BY <2>1, <2>4, <2>5 DEF Smooth, Entries, Ids
<1>4. CASE Receive(r)
  <2> DEFINE k == CHOOSE i \in Mine(r) : \A j \in Mine(r) : i <= j
             n == received_count[r] + (IF queue_results[k].error THEN 0 ELSE 1)
  <2>1. k \in DOMAIN queue_results
    <3>1. Mine(r) \in SUBSET Int /\ IsFiniteSet(Mine(r)) /\ Mine(r) # {}
      BY <1>0, <1>4, ElemsFacts, FS_Subset DEF Mine, Receive
    <3>2. \E i \in Mine(r) : \A j \in Mine(r) : i <= j
      BY <3>1, LeastElement
    <3> QED
      BY <3>2 DEF Mine
  <2>2. ~queue_results[k].error
    BY <2>1 DEF Smooth, Elems
  <2>3. /\ UNCHANGED <<queue_tasks, queue_tasks_deferred, in_hand>>
        /\ queue_results' = Drop(queue_results, k)
        /\ received_count' = [received_count EXCEPT ![r] = n]
        /\ IF queue_results[k].error \/ n = Cardinality(Ids(r))
             THEN rd' = [rd EXCEPT ![r] = "stop"] ELSE rd' = rd
        /\ rd[r] = "next"
    BY <1>4 DEF Receive, At, queueVars, loopVars
  <2> HIDE DEF k, n
  <2>4. Elems(queue_results') \subseteq Elems(queue_results)
    <3>1. Elems(queue_results') = {queue_results[j] : j \in DOMAIN queue_results \ {k}}
      BY <1>0, <2>3, PickFacts DEF Drop
    <3> QED
      BY <3>1 DEF Elems
  <2>5. ASSUME NEW x \in Reader
        PROVE  /\ rd'[x] \notin {"purge", "cancel"}
               /\ rd'[x] = "stop" => received_count'[x] = Cardinality(Ids(x))
    <3>1. CASE x = r
      BY <1>0, <2>2, <2>3, <3>1
    <3>2. CASE x # r
      BY <1>0, <2>3, <3>2 DEF Smooth
    <3> QED
      BY <3>1, <3>2
  <2> QED
    BY <2>3, <2>4, <2>5 DEF Smooth, Entries, Ids
<1>5. CASE Stop(r)
  <2>1. /\ UNCHANGED <<queue_tasks, queue_tasks_deferred, in_hand, queue_results, received_count>>
        /\ rd[r] = "stop"
        /\ rd' = [rd EXCEPT ![r] = IF received_count[r] < Cardinality(Ids(r)) THEN "purge" ELSE "done"]
    BY <1>5 DEF Stop, At, queueVars, loopVars
  <2>2. received_count[r] = Cardinality(Ids(r)) /\ received_count[r] \in Nat
    BY <1>0, <2>1 DEF Smooth
  <2>3. ~(received_count[r] < Cardinality(Ids(r)))
    BY <2>2
  <2>4. rd' = [rd EXCEPT ![r] = "done"]
    BY <2>1, <2>3, Zenon
  <2> QED
    BY <1>0, <2>1, <2>4 DEF Smooth, Entries, Ids
<1> QED
  BY <1>1, <1>2, <1>3, <1>4, <1>5 DEF ReaderStep

LEMMA Smoothness ==
  ASSUME Faults \subseteq {"empty"}, Leaves = {}
  PROVE  Spec => []Smooth
<1>1. Init => Smooth
  <2> SUFFICES ASSUME Init PROVE Smooth
    OBVIOUS
  <2>1. Elems(<<>>) = {}
    BY DEF Elems
  <2>2. Entries = {NoEntry} /\ Elems(queue_results) = {} /\ \A r \in Reader : rd[r] = "new"
    BY <2>1 DEF Init, Entries
  <2> QED
    BY <2>2 DEF Smooth, NoEntry, Entry
<1>2. IInv /\ IInv' /\ KeepOK /\ Smooth /\ [Next]_vars => Smooth'
  <2> SUFFICES ASSUME IInv, IInv', KeepOK, Smooth, [Next]_vars PROVE Smooth'
    OBVIOUS
  <2>1. CASE Loop \/ Terminate
    BY <2>1, LoopMove, LoopSmooth
  <2>2. CASE \E r \in Reader : ReaderStep(r) \/ Disconnect(r)
    BY <2>2, ReaderSmooth
  <2>3. CASE UNCHANGED vars
    BY <2>3 DEF Smooth, Entries, Ids, vars, queueVars, loopVars, resultVars, readerVars
  <2> QED
    BY <2>1, <2>2, <2>3 DEF Next
<1> QED
  BY <1>1, <1>2, Invariance, Keeping, PTL DEF Spec

-----------------------------------------------------------------------------
(* Nobody is stranded.  A task is deferred only while a slot is at work,   *)
(* and the slot that is released gets a deferred task back into the queue. *)

(* The n least elements of A are no fewer than n.                          *)
LEMMA LeastCount ==
  ASSUME NEW A \in SUBSET Int, IsFiniteSet(A), NEW n \in Nat, n <= Cardinality(A)
  PROVE  ~(Cardinality({x \in A : Cardinality({y \in A : y < x}) < n}) < n)
<1> DEFINE B == {x \in A : Cardinality({y \in A : y < x}) < n}
           N == 1 .. n
           f == [k \in N |-> Nth(A, k)]
<1>1. \A k \in N : k \in 1 .. Cardinality(A)
  BY RankFacts
<1>2. \A k \in N : Nth(A, k) \in A /\ Rank(A, Nth(A, k)) = k
  BY <1>1, NthFacts
<1>3. ASSUME NEW x \in A PROVE Cardinality({y \in A : y < x}) = Rank(A, x) - 1
  <2> DEFINE L == {y \in A : y < x}
             M == {y \in A : y <= x}
  <2>1. M = L \cup {x} /\ x \notin L
    <3>1. \A y \in A : y \in Int
      OBVIOUS
    <3>2. x <= x /\ ~(x < x)
      BY <3>1
    <3>3. \A y \in A : y <= x <=> y < x \/ y = x
      BY <3>1
    <3> QED
      BY <3>2, <3>3
  <2>2. IsFiniteSet(L) /\ Cardinality(L) \in Nat
    BY FS_Subset, FS_CardinalityType
  <2> HIDE DEF L, M
  <2>3. Cardinality(M) = Cardinality(L) + 1
    BY <2>1, <2>2, FS_AddElement
  <2>4. Rank(A, x) = Cardinality(M)
    BY DEF Rank, M
  <2> QED
    BY <2>2, <2>3, <2>4 DEF L
<1>4. ASSUME NEW k \in N PROVE Nth(A, k) \in B
  <2>1. Nth(A, k) \in A /\ Rank(A, Nth(A, k)) = k
    BY <1>2
  <2>2. Cardinality({y \in A : y < Nth(A, k)}) = k - 1
    BY <1>3, <2>1
  <2>3. k - 1 < n
    OBVIOUS
  <2> QED
    BY <2>1, <2>2, <2>3
<1>5. f \in Injection(N, B)
  <2>1. f \in [N -> B]
    BY <1>4
  <2>2. \A j, k \in N : f[j] = f[k] => j = k
    <3>1. \A k \in N : Rank(A, f[k]) = k
      BY <1>2
    <3> HIDE DEF f
    <3> QED
      BY <3>1
  <2> QED
    BY <2>1, <2>2 DEF Injection, IsInjective
<1>6. IsFiniteSet(B)
  BY FS_Subset
<1>7. Cardinality(N) <= Cardinality(B)
  BY <1>5, <1>6, FS_Injection
<1>8. Cardinality(N) = n /\ Cardinality(B) \in Nat
  BY <1>6, FS_Interval, FS_CardinalityType
<1> QED
  BY <1>7, <1>8

(* A task is deferred only while a slot is at work: with all slots idle a  *)
(* request of at most as many answers as there are slots finds its slots.  *)
LEMMA DeferBusy ==
  ASSUME IInv, HandleDefer
  PROVE  Busy # {}
<1> SUFFICES ASSUME Busy = {} PROVE FALSE
  OBVIOUS
<1> DEFINE t == in_hand.id
           n == Len(Children[t])
<1>1. t \in TaskId /\ n \in Nat /\ n < NSlots /\ IdSlot[t] \in Slot \cup {-1}
  BY InHandFacts, TaskFacts, LenProperties, ChildrenAssumption, TasksAssumption DEF HandleDefer
<1>2. 0 \in Slot /\ IsFiniteSet(Slot) /\ Slot \in SUBSET Int /\ Cardinality(Slot) = NSlots
  <2>1. NSlots \in Nat \ {0} /\ 0 \in Int /\ NSlots - 1 \in Int /\ ~(0 > NSlots - 1)
    BY NSlotsAssumption
  <2>2. IsFiniteSet(0 .. NSlots - 1) /\ Cardinality(0 .. NSlots - 1) = NSlots - 1 - 0 + 1
    BY <2>1, FS_Interval
  <2> QED
    BY <2>1, <2>2 DEF Slot
<1>3. Candidates(t) # {} /\ Candidates(t) \subseteq Slot
  BY <1>1, <1>2 DEF Candidates
<1>4. ASSUME NEW s \in Candidates(t) PROVE ~(Cardinality(FreeSlots(s, n)) < n)
  <2> DEFINE A == Slot \ (Busy \cup {s})
  <2>1. A = Slot \ {s} /\ s \in Slot
    BY <1>3
  <2>2. IsFiniteSet(A) /\ A \in SUBSET Int /\ Cardinality(A) = NSlots - 1
    BY <1>2, <2>1, FS_RemoveElement
  <2>3. n <= Cardinality(A)
    BY <1>1, <2>2, NSlotsAssumption
  <2>4. FreeSlots(s, n) = {x \in A : Cardinality({y \in A : y < x}) < n}
    BY DEF FreeSlots
  <2> HIDE DEF A
  <2> QED
    BY <1>1, <2>2, <2>3, <2>4, LeastCount
<1> QED
  BY <1>3, <1>4 DEF HandleDefer

HasTask(q) == \E e \in Elems(q) : e.type = "task"

StrandOK ==
  queue_tasks_deferred # <<>> => Busy # {} \/ in_hand.type = "task" \/ HasTask(queue_tasks)

LEMMA LeaveStrand ==
  ASSUME IInv, StrandOK, NEW s \in todo, Release({s}, queue_tasks)
  PROVE  StrandOK'
<1>0. /\ queue_tasks \in Seq(EntryType) /\ queue_tasks_deferred \in Seq(TaskType)
      /\ s \in Slot /\ TypeOK
  BY DEF IInv, TypeOK, Busy
<1>1. CASE queue_tasks_deferred # <<>>
  <2>1. \E e \in Elems(PopAll({s}, queue_tasks, queue_tasks_deferred)[1]) : e.type = "task"
    BY <1>0, <1>1, PopAllTask
  <2>2. queue_tasks' = PopAll({s}, queue_tasks, queue_tasks_deferred)[1]
    BY DEF Release
  <2> QED
    BY <2>1, <2>2 DEF StrandOK, HasTask
<1>2. CASE queue_tasks_deferred = <<>>
  <2> SUFFICES ASSUME queue_tasks_deferred' # <<>> PROVE HasTask(queue_tasks')
    BY DEF StrandOK
  <2>1. /\ queue_tasks_deferred' \in Seq(TaskType)
        /\ Elems(queue_tasks) \subseteq Elems(queue_tasks')
        /\ Elems(queue_tasks') \cup Elems(queue_tasks_deferred')
              \subseteq Elems(queue_tasks) \cup Elems(queue_tasks_deferred)
    BY <1>0, ReleaseFacts
  <2>2. Elems(queue_tasks_deferred) = {}
    BY <1>2 DEF Elems
  <2>3. 1 \in DOMAIN queue_tasks_deferred'
    <3>1. Len(queue_tasks_deferred') \in Nat \ {0}
          /\ DOMAIN queue_tasks_deferred' = 1 .. Len(queue_tasks_deferred')
      BY <2>1, EmptySeq, LenProperties
    <3>2. 1 \in 1 .. Len(queue_tasks_deferred')
      BY <3>1
    <3> QED
      BY <3>1, <3>2, Zenon
  <2>4. queue_tasks_deferred'[1] \in Elems(queue_tasks_deferred')
    BY <2>3 DEF Elems
  <2>5. queue_tasks_deferred'[1] \in TaskType
    BY <2>1, <2>3, ElementOfSeq, LenProperties
  <2> QED
    BY <2>1, <2>2, <2>4, <2>5 DEF HasTask, TaskType
<1> QED
  BY <1>1, <1>2

LEMMA LoopStrand ==
  ASSUME Faults \subseteq {"empty"}, \A t \in TaskId : Kind[t] = "cmpl",
         IInv, IInv', Smooth, StrandOK, Loop \/ Terminate
  PROVE  StrandOK'
<1>1. /\ ~HandleLaunchFail /\ ~DecodeError /\ (\A s : ~SlotError(s)) /\ ~HandleCancel
      /\ ~HandleSlotAction
  <2>1. ~HandleLaunchFail /\ ~DecodeError /\ \A s : ~SlotError(s)
    BY DEF HandleLaunchFail, DecodeError, SlotError
  <2>2. ~HandleCancel
    BY DEF HandleCancel, Smooth, Entries
  <2>3. ~HandleSlotAction
    BY InHandFacts DEF HandleSlotAction
  <2> QED
    BY <2>1, <2>2, <2>3
<1>2. CASE UNCHANGED <<queue_tasks, queue_tasks_deferred, in_hand>> /\ Busy \subseteq Busy'
  BY <1>2 DEF StrandOK
<1>3. CASE Take
  <2>1. UNCHANGED queue_tasks_deferred /\ Busy' = Busy /\ in_hand = NoEntry
    BY <1>3 DEF Take, Busy, IInv, LoopOK
  <2>2. CASE UNCHANGED <<queue_tasks, in_hand>>
    BY <2>1, <2>2 DEF StrandOK
  <2>3. CASE queue_tasks # <<>> /\ in_hand' = Head(queue_tasks) /\ queue_tasks' = Tail(queue_tasks)
    <3>1. Elems(queue_tasks) = {Head(queue_tasks)} \cup Elems(Tail(queue_tasks))
      BY <2>3, ElemsHead DEF IInv, TypeOK
    <3>2. in_hand.type # "task"
      BY <2>1 DEF NoEntry, Entry
    <3> QED
      BY <2>1, <2>3, <3>1, <3>2 DEF StrandOK, HasTask
  <2> QED
    BY <1>3, <2>2, <2>3 DEF Take
<1>4. CASE HandleDefer
  <2>1. Busy' = Busy
    BY <1>4 DEF HandleDefer, Busy
  <2> QED
    BY <1>4, <2>1, DeferBusy DEF StrandOK
<1>5. CASE HandleLaunch
  <2>1. PICK s \in Candidates(in_hand.id) : slots'[s] = Launched("started", in_hand.id) /\ s \in Slot
    <3>1. in_hand.id \in TaskId
      BY <1>5, InHandFacts DEF HandleLaunch
    <3>2. Candidates(in_hand.id) \subseteq Slot
      BY <3>1, TasksAssumption DEF Candidates
    <3> QED
      BY <1>5, <3>2 DEF HandleLaunch
  <2>2. s \in Busy'
    BY <2>1 DEF Busy, Launched
  <2> QED
    BY <2>2 DEF StrandOK
<1>6. CASE HandleNext
  BY <1>6 DEF HandleNext, StrandOK, Busy
<1>7. CASE Update
  <2>1. UNCHANGED queue_tasks_deferred /\ UNCHANGED in_hand /\ Busy' = Busy
    BY <1>7 DEF Update, Busy
  <2>2. Elems(queue_tasks) \subseteq Elems(queue_tasks')
    <3>1. NextEntry \in EntryType /\ queue_tasks \in Seq(EntryType)
      BY TaskFacts DEF IInv, TypeOK
    <3>2. queue_tasks' \in {queue_tasks, Append(queue_tasks, NextEntry)}
      BY <1>7 DEF Update, NextEntry
    <3>3. Elems(Append(queue_tasks, NextEntry)) = Elems(queue_tasks) \cup {NextEntry}
      BY <3>1, ElemsAppend
    <3> QED
      BY <3>2, <3>3
  <2> QED
    BY <2>1, <2>2 DEF StrandOK, HasTask
<1>8. CASE \E s \in Slot : SlotStay(s) \/ PromptDone(s)
  <2>1. PICK s \in Slot : SlotStay(s) \/ PromptDone(s)
    BY <1>8
  <2>2. UNCHANGED <<queue_tasks, queue_tasks_deferred, in_hand>> /\ main = "slots" /\ s \in todo
        /\ UNCHANGED main
    BY <2>1 DEF SlotStay, PromptDone, InUpdate
  <2>3. slots \in [Slot -> SlotType \cup {Idle}]
    BY DEF IInv, TypeOK
  <2>4. \A x \in Slot : slots[x] \in [state : {"started", "wait_other", "generating", "idle"},
                                      task : TaskId \cup {NoTask}, left : 0 .. Rounds \cup {0}]
    BY <2>3 DEF SlotType, Idle
  <2>5. CASE SlotStay(s)
    <3>1. slots' = slots \/ slots' = [slots EXCEPT ![s].left = @ - 1]
      BY <2>5 DEF SlotStay
    <3>2. \A x \in Slot : slots'[x].state = slots[x].state
      BY <2>3, <2>4, <3>1
    <3> QED
      BY <1>2, <2>2, <3>2 DEF Busy
  <2>6. CASE PromptDone(s)
    <3>1. \A x \in Slot : slots'[x].state = slots[x].state \/ slots'[x].state = "generating"
      BY <2>6 DEF PromptDone, Launched
    <3> QED
      BY <1>2, <2>2, <3>1 DEF Busy
  <2> QED
    BY <2>1, <2>5, <2>6
<1>9. CASE \E s \in Slot : Finish(s) \/ EmptyPrompt(s)
  <2>1. PICK s \in todo : Release({s}, queue_tasks)
    BY <1>9 DEF Finish, EmptyPrompt, Leave
  <2> QED
    BY <2>1, LeaveStrand
<1>10. Start \/ UpdateEnd \/ IdleCheck \/ WaitWake \/ WaitTimeout \/ SleepWake \/ Terminate
       => UNCHANGED <<queue_tasks, queue_tasks_deferred, in_hand>> /\ Busy \subseteq Busy'
  BY DEF Start, UpdateEnd, InUpdate, InWait, IdleCheck, WaitWake, WaitTimeout, SleepWake, Terminate,
         loopVars, Busy
<1> QED
  BY <1>1, <1>2, <1>3, <1>4, <1>5, <1>6, <1>7, <1>8, <1>9, <1>10 DEF Loop

(* As long as nothing fails, no client leaves and all tasks are completions *)
(* (a slot action takes a deferred task's turn and frees no slot), the main *)
(* loop never waits or sleeps with a task deferred.                        *)
THEOREM NobodyStranded ==
  ASSUME Faults \subseteq {"empty"}, Leaves = {}, \A t \in TaskId : Kind[t] = "cmpl"
  PROVE  Spec => []NoneStranded
<1>1. Init => StrandOK
  BY DEF Init, StrandOK
<1>2. IInv /\ IInv' /\ Smooth /\ StrandOK /\ [Next]_vars => StrandOK'
  <2> SUFFICES ASSUME IInv, IInv', Smooth, StrandOK, [Next]_vars PROVE StrandOK'
    OBVIOUS
  <2>1. CASE Loop \/ Terminate
    BY <2>1, LoopStrand
  <2>2. ASSUME NEW r \in Reader, ReaderStep(r) \/ Disconnect(r) PROVE StrandOK'
    <3>1. ~Cancel(r)
      BY DEF Cancel, At, Smooth
    <3>2. UNCHANGED <<queue_tasks_deferred, in_hand>> /\ Busy' = Busy
      BY <2>2, <3>1 DEF ReaderStep, Disconnect, Arrive, Awake, Subscribe, PostTasks, Receive, Stop,
                        Purge, loopVars, queueVars, Busy
    <3>3. CASE UNCHANGED queue_tasks
      BY <3>2, <3>3 DEF StrandOK
    <3>4. CASE PostTasks(r)
      <4> DEFINE p == [k \in DOMAIN Post[r] |-> TaskEntry(Post[r][k])]
      <4>1. queue_tasks' = queue_tasks \o p
        BY <3>4 DEF PostTasks
      <4>2. p \in Seq(EntryType)
        <5>1. /\ Post[r] \in [1 .. Len(Post[r]) -> TaskId] /\ Len(Post[r]) \in Nat
              /\ DOMAIN Post[r] = 1 .. Len(Post[r])
          BY TaskFacts, LenProperties
        <5>2. p \in [1 .. Len(Post[r]) -> EntryType]
          BY <5>1, TaskFacts
        <5> QED
          BY <5>1, <5>2, SeqDef
      <4> HIDE DEF p
      <4>3. Elems(queue_tasks') = Elems(queue_tasks) \cup Elems(p)
        BY <4>1, <4>2, ElemsConcat DEF IInv, TypeOK
      <4> QED
        BY <3>2, <4>3 DEF StrandOK, HasTask
    <3> QED
      BY <2>2, <3>1, <3>3, <3>4 DEF ReaderStep, Disconnect, Arrive, Awake, Subscribe, Receive, Stop,
                                    Purge, queueVars
  <2>3. CASE UNCHANGED vars
    BY <2>3 DEF StrandOK, vars, queueVars, loopVars, Busy
  <2> QED
    BY <2>1, <2>2, <2>3 DEF Next
<1>3. IInv /\ StrandOK => NoneStranded
  <2> SUFFICES ASSUME IInv, StrandOK, main \in {"wait", "sleep"}, queue_tasks = <<>>
               PROVE  queue_tasks_deferred = <<>>
    BY DEF NoneStranded
  <2>1. Busy = {} /\ in_hand = NoEntry
    BY DEF IInv, LoopOK
  <2>2. ~HasTask(queue_tasks)
    BY DEF HasTask, Elems
  <2> QED
    BY <2>1, <2>2 DEF StrandOK, NoEntry, Entry
<1>4. Spec => []Smooth
  BY Smoothness
<1> QED
  BY <1>1, <1>2, <1>3, <1>4, Invariance, PTL DEF Spec
=============================================================================
