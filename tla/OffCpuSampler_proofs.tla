------------------------ MODULE OffCpuSampler_proofs ------------------------
(***************************************************************************)
(* Proofs about OffCpuSampler, for every set of CPUs, samples and pids,    *)
(* every hash and every size of the maps and of the cache: what a sum over *)
(* a finite set obeys, what a context switch does to the number of hits of *)
(* a key, and that SamplerInv is inductive.                                *)
(***************************************************************************)
EXTENDS OffCpuSampler, FiniteSetTheorems, TLAPS

USE SMTT(20), ZenonT(20)
-----------------------------------------------------------------------------
(* Sums over finite sets. *)

(***************************************************************************)
(* Induction on the subsets of a finite set, for a set G of subsets rather *)
(* than a predicate: a set without a counterexample among its proper       *)
(* subsets is none either.                                                 *)
(***************************************************************************)
LEMMA SubsetInduction ==
  ASSUME NEW S, IsFiniteSet(S), NEW G,
         \A T \in SUBSET S : (\A U \in SUBSET T : U # T => U \in G) => T \in G
  PROVE  \A T \in SUBSET S : T \in G
<1> DEFINE C == (SUBSET S) \ G
<1> SUFFICES ASSUME C # {} PROVE FALSE
  OBVIOUS
<1>1. C \subseteq FiniteSubsetsOf(S)
  BY FS_FiniteSubsetsOfFinite
<1>2. IsWellFoundedOn(StrictSubsetOrdering(S), FiniteSubsetsOf(S))
  BY FS_StrictSubsetOrderingWellFounded, Zenon
<1>3. PICK T \in C : \A U \in C : ~(<<U, T>> \in StrictSubsetOrdering(S))
  <2> HIDE DEF C
  <2> QED BY <1>1, <1>2, WFMin
<1>4. ASSUME NEW U \in SUBSET T, U # T
      PROVE  U \in G
  <2>1. U \in C => <<U, T>> \in StrictSubsetOrdering(S)
    BY <1>4 DEF StrictSubsetOrdering
  <2> QED BY <1>3, <2>1
<1> QED BY <1>4

(* The element the sum takes first, and the function it is defined by. *)
Pick(s) == CHOOSE x \in s : TRUE
IsSum(g, f, S) ==
  g = [s \in SUBSET S |-> IF s = {} THEN 0 ELSE f[Pick(s)] + g[s \ {Pick(s)}]]

(* CHOOSE finds an element of a set that has one. *)
LEMMA PickIn ==
  ASSUME NEW S, S # {}
  PROVE  Pick(S) \in S
BY DEF Pick

(* SumFunctionOnSet, with its definitions in the library expanded. *)
LEMMA SumIsSum ==
  ASSUME NEW f, NEW S
  PROVE  SumFunctionOnSet(f, S) = (CHOOSE g : IsSum(g, f, S))[S]
BY DEF SumFunctionOnSet, FoldFunctionOnSet, MapThenFoldSet, IsSum, Pick

(* Two of these functions agree where both are defined. *)
LEMMA SumAgrees ==
  ASSUME NEW f, NEW S, IsFiniteSet(S), NEW R, S \subseteq R,
         NEW g, IsSum(g, f, S), NEW h, IsSum(h, f, R)
  PROVE  \A T \in SUBSET S : g[T] = h[T]
<1> DEFINE G == {T \in SUBSET S : g[T] = h[T]}
<1>1. ASSUME NEW T \in SUBSET S, \A U \in SUBSET T : U # T => U \in G
      PROVE  T \in G
  <2>1. /\ g[T] = IF T = {} THEN 0 ELSE f[Pick(T)] + g[T \ {Pick(T)}]
        /\ h[T] = IF T = {} THEN 0 ELSE f[Pick(T)] + h[T \ {Pick(T)}]
    BY Zenon DEF IsSum
  <2>2. T # {} => T \ {Pick(T)} \in G
    BY <1>1, PickIn
  <2> QED BY <2>1, <2>2
<1>2. \A T \in SUBSET S : T \in G
  <2> HIDE DEF G
  <2> QED BY <1>1, SubsetInduction
<1> QED BY <1>2

(* There is one, for every finite set. *)
LEMMA SumExists ==
  ASSUME NEW f, NEW S, IsFiniteSet(S)
  PROVE  \A T \in SUBSET S : \E g : IsSum(g, f, T)
<1> DEFINE G == {T \in SUBSET S : \E g : IsSum(g, f, T)}
<1>1. ASSUME NEW T \in SUBSET S, \A U \in SUBSET T : U # T => U \in G
      PROVE  T \in G
  <2> DEFINE Part(s)  == CHOOSE g : IsSum(g, f, s)
             Value(s) == Part(s)[s]
             Sum(s)   == IF s = {} THEN 0 ELSE f[Pick(s)] + Value(s \ {Pick(s)})
             h        == [s \in SUBSET T |-> Sum(s)]
  <2>1. ASSUME NEW U \in SUBSET T, U # T
        PROVE  IsSum(Part(U), f, U)
    BY <1>1, <2>1, Zenon
  <2>2. ASSUME NEW U \in SUBSET T, U # T
        PROVE  Value(U) = Sum(U)
    <3> DEFINE W == U \ {Pick(U)}
    <3>1. IsSum(Part(U), f, U)
      BY <2>1, <2>2
    <3>2. Part(U)[U] = IF U = {} THEN 0 ELSE f[Pick(U)] + Part(U)[W]
      <4> HIDE DEF Part
      <4> QED BY <3>1, Zenon DEF IsSum
    <3>3. ASSUME U # {}
          PROVE  Part(W)[W] = Part(U)[W]
      <4>1. W \in SUBSET T /\ W # T /\ W \subseteq U
        BY <2>2, <3>3, PickIn
      <4>2. IsSum(Part(W), f, W)
        BY <4>1, <2>1, Zenon
      <4>3. IsFiniteSet(W)
        BY <4>1, FS_Subset
      <4> HIDE DEF Part, W
      <4> QED BY <4>1, <4>2, <4>3, <3>1, SumAgrees
    <3> QED BY <3>2, <3>3
  <2>3. ASSUME NEW s \in SUBSET T, s # {}
        PROVE  h[s \ {Pick(s)}] = Value(s \ {Pick(s)})
    <3>1. s \ {Pick(s)} \in SUBSET T /\ s \ {Pick(s)} # T
      BY <2>3, PickIn
    <3>2. Value(s \ {Pick(s)}) = Sum(s \ {Pick(s)})
      BY <3>1, <2>2, Zenon
    <3> HIDE DEF Value, Sum
    <3> QED BY <3>1, <3>2
  <2>4. \A s \in SUBSET T : Sum(s) = IF s = {} THEN 0 ELSE f[Pick(s)] + h[s \ {Pick(s)}]
    <3> HIDE DEF Value, h
    <3> QED BY <2>3
  <2>5. h = [s \in SUBSET T |-> IF s = {} THEN 0 ELSE f[Pick(s)] + h[s \ {Pick(s)}]]
    <3> HIDE DEF Sum
    <3> QED BY <2>4, Zenon
  <2> HIDE DEF h
  <2> QED BY <2>5 DEF IsSum
<1>2. \A T \in SUBSET S : T \in G
  <2> HIDE DEF G
  <2> QED BY <1>1, SubsetInduction
<1> QED BY <1>2

(* So the sum obeys the recursion it is written as. *)
LEMMA SumRecursion ==
  ASSUME NEW f, NEW S, IsFiniteSet(S)
  PROVE  SumFunctionOnSet(f, S) =
           IF S = {} THEN 0 ELSE f[Pick(S)] + SumFunctionOnSet(f, S \ {Pick(S)})
<1> DEFINE g == CHOOSE x : IsSum(x, f, S)
           R == S \ {Pick(S)}
           h == CHOOSE x : IsSum(x, f, R)
<1>1. IsFiniteSet(R) /\ R \subseteq S
  BY FS_Subset
<1>2. IsSum(g, f, S)
  <2>1. \E x : IsSum(x, f, S) BY SumExists
  <2> QED BY <2>1, Zenon
<1>3. IsSum(h, f, R)
  <2>1. \E x : IsSum(x, f, R)
    <3> HIDE DEF R
    <3> QED BY <1>1, SumExists
  <2> QED BY <2>1, Zenon
<1>4. SumFunctionOnSet(f, S) = g[S] /\ SumFunctionOnSet(f, R) = h[R]
  BY SumIsSum, Zenon
<1>5. h[R] = g[R]
  <2> HIDE DEF g, h, R
  <2> QED BY <1>1, <1>2, <1>3, SumAgrees
<1>6. g[S] = IF S = {} THEN 0 ELSE f[Pick(S)] + g[R]
  <2> HIDE DEF g
  <2> QED BY <1>2, Zenon DEF IsSum
<1> HIDE DEF g, h
<1> QED BY <1>4, <1>5, <1>6

(* A sum of naturals is one. *)
LEMMA SumType ==
  ASSUME NEW f, NEW S, IsFiniteSet(S), \A x \in S : f[x] \in Nat
  PROVE  \A T \in SUBSET S : SumFunctionOnSet(f, T) \in Nat
<1> DEFINE G == {T \in SUBSET S : SumFunctionOnSet(f, T) \in Nat}
<1>1. ASSUME NEW T \in SUBSET S, \A U \in SUBSET T : U # T => U \in G
      PROVE  T \in G
  <2>1. SumFunctionOnSet(f, T) =
          IF T = {} THEN 0 ELSE f[Pick(T)] + SumFunctionOnSet(f, T \ {Pick(T)})
    BY FS_Subset, SumRecursion
  <2>2. T # {} => Pick(T) \in S /\ T \ {Pick(T)} \in G
    BY <1>1, PickIn
  <2> QED BY <2>1, <2>2
<1>2. \A T \in SUBSET S : T \in G
  <2> HIDE DEF G
  <2> QED BY <1>1, SubsetInduction
<1> QED BY <1>2

(* Any element can be taken out first. *)
LEMMA SumRemove ==
  ASSUME NEW f, NEW S, IsFiniteSet(S), \A x \in S : f[x] \in Nat
  PROVE  \A T \in SUBSET S : \A x \in T :
           SumFunctionOnSet(f, T) = f[x] + SumFunctionOnSet(f, T \ {x})
<1> DEFINE Sum(T) == SumFunctionOnSet(f, T)
           G == {T \in SUBSET S : \A x \in T : Sum(T) = f[x] + Sum(T \ {x})}
<1>1. ASSUME NEW T \in SUBSET S, \A U \in SUBSET T : U # T => U \in G
      PROVE  T \in G
  <2> SUFFICES ASSUME NEW x \in T
               PROVE  Sum(T) = f[x] + Sum(T \ {x})
    OBVIOUS
  <2> DEFINE p == Pick(T)
  <2>1. Sum(T) = f[p] + Sum(T \ {p})
    BY FS_Subset, SumRecursion
  <2>2. p \in T
    BY PickIn
  <2>3. CASE x = p
    BY <2>1, <2>3
  <2>4. CASE x # p
    <3>1. T \ {p} \in G /\ T \ {x} \in G
      BY <1>1, <2>2
    <3>2. Sum(T \ {p}) = f[x] + Sum((T \ {p}) \ {x})
      BY <3>1, <2>4
    <3>3. Sum(T \ {x}) = f[p] + Sum((T \ {x}) \ {p})
      BY <3>1, <2>2, <2>4
    <3>4. (T \ {p}) \ {x} = (T \ {x}) \ {p}
      BY Zenon
    <3>5. Sum((T \ {x}) \ {p}) \in Nat /\ f[x] \in Nat /\ f[p] \in Nat
      BY <2>2, SumType
    <3> HIDE DEF Sum, p
    <3> QED BY <2>1, <3>2, <3>3, <3>4, <3>5
  <2> QED BY <2>3, <2>4
<1>2. \A T \in SUBSET S : T \in G
  <2> HIDE DEF G
  <2> QED BY <1>1, SubsetInduction
<1> QED BY <1>2, Zenon

(* More at every place is more in the sum. *)
LEMMA SumMonotone ==
  ASSUME NEW f, NEW g, NEW S, IsFiniteSet(S),
         \A x \in S : f[x] \in Nat /\ g[x] \in Nat /\ f[x] <= g[x]
  PROVE  \A T \in SUBSET S : SumFunctionOnSet(f, T) <= SumFunctionOnSet(g, T)
<1> DEFINE G == {T \in SUBSET S : SumFunctionOnSet(f, T) <= SumFunctionOnSet(g, T)}
<1>1. ASSUME NEW T \in SUBSET S, \A U \in SUBSET T : U # T => U \in G
      PROVE  T \in G
  <2> DEFINE p == Pick(T)
  <2>1. /\ SumFunctionOnSet(f, T) = IF T = {} THEN 0 ELSE f[p] + SumFunctionOnSet(f, T \ {p})
        /\ SumFunctionOnSet(g, T) = IF T = {} THEN 0 ELSE g[p] + SumFunctionOnSet(g, T \ {p})
    BY FS_Subset, SumRecursion
  <2>2. SumFunctionOnSet(f, T \ {p}) \in Nat /\ SumFunctionOnSet(g, T \ {p}) \in Nat
    BY SumType
  <2>3. T # {} => p \in S /\ T \ {p} \in G
    BY <1>1, PickIn
  <2> HIDE DEF p
  <2> QED BY <2>1, <2>2, <2>3
<1>2. \A T \in SUBSET S : T \in G
  <2> HIDE DEF G
  <2> QED BY <1>1, SubsetInduction
<1> QED BY <1>2

(* Equal functions have equal sums. *)
LEMMA SumEqual ==
  ASSUME NEW f, NEW g, NEW S, IsFiniteSet(S),
         \A x \in S : f[x] \in Nat /\ g[x] = f[x]
  PROVE  SumFunctionOnSet(g, S) = SumFunctionOnSet(f, S)
<1>1. SumFunctionOnSet(f, S) \in Nat /\ SumFunctionOnSet(g, S) \in Nat
  BY SumType
<1>2. SumFunctionOnSet(f, S) <= SumFunctionOnSet(g, S)
  BY SumMonotone
<1>3. SumFunctionOnSet(g, S) <= SumFunctionOnSet(f, S)
  BY SumMonotone
<1> QED BY <1>1, <1>2, <1>3

(* One more at one place is one more in the sum. *)
LEMMA SumIncrement ==
  ASSUME NEW f, NEW g, NEW S, IsFiniteSet(S), NEW a \in S,
         \A x \in S : f[x] \in Nat /\ g[x] = IF x = a THEN f[x] + 1 ELSE f[x]
  PROVE  SumFunctionOnSet(g, S) = SumFunctionOnSet(f, S) + 1
<1>1. /\ SumFunctionOnSet(f, S) = f[a] + SumFunctionOnSet(f, S \ {a})
      /\ SumFunctionOnSet(g, S) = g[a] + SumFunctionOnSet(g, S \ {a})
  BY SumRemove
<1>2. SumFunctionOnSet(g, S \ {a}) = SumFunctionOnSet(f, S \ {a})
  <2>1. IsFiniteSet(S \ {a})
    BY FS_Subset
  <2> QED BY <2>1, SumEqual
<1>3. SumFunctionOnSet(f, S \ {a}) \in Nat
  BY SumType
<1> QED BY <1>1, <1>2, <1>3

(* The sum over two sets with nothing in common is that over their union. *)
LEMMA SumUnion ==
  ASSUME NEW f, NEW S, IsFiniteSet(S), \A x \in S : f[x] \in Nat, NEW A \in SUBSET S
  PROVE  \A B \in SUBSET S : A \cap B = {} =>
           SumFunctionOnSet(f, A \cup B) = SumFunctionOnSet(f, A) + SumFunctionOnSet(f, B)
<1> DEFINE Sum(T) == SumFunctionOnSet(f, T)
           G == {B \in SUBSET S : A \cap B = {} => Sum(A \cup B) = Sum(A) + Sum(B)}
<1>0. \A T \in SUBSET S : Sum(T) \in Nat
  BY SumType
<1>1. ASSUME NEW B \in SUBSET S, \A U \in SUBSET B : U # B => U \in G
      PROVE  B \in G
  <2> SUFFICES ASSUME A \cap B = {}
               PROVE  Sum(A \cup B) = Sum(A) + Sum(B)
    OBVIOUS
  <2>1. CASE B = {}
    <3>1. Sum(B) = 0
      BY <2>1, FS_EmptySet, SumRecursion, Zenon
    <3>2. A \cup B = A
      BY <2>1
    <3> HIDE DEF Sum
    <3> QED BY <3>1, <3>2, <1>0
  <2>2. CASE B # {}
    <3>1. PICK x \in B : TRUE
      BY <2>2
    <3>2. Sum(A \cup B) = f[x] + Sum((A \cup B) \ {x})
      BY SumRemove
    <3>3. Sum(B) = f[x] + Sum(B \ {x})
      BY SumRemove
    <3>4. (A \cup B) \ {x} = A \cup (B \ {x})
      OBVIOUS
    <3>5. Sum(A \cup (B \ {x})) = Sum(A) + Sum(B \ {x})
      BY <1>1
    <3>6. Sum(A) \in Nat /\ Sum(B \ {x}) \in Nat /\ f[x] \in Nat
      BY <1>0
    <3> HIDE DEF Sum
    <3> QED BY <3>2, <3>3, <3>4, <3>5, <3>6
  <2> QED BY <2>1, <2>2
<1>2. \A B \in SUBSET S : B \in G
  <2> HIDE DEF G
  <2> QED BY <1>1, SubsetInduction
<1> QED BY <1>2

(* A larger set has the larger sum. *)
LEMMA SumSubset ==
  ASSUME NEW f, NEW S, IsFiniteSet(S), \A x \in S : f[x] \in Nat,
         NEW B \in SUBSET S, NEW A \in SUBSET B
  PROVE  SumFunctionOnSet(f, A) <= SumFunctionOnSet(f, B)
<1>1. A \cup (B \ A) = B /\ A \cap (B \ A) = {}
  OBVIOUS
<1>2. SumFunctionOnSet(f, A \cup (B \ A)) =
        SumFunctionOnSet(f, A) + SumFunctionOnSet(f, B \ A)
  BY <1>1, SumUnion
<1>3. SumFunctionOnSet(f, A) \in Nat /\ SumFunctionOnSet(f, B \ A) \in Nat
  BY SumType
<1>4. SumFunctionOnSet(f, A \cup (B \ A)) = SumFunctionOnSet(f, B)
  BY <1>1, Zenon
<1> QED BY <1>2, <1>3, <1>4

(***************************************************************************)
(* When every g[k] is at most the sum of h over the places that k names,   *)
(* the sum of g is at most that of h over all these places: no place is    *)
(* named by two of them.                                                   *)
(***************************************************************************)
LEMMA SumFibres ==
  ASSUME NEW g, NEW K, IsFiniteSet(K), \A k \in K : g[k] \in Nat,
         NEW h, NEW S, IsFiniteSet(S), \A s \in S : h[s] \in Nat,
         NEW name,
         \A k \in K : g[k] <= SumFunctionOnSet(h, {s \in S : name[s] = k})
  PROVE  SumFunctionOnSet(g, K) <= SumFunctionOnSet(h, {s \in S : name[s] \in K})
<1> DEFINE Of(T) == {s \in S : name[s] \in T}
           At(k) == {s \in S : name[s] = k}
           Left(T) == SumFunctionOnSet(g, T)
           Right(T) == SumFunctionOnSet(h, T)
           G == {T \in SUBSET K : Left(T) <= Right(Of(T))}
<1>0. /\ \A T \in SUBSET K : Left(T) \in Nat
      /\ \A T \in SUBSET S : Right(T) \in Nat
  BY SumType
<1>1. ASSUME NEW T \in SUBSET K, \A U \in SUBSET T : U # T => U \in G
      PROVE  T \in G
  <2>1. CASE T = {}
    <3>1. Left(T) = 0
      BY <2>1, FS_EmptySet, SumRecursion, Zenon
    <3>2. Right(Of(T)) \in Nat
      BY <1>0
    <3> HIDE DEF Left, Right, Of
    <3> QED BY <3>1, <3>2
  <2>2. CASE T # {}
    <3>1. PICK k \in T : TRUE
      BY <2>2
    <3>2. Left(T) = g[k] + Left(T \ {k})
      BY SumRemove
    <3>3. Left(T \ {k}) <= Right(Of(T \ {k}))
      BY <1>1
    <3>4. Of(T) = At(k) \cup Of(T \ {k}) /\ At(k) \cap Of(T \ {k}) = {}
      OBVIOUS
    <3>5. At(k) \in SUBSET S /\ Of(T \ {k}) \in SUBSET S
      OBVIOUS
    <3>6. Right(Of(T)) = Right(At(k)) + Right(Of(T \ {k}))
      <4> HIDE DEF At, Of
      <4>1. Right(At(k) \cup Of(T \ {k})) = Right(At(k)) + Right(Of(T \ {k}))
        <5>1. \A B \in SUBSET S : At(k) \cap B = {} =>
                Right(At(k) \cup B) = Right(At(k)) + Right(B)
          BY <3>5, SumUnion
        <5> QED BY <5>1, <3>4, <3>5, Zenon
      <4>2. Right(At(k) \cup Of(T \ {k})) = Right(Of(T))
        BY <3>4, Zenon
      <4> QED BY <4>1, <4>2, Zenon
    <3>7. g[k] \in Nat /\ g[k] <= Right(At(k)) /\ Left(T \ {k}) \in Nat
      BY <1>0
    <3>8. Right(At(k)) \in Nat /\ Right(Of(T \ {k})) \in Nat
      BY <1>0, <3>5
    <3> HIDE DEF Left, Right, Of, At
    <3> QED BY <3>2, <3>3, <3>6, <3>7, <3>8
  <2> QED BY <2>1, <2>2
<1>2. \A T \in SUBSET K : T \in G
  <2> HIDE DEF G
  <2> QED BY <1>1, SubsetInduction
<1> QED BY <1>2
-----------------------------------------------------------------------------
(* What bpf_get_stackid does to the map of stacks. *)

(* n has what m has, and perhaps more. *)
Extends(n, m) == \A b \in Buckets : m[b] # None => n[b] = m[b]

(* It takes an empty bucket or none, and afterwards the bucket is taken. *)
LEMMA StackIdTakes ==
  ASSUME NEW map \in [Buckets -> Stacks], NEW stack \in Stacks
  PROVE  LET r == GetStackId(map, stack) IN
         /\ r.id \in Buckets \cup {NoStack}
         /\ r.map \in [Buckets -> Stacks]
         /\ Extends(r.map, map)
         /\ stack # None => r.map[Bucket[stack]] # None
         /\ GetStackId(r.map, stack).id = r.id
<1>1. stack # None => Bucket[stack] \in Buckets
  BY DEF Buckets, Stacks, Range
<1> QED BY <1>1 DEF GetStackId, Extends, Stacks

(* A stack whose bucket is taken keeps its id. *)
LEMMA StackIdStays ==
  ASSUME NEW m \in [Buckets -> Stacks], NEW n \in [Buckets -> Stacks], Extends(n, m),
         NEW stack \in Stacks, stack # None => m[Bucket[stack]] # None
  PROVE  GetStackId(n, stack).id = GetStackId(m, stack).id
<1>1. stack # None => Bucket[stack] \in Buckets
  BY DEF Buckets, Stacks, Range
<1> QED BY <1>1 DEF GetStackId, Extends, Stacks

(* An id is that of a bucket which is free or holds the stack. *)
LEMMA StackIdMeans ==
  ASSUME NEW map \in [Buckets -> Stacks], NEW stack \in Stacks,
         stack # None => map[Bucket[stack]] # None,
         GetStackId(map, stack).id # NoStack
  PROVE  /\ GetStackId(map, stack).id \in Buckets
         /\ map[GetStackId(map, stack).id] = stack /\ stack # None
<1>1. stack # None => Bucket[stack] \in Buckets
  BY DEF Buckets, Stacks, Range
<1> QED BY <1>1 DEF GetStackId, Stacks
-----------------------------------------------------------------------------
(* How often a key was met. *)

(* Samples and their stacks, from the assumption. *)
LEMMA SampleType ==
  ASSUME NEW s \in Samples
  PROVE  /\ s.pid \in Pids /\ s.user \in Stacks /\ s.kern \in Stacks
         /\ s.user # None => Bucket[s.user] \in Buckets
         /\ s.kern # None => Bucket[s.kern] \in Buckets
BY SamplerAssumption DEF Pids, Stacks, Buckets, Range

(* It is a natural number. *)
LEMMA HitsType ==
  ASSUME TypeOK
  PROVE  \A k : HitsOf(k) \in Nat
<1> SUFFICES ASSUME NEW k
             PROVE  HitsOf(k) \in Nat
  OBVIOUS
<1>1. Hit(k) \in SUBSET Samples
  BY DEF Hit
<1>2. \A s \in Samples : hits[s] \in Nat
  BY DEF TypeOK
<1> QED BY <1>1, <1>2, SumType, SamplerAssumption DEF HitsOf

(* A key that was met has a sample that was. *)
LEMMA HitsSome ==
  ASSUME NEW k, HitsOf(k) > 0
  PROVE  \E s \in Samples : hits[s] > 0 /\ KeyNow(s) = k
<1> SUFFICES ASSUME Hit(k) = {}
             PROVE  FALSE
  BY DEF Hit
<1>1. SumFunctionOnSet(hits, Hit(k)) = 0
  BY FS_EmptySet, SumRecursion, Zenon
<1> QED BY <1>1 DEF HitsOf

(* It depends on the stacks and the hits only. *)
LEMMA HitsSame ==
  ASSUME UNCHANGED <<stackMap, hits>>
  PROVE  \A k : HitsOf(k)' = HitsOf(k)
BY DEF HitsOf, Hit, KeyNow, Key, GetStackId

(* A sample that was met keeps its key as buckets are filled. *)
LEMMA KeyStays ==
  ASSUME stackMap \in [Buckets -> Stacks], stackMap' \in [Buckets -> Stacks],
         Extends(stackMap', stackMap), NEW s \in Samples, Seen(s.user), Seen(s.kern)
  PROVE  KeyNow(s)' = KeyNow(s) /\ Seen(s.user)' /\ Seen(s.kern)'
<1> USE SampleType
<1>1. GetStackId(stackMap', s.user).id = GetStackId(stackMap, s.user).id
  BY StackIdStays DEF Seen
<1>2. GetStackId(stackMap', s.kern).id = GetStackId(stackMap, s.kern).id
  BY StackIdStays DEF Seen
<1>3. Seen(s.user)' /\ Seen(s.kern)'
  BY Zenon DEF Seen, Extends
<1> QED BY <1>1, <1>2, <1>3 DEF KeyNow, Key

(* What a switch does: the sample has its key from then on. *)
LEMMA SwitchStep ==
  ASSUME TypeOK, NEW c \in CPUs, NEW s \in Samples, SchedSwitch(c, s)
  PROVE  \E key \in Keys :
           /\ key.pid = s.pid /\ KeyNow(s)' = key
           /\ stackMap' \in [Buckets -> Stacks] /\ Extends(stackMap', stackMap)
           /\ Seen(s.user)' /\ Seen(s.kern)'
           /\ key \in DOMAIN counts =>
                counts' = [counts EXCEPT ![key] = @ + 1] /\ probe' = probe
           /\ key \notin DOMAIN counts =>
                /\ counts' = counts
                /\ probe' = [probe EXCEPT ![c] = [by |-> s.pid, key |-> key]]
<1> DEFINE user == GetStackId(stackMap, s.user)
           kern == GetStackId(user.map, s.kern)
           key  == Key(s, user.id, kern.id)
<1> USE SampleType
<1>1. stackMap \in [Buckets -> Stacks]
  BY DEF TypeOK
<1>2. /\ user.id \in Buckets \cup {NoStack} /\ user.map \in [Buckets -> Stacks]
      /\ Extends(user.map, stackMap)
      /\ s.user # None => user.map[Bucket[s.user]] # None
      /\ GetStackId(user.map, s.user).id = user.id
  BY <1>1, StackIdTakes, Zenon
<1>3. /\ kern.id \in Buckets \cup {NoStack} /\ kern.map \in [Buckets -> Stacks]
      /\ Extends(kern.map, user.map)
      /\ s.kern # None => kern.map[Bucket[s.kern]] # None
      /\ GetStackId(kern.map, s.kern).id = kern.id
  <2> HIDE DEF user
  <2> QED BY <1>2, StackIdTakes
<1>4. GetStackId(kern.map, s.user).id = user.id
  <2> HIDE DEF user, kern
  <2> QED BY <1>2, <1>3, StackIdStays
<1>5. stackMap' = kern.map
  BY DEF SchedSwitch
<1>6. Extends(kern.map, stackMap)
  <2> HIDE DEF user, kern
  <2> QED BY <1>2, <1>3 DEF Extends
<1>7. s.user # None => kern.map[Bucket[s.user]] # None
  <2> HIDE DEF user, kern
  <2> QED BY <1>2, <1>3 DEF Extends
<1>8. KeyNow(s)' = key
  <2> HIDE DEF user, kern
  <2> QED BY <1>3, <1>4, <1>5 DEF KeyNow, Key
<1>9. key \in Keys /\ key.pid = s.pid
  <2> HIDE DEF user, kern
  <2> QED BY <1>2, <1>3 DEF Keys, Key
<1>10. Seen(s.user)' /\ Seen(s.kern)'
  <2> HIDE DEF user, kern
  <2> QED BY <1>3, <1>5, <1>7 DEF Seen
<1>11. /\ key \in DOMAIN counts =>
            counts' = [counts EXCEPT ![key] = @ + 1] /\ probe' = probe
       /\ key \notin DOMAIN counts =>
            counts' = counts /\ probe' = [probe EXCEPT ![c] = [by |-> s.pid, key |-> key]]
  BY DEF SchedSwitch
<1> HIDE DEF user, kern, key
<1> QED BY <1>3, <1>5, <1>6, <1>8, <1>9, <1>10, <1>11

(* A switch is one more hit of that key, and of no other. *)
LEMMA SwitchHits ==
  ASSUME TypeOK, \A x \in Samples : hits[x] > 0 => Seen(x.user) /\ Seen(x.kern),
         NEW c \in CPUs, NEW s \in Samples, SchedSwitch(c, s), NEW k
  PROVE  HitsOf(k)' = IF k = KeyNow(s)' THEN HitsOf(k) + 1 ELSE HitsOf(k)
<1>1. /\ stackMap \in [Buckets -> Stacks] /\ stackMap' \in [Buckets -> Stacks]
      /\ Extends(stackMap', stackMap)
  BY SwitchStep DEF TypeOK
<1>2. \A x \in Samples : hits[x] > 0 => KeyNow(x)' = KeyNow(x)
  BY <1>1, KeyStays, Zenon
<1>3. /\ \A x \in Samples : hits[x] \in Nat
      /\ \A x \in Samples : hits'[x] = IF x = s THEN hits[x] + 1 ELSE hits[x]
  BY DEF SchedSwitch, TypeOK
<1> DEFINE A == {x \in Samples : hits[x] > 0 /\ KeyNow(x) = k}
           B == {x \in Samples : hits'[x] > 0 /\ KeyNow(x)' = k}
<1>4. HitsOf(k) = SumFunctionOnSet(hits, A) /\ HitsOf(k)' = SumFunctionOnSet(hits', B)
  BY DEF HitsOf, Hit
<1>5. IsFiniteSet(A) /\ IsFiniteSet(B)
  BY SamplerAssumption, FS_Subset
<1>6. CASE k # KeyNow(s)'
  <2>1. A = B /\ s \notin A
    BY <1>2, <1>3, <1>6, Zenon
  <2>2. SumFunctionOnSet(hits', A) = SumFunctionOnSet(hits, A)
    BY <2>1, <1>3, <1>5, SumEqual
  <2>3. SumFunctionOnSet(hits', A) = SumFunctionOnSet(hits', B)
    BY <2>1, Zenon
  <2> HIDE DEF A, B
  <2> QED BY <2>2, <2>3, <1>4, <1>6, Zenon
<1>7. CASE k = KeyNow(s)' /\ hits[s] > 0
  <2>1. A = B /\ s \in A
    BY <1>2, <1>3, <1>7
  <2>2. SumFunctionOnSet(hits', A) = SumFunctionOnSet(hits, A) + 1
    BY <2>1, <1>3, <1>5, SumIncrement
  <2>3. SumFunctionOnSet(hits', A) = SumFunctionOnSet(hits', B)
    BY <2>1, Zenon
  <2> HIDE DEF A, B
  <2> QED BY <2>2, <2>3, <1>4, <1>7
<1>8. CASE k = KeyNow(s)' /\ hits[s] = 0
  <2>1. s \in B /\ B \ {s} = A
    BY <1>2, <1>3, <1>8
  <2>2. SumFunctionOnSet(hits', B) = hits'[s] + SumFunctionOnSet(hits', B \ {s})
    BY <2>1, <1>3, <1>5, SumRemove
  <2>3. SumFunctionOnSet(hits', A) = SumFunctionOnSet(hits, A)
    BY <2>1, <1>3, <1>5, SumEqual
  <2>4. SumFunctionOnSet(hits, A) \in Nat
    BY <1>3, <1>5, SumType
  <2>5. SumFunctionOnSet(hits', B \ {s}) = SumFunctionOnSet(hits', A)
    BY <2>1, Zenon
  <2>6. hits'[s] = 1
    BY <1>3, <1>8
  <2> HIDE DEF A, B
  <2> QED BY <2>2, <2>3, <2>4, <2>5, <2>6, <1>4, <1>8
<1> QED BY <1>3, <1>6, <1>7, <1>8
-----------------------------------------------------------------------------
(* The type invariant and the states of the loader. *)

(* The empty map of counts. *)
LEMMA EmptyMap == CountMap(Empty) /\ DOMAIN Empty = {}
BY FS_EmptySet, SamplerAssumption DEF CountMap, Empty

(* A map with fewer keys. *)
LEMMA SmallerMap ==
  ASSUME NEW f, CountMap(f), NEW g, g = [k \in DOMAIN g |-> g[k]], DOMAIN g \subseteq DOMAIN f,
         \A k \in DOMAIN g : g[k] \in Nat \ {0}
  PROVE  CountMap(g)
<1>1. IsFiniteSet(DOMAIN g) /\ Cardinality(DOMAIN g) <= Cardinality(DOMAIN f)
  BY FS_Subset DEF CountMap
<1>2. Cardinality(DOMAIN g) \in Nat /\ Cardinality(DOMAIN f) \in Nat
  BY <1>1, FS_CardinalityType DEF CountMap
<1> QED BY <1>1, <1>2, SamplerAssumption DEF CountMap

(* The insertion into a map that is not full, or has the key. *)
LEMMA LargerMap ==
  ASSUME NEW f, CountMap(f), NEW x \in Keys,
         x \in DOMAIN f \/ Cardinality(DOMAIN f) < MaxEntries
  PROVE  CountMap([k \in DOMAIN f \cup {x} |-> IF k = x THEN 1 ELSE f[k]])
<1>1. /\ IsFiniteSet(DOMAIN f \cup {x})
      /\ x \in DOMAIN f => DOMAIN f \cup {x} = DOMAIN f
      /\ x \notin DOMAIN f => Cardinality(DOMAIN f \cup {x}) = Cardinality(DOMAIN f) + 1
  BY FS_AddElement DEF CountMap
<1>2. Cardinality(DOMAIN f) \in Nat
  BY FS_CardinalityType DEF CountMap
<1>3. Cardinality(DOMAIN f \cup {x}) <= MaxEntries
  BY <1>1, <1>2, SamplerAssumption DEF CountMap
<1> QED BY <1>1, <1>3 DEF CountMap

(* The step of the insertion, with its two outcomes. *)
LEMMA UpdateStep ==
  ASSUME TypeOK, NEW c \in CPUs, UpdateElem(c)
  PROVE  \E x \in Keys :
           /\ probe[c] \in Probes /\ probe[c].key = x
           /\ CountMap(counts') /\ DOMAIN counts \subseteq DOMAIN counts'
           /\ \/ /\ x \in DOMAIN counts \/ ~Full
                 /\ counts' = [k \in DOMAIN counts \cup {x} |->
                                 IF k = x THEN 1 ELSE counts[k]]
              \/ Full /\ x \notin DOMAIN counts /\ counts' = counts
<1>1. probe[c] \in Probes /\ probe[c].key \in Keys
  BY DEF TypeOK, UpdateElem, Probes
<1>2. PICK x \in Keys : x = probe[c].key
  BY <1>1
<1>3. Cardinality(DOMAIN counts) \in Nat
  BY FS_CardinalityType DEF TypeOK, CountMap
<1>4. CASE x \in DOMAIN counts \/ ~Full
  <2>1. counts' = [k \in DOMAIN counts \cup {x} |-> IF k = x THEN 1 ELSE counts[k]]
    BY <1>2, <1>3, <1>4, SamplerAssumption DEF UpdateElem, Full
  <2>2. CountMap([k \in DOMAIN counts \cup {x} |-> IF k = x THEN 1 ELSE counts[k]])
    <3>1. x \in DOMAIN counts \/ Cardinality(DOMAIN counts) < MaxEntries
      BY <1>3, <1>4, SamplerAssumption DEF Full
    <3>2. CountMap(counts)
      BY DEF TypeOK
    <3> QED BY <3>1, <3>2, LargerMap
  <2> QED BY <2>1, <2>2, <1>1, <1>2, <1>4
<1>5. CASE Full /\ x \notin DOMAIN counts
  <2>1. counts' = counts
    BY <1>2, <1>3, <1>5, SamplerAssumption DEF UpdateElem, Full
  <2> QED BY <2>1, <1>1, <1>2, <1>5 DEF TypeOK
<1> QED BY <1>4, <1>5, Zenon

(* Initially SamplerInv holds. *)
LEMMA InitInv == Init => SamplerInv
<1> SUFFICES ASSUME Init PROVE SamplerInv
  OBVIOUS
<1>1. TypeOK
  <2>1. CountMap(counts) /\ CountMap(start) /\ CountMap(got)
    BY EmptyMap DEF Init
  <2>2. DOMAIN file \subseteq [kern : Stacks, user : Stacks]
    BY EmptyMap DEF Init
  <2>3. reads \in 0..MaxReads
    BY SamplerAssumption DEF Init
  <2>4. stackMap \in [Buckets -> Stacks]
    BY DEF Init, Stacks
  <2>5. probe \in [CPUs -> Probes \cup {None}] /\ hits \in [Samples -> Nat]
    BY DEF Init
  <2>6. reading \in [{"self", "other"} -> Pids \cup OtherPids \cup {None}]
    BY DEF Init
  <2>7. cache \subseteq Pids \cup OtherPids /\ lru \in Seq(Pids \cup OtherPids)
    BY DEF Init
  <2>8. target \in Pids \cup {None} /\ doubles \in Nat /\ todo \subseteq Keys
    BY DEF Init
  <2>9. loaded \in BOOLEAN /\ attached \in BOOLEAN
    BY Zenon DEF Init
  <2> QED BY <2>1, <2>2, <2>3, <2>4, <2>5, <2>6, <2>7, <2>8, <2>9 DEF Init, TypeOK
<1>2. LoaderInv
  BY DEF Init, LoaderInv
<1>3. CacheInv
  BY FS_EmptySet, SamplerAssumption DEF Init, CacheInv
<1>4. \A k : ~(HitsOf(k) > 0)
  BY HitsSome DEF Init
<1>5. CountsInv
  BY <1>4, EmptyMap DEF Init, CountsInv, StacksSeen, CountsBehind, MissingPending, ProbesOwn
<1>6. FileInv
  BY EmptyMap DEF Init, FileInv, ReadKnown, StartKept
<1> QED BY <1>1, <1>2, <1>3, <1>5, <1>6 DEF SamplerInv

(* The parts of the type invariant: those of the kernel, of the loader and *)
(* of the cache of process maps.                                           *)
KernelType ==
  /\ stackMap \in [Buckets -> Stacks] /\ CountMap(counts)
  /\ probe \in [CPUs -> Probes \cup {None}] /\ hits \in [Samples -> Nat]
LoaderType ==
  /\ target \in Pids \cup {None}
  /\ pc \in {"load", "attach", "sleep", "collect", "phase2", "phase3", "write",
            "clean", "destroy", "returned"}
  /\ loaded \in BOOLEAN /\ attached \in BOOLEAN
  /\ CountMap(start) /\ CountMap(got) /\ todo \subseteq Keys
  /\ DOMAIN file \subseteq [kern : Stacks, user : Stacks]
SymbolsType ==
  /\ cache \subseteq Pids \cup OtherPids /\ lru \in Seq(Pids \cup OtherPids)
  /\ reading \in [{"self", "other"} -> Pids \cup OtherPids \cup {None}]
  /\ reads \in 0..MaxReads /\ doubles \in Nat

(* Together they are the type invariant. *)
LEMMA TypeParts ==
  /\ TypeOK => KernelType /\ LoaderType /\ SymbolsType
  /\ KernelType' /\ LoaderType' /\ SymbolsType' => TypeOK'
BY Zenon DEF TypeOK, KernelType, LoaderType, SymbolsType

(* A part whose variables do not change keeps its type. *)
LEMMA TypeFrame ==
  /\ KernelType /\ UNCHANGED kernel => KernelType'
  /\ LoaderType /\ UNCHANGED loader => LoaderType'
  /\ SymbolsType /\ UNCHANGED symbols => SymbolsType'
<1>1. KernelType /\ UNCHANGED kernel => KernelType'
  BY DEF KernelType, kernel, CountMap
<1>2. LoaderType /\ UNCHANGED loader => LoaderType'
  BY Zenon DEF LoaderType, loader, CountMap
<1>3. SymbolsType /\ UNCHANGED symbols => SymbolsType'
  BY DEF SymbolsType, symbols
<1> QED BY <1>1, <1>2, <1>3, Zenon

(* The BPF program keeps the types. *)
LEMMA KernelTypeStep ==
  ASSUME TypeOK, KernelStep
  PROVE  TypeOK'
<1>1. ASSUME NEW c \in CPUs, UpdateElem(c)
      PROVE  KernelType' /\ UNCHANGED <<loader, symbols>>
  <2>1. CountMap(counts')
    BY <1>1, UpdateStep, Zenon
  <2>2. probe' \in [CPUs -> Probes \cup {None}] /\ hits' = hits /\ stackMap' = stackMap
    BY <1>1 DEF UpdateElem, TypeOK
  <2>3. CountMap(counts)'
    BY <2>1 DEF CountMap
  <2>4. UNCHANGED <<loader, symbols>>
    BY <1>1, Zenon DEF UpdateElem
  <2> QED BY <2>2, <2>3, <2>4, Zenon DEF KernelType, TypeOK
<1>2. ASSUME NEW c \in CPUs, NEW s \in Samples, SchedSwitch(c, s)
      PROVE  KernelType' /\ UNCHANGED <<loader, symbols>>
  <2>1. PICK key \in Keys :
          /\ key.pid = s.pid
          /\ stackMap' \in [Buckets -> Stacks]
          /\ key \in DOMAIN counts =>
               counts' = [counts EXCEPT ![key] = @ + 1] /\ probe' = probe
          /\ key \notin DOMAIN counts =>
               /\ counts' = counts
               /\ probe' = [probe EXCEPT ![c] = [by |-> s.pid, key |-> key]]
    BY <1>2, SwitchStep
  <2>2. CountMap(counts)
    BY DEF TypeOK
  <2>3. CountMap(counts)'
    <3>1. CASE key \in DOMAIN counts
      <4>1. DOMAIN counts' = DOMAIN counts
        BY <2>1, <3>1
      <4>2. \A k \in DOMAIN counts : counts'[k] \in Nat \ {0}
        BY <2>1, <2>2, <3>1 DEF CountMap
      <4>3. counts' = [k \in DOMAIN counts' |-> counts'[k]]
        BY <2>1, <3>1
      <4> QED BY <4>1, <4>2, <4>3, <2>2, Zenon DEF CountMap
    <3>2. CASE key \notin DOMAIN counts
      BY <2>1, <2>2, <3>2 DEF CountMap
    <3> QED BY <3>1, <3>2, Zenon
  <2>4. probe' \in [CPUs -> Probes \cup {None}]
    <3>1. [by |-> s.pid, key |-> key] \in Probes
      BY SampleType, Zenon DEF Probes
    <3> QED BY <2>1, <3>1, Zenon DEF TypeOK
  <2>5. hits' \in [Samples -> Nat] /\ UNCHANGED <<loader, symbols>>
    BY <1>2 DEF SchedSwitch, TypeOK
  <2> QED BY <2>1, <2>3, <2>4, <2>5, Zenon DEF KernelType
<1> QED BY <1>1, <1>2, TypeParts, TypeFrame, Zenon DEF KernelStep

(* record() keeps the types; what it collects are keys of the map. *)
LEMMA RecordTypeStep ==
  ASSUME TypeOK, LoaderInv, pc \notin {"destroy", "returned"} => FileInv, RecordStep
  PROVE  TypeOK'
<1> USE TypeParts, TypeFrame
<1>1. KernelType /\ LoaderType /\ SymbolsType
  OBVIOUS
<1>2. CASE Load
  BY <1>1, <1>2, Zenon DEF Load, LoaderType, CountMap
<1>3. CASE Attach
  BY <1>1, <1>3, Zenon DEF Attach, LoaderType, CountMap
<1>4. CASE SleepEnds
  BY <1>1, <1>4, Zenon DEF SleepEnds, LoaderType, KernelType, CountMap
<1>5. CASE CollectEnds
  BY <1>1, <1>5, Zenon DEF CollectEnds, LoaderType, CountMap
<1>6. CASE PhaseEnds
  BY <1>1, <1>6, Zenon DEF PhaseEnds, LoaderType, CountMap
<1>7. CASE WriteFile
  <2>1. \A k \in DOMAIN got : Line(k) \in [kern : Stacks, user : Stacks]
    <3>1. \A id \in Buckets \cup {NoStack} : StackOf(id) \in Stacks
      BY <1>1, ZenonT(30) DEF KernelType, StackOf, Stacks
    <3> QED BY <3>1, <1>1, Zenon DEF LoaderType, CountMap, Keys, Line
  <2>2. DOMAIN file' \subseteq [kern : Stacks, user : Stacks]
    BY <2>1, <1>1, <1>7 DEF WriteFile, LoaderType
  <2> QED BY <1>1, <1>7, <2>2, Zenon DEF WriteFile, LoaderType, CountMap
<1>8. CASE Clean
  <2>1. CountMap(counts')
    <3>1. counts' = [k \in DOMAIN counts \ DOMAIN got |-> counts[k]]
      BY <1>8 DEF Clean, Restrict
    <3>2. CountMap(counts)
      BY <1>1 DEF KernelType
    <3>3. DOMAIN counts' \subseteq DOMAIN counts /\ counts' = [k \in DOMAIN counts' |-> counts'[k]]
      BY <3>1
    <3>4. \A k \in DOMAIN counts' : counts'[k] \in Nat \ {0}
      BY <3>1, <3>2, Zenon DEF CountMap
    <3> QED BY <3>2, <3>3, <3>4, SmallerMap, ZenonT(30)
  <2>2. stackMap' \in [Buckets -> Stacks]
    BY <1>1, <1>8 DEF Clean, KernelType, Stacks
  <2>3. KernelType'
    BY <2>1, <2>2, <1>1, <1>8, Zenon DEF Clean, KernelType, CountMap
  <2> QED BY <2>3, <1>1, <1>8, Zenon DEF Clean, LoaderType, CountMap
<1>9. CASE Destroy
  <2>1. KernelType'
    BY <1>1, <1>9, EmptyMap DEF Destroy, KernelType, CountMap, Stacks
  <2> QED BY <2>1, <1>1, <1>9, Zenon DEF Destroy, LoaderType, CountMap
<1>10. ASSUME NEW k \in DOMAIN counts, CollectKey(k)
       PROVE  TypeOK'
  <2>1. CountMap(got')
    <3>1. DOMAIN got' \subseteq DOMAIN counts /\ got' = [x \in DOMAIN got' |-> got'[x]]
      BY <1>10 DEF CollectKey, FileInv, ReadKnown
    <3>2. CountMap(counts)
      BY <1>1, ZenonT(30) DEF KernelType
    <3>3. \A x \in DOMAIN got' : got'[x] \in Nat \ {0}
      BY <1>10, <1>1 DEF CollectKey, KernelType, LoaderType, CountMap
    <3> QED BY <3>1, <3>2, <3>3, SmallerMap, Zenon
  <2> QED BY <2>1, <1>1, <1>10, ZenonT(30) DEF CollectKey, LoaderType, CountMap
<1>11. ASSUME NEW k \in todo, Symbolise(k)
       PROVE  TypeOK'
  <2>1. k.pid \in Pids
    BY <1>1 DEF LoaderType, Keys
  <2>2. reading' \in [{"self", "other"} -> Pids \cup OtherPids \cup {None}]
    BY <2>1, <1>1, <1>11, Zenon DEF Symbolise, ReadUserMaps, SymbolsType
  <2>3. SymbolsType'
    BY <2>2, <1>1, <1>11 DEF Symbolise, SymbolsType
  <2>4. LoaderType'
    BY <1>1, <1>11, Zenon DEF Symbolise, LoaderType, CountMap
  <2> QED BY <2>3, <2>4, <1>1, <1>11, ZenonT(30) DEF Symbolise
<1> QED
  BY <1>2, <1>3, <1>4, <1>5, <1>6, <1>7, <1>8, <1>9, <1>10, <1>11, Zenon DEF RecordStep

(* So does the cache of process maps. *)
LEMMA CacheTypeStep ==
  ASSUME TypeOK, CacheStep
  PROVE  TypeOK'
<1> USE TypeParts, TypeFrame
<1>1. KernelType /\ LoaderType /\ SymbolsType
  OBVIOUS
<1>2. ASSUME NEW r \in DOMAIN reading, StoreUserMaps(r)
      PROVE  TypeOK'
  <2>1. reading[r] \in Pids \cup OtherPids
    BY <1>1, <1>2 DEF StoreUserMaps, SymbolsType
  <2>2. reading' \in [{"self", "other"} -> Pids \cup OtherPids \cup {None}]
    BY <1>1, <1>2 DEF StoreUserMaps, SymbolsType
  <2>3. /\ cache' \subseteq Pids \cup OtherPids /\ lru' \in Seq(Pids \cup OtherPids)
        /\ doubles' \in Nat
    <3>1. cache \subseteq Pids \cup OtherPids /\ lru \in Seq(Pids \cup OtherPids) /\ doubles \in Nat
      BY <1>1 DEF SymbolsType
    <3>2. CASE Store(reading[r]) /\ doubles' \in {doubles, doubles + 1}
      BY <2>1, <3>1, <3>2 DEF Store
    <3>3. CASE UNCHANGED <<cache, lru, doubles>>
      BY <3>1, <3>3
    <3> QED BY <1>2, <3>2, <3>3, Zenon DEF StoreUserMaps
  <2> QED BY <2>2, <2>3, <1>1, <1>2, Zenon DEF StoreUserMaps, SymbolsType
<1>3. ASSUME NEW pid \in OtherPids, OtherReads(pid)
      PROVE  TypeOK'
  <2>1. reading' \in [{"self", "other"} -> Pids \cup OtherPids \cup {None}]
    BY <1>1, <1>3, Zenon DEF OtherReads, ReadUserMaps, SymbolsType
  <2>2. reads' \in 0..MaxReads
    BY <1>1, <1>3, SamplerAssumption DEF OtherReads, SymbolsType
  <2> QED BY <2>1, <2>2, <1>1, <1>3, Zenon DEF OtherReads, SymbolsType
<1> QED BY <1>2, <1>3, Zenon DEF CacheStep

(* A program that is not attached is not met; what is unloaded is empty. *)
LEMMA LoaderStep ==
  ASSUME TypeOK, LoaderInv, Next
  PROVE  LoaderInv'
<1>1. ASSUME NEW c \in CPUs, UpdateElem(c)
      PROVE  LoaderInv'
  <2>1. attached /\ pc # "returned"
    BY <1>1, Zenon DEF UpdateElem, LoaderInv
  <2> QED BY <2>1, <1>1, Zenon DEF UpdateElem, LoaderInv, loader
<1>2. ASSUME NEW c \in CPUs, NEW s \in Samples, SchedSwitch(c, s)
      PROVE  LoaderInv'
  <2>1. attached /\ pc # "returned"
    BY <1>2 DEF SchedSwitch, LoaderInv
  <2> QED BY <2>1, <1>2, Zenon DEF SchedSwitch, LoaderInv, loader
<1>3. CASE Load
  BY <1>3 DEF Load, LoaderInv, kernel
<1>4. CASE Attach
  BY <1>4, Zenon DEF Attach, LoaderInv, kernel
<1>5. CASE SleepEnds \/ CollectEnds \/ PhaseEnds \/ WriteFile
  BY <1>5, Zenon DEF SleepEnds, CollectEnds, PhaseEnds, WriteFile, LoaderInv, kernel
<1>6. CASE Clean
  BY <1>6 DEF Clean, LoaderInv
<1>7. CASE Destroy
  BY <1>7 DEF Destroy, LoaderInv
<1>8. CASE \E k \in DOMAIN counts : CollectKey(k)
  BY <1>8 DEF CollectKey, LoaderInv, kernel
<1>9. CASE \E k \in todo : Symbolise(k)
  BY <1>9 DEF Symbolise, LoaderInv, kernel
<1>10. CASE CacheStep
  BY <1>10 DEF CacheStep, StoreUserMaps, OtherReads, LoaderInv, kernel, loader
<1> QED
  BY <1>1, <1>2, <1>3, <1>4, <1>5, <1>6, <1>7, <1>8, <1>9, <1>10, Zenon
  DEF Next, KernelStep, RecordStep
-----------------------------------------------------------------------------
(* The cache of process maps. *)

(* Every entry has a place in the order, so there are as many places. *)
LEMMA CacheFinite ==
  ASSUME TypeOK, CacheInv
  PROVE  /\ IsFiniteSet(cache) /\ Cardinality(cache) \in Nat /\ Len(lru) \in Nat
         /\ Cardinality(cache) <= Len(lru)
<1>1. lru \in Seq(Pids \cup OtherPids) /\ Len(lru) \in Nat
  BY DEF TypeOK
<1>2. IsFiniteSet(1..Len(lru)) /\ Cardinality(1..Len(lru)) = Len(lru)
  BY <1>1, FS_Interval
<1>3. lru \in Surjection(1..Len(lru), Range(lru))
  BY <1>1 DEF Surjection, Range
<1>4. IsFiniteSet(Range(lru)) /\ Cardinality(Range(lru)) <= Len(lru)
  BY <1>2, <1>3, FS_Surjection
<1>5. IsFiniteSet(cache) /\ Cardinality(cache) <= Cardinality(Range(lru))
  BY <1>4, FS_Subset DEF CacheInv
<1>6. Cardinality(cache) \in Nat /\ Cardinality(Range(lru)) \in Nat
  BY <1>4, <1>5, FS_CardinalityType
<1> QED BY <1>1, <1>4, <1>5, <1>6

(* What is in a list after its head is dropped ... *)
LEMMA RangeTail ==
  ASSUME NEW S, NEW l \in Seq(S), l # <<>>, NEW C, C \subseteq Range(l)
  PROVE  C \ {Head(l)} \subseteq Range(Tail(l))
<1> SUFFICES ASSUME NEW x \in C, x # Head(l)
             PROVE  x \in Range(Tail(l))
  OBVIOUS
<1>1. PICK j \in 1..Len(l) : l[j] = x
  BY DEF Range
<1>2. j # 1 /\ Len(Tail(l)) = Len(l) - 1
  BY <1>1
<1>3. j - 1 \in DOMAIN Tail(l) /\ Tail(l)[j - 1] = x
  BY <1>1, <1>2
<1> QED BY <1>3, Zenon DEF Range

(* ... and after an entry is put at its end. *)
LEMMA RangeAppend ==
  ASSUME NEW S, NEW l \in Seq(S), NEW x
  PROVE  Range(Append(l, x)) = Range(l) \cup {x}
<1>1. /\ DOMAIN l = 1..Len(l) /\ Len(l) \in Nat
      /\ DOMAIN Append(l, x) = DOMAIN l \cup {Len(l) + 1}
      /\ \A i \in DOMAIN l : Append(l, x)[i] = l[i]
      /\ Append(l, x)[Len(l) + 1] = x
  OBVIOUS
<1> QED BY <1>1, ZenonT(30) DEF Range

(* Storing the maps of a process: the oldest place goes when it is full. *)
LEMMA StoreStep ==
  ASSUME TypeOK, CacheInv, NEW pid \in Pids \cup OtherPids, Store(pid),
         doubles' = IF pid \in cache THEN doubles + 1 ELSE doubles
  PROVE  CacheInv'
<1> DEFINE full == Cardinality(cache) >= MaxCache /\ lru # <<>>
           kept == IF full THEN cache \ {Head(lru)} ELSE cache
<1>1. /\ lru \in Seq(Pids \cup OtherPids) /\ Len(lru) \in Nat /\ doubles \in Nat
      /\ MaxCache \in Nat \ {0}
  BY SamplerAssumption DEF TypeOK
<1>2. /\ IsFiniteSet(cache) /\ Cardinality(cache) \in Nat
      /\ Cardinality(cache) <= Len(lru)
  BY CacheFinite
<1>3. cache' = kept \cup {pid} /\ lru' = Append(IF full THEN Tail(lru) ELSE lru, pid)
  BY DEF Store
<1>4. Cardinality(cache) >= MaxCache => lru # <<>>
  BY <1>1, <1>2
<1>5. cache' \subseteq Range(lru')
  <2>1. full => Tail(lru) \in Seq(Pids \cup OtherPids) /\ kept \subseteq Range(Tail(lru))
    BY <1>1, RangeTail DEF CacheInv
  <2>2. ~full => kept \subseteq Range(lru)
    BY DEF CacheInv
  <2>3. PICK rest \in Seq(Pids \cup OtherPids) :
          kept \subseteq Range(rest) /\ lru' = Append(rest, pid)
    BY <1>1, <1>3, <2>1, <2>2, Zenon
  <2>4. Range(lru') = Range(rest) \cup {pid}
    BY <2>3, RangeAppend, Zenon
  <2> HIDE DEF kept
  <2> QED BY <1>3, <2>3, <2>4, Zenon
<1>6. /\ IsFiniteSet(kept) /\ Cardinality(kept) \in Nat
      /\ ~full => Cardinality(kept) = Cardinality(cache)
      /\ full => Cardinality(kept) >= Cardinality(cache) - 1
  <2>1. CASE full
    <3>1. /\ IsFiniteSet(cache \ {Head(lru)})
          /\ Cardinality(cache \ {Head(lru)}) =
               IF Head(lru) \in cache THEN Cardinality(cache) - 1 ELSE Cardinality(cache)
      BY <1>2, FS_RemoveElement, Zenon
    <3>2. kept = cache \ {Head(lru)} /\ Cardinality(kept) \in Nat
      BY <2>1, <3>1, FS_CardinalityType
    <3> HIDE DEF kept
    <3> QED BY <3>1, <3>2, <2>1, <1>2
  <2>2. CASE ~full
    BY <2>2, <1>2
  <2> QED BY <2>1, <2>2, Zenon
<1>7. Cardinality(cache') = IF pid \in kept THEN Cardinality(kept) ELSE Cardinality(kept) + 1
  BY <1>3, <1>6, FS_AddElement, Zenon
<1>8. Len(lru') = IF full THEN Len(lru) ELSE Len(lru) + 1
  BY <1>1, <1>3
<1>9. pid \in kept => pid \in cache
  OBVIOUS
<1>10. pid \notin cache => pid \notin kept
  OBVIOUS
<1>11. ~full => kept = cache
  OBVIOUS
<1>12. Len(lru') <= Cardinality(cache') + doubles' /\ Len(lru') <= MaxCache + doubles'
  BY <1>1, <1>2, <1>4, <1>6, <1>7, <1>8, <1>9, <1>10, <1>11 DEF CacheInv
<1> QED BY <1>5, <1>12, Zenon DEF CacheInv

(* Only StoreUserMaps touches the cache. *)
LEMMA CacheInvStep ==
  ASSUME TypeOK, CacheInv, Next
  PROVE  CacheInv'
<1>1. ASSUME UNCHANGED <<cache, lru, doubles>>
      PROVE  CacheInv'
  BY <1>1, ZenonT(30) DEF CacheInv
<1>2. CASE KernelStep
  BY <1>1, <1>2 DEF KernelStep, UpdateElem, SchedSwitch, symbols
<1>3. CASE RecordStep
  BY <1>1, <1>3, Zenon DEF RecordStep, Load, Attach, SleepEnds, CollectEnds, PhaseEnds,
                    WriteFile, Clean, Destroy, CollectKey, Symbolise, symbols
<1>4. ASSUME NEW r \in DOMAIN reading, StoreUserMaps(r)
      PROVE  CacheInv'
  <2>1. reading[r] \in Pids \cup OtherPids
    BY <1>4 DEF StoreUserMaps, TypeOK
  <2>2. CASE UNCHANGED <<cache, lru, doubles>>
    BY <1>1, <2>2
  <2>3. CASE /\ Store(reading[r])
             /\ doubles' = IF reading[r] \in cache THEN doubles + 1 ELSE doubles
    BY <2>1, <2>3, StoreStep
  <2> QED BY <1>4, <2>2, <2>3, ZenonT(30) DEF StoreUserMaps
<1>5. ASSUME NEW pid \in OtherPids, OtherReads(pid)
      PROVE  CacheInv'
  BY <1>1, <1>5 DEF OtherReads
<1> QED BY <1>2, <1>3, <1>4, <1>5, Zenon DEF Next, CacheStep
-----------------------------------------------------------------------------
(* The counts. *)

(* The insertion of a pending key. *)
LEMMA UpdateCounts ==
  ASSUME TypeOK, CountsInv, NEW c \in CPUs, UpdateElem(c)
  PROVE  CountsInv'
<1>1. PICK x \in Keys :
        /\ probe[c] \in Probes /\ probe[c].key = x
        /\ CountMap(counts') /\ DOMAIN counts \subseteq DOMAIN counts'
        /\ \/ /\ x \in DOMAIN counts \/ ~Full
              /\ counts' = [k \in DOMAIN counts \cup {x} |->
                              IF k = x THEN 1 ELSE counts[k]]
           \/ Full /\ x \notin DOMAIN counts /\ counts' = counts
  BY UpdateStep
<1>2. /\ probe[c] # None /\ probe' = [probe EXCEPT ![c] = None]
      /\ UNCHANGED <<stackMap, hits>> /\ probe \in [CPUs -> Probes \cup {None}]
  BY DEF UpdateElem, TypeOK
<1>3. /\ \A k : HitsOf(k)' = HitsOf(k)
      /\ \A k : HitsOf(k) \in Nat
  BY <1>2, HitsSame, HitsType
<1>4. /\ probe[c].by = x.pid /\ HitsOf(x) > 0
      /\ x.pid # IdlePid =>
           /\ x \notin DOMAIN counts
           /\ \A d \in CPUs : probe[d] # None /\ probe[d].by = x.pid => d = c
  BY <1>1, <1>2, Zenon DEF CountsInv, ProbesOwn
<1>5. Full => Full'
  <2>1. Cardinality(DOMAIN counts) <= Cardinality(DOMAIN counts')
    BY <1>1, FS_Subset, Zenon DEF CountMap
  <2>2. Cardinality(DOMAIN counts) \in Nat /\ Cardinality(DOMAIN counts') \in Nat
    BY <1>1, FS_CardinalityType, Zenon DEF CountMap, TypeOK
  <2> QED BY <2>1, <2>2, SamplerAssumption DEF Full
<1>6. x.pid # IdlePid => Full \/ HitsOf(x) = 1
  BY <1>4, Zenon DEF CountsInv, MissingPending
<1>7. ASSUME NEW s \in Samples, hits'[s] > 0
      PROVE  Seen(s.user)' /\ Seen(s.kern)'
  BY <1>2, <1>7 DEF CountsInv, StacksSeen, Seen
<1>8. ASSUME NEW k \in DOMAIN counts'
      PROVE  counts'[k] <= HitsOf(k) /\ (k.pid # IdlePid => counts'[k] = HitsOf(k))
  <2>1. CASE k = x /\ counts' # counts
    <3>1. counts'[k] = 1 /\ (x \in DOMAIN counts \/ ~Full)
      BY <1>1, <2>1
    <3>2. k.pid # IdlePid => HitsOf(k) = 1
      BY <3>1, <2>1, <1>4, <1>6
    <3> QED BY <3>1, <3>2, <2>1, <1>3, <1>4
  <2>2. CASE k # x \/ counts' = counts
    <3>1. k \in DOMAIN counts /\ counts'[k] = counts[k]
      BY <1>1, <2>2
    <3> QED BY <3>1, Zenon DEF CountsInv, CountsBehind
  <2> QED BY <2>1, <2>2, Zenon
<1>9. ASSUME NEW k \in Keys \ DOMAIN counts', k.pid # IdlePid, HitsOf(k) > 0
      PROVE  Full' \/ (HitsOf(k) = 1 /\ Pending(k)' # {})
  <2>1. Full \/ (HitsOf(k) = 1 /\ Pending(k) # {})
    BY <1>1, <1>9 DEF CountsInv, MissingPending
  <2>2. CASE Full
    BY <2>2, <1>5
  <2>3. CASE ~Full /\ HitsOf(k) = 1 /\ Pending(k) # {}
    <3>1. k # x
      BY <2>3, <1>1, <1>9
    <3>2. PICK d \in CPUs : probe[d] # None /\ probe[d].key = k
      BY <2>3 DEF Pending
    <3>3. d # c /\ probe'[d] = probe[d]
      BY <3>1, <3>2, <1>1, <1>2, Zenon
    <3> QED BY <3>2, <3>3, <2>3, Zenon DEF Pending
  <2> QED BY <2>1, <2>2, <2>3, Zenon
<1>10. ASSUME NEW d \in CPUs, probe'[d] # None
       PROVE  /\ probe'[d].by = probe'[d].key.pid /\ HitsOf(probe'[d].key) > 0
              /\ probe'[d].by # IdlePid =>
                   /\ probe'[d].key \notin DOMAIN counts'
                   /\ \A e \in CPUs : probe'[e] # None /\ probe'[e].by = probe'[d].by => e = d
  <2>1. d # c /\ probe'[d] = probe[d] /\ probe[d] # None
    BY <1>2, <1>10, Zenon
  <2>2. /\ probe[d].by = probe[d].key.pid /\ HitsOf(probe[d].key) > 0
        /\ probe[d].by # IdlePid =>
             /\ probe[d].key \notin DOMAIN counts
             /\ \A e \in CPUs : probe[e] # None /\ probe[e].by = probe[d].by => e = d
    BY <2>1, Zenon DEF CountsInv, ProbesOwn
  <2>3. probe[d].by # IdlePid => probe[d].key # x
    BY <2>1, <2>2, <1>2, <1>4
  <2>4. \A e \in CPUs : probe'[e] # None => probe'[e] = probe[e]
    BY <1>2
  <2>5. \A k \in DOMAIN counts' : k \in DOMAIN counts \/ k = x
    BY <1>1
  <2> QED BY <2>1, <2>2, <2>3, <2>4, <2>5, Zenon
<1>11. StacksSeen'
  BY <1>7 DEF StacksSeen
<1>12. CountsBehind'
  BY <1>3, <1>8 DEF CountsBehind
<1>13. MissingPending'
  BY <1>3, <1>9, Zenon DEF MissingPending
<1>14. ProbesOwn'
  BY <1>3, <1>10 DEF ProbesOwn
<1> QED BY <1>11, <1>12, <1>13, <1>14, Zenon DEF CountsInv

(* A switch: the lookup, and the add or the insertion to come. *)
LEMMA SwitchCounts ==
  ASSUME TypeOK, CountsInv, NEW c \in CPUs, NEW s \in Samples, SchedSwitch(c, s)
  PROVE  CountsInv'
<1>1. PICK x \in Keys :
        /\ x.pid = s.pid /\ KeyNow(s)' = x
        /\ stackMap' \in [Buckets -> Stacks] /\ Extends(stackMap', stackMap)
        /\ Seen(s.user)' /\ Seen(s.kern)'
        /\ x \in DOMAIN counts =>
             counts' = [counts EXCEPT ![x] = @ + 1] /\ probe' = probe
        /\ x \notin DOMAIN counts =>
             /\ counts' = counts
             /\ probe' = [probe EXCEPT ![c] = [by |-> s.pid, key |-> x]]
  BY SwitchStep, Zenon
<1>2. /\ probe[c] = None /\ probe \in [CPUs -> Probes \cup {None}]
      /\ s.pid # IdlePid => \A d \in CPUs : probe[d] # None => probe[d].by # s.pid
  BY ZenonT(30) DEF SchedSwitch, TypeOK
<1>3. /\ \A k : HitsOf(k)' = IF k = x THEN HitsOf(k) + 1 ELSE HitsOf(k)
      /\ \A k : HitsOf(k) \in Nat
  BY <1>1, SwitchHits, HitsType DEF CountsInv, StacksSeen
<1>4. DOMAIN counts' = DOMAIN counts /\ x.pid = s.pid
  BY <1>1, Zenon
<1>5. \A d \in CPUs : d # c => probe'[d] = probe[d]
  BY <1>1, <1>2, Zenon
<1>6. IF x \in DOMAIN counts THEN probe'[c] = None
      ELSE probe'[c] # None /\ probe'[c].by = s.pid /\ probe'[c].key = x
  <2>1. [by |-> s.pid, key |-> x] # None
    BY SampleType, SamplerAssumption DEF Probes
  <2>2. CASE x \in DOMAIN counts
    BY <1>1, <1>2, <2>2, Zenon
  <2>3. CASE x \notin DOMAIN counts
    <3>1. probe'[c] = [by |-> s.pid, key |-> x]
      BY <1>1, <1>2, <2>3, Zenon
    <3> QED BY <2>1, <2>3, <3>1
  <2> QED BY <2>2, <2>3, Zenon
<1>7. ASSUME NEW t \in Samples, hits'[t] > 0
      PROVE  Seen(t.user)' /\ Seen(t.kern)'
  <2>1. CASE t = s
    BY <1>1, <2>1, Zenon
  <2>2. CASE t # s
    <3>1. hits[t] > 0
      BY <1>7, <2>2 DEF SchedSwitch, TypeOK
    <3>2. Extends(stackMap', stackMap)
      BY <1>1, Zenon
    <3> QED BY <3>1, <3>2, <1>1, KeyStays, ZenonT(30) DEF CountsInv, StacksSeen, TypeOK
  <2> QED BY <2>1, <2>2, Zenon
<1>8. ASSUME NEW k \in DOMAIN counts'
      PROVE  counts'[k] <= HitsOf(k)' /\ (k.pid # IdlePid => counts'[k] = HitsOf(k)')
  <2>1. /\ counts[k] \in Nat /\ counts[k] <= HitsOf(k)
        /\ k.pid # IdlePid => counts[k] = HitsOf(k)
    BY <1>4, <1>8, ZenonT(30) DEF CountsInv, CountsBehind, TypeOK, CountMap
  <2>2. counts'[k] = IF k = x THEN counts[k] + 1 ELSE counts[k]
    BY <1>1, <1>4, <1>8, Zenon
  <2> QED BY <2>1, <2>2, <1>3
<1>9. ASSUME NEW k \in Keys \ DOMAIN counts', k.pid # IdlePid, HitsOf(k)' > 0
      PROVE  Full' \/ (HitsOf(k)' = 1 /\ Pending(k)' # {})
  <2>1. HitsOf(k) > 0 => Full \/ (HitsOf(k) = 1 /\ Pending(k) # {})
    BY <1>4, <1>9, ZenonT(30) DEF CountsInv, MissingPending
  <2>2. Full <=> Full'
    BY <1>4 DEF Full
  <2>3. CASE k = x
    <3>1. Pending(k) = {}
      BY <2>3, <1>2, <1>4, <1>9 DEF Pending, CountsInv, ProbesOwn
    <3>2. Full \/ HitsOf(k)' = 1
      BY <2>1, <2>3, <3>1, <1>3
    <3>3. c \in Pending(k)'
      BY <2>3, <1>4, <1>6, <1>9 DEF Pending
    <3> QED BY <3>2, <3>3, <2>2, Zenon
  <2>4. CASE k # x
    <3>1. HitsOf(k)' = HitsOf(k)
      BY <2>4, <1>3
    <3>2. ASSUME NEW d \in Pending(k)
          PROVE  d \in Pending(k)'
      BY <1>2, <1>5, Zenon DEF Pending
    <3> QED BY <2>1, <2>2, <3>1, <3>2, <1>9, Zenon
  <2> QED BY <2>3, <2>4, Zenon
<1>10. ASSUME NEW d \in CPUs, probe'[d] # None
       PROVE  /\ probe'[d].by = probe'[d].key.pid /\ HitsOf(probe[d].key)' > 0
              /\ probe'[d].by # IdlePid =>
                   /\ probe'[d].key \notin DOMAIN counts'
                   /\ \A e \in CPUs : probe'[e] # None /\ probe'[e].by = probe'[d].by => e = d
  <2>1. CASE d = c
    <3>1. probe'[d].by = s.pid /\ probe'[d].key = x /\ x \notin DOMAIN counts
      BY <2>1, <1>6, <1>10
    <3>2. HitsOf(x)' > 0
      BY <1>3
    <3>3. HitsOf(probe[d].key)' > 0
      BY <3>1, <3>2, Zenon
    <3> QED BY <2>1, <3>1, <3>3, <1>2, <1>4, <1>5, Zenon
  <2>2. CASE d # c
    <3>1. probe'[d] = probe[d] /\ probe[d] # None
      BY <2>2, <1>5, <1>10, Zenon
    <3>2. /\ probe[d].by = probe[d].key.pid /\ HitsOf(probe[d].key) > 0
          /\ probe[d].by # IdlePid =>
               /\ probe[d].key \notin DOMAIN counts
               /\ \A e \in CPUs : probe[e] # None /\ probe[e].by = probe[d].by => e = d
      BY <3>1, Zenon DEF CountsInv, ProbesOwn
    <3>3. HitsOf(probe[d].key)' > 0
      <4>1. PICK k : k = probe[d].key
        BY Zenon
      <4>2. HitsOf(k)' > 0
        BY <4>1, <3>2, <1>3
      <4> QED BY <4>1, <4>2, <3>1, Zenon
    <3>4. probe[d].by # IdlePid /\ probe'[c] # None => probe'[c].by # probe[d].by
      BY <3>1, <1>2, <1>6, Zenon
    <3> QED BY <3>1, <3>2, <3>3, <3>4, <1>4, <1>5, Zenon
  <2> QED BY <2>1, <2>2, Zenon
<1>11. StacksSeen'
  BY <1>7 DEF StacksSeen
<1>12. CountsBehind'
  BY <1>8 DEF CountsBehind
<1>13. MissingPending'
  BY <1>9, Zenon DEF MissingPending
<1>14. ProbesOwn'
  BY <1>10 DEF ProbesOwn
<1> QED BY <1>11, <1>12, <1>13, <1>14, Zenon DEF CountsInv

(* The parts of CountsInv are about the maps of the program alone. *)
LEMMA CountsFrame ==
  ASSUME CountsInv, UNCHANGED kernel
  PROVE  CountsInv'
<1>1. \A k : HitsOf(k)' = HitsOf(k)
  BY HitsSame DEF kernel
<1>2. UNCHANGED <<stackMap, counts, hits, probe>>
  BY DEF kernel
<1>3. StacksSeen'
  BY <1>2 DEF CountsInv, StacksSeen, Seen
<1>4. CountsBehind'
  BY <1>1, <1>2, Zenon DEF CountsInv, CountsBehind
<1>5. MissingPending'
  BY <1>1, <1>2, Zenon DEF CountsInv, MissingPending, Full, Pending
<1>6. ProbesOwn'
  BY <1>1, <1>2 DEF CountsInv, ProbesOwn
<1> QED BY <1>3, <1>4, <1>5, <1>6, Zenon DEF CountsInv

(* Nobody else writes the maps before they are cleared. *)
LEMMA CountsStep ==
  ASSUME TypeOK, CountsInv, Next, pc' \notin {"destroy", "returned"}
  PROVE  CountsInv'
<1>1. CASE KernelStep
  BY <1>1, UpdateCounts, SwitchCounts DEF KernelStep
<1>2. CASE ~KernelStep
  <2>1. UNCHANGED kernel
    BY <1>2, Zenon
       DEF Next, RecordStep, CacheStep, Load, Attach, SleepEnds, CollectEnds, PhaseEnds,
            WriteFile, Clean, Destroy, CollectKey, Symbolise, StoreUserMaps, OtherReads
  <2> QED BY <2>1, CountsFrame, Zenon
<1> QED BY <1>1, <1>2, Zenon
-----------------------------------------------------------------------------
(* What poll() reads and writes. *)

(* The stacks in the line of a key are those of the samples behind it. *)
LEMMA LineMatches ==
  ASSUME TypeOK, CountsInv, NEW s \in Samples, hits[s] > 0
  PROVE  Matches(s, Line(KeyNow(s)))
<1> DEFINE user == GetStackId(stackMap, s.user).id
           kern == GetStackId(stackMap, s.kern).id
<1>1. stackMap \in [Buckets -> Stacks] /\ s.user \in Stacks /\ s.kern \in Stacks
  BY SampleType, Zenon DEF TypeOK
<1>2. /\ s.user # None => stackMap[Bucket[s.user]] # None
      /\ s.kern # None => stackMap[Bucket[s.kern]] # None
  BY Zenon DEF CountsInv, StacksSeen, Seen
<1>3. user # NoStack => stackMap[user] = s.user
  BY <1>1, <1>2, StackIdMeans, Zenon
<1>4. kern # NoStack => stackMap[kern] = s.kern
  BY <1>1, <1>2, StackIdMeans, Zenon
<1>5. KeyNow(s).user = user /\ KeyNow(s).kern = kern
  BY Zenon DEF KeyNow, Key
<1> HIDE DEF user, kern
<1> QED BY <1>3, <1>4, <1>5, Zenon DEF Matches, Line, StackOf

(* The line of a key that was met does not change. *)
LEMMA LineStays ==
  ASSUME TypeOK, CountsInv, stackMap' \in [Buckets -> Stacks], Extends(stackMap', stackMap),
         NEW k, HitsOf(k) > 0
  PROVE  Line(k)' = Line(k)
<1>1. PICK s \in Samples : hits[s] > 0 /\ KeyNow(s) = k
  BY HitsSome, Zenon
<1> DEFINE user == GetStackId(stackMap, s.user).id
           kern == GetStackId(stackMap, s.kern).id
<1>2. stackMap \in [Buckets -> Stacks] /\ s.user \in Stacks /\ s.kern \in Stacks
  BY SampleType, Zenon DEF TypeOK
<1>3. /\ s.user # None => stackMap[Bucket[s.user]] # None
      /\ s.kern # None => stackMap[Bucket[s.kern]] # None
  BY <1>1, Zenon DEF CountsInv, StacksSeen, Seen
<1>4. user # NoStack => user \in Buckets /\ stackMap[user] # None
  BY <1>2, <1>3, StackIdMeans, Zenon
<1>5. kern # NoStack => kern \in Buckets /\ stackMap[kern] # None
  BY <1>2, <1>3, StackIdMeans, ZenonT(30)
<1>6. k.user = user /\ k.kern = kern
  BY <1>1 DEF KeyNow, Key
<1> HIDE DEF user, kern
<1> QED BY <1>4, <1>5, <1>6, Zenon DEF Line, StackOf, Extends

(* Nor does then the contents of the file. *)
LEMMA FoldedStays ==
  ASSUME got' = got, \A k \in DOMAIN got : Line(k)' = Line(k)
  PROVE  [l \in {Line(k) : k \in DOMAIN got} |-> Folded(l)]' =
         [l \in {Line(k) : k \in DOMAIN got} |-> Folded(l)]
<1>1. {Line(k) : k \in DOMAIN got}' = {Line(k) : k \in DOMAIN got}
  OBVIOUS
<1>2. ASSUME NEW l
      PROVE  Folded(l)' = Folded(l)
  <2>1. {k \in DOMAIN got : Line(k) = l}' = {k \in DOMAIN got : Line(k) = l}
    OBVIOUS
  <2> QED BY <2>1, Zenon DEF Folded
<1> QED BY <1>1, <1>2, Zenon

(* While the program counts on, what was read stays right. *)
LEMMA KernelFile ==
  ASSUME TypeOK, CountsInv, FileInv, KernelStep
  PROVE  FileInv'
<1> DEFINE Grows ==
             /\ \A k : HitsOf(k) \in Nat /\ HitsOf(k)' \in Nat /\ HitsOf(k) <= HitsOf(k)'
             /\ stackMap' \in [Buckets -> Stacks] /\ Extends(stackMap', stackMap)
             /\ DOMAIN counts \subseteq DOMAIN counts'
             /\ \A k \in DOMAIN counts : k.pid # IdlePid => counts[k] <= counts'[k]
<1>1. Grows
  <2>1. ASSUME NEW c \in CPUs, UpdateElem(c)
        PROVE  Grows
    <3>1. PICK x \in Keys :
            /\ probe[c].key = x /\ DOMAIN counts \subseteq DOMAIN counts'
            /\ \/ counts' = [k \in DOMAIN counts \cup {x} |->
                               IF k = x THEN 1 ELSE counts[k]]
               \/ counts' = counts
      BY <2>1, UpdateStep
    <3>2. UNCHANGED <<stackMap, hits>> /\ probe[c] # None
      BY <2>1 DEF UpdateElem
    <3>3. x.pid # IdlePid => x \notin DOMAIN counts
      BY <3>1, <3>2, Zenon DEF CountsInv, ProbesOwn
    <3>4. \A k \in DOMAIN counts : k.pid # IdlePid => counts'[k] = counts[k] /\ counts[k] \in Nat
      BY <3>1, <3>3, Zenon DEF TypeOK, CountMap
    <3>5. Extends(stackMap', stackMap) /\ stackMap' \in [Buckets -> Stacks]
      BY <3>2, Zenon DEF Extends, TypeOK
    <3> QED BY <3>1, <3>2, <3>4, <3>5, HitsSame, HitsType
  <2>2. ASSUME NEW c \in CPUs, NEW s \in Samples, SchedSwitch(c, s)
        PROVE  Grows
    <3>1. PICK x \in Keys :
            /\ KeyNow(s)' = x
            /\ stackMap' \in [Buckets -> Stacks] /\ Extends(stackMap', stackMap)
            /\ x \in DOMAIN counts => counts' = [counts EXCEPT ![x] = @ + 1]
            /\ x \notin DOMAIN counts => counts' = counts
      BY <2>2, SwitchStep
    <3>2. \A k : HitsOf(k)' = IF k = x THEN HitsOf(k) + 1 ELSE HitsOf(k)
      BY <3>1, <2>2, SwitchHits, Zenon DEF CountsInv, StacksSeen
    <3>3. ASSUME NEW k \in DOMAIN counts
          PROVE  counts[k] <= counts'[k]
      <4>1. counts[k] \in Nat
        BY DEF TypeOK, CountMap
      <4>2. counts'[k] = counts[k] \/ counts'[k] = counts[k] + 1
        BY <3>1, Zenon
      <4> QED BY <4>1, <4>2
    <3> QED BY <3>1, <3>2, <3>3, HitsType
  <2> QED BY <2>1, <2>2, Zenon DEF KernelStep
<1>2. UNCHANGED loader
  BY Zenon DEF KernelStep, UpdateElem, SchedSwitch
<1>3. \A k \in DOMAIN got : got[k] \in Nat \ {0} /\ got[k] <= HitsOf(k)
  BY Zenon DEF TypeOK, CountMap, FileInv, ReadKnown
<1>4. \A k \in DOMAIN got : Line(k)' = Line(k)
  <2>1. ASSUME NEW k \in DOMAIN got
        PROVE  HitsOf(k) > 0
    BY <1>1, <1>3
  <2> QED BY <2>1, <1>1, LineStays, Zenon
<1>5. [l \in {Line(k) : k \in DOMAIN got} |-> Folded(l)]' =
      [l \in {Line(k) : k \in DOMAIN got} |-> Folded(l)]
  BY <1>2, <1>4, FoldedStays, Zenon DEF loader
<1>6. \A k \in DOMAIN got : got[k] <= HitsOf(k)'
  BY <1>1, <1>3
<1>7. \A k \in DOMAIN start : start[k] \in Nat
  BY Zenon DEF TypeOK, CountMap
<1>8. \A k \in DOMAIN start : k.pid # IdlePid => start[k] <= counts'[k]
  <2>1. \A k \in DOMAIN start : k.pid # IdlePid => start[k] <= counts[k] /\ counts[k] \in Nat
    BY DEF FileInv, ReadKnown, StartKept, TypeOK, CountMap
  <2>2. \A k \in DOMAIN counts : counts'[k] \in Nat
    <3>1. CountMap(counts)'
      BY KernelTypeStep, Zenon DEF TypeOK
    <3>2. DOMAIN counts \subseteq DOMAIN counts'
      BY <1>1, Zenon
    <3> QED BY <3>1, <3>2, Zenon DEF CountMap
  <2> QED BY <2>1, <2>2, <1>1, <1>7 DEF FileInv, ReadKnown, StartKept
<1>9. ReadKnown' /\ StartKept'
  BY <1>1, <1>2, <1>6, <1>8, Zenon DEF FileInv, ReadKnown, StartKept, loader
<1> QED BY <1>2, <1>5, <1>9, Zenon DEF FileInv, loader

(* record() reads each count once, and no later than the file is written. *)
LEMMA FileStep ==
  ASSUME TypeOK, LoaderInv, CountsInv, FileInv, Next, pc' \notin {"destroy", "returned"}
  PROVE  FileInv'
<1>1. CASE KernelStep
  BY <1>1, KernelFile, ZenonT(30)
<1>2. ASSUME UNCHANGED kernel
      PROVE  /\ \A k : HitsOf(k)' = HitsOf(k)
             /\ \A k : Line(k)' = Line(k)
             /\ counts' = counts
  BY <1>2, HitsSame DEF kernel, Line, StackOf
<1>3. ASSUME UNCHANGED <<kernel, start, got, file>>, pc' = "clean" => pc = "clean",
             pc' \in {"phase2", "phase3", "write", "clean"} =>
               pc \in {"phase2", "phase3", "write", "clean"}
      PROVE  FileInv'
  <2>1. [l \in {Line(k) : k \in DOMAIN got} |-> Folded(l)]' =
        [l \in {Line(k) : k \in DOMAIN got} |-> Folded(l)]
    BY <1>2, <1>3, FoldedStays, ZenonT(30)
  <2>2. ReadKnown' /\ StartKept'
    BY <1>2, <1>3 DEF FileInv, ReadKnown, StartKept
  <2> QED BY <2>1, <2>2, <1>3, Zenon DEF FileInv
<1>4. CASE Load
  BY <1>3, <1>4 DEF Load
<1>5. CASE Attach
  BY <1>3, <1>5, Zenon DEF Attach
<1>6. CASE SleepEnds
  <2>1. UNCHANGED kernel /\ pc' = "collect" /\ start' = counts /\ got' = got /\ got = Empty
    BY <1>6, Zenon DEF SleepEnds, LoaderInv
  <2>2. \A k \in DOMAIN counts : counts[k] <= counts[k]
    BY DEF TypeOK, CountMap
  <2>3. ReadKnown' /\ StartKept'
    BY <2>1, <2>2, <1>2, EmptyMap, Zenon DEF ReadKnown, StartKept
  <2> QED BY <2>1, <2>3, Zenon DEF FileInv
<1>7. ASSUME NEW x \in DOMAIN counts, CollectKey(x)
      PROVE  FileInv'
  <2>1. /\ UNCHANGED <<kernel, start>> /\ pc' = "collect"
        /\ DOMAIN got' = DOMAIN got \cup {x}
        /\ \A k \in DOMAIN got' : got'[k] = IF k = x THEN counts[k] ELSE got[k]
    BY <1>7 DEF CollectKey
  <2>2. counts[x] <= HitsOf(x)
    BY Zenon DEF CountsInv, CountsBehind
  <2>3. \A k \in DOMAIN got' : got'[k] <= HitsOf(k)
    BY <2>1, <2>2, Zenon DEF FileInv, ReadKnown
  <2>4. ReadKnown'
    BY <2>1, <2>3, <1>2, Zenon DEF FileInv, ReadKnown
  <2>5. StartKept'
    BY <2>1, <1>2, Zenon DEF FileInv, StartKept
  <2> QED BY <2>1, <2>4, <2>5, Zenon DEF FileInv
<1>8. CASE CollectEnds
  <2>1. UNCHANGED <<kernel, start, got>> /\ pc' = "phase2" /\ DOMAIN start \subseteq DOMAIN got
    BY <1>8, Zenon DEF CollectEnds
  <2>2. ReadKnown' /\ StartKept'
    BY <2>1, <1>2, Zenon DEF FileInv, ReadKnown, StartKept
  <2> QED BY <2>1, <2>2, Zenon DEF FileInv
<1>9. ASSUME NEW k \in todo, Symbolise(k)
      PROVE  FileInv'
  BY <1>3, <1>9, Zenon DEF Symbolise
<1>10. CASE PhaseEnds
  BY <1>3, <1>10 DEF PhaseEnds
<1>11. CASE WriteFile
  <2>1. /\ UNCHANGED <<kernel, start, got>> /\ pc = "write" /\ pc' = "clean"
        /\ file' = [l \in {Line(k) : k \in DOMAIN got} |-> Folded(l)]
    BY <1>11, Zenon DEF WriteFile
  <2>2. [l \in {Line(k) : k \in DOMAIN got} |-> Folded(l)]' =
        [l \in {Line(k) : k \in DOMAIN got} |-> Folded(l)]
    BY <2>1, <1>2, FoldedStays, Zenon
  <2>3. DOMAIN start \subseteq DOMAIN got
    BY <2>1, Zenon DEF FileInv
  <2>4. ReadKnown' /\ StartKept'
    BY <2>1, <1>2, Zenon DEF FileInv, ReadKnown, StartKept
  <2> QED BY <2>1, <2>2, <2>3, <2>4, Zenon DEF FileInv
<1>12. CASE CacheStep
  BY <1>3, <1>12, ZenonT(30) DEF CacheStep, StoreUserMaps, OtherReads, loader
<1>13. CASE Clean \/ Destroy
  BY <1>13 DEF Clean, Destroy
<1> QED
  BY <1>1, <1>4, <1>5, <1>6, <1>7, <1>8, <1>9, <1>10, <1>11, <1>12, <1>13, Zenon
  DEF Next, RecordStep
-----------------------------------------------------------------------------
(* The theorems. *)

(* A record() whose maps are cleared does not go back. *)
LEMMA RunningBefore ==
  ASSUME Next, pc' \notin {"destroy", "returned"}
  PROVE  pc \notin {"destroy", "returned"}
BY Zenon
   DEF Next, KernelStep, RecordStep, CacheStep, UpdateElem, SchedSwitch, Load, Attach,
       SleepEnds, CollectEnds, PhaseEnds, WriteFile, Clean, Destroy, CollectKey,
       Symbolise, StoreUserMaps, OtherReads, loader

(* Every step of the program, of record() and of the cache keeps it. *)
LEMMA NextInv == SamplerInv /\ Next => SamplerInv'
<1> SUFFICES ASSUME SamplerInv, Next
             PROVE  SamplerInv'
  OBVIOUS
<1> USE DEF SamplerInv
<1>1. TypeOK'
  BY KernelTypeStep, RecordTypeStep, CacheTypeStep DEF Next
<1>2. LoaderInv'
  BY LoaderStep
<1>3. CacheInv'
  BY CacheInvStep
<1>4. ASSUME pc' \notin {"destroy", "returned"}
      PROVE  CountsInv' /\ FileInv'
  BY <1>4, RunningBefore, CountsStep, FileStep
<1> QED BY <1>1, <1>2, <1>3, <1>4, Zenon

(***************************************************************************)
(* SamplerInv holds in every reachable state: however the CPUs, record()   *)
(* and the other recorder interleave, the map of counts keeps within its   *)
(* limit and agrees with the switches that happened.                       *)
(***************************************************************************)
THEOREM SamplerInvariant == Spec => []SamplerInv
<1>1. SamplerInv /\ UNCHANGED vars => SamplerInv'
  <2> SUFFICES ASSUME SamplerInv, UNCHANGED vars
               PROVE  SamplerInv'
    OBVIOUS
  <2>1. UNCHANGED kernel /\ UNCHANGED loader /\ UNCHANGED symbols
    BY DEF vars
  <2>2. TypeOK'
    BY <2>1, TypeParts, TypeFrame, Zenon DEF SamplerInv
  <2>3. LoaderInv'
    BY <2>1 DEF SamplerInv, LoaderInv, kernel, loader
  <2>4. CacheInv'
    BY <2>1 DEF SamplerInv, CacheInv, symbols
  <2>5. \A k : HitsOf(k)' = HitsOf(k)
    BY <2>1, HitsSame DEF kernel
  <2>6. CountsInv => CountsInv'
    BY <2>1, CountsFrame, Zenon
  <2>7. \A k : Line(k)' = Line(k)
    BY <2>1, Zenon DEF kernel, Line, StackOf
  <2>8. [l \in {Line(k) : k \in DOMAIN got} |-> Folded(l)]' =
        [l \in {Line(k) : k \in DOMAIN got} |-> Folded(l)]
    BY <2>1, <2>7, FoldedStays DEF loader
  <2>9. FileInv => FileInv'
    <3>1. ReadKnown /\ StartKept => ReadKnown' /\ StartKept'
      BY <2>1, <2>5 DEF ReadKnown, StartKept, kernel, loader
    <3> QED BY <2>1, <2>8, <3>1, Zenon DEF FileInv, loader
  <2> QED BY <2>1, <2>2, <2>3, <2>4, <2>6, <2>9, Zenon DEF SamplerInv, loader
<1> QED BY <1>1, InitInv, NextInv, PTL DEF Spec

(***************************************************************************)
(* The counts of the threads are exact while the program is attached,      *)
(* although lookup and insertion are two steps: for any number of CPUs.    *)
(***************************************************************************)
THEOREM CountsAreExact == Spec => []CountsExact
<1>1. SamplerInv => CountsExact
  BY DEF SamplerInv, CountsInv, CountsBehind, MissingPending, CountsExact
<1> QED BY <1>1, SamplerInvariant, PTL

(***************************************************************************)
(* However record() returns, the program is detached and its maps are      *)
(* freed.                                                                  *)
(***************************************************************************)
THEOREM NothingStaysLoaded == Spec => []NothingLeftLoaded
<1>1. SamplerInv => NothingLeftLoaded
  BY Zenon DEF SamplerInv, LoaderInv, NothingLeftLoaded
<1> QED BY <1>1, SamplerInvariant, PTL

(***************************************************************************)
(* Every cached pid has a place in the eviction order, and the cache       *)
(* exceeds kMaxUserMapsCache by no more than the doubles.                  *)
(***************************************************************************)
THEOREM CacheStaysBounded == Spec => []CacheBounded
<1>1. SamplerInv => CacheBounded
  <2> SUFFICES ASSUME SamplerInv
               PROVE  CacheBounded
    OBVIOUS
  <2>1. /\ Cardinality(cache) \in Nat /\ Len(lru) \in Nat
        /\ Cardinality(cache) <= Len(lru)
    BY CacheFinite, Zenon DEF SamplerInv
  <2>2. doubles \in Nat /\ MaxCache \in Nat
    BY SamplerAssumption, Zenon DEF SamplerInv, TypeOK
  <2> QED BY <2>1, <2>2 DEF SamplerInv, CacheInv, CacheBounded
<1> QED BY <1>1, SamplerInvariant, PTL

(***************************************************************************)
(* The file invents nothing and forgets nothing: the counts of the keys    *)
(* that fold into a line are those of samples that match it, each sample   *)
(* has one key, and what was counted when the reading began is in it.      *)
(***************************************************************************)
THEOREM FileStaysFaithful == Spec => []FileIsFaithful
<1>1. SamplerInv => FileIsFaithful
  <2> SUFFICES ASSUME SamplerInv, pc = "clean"
               PROVE  FileIsFaithful
    BY DEF FileIsFaithful
  <2>1. TypeOK /\ CountsInv /\ FileInv
    BY DEF SamplerInv
  <2> DEFINE Of(l)  == {k \in DOMAIN got : Line(k) = l}
             Met    == {s \in Samples : hits[s] > 0}
             name   == [s \in Samples |-> KeyNow(s)]
  <2>2. /\ DOMAIN file = {Line(k) : k \in DOMAIN got}
        /\ \A l \in DOMAIN file : file[l] = SumFunctionOnSet(got, Of(l))
    BY <2>1, Zenon DEF FileInv, Folded
  <2>3. /\ IsFiniteSet(DOMAIN got)
        /\ \A k \in DOMAIN got : got[k] \in Nat /\ got[k] <= HitsOf(k)
    BY <2>1, Zenon DEF TypeOK, CountMap, FileInv, ReadKnown
  <2>4. /\ IsFiniteSet(Samples) /\ IsFiniteSet(Met)
        /\ \A s \in Samples : hits[s] \in Nat
    BY <2>1, SamplerAssumption, FS_Subset, Zenon DEF TypeOK
  <2>5. ASSUME NEW l \in DOMAIN file
        PROVE  file[l] <= SumFunctionOnSet(hits, {s \in Samples : Matches(s, l)})
    <3> DEFINE From == {s \in Met : name[s] \in Of(l)}
               To   == {s \in Samples : Matches(s, l)}
    <3>1. \A k : Hit(k) = {s \in Met : name[s] = k}
      BY Zenon DEF Hit
    <3>2. \A k \in Of(l) : got[k] <= SumFunctionOnSet(hits, {s \in Met : name[s] = k})
      <4> SUFFICES ASSUME NEW k \in Of(l)
                   PROVE  got[k] <= SumFunctionOnSet(hits, {s \in Met : name[s] = k})
        OBVIOUS
      <4>1. HitsOf(k) = SumFunctionOnSet(hits, {s \in Met : name[s] = k})
        BY <3>1, Zenon DEF HitsOf
      <4> HIDE DEF Met, name
      <4> QED BY <4>1, <2>3, Zenon
    <3>3. IsFiniteSet(Of(l)) /\ \A k \in Of(l) : got[k] \in Nat
      BY <2>3, FS_Subset, ZenonT(30)
    <3>4. SumFunctionOnSet(got, Of(l)) <= SumFunctionOnSet(hits, From)
      <4>1. \A s \in Met : hits[s] \in Nat
        BY <2>4
      <4> HIDE DEF Of, Met, name
      <4> QED BY <4>1, <3>2, <3>3, <2>4, SumFibres
    <3>5. From \in SUBSET To /\ To \in SUBSET Samples
      BY <2>1, LineMatches, Zenon
    <3>6. SumFunctionOnSet(hits, From) <= SumFunctionOnSet(hits, To)
      <4> HIDE DEF From, To
      <4> QED BY <3>5, <2>4, SumSubset, Zenon
    <3>7. /\ SumFunctionOnSet(hits, From) \in Nat /\ SumFunctionOnSet(hits, To) \in Nat
          /\ SumFunctionOnSet(got, Of(l)) \in Nat
      <4> HIDE DEF From, To, Of
      <4> QED BY <3>3, <3>5, <2>4, SumType
    <3>8. file[l] = SumFunctionOnSet(got, Of(l))
      BY <2>2, Zenon
    <3> HIDE DEF From, To, Of
    <3> QED BY <3>4, <3>6, <3>7, <3>8 DEF To
  <2>6. ASSUME NEW k \in DOMAIN start, k.pid # IdlePid
        PROVE  Line(k) \in DOMAIN file /\ file[Line(k)] >= start[k]
    <3>1. k \in DOMAIN got /\ start[k] <= got[k] /\ start[k] \in Nat
      BY <2>1, <2>6, Zenon DEF FileInv, StartKept, TypeOK, CountMap
    <3>2. k \in Of(Line(k)) /\ Of(Line(k)) \in SUBSET DOMAIN got
      BY <3>1, Zenon
    <3>3. SumFunctionOnSet(got, Of(Line(k))) =
            got[k] + SumFunctionOnSet(got, Of(Line(k)) \ {k})
      <4> HIDE DEF Of
      <4> QED BY <3>2, <2>3, SumRemove
    <3>4. SumFunctionOnSet(got, Of(Line(k)) \ {k}) \in Nat /\ got[k] \in Nat
      <4> HIDE DEF Of
      <4> QED BY <3>1, <3>2, <2>3, SumType
    <3>5. Line(k) \in DOMAIN file
      BY <3>1, <2>2, Zenon
    <3>6. file[Line(k)] = SumFunctionOnSet(got, Of(Line(k)))
      BY <3>5, <2>2
    <3> HIDE DEF Of
    <3> QED BY <3>1, <3>3, <3>4, <3>5, <3>6
  <2> QED BY <2>5, <2>6, Zenon DEF FileIsFaithful
<1> QED BY <1>1, SamplerInvariant, PTL
=============================================================================
