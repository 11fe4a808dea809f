----------------------------- MODULE MergeProofs -----------------------------
(* What merging policies amounts to, for every number of policies and of     *)
(* levels: the operators of EffectivePolicies.                               *)
EXTENDS Gwctl, NaturalsInduction, FiniteSetTheorems, TLAPS

(* How two policies are merged.                                              *)

\* A policy as a record.
IsPolicy(p) ==
    p \in [kind : {p.kind}, name : Nat, created : Nat, target : {p.target},
           default : {p.default}, override : {p.override}]

\* A policy has the settings of some policies, each with a value of one of them.
Draws(p, ps) ==
    /\ \A q \in ps : DOMAIN q.override \subseteq DOMAIN p.override
                     /\ DOMAIN q.default \subseteq DOMAIN p.default
    /\ \A s \in DOMAIN p.override :
         \E q \in ps : s \in DOMAIN q.override /\ p.override[s] = q.override[s]
    /\ \A s \in DOMAIN p.default :
         \E q \in ps : s \in DOMAIN q.default /\ p.default[s] = q.default[s]

\* A policy has the settings of the policies in some places of a chain: the
\* overrides of the first place that has one, the defaults of the last.
Ranks(p, places) ==
    /\ \A a \in places : DOMAIN a[2].override \subseteq DOMAIN p.override
                         /\ DOMAIN a[2].default \subseteq DOMAIN p.default
    /\ \A s \in DOMAIN p.override : \E a \in places :
         /\ s \in DOMAIN a[2].override /\ p.override[s] = a[2].override[s]
         /\ \A b \in places \ {a} : s \in DOMAIN b[2].override => Effective!Before(a, b)
    /\ \A s \in DOMAIN p.default : \E a \in places :
         /\ s \in DOMAIN a[2].default /\ p.default[s] = a[2].default[s]
         /\ \A b \in places \ {a} : s \in DOMAIN b[2].default => Effective!Before(b, a)

\* h is f patched with g.
Patched(h, f, g) ==
    /\ DOMAIN h = DOMAIN f \cup DOMAIN g
    /\ \A s \in DOMAIN h : IF s \in DOMAIN g THEN h[s] = g[s] ELSE h[s] = f[s]

\* h has the settings of f and g, each as f or g has it.
Mixed(h, f, g) ==
    /\ DOMAIN f \subseteq DOMAIN h /\ DOMAIN g \subseteq DOMAIN h
    /\ \A s \in DOMAIN h : \/ s \in DOMAIN f /\ h[s] = f[s]
                           \/ s \in DOMAIN g /\ h[s] = g[s]

LEMMA PatchIs ==
    ASSUME NEW f, NEW g
    PROVE  Patched(Effective!mergeUnstructured(f, g), f, g)
  BY DEF Effective!mergeUnstructured, Patched

LEMMA PatchDraws ==
    ASSUME NEW f, NEW g, NEW h, Patched(h, f, g)
    PROVE  Mixed(h, f, g) /\ Mixed(h, g, f)
  BY DEF Patched, Mixed

LEMMA MergedPolicyIs ==
    ASSUME NEW a, NEW b, IsPolicy(a), IsPolicy(b), NEW m, m = Effective!mergePolicy(a, b)
    PROVE  /\ IsPolicy(m) /\ m.kind = b.kind
           /\ m.default = Effective!mergeUnstructured(a.default, b.default)
           /\ m.override = IF a.kind \in Inherited
                           THEN Effective!mergeUnstructured(b.override, a.override)
                           ELSE Effective!mergeUnstructured(a.override, b.override)
  BY Zenon DEF Effective!mergePolicy, IsPolicy

LEMMA MergedPolicyIsOfKind ==
    ASSUME NEW a, NEW b, IsPolicy(a), IsPolicy(b)
    PROVE  IsPolicy(Effective!mergePolicy(a, b)) /\ Effective!mergePolicy(a, b).kind = b.kind
<1>1. PICK m : m = Effective!mergePolicy(a, b)
  OBVIOUS
<1>2. IsPolicy(m) /\ m.kind = b.kind
  BY <1>1, Zenon DEF Effective!mergePolicy, IsPolicy
<1> QED
  BY <1>1, <1>2, Zenon

LEMMA MergeIs ==
    ASSUME NEW a, NEW b, IsPolicy(a), IsPolicy(b), NEW m, m = Effective!mergePolicy(a, b)
    PROVE  /\ Patched(m.default, a.default, b.default)
           /\ a.kind \in Inherited => Patched(m.override, b.override, a.override)
           /\ a.kind \notin Inherited => Patched(m.override, a.override, b.override)
<1>1. /\ m.default = Effective!mergeUnstructured(a.default, b.default)
      /\ a.kind \in Inherited => m.override = Effective!mergeUnstructured(b.override, a.override)
      /\ a.kind \notin Inherited => m.override = Effective!mergeUnstructured(a.override, b.override)
  BY MergedPolicyIs, Zenon
<1> QED
  BY <1>1, PatchIs, Zenon

LEMMA MergeDraws ==
    ASSUME NEW a, NEW b, IsPolicy(a), IsPolicy(b), NEW m, m = Effective!mergePolicy(a, b),
           NEW A, NEW B, Draws(a, A), Draws(b, B)
    PROVE  Draws(m, A \cup B)
<1>1. Mixed(m.default, a.default, b.default)
  BY MergeIs, PatchDraws, Zenon
<1>2. Mixed(m.override, a.override, b.override)
  BY MergeIs, PatchDraws, Zenon
<1>3. ASSUME NEW s \in DOMAIN m.default
      PROVE  \E q \in A \cup B : s \in DOMAIN q.default /\ m.default[s] = q.default[s]
  BY <1>1, <1>3, Zenon DEF Draws, Mixed
<1>4. ASSUME NEW s \in DOMAIN m.override
      PROVE  \E q \in A \cup B : s \in DOMAIN q.override /\ m.override[s] = q.override[s]
  BY <1>2, <1>4, Zenon DEF Draws, Mixed
<1>5. \A q \in A \cup B : DOMAIN q.override \subseteq DOMAIN m.override
                          /\ DOMAIN q.default \subseteq DOMAIN m.default
  BY <1>1, <1>2, Zenon DEF Draws, Mixed
<1> QED
  BY <1>3, <1>4, <1>5, Zenon DEF Draws, Mixed

LEMMA PolicyDraws ==
    ASSUME NEW p
    PROVE  Draws(p, {p})
  BY DEF Draws

\* A parent or the policy without precedence comes first.
LEMMA MergeRanks ==
    ASSUME NEW a, NEW b, IsPolicy(a), IsPolicy(b), NEW m, m = Effective!mergePolicy(a, b),
           NEW A, NEW B, Ranks(a, A), Ranks(b, B),
           \A x \in A, y \in B : Effective!Before(x, y),
           a.kind \notin Inherited => DOMAIN a.override = {} /\ DOMAIN b.override = {}
    PROVE  Ranks(m, A \cup B)
<1>1. Patched(m.default, a.default, b.default) /\ Patched(m.override, b.override, a.override)
  <2>1. CASE a.kind \in Inherited
    BY <2>1, MergeIs, Zenon
  <2>2. CASE a.kind \notin Inherited
    <3>1. Patched(m.default, a.default, b.default) /\ Patched(m.override, a.override, b.override)
      BY <2>2, MergeIs, Zenon
    <3>2. DOMAIN a.override = {} /\ DOMAIN b.override = {}
      BY <2>2
    <3> QED
      BY <3>1, <3>2, Zenon DEF Patched
  <2> QED
    BY <2>1, <2>2, Zenon
<1>2. \A x \in A \cup B : DOMAIN x[2].override \subseteq DOMAIN m.override
                          /\ DOMAIN x[2].default \subseteq DOMAIN m.default
  BY <1>1, Zenon DEF Ranks, Patched
<1>3. ASSUME NEW s \in DOMAIN m.override
      PROVE  \E x \in A \cup B :
               /\ s \in DOMAIN x[2].override /\ m.override[s] = x[2].override[s]
               /\ \A y \in (A \cup B) \ {x} : s \in DOMAIN y[2].override => Effective!Before(x, y)
  <2>1. CASE s \in DOMAIN a.override
    <3>1. PICK x \in A :
            /\ s \in DOMAIN x[2].override /\ a.override[s] = x[2].override[s]
            /\ \A y \in A \ {x} : s \in DOMAIN y[2].override => Effective!Before(x, y)
      BY <2>1, Zenon DEF Ranks
    <3>2. m.override[s] = x[2].override[s]
      BY <1>1, <2>1, <3>1, Zenon DEF Patched
    <3> QED
      BY <3>1, <3>2, Zenon
  <2>2. CASE s \in DOMAIN b.override \ DOMAIN a.override
    <3>1. PICK x \in B :
            /\ s \in DOMAIN x[2].override /\ b.override[s] = x[2].override[s]
            /\ \A y \in B \ {x} : s \in DOMAIN y[2].override => Effective!Before(x, y)
      BY <2>2, Zenon DEF Ranks
    <3>2. m.override[s] = x[2].override[s]
      BY <1>1, <2>2, <3>1, Zenon DEF Patched
    <3>3. \A y \in A : s \notin DOMAIN y[2].override
      BY <2>2, Zenon DEF Ranks
    <3> QED
      BY <3>1, <3>2, <3>3, Zenon
  <2> QED
    BY <1>1, <2>1, <2>2, Zenon DEF Patched
<1>4. ASSUME NEW s \in DOMAIN m.default
      PROVE  \E x \in A \cup B :
               /\ s \in DOMAIN x[2].default /\ m.default[s] = x[2].default[s]
               /\ \A y \in (A \cup B) \ {x} : s \in DOMAIN y[2].default => Effective!Before(y, x)
  <2>1. CASE s \in DOMAIN b.default
    <3>1. PICK x \in B :
            /\ s \in DOMAIN x[2].default /\ b.default[s] = x[2].default[s]
            /\ \A y \in B \ {x} : s \in DOMAIN y[2].default => Effective!Before(y, x)
      BY <2>1, Zenon DEF Ranks
    <3>2. m.default[s] = x[2].default[s]
      BY <1>1, <2>1, <3>1, Zenon DEF Patched
    <3> QED
      BY <3>1, <3>2, Zenon
  <2>2. CASE s \in DOMAIN a.default \ DOMAIN b.default
    <3>1. PICK x \in A :
            /\ s \in DOMAIN x[2].default /\ a.default[s] = x[2].default[s]
            /\ \A y \in A \ {x} : s \in DOMAIN y[2].default => Effective!Before(y, x)
      BY <2>2, Zenon DEF Ranks
    <3>2. m.default[s] = x[2].default[s]
      BY <1>1, <2>2, <3>1, Zenon DEF Patched
    <3>3. \A y \in B : s \notin DOMAIN y[2].default
      BY <2>2, Zenon DEF Ranks
    <3> QED
      BY <3>1, <3>2, <3>3, Zenon
  <2> QED
    BY <1>1, <2>1, <2>2, Zenon DEF Patched
<1> QED
  BY <1>2, <1>3, <1>4, Zenon DEF Ranks

LEMMA PolicyRanks ==
    ASSUME NEW p, NEW i
    PROVE  Ranks(p, {<<i, p>>})
<1>1. <<i, p>>[2] = p
  OBVIOUS
<1> QED
  BY <1>1, Zenon DEF Ranks

-----------------------------------------------------------------------------
(* Policies of one level and kind are sorted and merged one by one.          *)

LEMMA LeastNat ==
    ASSUME NEW T, T \subseteq Nat, T # {}
    PROVE  \E x \in T : \A y \in T : x <= y
<1>1. PICK x \in T : \A y \in T : ~(<<y, x>> \in OpToRel(<, Nat))
  BY NatLessThanWellFounded, WFMin, Zenon
<1>2. \A y \in T : ~(y < x)
  BY <1>1, Zenon DEF OpToRel
<1> QED
  BY <1>2

\* Policies of one kind: finitely many, with different names.
OfOneKind(S) ==
    /\ IsFiniteSet(S)
    /\ \A p \in S : IsPolicy(p)
    /\ \A p, q \in S : p.name = q.name => p = q
    /\ \A p, q \in S : p.kind = q.kind

IsSorted(sorted, S) ==
    /\ sorted \in [1..Cardinality(S) -> S]
    /\ Effective!ByName(sorted)

LEMMA NamesAreNat ==
    ASSUME NEW p, IsPolicy(p)
    PROVE  p.name \in Nat /\ p.created \in Nat
  BY DEF IsPolicy

LEMMA FirstByName ==
    ASSUME NEW S, OfOneKind(S), S # {}
    PROVE  \E p \in S : \A q \in S \ {p} : p.name < q.name
<1> DEFINE T == {p.name : p \in S}
<1>1. T \subseteq Nat /\ T # {}
  BY NamesAreNat DEF OfOneKind
<1>2. PICK n \in T : \A m \in T : n <= m
  BY <1>1, LeastNat, Zenon
<1>3. PICK p \in S : n = p.name
  OBVIOUS
<1>4. ASSUME NEW q \in S \ {p} PROVE p.name < q.name
  <2>1. p.name <= q.name
    BY <1>2, <1>3
  <2>2. p.name # q.name
    BY Zenon DEF OfOneKind
  <2> QED
    BY <2>1, <2>2, NamesAreNat DEF OfOneKind
<1> QED
  BY <1>4

LEMMA SubsetOfOneKind ==
    ASSUME NEW S, OfOneKind(S), NEW T, T \subseteq S
    PROVE  OfOneKind(T)
<1>1. IsFiniteSet(T)
  BY FS_Subset DEF OfOneKind
<1> QED
  BY <1>1, Zenon DEF OfOneKind

\* A sequence gets a new first element.
LEMMA SortedAfter ==
    ASSUME NEW S, OfOneKind(S), NEW p \in S, \A q \in S \ {p} : p.name < q.name,
           NEW t, IsSorted(t, S \ {p})
    PROVE  \E sorted : IsSorted(sorted, S)
<1> DEFINE n == Cardinality(S)
           sorted == [i \in 1..n |-> IF i = 1 THEN p ELSE t[i - 1]]
<1>1. n \in Nat /\ n # 0 /\ Cardinality(S \ {p}) = n - 1
  BY FS_CardinalityType, FS_EmptySet, FS_RemoveElement DEF OfOneKind
<1>2. t \in [1..(n - 1) -> S \ {p}]
  BY <1>1, Zenon DEF IsSorted, Effective!ByName
<1>3. \A i \in 1..n : i # 1 => i - 1 \in 1..(n - 1)
  BY <1>1
<1>4. sorted \in [1..n -> S]
  BY <1>2, <1>3
<1>5. ASSUME NEW i \in 1..n, NEW j \in 1..n, i < j PROVE sorted[i].name < sorted[j].name
  <2>1. j # 1 /\ j - 1 \in 1..(n - 1) /\ sorted[j] = t[j - 1]
    BY <1>1, <1>5
  <2>2. CASE i = 1
    BY <1>2, <2>1, <2>2
  <2>3. CASE i # 1
    <3>1. i - 1 \in 1..(n - 1) /\ sorted[i] = t[i - 1] /\ i - 1 < j - 1
      BY <1>1, <1>5, <2>3
    <3> QED
      BY <1>2, <2>1, <3>1, Zenon DEF IsSorted, Effective!ByName
  <2> QED
    BY <2>2, <2>3, Zenon
<1> HIDE DEF sorted
<1>6. IsSorted(sorted, S)
  BY <1>4, <1>5 DEF IsSorted, Effective!ByName
<1> QED
  BY <1>6

LEMMA SortedExists ==
    ASSUME NEW S, OfOneKind(S)
    PROVE  \E sorted : IsSorted(sorted, S)
<1> DEFINE Bad(R) == R \subseteq S /\ ~\E sorted : IsSorted(sorted, R)
           T == {n \in Nat : \E R \in SUBSET S : Bad(R) /\ Cardinality(R) = n}
<1> SUFFICES ASSUME Bad(S) PROVE FALSE
  OBVIOUS
<1>1. T # {}
  BY FS_CardinalityType DEF OfOneKind
<1>2. PICK n \in T : \A m \in T : n <= m
  BY <1>1, LeastNat, Zenon
<1>3. PICK R \in SUBSET S : Bad(R) /\ Cardinality(R) = n
  OBVIOUS
<1>4. OfOneKind(R)
  BY SubsetOfOneKind
<1>5. CASE R = {}
  <2>1. IsSorted(<<>>, R)
    BY <1>5, FS_EmptySet DEF IsSorted, Effective!ByName
  <2> QED
    BY <1>3, <2>1
<1>6. CASE R # {}
  <2>1. PICK p \in R : \A q \in R \ {p} : p.name < q.name
    BY <1>4, <1>6, FirstByName
  <2>2. Cardinality(R \ {p}) = n - 1 /\ n # 0
    BY <1>3, <1>4, <1>6, FS_RemoveElement, FS_EmptySet, Zenon DEF OfOneKind
  <2>3. n - 1 \in Nat /\ n - 1 < n
    BY <2>2
  <2>4. ~Bad(R \ {p})
    BY <1>2, <2>2, <2>3
  <2>5. PICK t : IsSorted(t, R \ {p})
    BY <2>4
  <2> QED
    BY <1>3, <1>4, <2>1, <2>5, SortedAfter
<1> QED
  BY <1>5, <1>6

\* A sorted sequence has all policies.
SortsAll(sorted, S) == IsSorted(sorted, S) /\ \A p \in S : \E i \in DOMAIN sorted : sorted[i] = p

LEMMA CardinalityIs ==
    ASSUME NEW S
    PROVE  Effective!Cardinality(S) = Cardinality(S)
  BY Zenon DEF Effective!Cardinality, Cardinality

LEMMA SortedIs ==
    ASSUME NEW S, OfOneKind(S), NEW sorted, sorted = Effective!Sorted(S)
    PROVE  SortsAll(sorted, S)
<1>1. PICK t : IsSorted(t, S)
  BY SortedExists
<1>2. \E f \in [1..Cardinality(S) -> S] : Effective!ByName(f)
  BY <1>1, Zenon DEF IsSorted
<1>3. IsSorted(sorted, S)
  BY <1>2, CardinalityIs, Zenon DEF IsSorted, Effective!Sorted
<1>4. Cardinality(S) \in Nat /\ IsFiniteSet(S)
  BY FS_CardinalityType DEF OfOneKind
<1>5. sorted \in Injection(1..Cardinality(S), S)
  <2>1. sorted \in [1..Cardinality(S) -> S]
    BY <1>3 DEF IsSorted, Effective!ByName
  <2>2. ASSUME NEW i \in 1..Cardinality(S), NEW j \in 1..Cardinality(S), sorted[i] = sorted[j]
        PROVE  i = j
    <3>1. sorted[i].name \in Nat
      BY <2>1, NamesAreNat DEF OfOneKind
    <3>2. i < j => sorted[i].name < sorted[j].name
      BY <1>3, <2>1 DEF IsSorted, Effective!ByName
    <3>3. j < i => sorted[j].name < sorted[i].name
      BY <1>3, <2>1 DEF IsSorted, Effective!ByName
    <3> QED
      BY <1>4, <2>2, <3>1, <3>2, <3>3
  <2> QED
    BY <2>1, <2>2 DEF Injection, IsInjective
<1>6. Cardinality(1..Cardinality(S)) = Cardinality(S)
  BY <1>4, FS_Interval
<1>7. sorted \in Surjection(1..Cardinality(S), S)
  BY <1>4, <1>5, <1>6, FS_Injection
<1> QED
  BY <1>3, <1>7 DEF Surjection, SortsAll, IsSorted

\* Two policies of one level, the one with precedence as the child.
MergeTwo(a, b) ==
    IF Effective!Beats(a, b) THEN Effective!mergePolicy(b, a) ELSE Effective!mergePolicy(a, b)

\* Two maps of policies are merged kind by kind.
Same(m, f, g) ==
    /\ DOMAIN m = DOMAIN f \cup DOMAIN g
    /\ \A k \in DOMAIN f \cap DOMAIN g : m[k] = MergeTwo(f[k], g[k])
    /\ \A k \in DOMAIN f \ DOMAIN g : m[k] = f[k]
    /\ \A k \in DOMAIN g \ DOMAIN f : m[k] = g[k]

Different(m, f, g) ==
    /\ DOMAIN m = DOMAIN f \cup DOMAIN g
    /\ \A k \in DOMAIN f \cap DOMAIN g : m[k] = Effective!mergePolicy(f[k], g[k])
    /\ \A k \in DOMAIN f \ DOMAIN g : m[k] = f[k]
    /\ \A k \in DOMAIN g \ DOMAIN f : m[k] = g[k]

LEMMA SameHierarchyIs ==
    ASSUME NEW f, NEW g
    PROVE  Same(Effective!MergePoliciesOfSameHierarchy(f, g), f, g)
<1> DEFINE o == [k \in DOMAIN f \cap DOMAIN g |-> Effective!orderPolicyByPrecedence(f[k], g[k])]
<1>1. Effective!MergePoliciesOfSameHierarchy(f, g) = Effective!mergePolicies(f, g, o)
  BY Zenon DEF Effective!MergePoliciesOfSameHierarchy
<1>2. \A k \in DOMAIN f \cap DOMAIN g : Effective!mergePolicy(o[k][1], o[k][2]) = MergeTwo(f[k], g[k])
  BY Zenon DEF Effective!orderPolicyByPrecedence, MergeTwo
<1>3. DOMAIN o = DOMAIN f \cap DOMAIN g
  OBVIOUS
<1> HIDE DEF o
<1> QED
  BY <1>1, <1>2, <1>3 DEF Effective!mergePolicies, Same

LEMMA DifferentHierarchyIs ==
    ASSUME NEW f, NEW g
    PROVE  Different(Effective!MergePoliciesOfDifferentHierarchy(f, g), f, g)
<1> DEFINE o == [k \in DOMAIN f \cap DOMAIN g |-> <<f[k], g[k]>>]
<1>1. Effective!MergePoliciesOfDifferentHierarchy(f, g) = Effective!mergePolicies(f, g, o)
  BY Zenon DEF Effective!MergePoliciesOfDifferentHierarchy
<1>2. \A k \in DOMAIN f \cap DOMAIN g :
        Effective!mergePolicy(o[k][1], o[k][2]) = Effective!mergePolicy(f[k], g[k])
  OBVIOUS
<1>3. DOMAIN o = DOMAIN f \cap DOMAIN g
  OBVIOUS
<1> HIDE DEF o
<1> QED
  BY <1>1, <1>2, <1>3 DEF Effective!mergePolicies, Different

LEMMA MergeOfOneKind ==
    ASSUME NEW k, NEW a, NEW b
    PROVE  Effective!MergePoliciesOfSameHierarchy([x \in {k} |-> a], [x \in {k} |-> b])[k]
             = MergeTwo(a, b)
<1> DEFINE f == [x \in {k} |-> a]
           g == [x \in {k} |-> b]
<1>1. DOMAIN f = {k} /\ DOMAIN g = {k} /\ f[k] = a /\ g[k] = b
  OBVIOUS
<1> HIDE DEF f, g
<1>2. Same(Effective!MergePoliciesOfSameHierarchy(f, g), f, g)
  BY SameHierarchyIs, Zenon
<1>3. Effective!MergePoliciesOfSameHierarchy(f, g)[k] = MergeTwo(a, b)
  BY <1>1, <1>2, Zenon DEF Same
<1> QED
  BY <1>3, Zenon DEF f, g

\* The policies of a sequence, merged one after the other.
IsMerged(merged, sorted, n) ==
    merged = [i \in 1..n |-> IF i = 1 THEN sorted[1] ELSE MergeTwo(merged[i - 1], sorted[i])]

LEMMA MergedExists ==
    ASSUME NEW sorted, NEW n \in Nat
    PROVE  \E merged : IsMerged(merged, sorted, n)
<1> DEFINE T == {m \in Nat : ~\E merged : IsMerged(merged, sorted, m)}
<1> SUFFICES ASSUME T # {} PROVE FALSE
  OBVIOUS
<1>1. PICK m \in T : \A l \in T : m <= l
  BY LeastNat, Zenon
<1>2. CASE m = 0
  <2> DEFINE f == [i \in 1..m |-> sorted[1]]
  <2>1. f = [i \in 1..m |-> IF i = 1 THEN sorted[1] ELSE MergeTwo(f[i - 1], sorted[i])]
    BY <1>2
  <2>2. IsMerged(f, sorted, m)
    BY <2>1, Zenon DEF IsMerged
  <2> QED
    BY <2>2
<1>3. CASE m # 0
  <2>1. m - 1 \in Nat /\ m - 1 < m
    BY <1>3
  <2>2. PICK f : IsMerged(f, sorted, m - 1)
    BY <1>1, <2>1
  <2> DEFINE E(i) == IF i = 1 THEN sorted[1] ELSE MergeTwo(f[i - 1], sorted[i])
             g == [i \in 1..m |-> E(i)]
  <2>3. f = [i \in 1..(m - 1) |-> E(i)]
    BY <2>2, Zenon DEF IsMerged
  <2>4. \A i \in 1..m : i # 1 => g[i - 1] = f[i - 1]
    <3> HIDE DEF E
    <3> QED
      BY <2>3
  <2>5. g = [i \in 1..m |-> IF i = 1 THEN sorted[1] ELSE MergeTwo(g[i - 1], sorted[i])]
    <3> DEFINE F(i) == IF i = 1 THEN sorted[1] ELSE MergeTwo(g[i - 1], sorted[i])
    <3>1. \A i \in 1..m : E(i) = F(i)
      <4> HIDE DEF g
      <4> QED
        BY <2>4, Zenon
    <3>2. [i \in 1..m |-> E(i)] = [i \in 1..m |-> F(i)]
      <4> HIDE DEF E, F
      <4> QED
        BY <3>1
    <3> QED
      BY <3>2, Zenon
  <2> HIDE DEF g
  <2>6. IsMerged(g, sorted, m)
    BY <2>5, Zenon DEF IsMerged
  <2> QED
    BY <2>6
<1> QED
  BY <1>2, <1>3

LEMMA MergedInOrderIs ==
    ASSUME NEW k, NEW sorted, NEW n \in Nat, DOMAIN sorted = 1..n, Len(sorted) = n
    PROVE  \E merged : IsMerged(merged, sorted, n) /\ Effective!MergedInOrder(k, sorted) = merged[n]
<1> DEFINE E(f) == [i \in DOMAIN sorted |->
                      IF i = 1 THEN sorted[1]
                      ELSE Effective!MergePoliciesOfSameHierarchy([x \in {k} |-> f[i - 1]],
                                                                  [x \in {k} |-> sorted[i]])[k]]
           E2(f) == [i \in 1..n |-> IF i = 1 THEN sorted[1] ELSE MergeTwo(f[i - 1], sorted[i])]
           merged == CHOOSE f : f = E(f)
<1>1. Effective!MergedInOrder(k, sorted) = merged[n]
  BY Zenon DEF Effective!MergedInOrder
<1>2. ASSUME NEW f PROVE E(f) = E2(f)
  BY MergeOfOneKind, Zenon
<1>3. \E f : f = E(f)
  <2>1. PICK f : IsMerged(f, sorted, n)
    BY MergedExists, Zenon
  <2>2. f = E2(f)
    BY <2>1, Zenon DEF IsMerged
  <2> HIDE DEF E, E2
  <2> QED
    BY <1>2, <2>2, Zenon
<1>4. merged = E(merged)
  <2> HIDE DEF E
  <2> QED
    BY <1>3, Zenon
<1> HIDE DEF merged
<1>5. IsMerged(merged, sorted, n)
  BY <1>2, <1>4, Zenon DEF IsMerged
<1> QED
  BY <1>1, <1>5

LEMMA MergeTwoDraws ==
    ASSUME NEW k, NEW a, NEW b, IsPolicy(a), IsPolicy(b), a.kind = k, b.kind = k,
           NEW A, NEW B, Draws(a, A), Draws(b, B)
    PROVE  /\ IsPolicy(MergeTwo(a, b)) /\ MergeTwo(a, b).kind = k
           /\ Draws(MergeTwo(a, b), A \cup B)
<1>1. CASE Effective!Beats(a, b)
  <2>1. PICK m : m = Effective!mergePolicy(b, a)
    OBVIOUS
  <2>2. MergeTwo(a, b) = m
    BY <1>1, <2>1, Zenon DEF MergeTwo
  <2>3. Draws(m, B \cup A) /\ B \cup A = A \cup B
    BY <2>1, MergeDraws, Zenon
  <2>4. IsPolicy(m) /\ m.kind = a.kind
    BY <2>1, MergedPolicyIsOfKind, Zenon
  <2> QED
    BY <2>2, <2>3, <2>4, Zenon
<1>2. CASE ~Effective!Beats(a, b)
  <2>1. PICK m : m = Effective!mergePolicy(a, b)
    OBVIOUS
  <2>2. MergeTwo(a, b) = m
    BY <1>2, <2>1, Zenon DEF MergeTwo
  <2>3. Draws(m, A \cup B)
    BY <2>1, MergeDraws, Zenon
  <2>4. IsPolicy(m) /\ m.kind = b.kind
    BY <2>1, MergedPolicyIsOfKind, Zenon
  <2> QED
    BY <2>2, <2>3, <2>4, Zenon
<1> QED
  BY <1>1, <1>2

Firsts(sorted, i) == {sorted[j] : j \in 1..i}

LEMMA MergedDraws ==
    ASSUME NEW k, NEW S, \A p \in S : IsPolicy(p) /\ p.kind = k, NEW n \in Nat,
           NEW sorted \in [1..n -> S], NEW merged, IsMerged(merged, sorted, n), NEW i \in 1..n
    PROVE  /\ IsPolicy(merged[i]) /\ merged[i].kind = k
           /\ Draws(merged[i], Firsts(sorted, i))
<1> DEFINE Good(l) == /\ IsPolicy(merged[l]) /\ merged[l].kind = k
                      /\ Draws(merged[l], Firsts(sorted, l))
           T == {l \in 1..n : ~Good(l)}
<1>0. \A l \in 1..n : merged[l] = IF l = 1 THEN sorted[1] ELSE MergeTwo(merged[l - 1], sorted[l])
  BY DEF IsMerged
<1> SUFFICES ASSUME T # {} PROVE FALSE
  OBVIOUS
<1>1. PICK l \in T : \A x \in T : l <= x
  <2>1. T \subseteq Nat
    OBVIOUS
  <2> QED
    BY <2>1, LeastNat, Zenon
<1>2. sorted[l] \in S /\ Draws(sorted[l], {sorted[l]})
  BY PolicyDraws
<1>3. CASE l = 1
  <2>1. merged[l] = sorted[l]
    BY <1>0, <1>3
  <2>2. Firsts(sorted, l) = {sorted[l]}
    BY <1>3 DEF Firsts
  <2> QED
    BY <1>2, <2>1, <2>2, Zenon
<1>4. CASE l # 1
  <2>1. l - 1 \in 1..n /\ ~(l <= l - 1)
    BY <1>4
  <2>2. Good(l - 1)
    BY <1>1, <2>1
  <2>3. merged[l] = MergeTwo(merged[l - 1], sorted[l])
    BY <1>0, <1>4, Zenon
  <2>4. Firsts(sorted, l) = Firsts(sorted, l - 1) \cup {sorted[l]}
    BY <1>4 DEF Firsts
  <2>5. IsPolicy(sorted[l]) /\ sorted[l].kind = k
    BY <1>2, Zenon
  <2>6. /\ IsPolicy(MergeTwo(merged[l - 1], sorted[l]))
        /\ MergeTwo(merged[l - 1], sorted[l]).kind = k
        /\ Draws(MergeTwo(merged[l - 1], sorted[l]), Firsts(sorted, l - 1) \cup {sorted[l]})
    <3>1. PICK p, q, A : /\ p = merged[l - 1] /\ q = sorted[l]
                         /\ A = Firsts(sorted, l - 1)
      OBVIOUS
    <3>2. IsPolicy(p) /\ p.kind = k /\ Draws(p, A) /\ IsPolicy(q) /\ q.kind = k /\ Draws(q, {q})
      BY <1>2, <2>2, <2>5, <3>1, Zenon
    <3>3. IsPolicy(MergeTwo(p, q)) /\ MergeTwo(p, q).kind = k /\ Draws(MergeTwo(p, q), A \cup {q})
      BY <3>2, MergeTwoDraws, Zenon
    <3> QED
      BY <3>1, <3>3, Zenon
  <2> QED
    BY <2>3, <2>4, <2>6, Zenon
<1> QED
  BY <1>3, <1>4, Zenon

\* Of two policies one has precedence.
LEMMA OneBeats ==
    ASSUME NEW a, NEW b, IsPolicy(a), IsPolicy(b), a.name # b.name
    PROVE  Effective!Beats(a, b) \/ Effective!Beats(b, a)
<1>1. a.name \in Nat /\ a.created \in Nat /\ b.name \in Nat /\ b.created \in Nat
  BY NamesAreNat
<1> QED
  BY <1>1 DEF Effective!Beats

LEMMA MergeTwoRanks ==
    ASSUME NEW a, NEW b, IsPolicy(a), IsPolicy(b), a.name # b.name, a.kind = b.kind,
           a.kind \notin Inherited => DOMAIN a.override = {} /\ DOMAIN b.override = {}, NEW i
    PROVE  Ranks(MergeTwo(a, b), {i} \X {a, b})
<1>1. /\ <<i, a>>[1] = i /\ <<i, a>>[2] = a /\ <<i, b>>[1] = i /\ <<i, b>>[2] = b
      /\ {i} \X {a, b} = {<<i, a>>} \cup {<<i, b>>}
      /\ {i} \X {a, b} = {<<i, b>>} \cup {<<i, a>>}
  OBVIOUS
<1>2. Ranks(a, {<<i, a>>}) /\ Ranks(b, {<<i, b>>})
  BY PolicyRanks, Zenon
<1>3. CASE Effective!Beats(a, b)
  <2>1. PICK m : m = Effective!mergePolicy(b, a)
    OBVIOUS
  <2>2. MergeTwo(a, b) = m
    BY <1>3, <2>1, Zenon DEF MergeTwo
  <2>3. \A x \in {<<i, b>>}, y \in {<<i, a>>} : Effective!Before(x, y)
    BY <1>1, <1>3, Zenon DEF Effective!Before
  <2>4. Ranks(m, {<<i, b>>} \cup {<<i, a>>})
    BY <1>2, <2>1, <2>3, MergeRanks, Zenon
  <2> QED
    BY <1>1, <2>2, <2>4, Zenon
<1>4. CASE ~Effective!Beats(a, b)
  <2>1. PICK m : m = Effective!mergePolicy(a, b)
    OBVIOUS
  <2>2. MergeTwo(a, b) = m
    BY <1>4, <2>1, Zenon DEF MergeTwo
  <2>3. \A x \in {<<i, a>>}, y \in {<<i, b>>} : Effective!Before(x, y)
    BY <1>1, <1>4, OneBeats, Zenon DEF Effective!Before
  <2>4. Ranks(m, {<<i, a>>} \cup {<<i, b>>})
    BY <1>2, <2>1, <2>3, MergeRanks, Zenon
  <2> QED
    BY <1>1, <2>2, <2>4, Zenon
<1> QED
  BY <1>3, <1>4

LEMMA LevelOfKind ==
    ASSUME NEW k, NEW S, OfOneKind(S), S # {}, \A p \in S : p.kind = k,
           NEW m, m = Effective!MergedInOrder(k, Effective!Sorted(S))
    PROVE  /\ IsPolicy(m) /\ m.kind = k /\ Draws(m, S)
           /\ /\ Cardinality(S) <= 2
              /\ k \notin Inherited => \A p \in S : DOMAIN p.override = {}
              => \A i : Ranks(m, {i} \X S)
<1>1. PICK sorted : sorted = Effective!Sorted(S)
  OBVIOUS
<1>2. PICK n : n = Cardinality(S)
  OBVIOUS
<1>3. n \in Nat /\ n >= 1
  BY <1>2, FS_CardinalityType, FS_EmptySet DEF OfOneKind
<1>4. sorted \in [1..n -> S] /\ Effective!ByName(sorted) /\ \A p \in S : \E i \in 1..n : sorted[i] = p
  <2>1. SortsAll(sorted, S)
    BY <1>1, SortedIs, Zenon
  <2> QED
    BY <1>2, <2>1 DEF SortsAll, IsSorted
<1>5. DOMAIN sorted = 1..n /\ Len(sorted) = n
  <2>1. sorted \in Seq(S)
    BY <1>3, <1>4
  <2> QED
    BY <1>3, <1>4, <2>1
<1>6. PICK merged : IsMerged(merged, sorted, n) /\ m = merged[n]
  <2>1. m = Effective!MergedInOrder(k, sorted)
    BY <1>1, Zenon
  <2>2. \E merged : IsMerged(merged, sorted, n) /\ Effective!MergedInOrder(k, sorted) = merged[n]
    BY ONLY <1>3, <1>5, MergedInOrderIs, Zenon
  <2> QED
    BY <2>1, <2>2, Zenon
<1>7. \A p \in S : IsPolicy(p) /\ p.kind = k
  BY Zenon DEF OfOneKind
<1>8. S = {sorted[j] : j \in 1..n} /\ n \in 1..n
  BY <1>3, <1>4
<1>9. IsPolicy(m) /\ m.kind = k /\ Draws(m, S)
  <2>1. /\ IsPolicy(merged[n]) /\ merged[n].kind = k
        /\ Draws(merged[n], Firsts(sorted, n))
    BY ONLY <1>3, <1>4, <1>6, <1>7, <1>8, MergedDraws, Zenon
  <2> QED
    BY <1>6, <1>8, <2>1, Zenon DEF Firsts
<1>10. ASSUME n <= 2, k \notin Inherited => \A p \in S : DOMAIN p.override = {}, NEW i
       PROVE  Ranks(m, {i} \X S)
  <2>1. CASE n = 1
    <3>1. m = sorted[1]
      BY <1>6, <2>1 DEF IsMerged
    <3>2. PICK p : p = sorted[1] /\ S = {p}
      BY <1>8, <2>1
    <3>3. {i} \X S = {<<i, p>>}
      BY <3>2
    <3> QED
      <4>1. Ranks(p, {<<i, p>>})
        BY PolicyRanks, Zenon
      <4> QED
        BY <3>1, <3>2, <3>3, <4>1, Zenon
  <2>2. CASE n = 2
    <3>1. PICK a, b : a = sorted[1] /\ b = sorted[2]
      OBVIOUS
    <3>2. S = {a, b}
      BY <1>8, <2>2, <3>1
    <3>3. m = MergeTwo(a, b)
      <4>1. \A j \in 1..n : merged[j] = IF j = 1 THEN sorted[1] ELSE MergeTwo(merged[j - 1], sorted[j])
        BY <1>6, Zenon DEF IsMerged
      <4>2. merged[1] = a
        BY <1>3, <3>1, <4>1
      <4>3. merged[2] = MergeTwo(merged[1], b)
        BY <2>2, <3>1, <4>1
      <4> QED
        BY <1>6, <2>2, <4>2, <4>3
    <3>4. IsPolicy(a) /\ IsPolicy(b) /\ a.kind = k /\ b.kind = k
      BY <1>7, <3>2
    <3>5. a.name < b.name
      BY <1>4, <1>5, <2>2, <3>1 DEF Effective!ByName
    <3>6. a.name # b.name
      BY <3>4, <3>5, NamesAreNat
    <3>7. a.kind \notin Inherited => DOMAIN a.override = {} /\ DOMAIN b.override = {}
      BY <1>10, <3>2, <3>4, Zenon
    <3>8. Ranks(MergeTwo(a, b), {i} \X {a, b})
      BY <3>4, <3>6, <3>7, MergeTwoRanks, Zenon
    <3> QED
      BY <3>2, <3>3, <3>8, Zenon
  <2> QED
    BY <1>3, <1>10, <2>1, <2>2
<1> QED
  BY <1>2, <1>9, <1>10, Zenon

-----------------------------------------------------------------------------
(* Along a chain of levels, and over any set of them.                        *)

\* The policies of a cluster.
DeployedInv ==
    /\ IsFiniteSet(deployed)
    /\ \A p \in deployed : IsPolicy(p) /\ (p.kind \notin Inherited => DOMAIN p.override = {})
    /\ \A p, q \in deployed : p.kind = q.kind /\ p.name = q.name => p = q

\* The PolicyManager caches them by their names, and one that it has listed only
\* gives way to a namesake of another kind.
CacheInv ==
    /\ \A n \in DOMAIN policies : policies[n] \in deployed /\ policies[n].name = n
    /\ attached \subseteq DOMAIN policies
    /\ phase # "error" =>
         \A p \in deployed : p.kind \notin crds =>
            /\ p.name \in DOMAIN policies
            /\ policies[p.name] = p \/ policies[p.name].kind # p.kind

LEMMA AttachedAre ==
    ASSUME DeployedInv, CacheInv, NEW x, NEW k
    PROVE  /\ OfOneKind(Effective!Attached(x, k))
           /\ \A p \in Effective!Attached(x, k) :
                /\ p \in deployed /\ p.target = x /\ p.kind = k
                /\ k \notin Inherited => DOMAIN p.override = {}
<1> DEFINE A == Effective!Attached(x, k)
<1>1. A \subseteq deployed /\ \A p \in A : p.target = x /\ p.kind = k
  BY Zenon DEF CacheInv, Effective!Attached, Effective!Cached
<1> HIDE DEF A
<1>2. IsFiniteSet(A)
  BY <1>1, FS_Subset DEF DeployedInv
<1>3. OfOneKind(A)
  BY <1>1, <1>2, Zenon DEF OfOneKind, DeployedInv
<1>4. \A p \in A : k \notin Inherited => DOMAIN p.override = {}
  BY <1>1, Zenon DEF DeployedInv
<1> QED
  BY <1>1, <1>3, <1>4, Zenon DEF A

\* m has the policies of the level x, by kind.
Level(m, x) ==
    \A k :
        /\ k \in DOMAIN m <=> Effective!Attached(x, k) # {}
        /\ k \in DOMAIN m =>
             /\ IsPolicy(m[k]) /\ m[k].kind = k /\ Draws(m[k], Effective!Attached(x, k))
             /\ Cardinality(Effective!Attached(x, k)) <= 2 =>
                  \A i : Ranks(m[k], {i} \X Effective!Attached(x, k))

\* All cached policies of x are attached to it.
AllAttached(x) == \A n \in DOMAIN policies : policies[n].target = x => n \in attached

LEMMA ByKindIs ==
    ASSUME DeployedInv, CacheInv, NEW x, AllAttached(x)
    PROVE  Level(Effective!ByKind(x), x)
<1>1. PICK P : P = {p \in {policies[n] : n \in attached} : p.target = x}
  BY Zenon
<1>2. \A k : {p \in P : p.kind = k} = Effective!Attached(x, k)
  <2>1. PICK C : C = Effective!Cached
    OBVIOUS
  <2>2. C = {policies[n] : n \in DOMAIN policies}
    BY <2>1, Zenon DEF Effective!Cached
  <2>3. \A p \in P : p \in C /\ p.target = x
    <3>1. attached \subseteq DOMAIN policies
      BY DEF CacheInv
    <3> QED
      BY <1>1, <2>2, <3>1
  <2>4. \A p \in C : p.target = x => p \in P
    BY <1>1, <2>2, Zenon DEF AllAttached
  <2>5. \A k : Effective!Attached(x, k) = {p \in C : p.target = x /\ p.kind = k}
    BY <2>1, Zenon DEF Effective!Attached
  <2> QED
    BY <2>3, <2>4, <2>5
<1>3. Effective!ByKind(x) =
        [k \in {p.kind : p \in P} |->
            Effective!MergedInOrder(k, Effective!Sorted({p \in P : p.kind = k}))]
  BY <1>1, Zenon DEF Effective!ByKind, Effective!MergePoliciesOfSimilarKind
<1>4. \A k : k \in {p.kind : p \in P} <=> Effective!Attached(x, k) # {}
  BY <1>2
<1>5. PICK m : m = Effective!ByKind(x)
  OBVIOUS
<1>6. /\ \A k : k \in DOMAIN m <=> Effective!Attached(x, k) # {}
      /\ \A k \in DOMAIN m : m[k] = Effective!MergedInOrder(k, Effective!Sorted(Effective!Attached(x, k)))
  <2>1. DOMAIN m = {p.kind : p \in P}
    BY <1>3, <1>5, Zenon
  <2>2. \A k \in DOMAIN m : m[k] = Effective!MergedInOrder(k, Effective!Sorted({p \in P : p.kind = k}))
    BY <1>3, <1>5, <2>1, Zenon
  <2> QED
    BY <1>2, <1>4, <2>1, <2>2, Zenon
<1>7. ASSUME NEW k \in DOMAIN m
      PROVE  /\ IsPolicy(m[k]) /\ m[k].kind = k /\ Draws(m[k], Effective!Attached(x, k))
             /\ Cardinality(Effective!Attached(x, k)) <= 2 =>
                  \A i : Ranks(m[k], {i} \X Effective!Attached(x, k))
  <2>1. PICK S : S = Effective!Attached(x, k)
    OBVIOUS
  <2>2. /\ OfOneKind(S) /\ \A p \in S : p.kind = k
        /\ k \notin Inherited => \A p \in S : DOMAIN p.override = {}
    BY <2>1, AttachedAre, Zenon
  <2>3. S # {}
    BY <1>6, <2>1, Zenon
  <2>4. m[k] = Effective!MergedInOrder(k, Effective!Sorted(S))
    BY <1>6, <2>1, Zenon
  <2>5. /\ IsPolicy(m[k]) /\ m[k].kind = k /\ Draws(m[k], S)
        /\ /\ Cardinality(S) <= 2
           /\ k \notin Inherited => \A p \in S : DOMAIN p.override = {}
           => \A i : Ranks(m[k], {i} \X S)
    BY <2>2, <2>3, <2>4, LevelOfKind, Zenon
  <2> QED
    BY <2>1, <2>2, <2>5, Zenon
<1> QED
  BY <1>5, <1>6, <1>7, Zenon DEF Level

\* The policies of a set of levels.
Above(X, k) == UNION {Effective!Attached(x, k) : x \in X}

\* m has all settings of the policies of the levels in X and no others.
Covers(m, X) ==
    \A k :
        /\ k \in DOMAIN m <=> Above(X, k) # {}
        /\ k \in DOMAIN m => IsPolicy(m[k]) /\ m[k].kind = k /\ Draws(m[k], Above(X, k))

LEMMA AboveBoth ==
    ASSUME NEW X, NEW Y, NEW k
    PROVE  Above(X \cup Y, k) = Above(X, k) \cup Above(Y, k)
  BY Zenon DEF Above

LEMMA LevelCovers ==
    ASSUME NEW m, NEW x, Level(m, x)
    PROVE  Covers(m, {x})
<1>1. \A k : Above({x}, k) = Effective!Attached(x, k)
  BY Zenon DEF Above
<1> QED
  BY <1>1, Zenon DEF Level, Covers

\* Two maps that cover levels cover all of them together, however they are merged.
LEMMA CoversBoth ==
    ASSUME NEW f, NEW X, Covers(f, X), NEW g, NEW Y, Covers(g, Y),
           NEW m, Same(m, f, g) \/ Different(m, f, g)
    PROVE  Covers(m, X \cup Y)
<1> SUFFICES ASSUME NEW k
             PROVE  /\ k \in DOMAIN m <=> Above(X \cup Y, k) # {}
                    /\ k \in DOMAIN m =>
                         IsPolicy(m[k]) /\ m[k].kind = k /\ Draws(m[k], Above(X \cup Y, k))
  BY Zenon DEF Covers
<1>1. PICK A, B : A = Above(X, k) /\ B = Above(Y, k)
  OBVIOUS
<1>2. Above(X \cup Y, k) = A \cup B
  BY <1>1, AboveBoth
<1>3. /\ k \in DOMAIN f <=> A # {}
      /\ k \in DOMAIN f => IsPolicy(f[k]) /\ f[k].kind = k /\ Draws(f[k], A)
  BY <1>1, Zenon DEF Covers
<1>4. /\ k \in DOMAIN g <=> B # {}
      /\ k \in DOMAIN g => IsPolicy(g[k]) /\ g[k].kind = k /\ Draws(g[k], B)
  BY <1>1, Zenon DEF Covers
<1>5. DOMAIN m = DOMAIN f \cup DOMAIN g
  BY Zenon DEF Same, Different
<1>6. k \in DOMAIN m <=> A \cup B # {}
  BY <1>3, <1>4, <1>5, Zenon
<1>7. CASE k \in DOMAIN f \cap DOMAIN g
  <2>1. PICK a, b : a = f[k] /\ b = g[k]
    OBVIOUS
  <2>2. IsPolicy(a) /\ a.kind = k /\ Draws(a, A) /\ IsPolicy(b) /\ b.kind = k /\ Draws(b, B)
    BY <1>3, <1>4, <1>7, <2>1, Zenon
  <2>3. m[k] = MergeTwo(a, b) \/ m[k] = Effective!mergePolicy(a, b)
    BY <1>7, <2>1, Zenon DEF Same, Different
  <2>4. /\ IsPolicy(MergeTwo(a, b)) /\ MergeTwo(a, b).kind = k
        /\ Draws(MergeTwo(a, b), A \cup B)
    BY <2>2, MergeTwoDraws, Zenon
  <2>5. Draws(Effective!mergePolicy(a, b), A \cup B)
    BY <2>2, MergeDraws, Zenon
  <2>6. IsPolicy(Effective!mergePolicy(a, b)) /\ Effective!mergePolicy(a, b).kind = b.kind
    BY <2>2, MergedPolicyIsOfKind, Zenon
  <2>7. IsPolicy(m[k]) /\ m[k].kind = k /\ Draws(m[k], A \cup B)
    BY <2>2, <2>3, <2>4, <2>5, <2>6, Zenon
  <2> QED
    BY <1>2, <1>6, <2>7, Zenon
<1>8. CASE k \in DOMAIN f \ DOMAIN g
  <2>1. m[k] = f[k]
    BY <1>8, Zenon DEF Same, Different
  <2>2. A \cup B = A
    BY <1>4, <1>8, Zenon
  <2> QED
    BY <1>2, <1>3, <1>5, <1>8, <2>1, <2>2, Zenon
<1>9. CASE k \in DOMAIN g \ DOMAIN f
  <2>1. m[k] = g[k]
    BY <1>9, Zenon DEF Same, Different
  <2>2. A \cup B = B
    BY <1>3, <1>9, Zenon
  <2> QED
    BY <1>2, <1>4, <1>5, <1>9, <2>1, <2>2, Zenon
<1> QED
  BY <1>2, <1>5, <1>6, <1>7, <1>8, <1>9, Zenon

\* No level of a chain has three policies of a kind.
Few(chain, k) == \A i \in DOMAIN chain : Cardinality(Effective!Attached(chain[i], k)) <= 2

\* m has what the policies of a chain amount to, by kind.
Fits(m, chain) ==
    \A k :
        /\ k \in DOMAIN m <=> Effective!Places(chain, k) # {}
        /\ k \in DOMAIN m =>
             /\ IsPolicy(m[k]) /\ m[k].kind = k
             /\ Few(chain, k) => Ranks(m[k], Effective!Places(chain, k))

LEMMA InPlaces ==
    ASSUME NEW chain, NEW k, NEW a
    PROVE  a \in Effective!Places(chain, k) <=>
             \E i \in DOMAIN chain : \E p \in Effective!Attached(chain[i], k) : a = <<i, p>>
  BY DEF Effective!Places

LEMMA PlacesAfter ==
    ASSUME NEW S, NEW chain \in Seq(S), NEW x \in S, NEW k
    PROVE  /\ Effective!Places(Append(chain, x), k) =
                Effective!Places(chain, k) \cup ({Len(chain) + 1} \X Effective!Attached(x, k))
           /\ Few(Append(chain, x), k) =>
                Few(chain, k) /\ Cardinality(Effective!Attached(x, k)) <= 2
<1>1. PICK longer, n : longer = Append(chain, x) /\ n = Len(chain) + 1
  BY Zenon
<1>2. /\ DOMAIN longer = DOMAIN chain \cup {n} /\ longer[n] = x /\ n \notin DOMAIN chain
      /\ \A i \in DOMAIN chain : longer[i] = chain[i]
  BY <1>1
<1>3. PICK A : A = Effective!Attached(x, k)
  OBVIOUS
<1>4. ASSUME NEW a
      PROVE  a \in Effective!Places(longer, k) <=> a \in Effective!Places(chain, k) \cup ({n} \X A)
  <2>1. a \in Effective!Places(longer, k) <=>
          \E i \in DOMAIN longer : \E p \in Effective!Attached(longer[i], k) : a = <<i, p>>
    BY InPlaces
  <2>2. a \in Effective!Places(chain, k) <=>
          \E i \in DOMAIN chain : \E p \in Effective!Attached(chain[i], k) : a = <<i, p>>
    BY InPlaces
  <2>3. a \in {n} \X A <=> \E p \in A : a = <<n, p>>
    OBVIOUS
  <2> QED
    BY <1>2, <1>3, <2>1, <2>2, <2>3, Zenon
<1>5. Few(longer, k) => Few(chain, k) /\ Cardinality(A) <= 2
  BY <1>2, <1>3, Zenon DEF Few
<1> QED
  BY <1>1, <1>3, <1>4, <1>5, Zenon

LEMMA LevelsBefore ==
    ASSUME NEW S, NEW chain \in Seq(S), NEW k, NEW A,
           NEW a \in Effective!Places(chain, k), NEW b \in {Len(chain) + 1} \X A
    PROVE  Effective!Before(a, b)
<1>1. PICK i \in DOMAIN chain : \E p \in Effective!Attached(chain[i], k) : a = <<i, p>>
  BY InPlaces
<1>2. a[1] = i /\ i \in Nat /\ i <= Len(chain) /\ b[1] = Len(chain) + 1 /\ Len(chain) \in Nat
  BY <1>1
<1>3. a[1] < b[1]
  BY <1>2
<1> QED
  BY <1>3, Zenon DEF Effective!Before

\* Policies of a direct kind have no overrides, wherever they come from.
LEMMA DirectHasNoOverride ==
    ASSUME DeployedInv, CacheInv, NEW chain, NEW k, k \notin Inherited,
           NEW p, Ranks(p, Effective!Places(chain, k))
    PROVE  DOMAIN p.override = {}
<1> SUFFICES ASSUME NEW s \in DOMAIN p.override PROVE FALSE
  OBVIOUS
<1>1. PICK a \in Effective!Places(chain, k) : s \in DOMAIN a[2].override
  BY Zenon DEF Ranks
<1>2. PICK i \in DOMAIN chain : \E q \in Effective!Attached(chain[i], k) : a = <<i, q>>
  BY InPlaces
<1>3. a[2] \in Effective!Attached(chain[i], k)
  BY <1>2
<1>4. \A q \in Effective!Attached(chain[i], k) : DOMAIN q.override = {}
  BY AttachedAre, Zenon
<1> QED
  BY <1>1, <1>3, <1>4, Zenon

LEMMA NoPairs ==
    ASSUME NEW i, NEW A
    PROVE  {i} \X A # {} <=> A # {}
<1>1. ASSUME NEW a \in A PROVE {i} \X A # {}
  <2>1. <<i, a>> \in {i} \X A
    OBVIOUS
  <2> QED
    BY <2>1, Zenon
<1>2. ASSUME NEW a \in {i} \X A PROVE A # {}
  <2>1. a[2] \in A
    OBVIOUS
  <2> QED
    BY <2>1, Zenon
<1> QED
  BY <1>1, <1>2, Zenon

LEMMA RanksOfLevel ==
    ASSUME DeployedInv, CacheInv, NEW x, NEW k, k \notin Inherited, NEW i,
           NEW p, Ranks(p, {i} \X Effective!Attached(x, k))
    PROVE  DOMAIN p.override = {}
<1> SUFFICES ASSUME NEW s \in DOMAIN p.override PROVE FALSE
  OBVIOUS
<1>1. PICK a \in {i} \X Effective!Attached(x, k) : s \in DOMAIN a[2].override
  BY Zenon DEF Ranks
<1>2. a[2] \in Effective!Attached(x, k)
  OBVIOUS
<1>3. \A q \in Effective!Attached(x, k) : DOMAIN q.override = {}
  BY AttachedAre, Zenon
<1> QED
  BY <1>1, <1>2, <1>3, Zenon

\* One more level is merged into what a chain amounts to.
LEMMA FitsAfter ==
    ASSUME DeployedInv, CacheInv, NEW S, NEW chain \in Seq(S), NEW x \in S,
           NEW f, Fits(f, chain), NEW g, Level(g, x), NEW m, Different(m, f, g)
    PROVE  Fits(m, Append(chain, x))
<1>1. PICK longer, n : longer = Append(chain, x) /\ n = Len(chain) + 1
  BY Zenon
<1> SUFFICES ASSUME NEW k
             PROVE  /\ k \in DOMAIN m <=> Effective!Places(longer, k) # {}
                    /\ k \in DOMAIN m =>
                         /\ IsPolicy(m[k]) /\ m[k].kind = k
                         /\ Few(longer, k) => Ranks(m[k], Effective!Places(longer, k))
  BY <1>1, Zenon DEF Fits
<1>2. PICK P, B : P = Effective!Places(chain, k) /\ B = {n} \X Effective!Attached(x, k)
  BY Zenon
<1>3. /\ Effective!Places(longer, k) = P \cup B
      /\ Few(longer, k) => Few(chain, k) /\ Cardinality(Effective!Attached(x, k)) <= 2
  BY <1>1, <1>2, PlacesAfter
<1>4. /\ k \in DOMAIN f <=> P # {}
      /\ k \in DOMAIN f =>
           IsPolicy(f[k]) /\ f[k].kind = k /\ (Few(chain, k) => Ranks(f[k], P))
  BY <1>2, Zenon DEF Fits
<1>5. /\ k \in DOMAIN g <=> Effective!Attached(x, k) # {}
      /\ k \in DOMAIN g =>
           /\ IsPolicy(g[k]) /\ g[k].kind = k
           /\ Cardinality(Effective!Attached(x, k)) <= 2 => Ranks(g[k], B)
  BY <1>2, Zenon DEF Level
<1>6. Effective!Attached(x, k) # {} <=> B # {}
  BY <1>2, NoPairs, Zenon
<1>7. DOMAIN m = DOMAIN f \cup DOMAIN g
  BY Zenon DEF Different
<1>8. k \in DOMAIN m <=> P \cup B # {}
  BY <1>4, <1>5, <1>6, <1>7, Zenon
<1>9. CASE k \in DOMAIN f \cap DOMAIN g
  <2>1. PICK a, b : a = f[k] /\ b = g[k]
    OBVIOUS
  <2>2. m[k] = Effective!mergePolicy(a, b)
    BY <1>9, <2>1, Zenon DEF Different
  <2>3. IsPolicy(a) /\ a.kind = k /\ IsPolicy(b) /\ b.kind = k
    BY <1>4, <1>5, <1>9, <2>1, Zenon
  <2>4. IsPolicy(Effective!mergePolicy(a, b)) /\ Effective!mergePolicy(a, b).kind = b.kind
    BY <2>3, MergedPolicyIsOfKind, Zenon
  <2>5. IsPolicy(m[k]) /\ m[k].kind = k
    BY <2>2, <2>3, <2>4, Zenon
  <2>6. ASSUME Few(longer, k) PROVE Ranks(m[k], P \cup B)
    <3>1. Ranks(a, P) /\ Ranks(b, B)
      BY <1>3, <1>4, <1>5, <1>9, <2>1, <2>6, Zenon
    <3>2. \A y \in P, z \in B : Effective!Before(y, z)
      BY <1>1, <1>2, LevelsBefore
    <3>3. k \notin Inherited => DOMAIN a.override = {} /\ DOMAIN b.override = {}
      BY <1>2, <3>1, DirectHasNoOverride, RanksOfLevel, Zenon
    <3>4. a.kind \notin Inherited => DOMAIN a.override = {} /\ DOMAIN b.override = {}
      BY <2>3, <3>3, Zenon
    <3>5. Ranks(Effective!mergePolicy(a, b), P \cup B)
      BY <2>3, <3>1, <3>2, <3>4, MergeRanks, Zenon
    <3> QED
      BY <2>2, <3>5, Zenon
  <2> QED
    BY <1>3, <1>8, <2>5, <2>6, Zenon
<1>10. CASE k \in DOMAIN f \ DOMAIN g
  <2>1. m[k] = f[k]
    BY <1>10, Zenon DEF Different
  <2>2. P \cup B = P
    BY <1>5, <1>6, <1>10, Zenon
  <2> QED
    BY <1>3, <1>4, <1>8, <1>10, <2>1, <2>2, Zenon
<1>11. CASE k \in DOMAIN g \ DOMAIN f
  <2>1. m[k] = g[k]
    BY <1>11, Zenon DEF Different
  <2>2. P \cup B = B
    BY <1>4, <1>11, Zenon
  <2> QED
    BY <1>3, <1>5, <1>8, <1>11, <2>1, <2>2, Zenon
<1> QED
  BY <1>3, <1>7, <1>8, <1>9, <1>10, <1>11, Zenon

LEMMA FitsNothing == Fits(<<>>, <<>>)
<1>1. DOMAIN <<>> = {}
  OBVIOUS
<1>2. \A k : Effective!Places(<<>>, k) = {}
  BY <1>1, InPlaces
<1> QED
  BY <1>1, <1>2, Zenon DEF Fits

\* The first level of a chain.
LEMMA LevelFits ==
    ASSUME NEW m, NEW x, Level(m, x)
    PROVE  Fits(m, <<x>>)
<1>1. PICK chain : chain = <<x>>
  BY Zenon
<1>2. DOMAIN chain = {1} /\ chain[1] = x
  BY <1>1
<1> SUFFICES ASSUME NEW k
             PROVE  /\ k \in DOMAIN m <=> Effective!Places(chain, k) # {}
                    /\ k \in DOMAIN m =>
                         /\ IsPolicy(m[k]) /\ m[k].kind = k
                         /\ Few(chain, k) => Ranks(m[k], Effective!Places(chain, k))
  BY <1>1, Zenon DEF Fits
<1>3. PICK P : P = {1} \X Effective!Attached(x, k)
  BY Zenon
<1>4. /\ Effective!Places(chain, k) = P
      /\ P # {} <=> Effective!Attached(x, k) # {}
  <2>1. Effective!Places(chain, k) = P
    BY <1>2, <1>3, InPlaces
  <2> QED
    BY <1>3, <2>1, NoPairs, Zenon
<1>5. Few(chain, k) => Cardinality(Effective!Attached(x, k)) <= 2
  BY <1>2, Zenon DEF Few
<1>6. /\ k \in DOMAIN m <=> Effective!Attached(x, k) # {}
      /\ k \in DOMAIN m =>
           /\ IsPolicy(m[k]) /\ m[k].kind = k
           /\ Cardinality(Effective!Attached(x, k)) <= 2 => Ranks(m[k], P)
  BY <1>3, Zenon DEF Level
<1> QED
  BY <1>4, <1>5, <1>6, Zenon

-----------------------------------------------------------------------------
(* What the policies amount to.                                              *)

LEMMA OneIsBefore ==
    ASSUME NEW a, NEW b, a[1] \in Nat, b[1] \in Nat, IsPolicy(a[2]), IsPolicy(b[2]),
           Effective!Before(a, b)
    PROVE  ~Effective!Before(b, a)
<1>1. PICK i, j, p, q : i = a[1] /\ j = b[1] /\ p = a[2] /\ q = b[2]
  OBVIOUS
<1>2. p.name \in Nat /\ p.created \in Nat /\ q.name \in Nat /\ q.created \in Nat
  BY <1>1, NamesAreNat
<1>3. ~(Effective!Beats(p, q) /\ Effective!Beats(q, p))
  BY <1>2 DEF Effective!Beats
<1> QED
  BY <1>1, <1>3 DEF Effective!Before

LEMMA HighestIs ==
    ASSUME NEW O, NEW a \in O, \A b \in O \ {a} : Effective!Before(a, b),
           \A b \in O, c \in O : ~(Effective!Before(b, c) /\ Effective!Before(c, b))
    PROVE  Effective!Highest(O) = a
<1>1. PICK h : h = Effective!Highest(O)
  OBVIOUS
<1>2. h \in O /\ \A b \in O \ {h} : Effective!Before(h, b)
  BY <1>1, Zenon DEF Effective!Highest
<1> QED
  BY <1>1, <1>2, Zenon

LEMMA LowestIs ==
    ASSUME NEW O, NEW a \in O, \A b \in O \ {a} : Effective!Before(b, a),
           \A b \in O, c \in O : ~(Effective!Before(b, c) /\ Effective!Before(c, b))
    PROVE  Effective!Lowest(O) = a
<1>1. PICK h : h = Effective!Lowest(O)
  OBVIOUS
<1>2. h \in O /\ \A b \in O \ {h} : Effective!Before(b, h)
  BY <1>1, Zenon DEF Effective!Lowest
<1> QED
  BY <1>1, <1>2, Zenon

LEMMA RanksAsExpected ==
    ASSUME NEW P, NEW p, Ranks(p, P),
           \A b \in P, c \in P : ~(Effective!Before(b, c) /\ Effective!Before(c, b))
    PROVE  Effective!EffectiveSpec(p) = Effective!Expected(P)
<1> DEFINE O(s) == {a \in P : s \in DOMAIN a[2].override}
           D(s) == {a \in P : s \in DOMAIN a[2].default}
           E(s) == IF O(s) # {} THEN Effective!Highest(O(s))[2].override[s]
                   ELSE Effective!Lowest(D(s))[2].default[s]
           V(s) == IF s \in DOMAIN p.override THEN p.override[s] ELSE p.default[s]
           S == DOMAIN p.default \cup DOMAIN p.override
<1>1. Effective!EffectiveSpec(p) = [s \in S |-> V(s)]
  BY Zenon DEF Effective!EffectiveSpec, Effective!mergeUnstructured
<1>2. Effective!SettingsOf({a[2] : a \in P}) = S
  <2>1. ASSUME NEW s
        PROVE  s \in Effective!SettingsOf({a[2] : a \in P}) <=>
                 \E a \in P : s \in DOMAIN a[2].override \/ s \in DOMAIN a[2].default
    BY DEF Effective!SettingsOf
  <2>2. ASSUME NEW s
        PROVE  s \in S <=> \E a \in P : s \in DOMAIN a[2].override \/ s \in DOMAIN a[2].default
    BY Zenon DEF Ranks
  <2> QED
    BY <2>1, <2>2, Zenon
<1>3. Effective!Expected(P) = [s \in S |-> E(s)]
  BY <1>2, Zenon DEF Effective!Expected
<1>4. ASSUME NEW s \in S PROVE V(s) = E(s)
  <2>1. CASE s \in DOMAIN p.override
    <3>1. PICK a \in P : /\ s \in DOMAIN a[2].override /\ p.override[s] = a[2].override[s]
                         /\ \A b \in P \ {a} : s \in DOMAIN b[2].override => Effective!Before(a, b)
      BY <2>1, Zenon DEF Ranks
    <3>2. a \in O(s) /\ \A b \in O(s) \ {a} : Effective!Before(a, b)
      BY <3>1, Zenon
    <3>3. \A b \in O(s), c \in O(s) : ~(Effective!Before(b, c) /\ Effective!Before(c, b))
      BY Zenon
    <3>4. O(s) # {}
      BY <3>2, Zenon
    <3> HIDE DEF O
    <3>5. Effective!Highest(O(s)) = a
      BY <3>2, <3>3, HighestIs, Zenon
    <3> QED
      BY <2>1, <3>1, <3>4, <3>5, Zenon
  <2>2. CASE s \notin DOMAIN p.override
    <3>1. s \in DOMAIN p.default
      BY <2>2, Zenon
    <3>2. PICK a \in P : /\ s \in DOMAIN a[2].default /\ p.default[s] = a[2].default[s]
                         /\ \A b \in P \ {a} : s \in DOMAIN b[2].default => Effective!Before(b, a)
      BY <3>1, Zenon DEF Ranks
    <3>3. a \in D(s) /\ \A b \in D(s) \ {a} : Effective!Before(b, a)
      BY <3>2, Zenon
    <3>4. \A b \in D(s), c \in D(s) : ~(Effective!Before(b, c) /\ Effective!Before(c, b))
      BY Zenon
    <3>5. O(s) = {}
      BY <2>2, Zenon DEF Ranks
    <3> HIDE DEF O, D
    <3>6. Effective!Lowest(D(s)) = a
      BY <3>3, <3>4, LowestIs, Zenon
    <3> QED
      BY <2>2, <3>2, <3>5, <3>6, Zenon
  <2> QED
    BY <2>1, <2>2, Zenon
<1> HIDE DEF E, V, S
<1> QED
  BY <1>1, <1>3, <1>4

LEMMA PlacesAre ==
    ASSUME DeployedInv, CacheInv, NEW S, NEW chain \in Seq(S), NEW k,
           NEW a \in Effective!Places(chain, k)
    PROVE  a[1] \in Nat /\ IsPolicy(a[2])
<1>1. PICK i \in DOMAIN chain : \E p \in Effective!Attached(chain[i], k) : a = <<i, p>>
  BY InPlaces
<1>2. a[1] = i /\ i \in Nat /\ a[2] \in Effective!Attached(chain[i], k)
  BY <1>1
<1>3. a[2] \in deployed
  BY <1>2, AttachedAre, Zenon
<1> QED
  BY <1>2, <1>3, Zenon DEF DeployedInv

LEMMA FitsMatches ==
    ASSUME DeployedInv, CacheInv, NEW S, NEW chain \in Seq(S), NEW m, Fits(m, chain)
    PROVE  Effective!Matches(m, chain)
<1> SUFFICES ASSUME NEW k, \A x \in Effective!Elements(chain) :
                              Effective!Cardinality(Effective!Attached(x, k)) <= 2
             PROVE  IF Effective!Places(chain, k) = {} THEN k \notin DOMAIN m
                    ELSE /\ k \in DOMAIN m
                         /\ Effective!EffectiveSpec(m[k]) = Effective!Expected(Effective!Places(chain, k))
  BY DEF Effective!Matches
<1>1. PICK P : P = Effective!Places(chain, k)
  OBVIOUS
<1>2. Few(chain, k)
  <2>1. \A i \in DOMAIN chain : chain[i] \in Effective!Elements(chain)
    BY Zenon DEF Effective!Elements
  <2> QED
    BY <2>1, CardinalityIs, Zenon DEF Few
<1>3. /\ k \in DOMAIN m <=> P # {}
      /\ k \in DOMAIN m => Ranks(m[k], P)
  BY <1>1, <1>2, Zenon DEF Fits
<1>4. \A b \in P, c \in P : ~(Effective!Before(b, c) /\ Effective!Before(c, b))
  <2>1. \A a \in P : a[1] \in Nat /\ IsPolicy(a[2])
    BY <1>1, PlacesAre
  <2> QED
    BY <2>1, OneIsBefore, Zenon
<1>5. k \in DOMAIN m => Effective!EffectiveSpec(m[k]) = Effective!Expected(P)
  BY <1>3, <1>4, RanksAsExpected, Zenon
<1> QED
  BY <1>1, <1>3, <1>5, Zenon

\* A spec has the settings of some policies and no others.
IsDrawnFrom(spec, above) ==
    /\ DOMAIN spec = Effective!SettingsOf(above)
    /\ \A s \in DOMAIN spec :
         spec[s] \in IF Effective!Values(above, s) # {} THEN Effective!Values(above, s)
                     ELSE Effective!Defaults(above, s)

\* What a map that covers some levels amounts to.
LEMMA CoversSpec ==
    ASSUME NEW m, NEW X, Covers(m, X), NEW k, NEW above, above = Above(X, k),
           NEW spec, spec = IF k \in DOMAIN m THEN Effective!EffectiveSpec(m[k]) ELSE <<>>
    PROVE  IsDrawnFrom(spec, above)
<1> USE DEF IsDrawnFrom
<1>1. ASSUME NEW s
      PROVE  s \in Effective!SettingsOf(above) <=>
               \E q \in above : s \in DOMAIN q.override \/ s \in DOMAIN q.default
  BY DEF Effective!SettingsOf
<1>2. ASSUME NEW s, NEW v
      PROVE  v \in Effective!Values(above, s) <=>
               \E q \in above : s \in DOMAIN q.override /\ v = q.override[s]
  BY DEF Effective!Values
<1>3. ASSUME NEW s, NEW v
      PROVE  v \in Effective!Defaults(above, s) <=>
               \E q \in above : s \in DOMAIN q.default /\ v = q.default[s]
  BY DEF Effective!Defaults
<1>4. CASE k \in DOMAIN m
  <2>1. PICK p : p = m[k]
    OBVIOUS
  <2>2. Draws(p, above)
    BY <1>4, <2>1, Zenon DEF Covers
  <2>3. spec = Effective!mergeUnstructured(p.default, p.override)
    BY <1>4, <2>1, Zenon DEF Effective!EffectiveSpec
  <2>4. Patched(spec, p.default, p.override)
    BY <2>3, PatchIs, Zenon
  <2>5. DOMAIN spec = DOMAIN p.default \cup DOMAIN p.override
    BY <2>4, Zenon DEF Patched
  <2>6. \A s : s \in DOMAIN spec <=>
                 \E q \in above : s \in DOMAIN q.override \/ s \in DOMAIN q.default
    BY <2>2, <2>5, Zenon DEF Draws
  <2>7. DOMAIN spec = Effective!SettingsOf(above)
    BY <1>1, <2>6, Zenon
  <2>8. ASSUME NEW s \in DOMAIN spec
        PROVE  spec[s] \in IF Effective!Values(above, s) # {} THEN Effective!Values(above, s)
                           ELSE Effective!Defaults(above, s)
    <3>1. CASE s \in DOMAIN p.override
      <4>1. spec[s] = p.override[s]
        BY <2>4, <3>1, Zenon DEF Patched
      <4>2. spec[s] \in Effective!Values(above, s)
        BY <1>2, <2>2, <3>1, <4>1, Zenon DEF Draws
      <4> QED
        BY <4>2, Zenon
    <3>2. CASE s \notin DOMAIN p.override
      <4>1. spec[s] = p.default[s] /\ s \in DOMAIN p.default
        BY <2>4, <2>5, <3>2, Zenon DEF Patched
      <4>2. spec[s] \in Effective!Defaults(above, s)
        BY <1>3, <2>2, <4>1, Zenon DEF Draws
      <4>3. \A q \in above : s \notin DOMAIN q.override
        BY <2>2, <3>2, Zenon DEF Draws
      <4>4. Effective!Values(above, s) = {}
        BY <1>2, <4>3, Zenon
      <4> QED
        BY <4>2, <4>4, Zenon
    <3> QED
      BY <3>1, <3>2
  <2> QED
    BY <2>7, <2>8
<1>5. CASE k \notin DOMAIN m
  <2>1. above = {}
    BY <1>5, Zenon DEF Covers
  <2>2. spec = <<>>
    BY <1>5, Zenon
  <2>3. DOMAIN spec = {}
    BY <2>2
  <2>4. Effective!SettingsOf(above) = {}
    BY <1>1, <2>1, Zenon
  <2> QED
    BY <2>3, <2>4, Zenon
<1> QED
  BY <1>4, <1>5

-----------------------------------------------------------------------------
(* The levels above a node.                                                  *)

\* calculateEffectivePolicies begins with all policies of the model attached, and
\* with the namespaces that it will read.
LevelsInv ==
    phase \notin {"load", "error"} =>
        /\ \A x \in nodes : AllAttached(x)
        /\ \A x \in NeedNamespace : Connected(x, Namespaces)

\* The nodes of the model whose policies are merged are those of its connections,
\* and their namespaces.
Levels ==
    /\ \A x \in nodes : AllAttached(x)
    /\ \A g \in DOMAIN graph.classOf :
         /\ g \in DOMAIN Gateways /\ g \in nodes
         /\ graph.classOf[g] # "" => graph.classOf[g] \in nodes /\ NamespaceOf(g) \in nodes
    /\ \A r \in DOMAIN graph.parents :
         /\ r \in DOMAIN HTTPRoutes /\ r \in nodes /\ NamespaceOf(r) \in nodes
         /\ graph.parents[r] \subseteq DOMAIN graph.classOf
    /\ \A b \in DOMAIN graph.routesOf :
         /\ b \in DOMAIN Backends /\ b \in nodes /\ NamespaceOf(b) \in nodes
         /\ graph.routesOf[b] \subseteq DOMAIN graph.parents

-----------------------------------------------------------------------------
(* The cache of the PolicyManager.                                           *)

LEMMA InitDeployed ==
    Init => DeployedInv /\ CacheInv
<1> SUFFICES ASSUME Init PROVE DeployedInv /\ CacheInv
  OBVIOUS
<1>1. /\ setting \in DOMAIN Settings /\ deployed \in Settings[setting].deployments
      /\ crds = Effective!KindsOf(deployed) \cup {"unused"} /\ policies = <<>> /\ attached = {}
  BY Zenon DEF Init, Effective!PoliciesInit, DiscoveryInit, Bound
<1>2. DeployedInv
  BY <1>1, PoliciesAssumption, Zenon DEF DeployedInv, IsPolicy
<1>3. \A p \in deployed : p.kind \in crds
  BY <1>1, Zenon DEF Effective!KindsOf
<1>4. DOMAIN policies = {}
  BY <1>1
<1>5. CacheInv
  BY <1>1, <1>3, <1>4, Zenon DEF CacheInv
<1> QED
  BY <1>2, <1>5

\* The policies of one more kind are listed, or its List fails.
LEMMA LoadKeepsCache ==
    ASSUME DeployedInv, CacheInv, Load
    PROVE  CacheInv'
<1>1. PICK k \in crds : Effective!fetchPolicies(k)
  BY DEF Load
<1>2. /\ phase = "load" /\ crds' = crds \ {k} /\ deployed' = deployed /\ attached' = attached
  BY <1>1 DEF Effective!fetchPolicies, Load, discoveryVars, modelVars
<1>3. CASE phase' = "error" /\ policies' = policies
  BY <1>2, <1>3, Zenon DEF CacheInv
<1>4. CASE Effective!AddPolicy(k)
  <2>1. PICK listed : listed = {p \in deployed : p.kind = k}
    BY Zenon
  <2>2. PICK cache : cache = policies'
    OBVIOUS
  <2>3. /\ DOMAIN cache = DOMAIN policies \cup {p.name : p \in listed}
        /\ \A n \in DOMAIN cache :
             /\ (\E p \in listed : p.name = n) => cache[n] \in listed /\ cache[n].name = n
             /\ ~(\E p \in listed : p.name = n) => cache[n] = policies[n]
    <3>1. cache = [n \in DOMAIN policies \cup {p.name : p \in listed} |->
                IF \E p \in listed : p.name = n THEN CHOOSE p \in listed : p.name = n
                ELSE policies[n]]
      BY <1>4, <2>1, <2>2, Zenon DEF Effective!AddPolicy
    <3>2. DOMAIN cache = DOMAIN policies \cup {p.name : p \in listed}
      BY <3>1, Zenon
    <3>3. ASSUME NEW n \in DOMAIN cache, NEW p \in listed, p.name = n
          PROVE  cache[n] \in listed /\ cache[n].name = n
      <4>1. cache[n] = CHOOSE q \in listed : q.name = n
        BY <3>1, <3>2, <3>3, Zenon
      <4> QED
        BY <3>3, <4>1, Zenon
    <3>4. ASSUME NEW n \in DOMAIN cache, ~(\E p \in listed : p.name = n)
          PROVE  cache[n] = policies[n]
      BY <3>1, <3>2, <3>4, Zenon
    <3> QED
      BY <3>2, <3>3, <3>4, Zenon
  <2>4. ASSUME NEW n \in DOMAIN cache PROVE cache[n] \in deployed /\ cache[n].name = n
    <3>1. CASE \E p \in listed : p.name = n
      BY <2>1, <2>3, <3>1, Zenon
    <3>2. CASE ~(\E p \in listed : p.name = n)
      <4>1. n \in DOMAIN policies
        BY <2>3, <3>2, Zenon
      <4> QED
        BY <2>3, <3>2, <4>1, Zenon DEF CacheInv
    <3> QED
      BY <3>1, <3>2
  <2>5. attached \subseteq DOMAIN cache
    BY <2>3, Zenon DEF CacheInv
  <2>6. ASSUME NEW p \in deployed, p.kind \notin crds'
        PROVE  p.name \in DOMAIN cache /\ (cache[p.name] = p \/ cache[p.name].kind # p.kind)
    <3>1. CASE p.kind = k
      <4>1. p \in listed
        BY <2>1, <3>1, Zenon
      <4>2. p.name \in DOMAIN cache
        BY <2>3, <4>1, Zenon
      <4>3. cache[p.name] \in listed /\ cache[p.name].name = p.name
        BY <2>3, <4>1, <4>2, Zenon
      <4>4. cache[p.name] \in deployed /\ cache[p.name].kind = p.kind
        BY <2>1, <3>1, <4>3, Zenon
      <4>5. cache[p.name] = p
        BY <4>3, <4>4, Zenon DEF DeployedInv
      <4> QED
        BY <4>2, <4>5, Zenon
    <3>2. CASE p.kind # k
      <4>1. p.kind \notin crds
        BY <1>2, <2>6, <3>2, Zenon
      <4>2. p.name \in DOMAIN policies /\ (policies[p.name] = p \/ policies[p.name].kind # p.kind)
        BY <1>2, <4>1 DEF CacheInv
      <4>3. p.name \in DOMAIN cache
        BY <2>3, <4>2, Zenon
      <4>4. CASE \E q \in listed : q.name = p.name
        <5>1. cache[p.name] \in listed
          BY <2>3, <4>3, <4>4, Zenon
        <5> QED
          BY <2>1, <3>2, <4>3, <5>1, Zenon
      <4>5. CASE ~(\E q \in listed : q.name = p.name)
        <5>1. cache[p.name] = policies[p.name]
          BY <2>3, <4>3, <4>5, Zenon
        <5> QED
          BY <4>2, <4>3, <5>1, Zenon
      <4> QED
        BY <4>4, <4>5, Zenon
    <3> QED
      BY <3>1, <3>2
  <2> QED
    BY <1>2, <2>2, <2>4, <2>5, <2>6, Zenon DEF CacheInv
<1> QED
  BY <1>1, <1>3, <1>4, Zenon DEF Effective!fetchPolicies

\* The other steps leave the cache alone, and connect only policies in it.
LEMMA CacheStays ==
    ASSUME CacheInv, UNCHANGED <<deployed, crds, policies>>, phase' = phase \/ phase # "error",
           attached' = attached \/ attached' \subseteq DOMAIN policies
    PROVE  CacheInv'
  BY Zenon DEF CacheInv

-----------------------------------------------------------------------------
(* What the loops calculate.                                                 *)

LEMMA CoversNothing == Covers(<<>>, {})
<1>1. DOMAIN <<>> = {}
  OBVIOUS
<1>2. \A k : Above({}, k) = {}
  BY Zenon DEF Above
<1> QED
  BY <1>1, <1>2, Zenon DEF Covers

\* A map with the same policies.
Copies(m, f) == DOMAIN m = DOMAIN f /\ \A k \in DOMAIN f : m[k] = f[k]

LEMMA MergedWithNothing ==
    ASSUME NEW f, NEW e, DOMAIN e = {}, NEW m, Same(m, f, e) \/ Same(m, e, f)
    PROVE  Copies(m, f)
  BY Zenon DEF Same, Copies

LEMMA CopyCovers ==
    ASSUME NEW f, NEW m, Copies(m, f), NEW X, Covers(f, X)
    PROVE  Covers(m, X)
  BY Zenon DEF Copies, Covers

LEMMA CopyFits ==
    ASSUME NEW f, NEW m, Copies(m, f), NEW chain, Fits(f, chain)
    PROVE  Fits(m, chain)
  BY Zenon DEF Copies, Fits

LEMMA TwoMore ==
    ASSUME NEW S, NEW chain \in Seq(S), NEW n \in S, NEW x \in S
    PROVE  /\ chain \o <<n, x>> = Append(Append(chain, n), x)
           /\ chain \o <<n, x>> \in Seq(S) /\ Append(chain, n) \in Seq(S)
           /\ Effective!Elements(chain \o <<n, x>>) = Effective!Elements(chain) \cup {n, x}
<1>1. PICK longer : longer = chain \o <<n, x>>
  BY Zenon
<1>2. /\ longer \in Seq(S) /\ Append(chain, n) \in Seq(S) /\ Len(longer) = Len(chain) + 2
      /\ longer[Len(chain) + 1] = n /\ longer[Len(chain) + 2] = x
      /\ \A i \in 1..Len(chain) : longer[i] = chain[i]
  BY <1>1
<1>3. longer = Append(Append(chain, n), x)
  BY <1>1
<1>4. DOMAIN longer = DOMAIN chain \cup {Len(chain) + 1, Len(chain) + 2}
  BY <1>2
<1>5. \A y : y \in Effective!Elements(longer) <=> \E i \in DOMAIN longer : y = longer[i]
  BY Zenon DEF Effective!Elements
<1>6. \A y : y \in Effective!Elements(chain) <=> \E i \in DOMAIN chain : y = chain[i]
  BY Zenon DEF Effective!Elements
<1>7. \A i \in DOMAIN chain : longer[i] = chain[i]
  BY <1>2
<1>8. \A y : y \in Effective!Elements(longer) <=> y \in Effective!Elements(chain) \/ y = n \/ y = x
  <2>1. PICK i, j : i = Len(chain) + 1 /\ j = Len(chain) + 2
    OBVIOUS
  <2>2. DOMAIN longer = DOMAIN chain \cup {i, j} /\ longer[i] = n /\ longer[j] = x
    BY <1>2, <1>4, <2>1, Zenon
  <2> QED
    BY ONLY <1>5, <1>6, <1>7, <2>2, SMT
<1>9. Effective!Elements(longer) = Effective!Elements(chain) \cup {n, x}
  BY <1>8, Zenon
<1> QED
  BY <1>1, <1>2, <1>3, <1>9, Zenon

LEMMA BelowIs ==
    ASSUME NEW f, NEW x \in Members
    PROVE  \E m : /\ Different(m, f, Effective!ByKind(NamespaceOf(x)))
                  /\ Different(Effective!Below(f, x), m, Effective!ByKind(x))
<1>1. [y \in Members |-> NamespaceOf(y)][x] = NamespaceOf(x)
  BY Zenon
<1>2. PICK n : n = NamespaceOf(x)
  OBVIOUS
<1>3. PICK m : m = Effective!MergePoliciesOfDifferentHierarchy(f, Effective!ByKind(n))
  OBVIOUS
<1>4. Effective!Below(f, x) = Effective!MergePoliciesOfDifferentHierarchy(m, Effective!ByKind(x))
  BY <1>1, <1>2, <1>3, Zenon DEF Effective!Below
<1> QED
  BY <1>2, <1>3, <1>4, DifferentHierarchyIs, Zenon

\* The policies of a node are merged below what there is.
LEMMA BelowCovers ==
    ASSUME DeployedInv, CacheInv, NEW f, NEW X, Covers(f, X), NEW x \in Members,
           AllAttached(x), AllAttached(NamespaceOf(x))
    PROVE  Covers(Effective!Below(f, x), X \cup {NamespaceOf(x), x})
<1>1. PICK n : n = NamespaceOf(x)
  OBVIOUS
<1>2. PICK m : /\ Different(m, f, Effective!ByKind(n))
               /\ Different(Effective!Below(f, x), m, Effective!ByKind(x))
  BY <1>1, BelowIs, Zenon
<1>3. Covers(Effective!ByKind(n), {n}) /\ Covers(Effective!ByKind(x), {x})
  BY <1>1, ByKindIs, LevelCovers, Zenon
<1>4. Covers(m, X \cup {n})
  BY <1>2, <1>3, CoversBoth, Zenon
<1>5. Covers(Effective!Below(f, x), (X \cup {n}) \cup {x})
  BY <1>2, <1>3, <1>4, CoversBoth, Zenon
<1>6. (X \cup {n}) \cup {x} = X \cup {n, x}
  OBVIOUS
<1> QED
  BY <1>1, <1>5, <1>6

LEMMA BelowFits ==
    ASSUME DeployedInv, CacheInv, NEW f, NEW S, NEW chain \in Seq(S), Fits(f, chain),
           NEW x \in Members, x \in S, NamespaceOf(x) \in S,
           AllAttached(x), AllAttached(NamespaceOf(x))
    PROVE  Fits(Effective!Below(f, x), chain \o <<NamespaceOf(x), x>>)
<1>1. PICK n : n = NamespaceOf(x)
  OBVIOUS
<1>2. PICK m : /\ Different(m, f, Effective!ByKind(n))
               /\ Different(Effective!Below(f, x), m, Effective!ByKind(x))
  BY <1>1, BelowIs, Zenon
<1>3. Level(Effective!ByKind(n), n) /\ Level(Effective!ByKind(x), x)
  BY <1>1, ByKindIs, Zenon
<1>4. PICK longer : longer = Append(chain, n)
  BY Zenon
<1>5. longer \in Seq(S) /\ chain \o <<n, x>> = Append(longer, x)
  BY <1>1, <1>4, TwoMore
<1>6. Fits(m, longer)
  BY <1>1, <1>2, <1>3, <1>4, FitsAfter
<1>7. Fits(Effective!Below(f, x), Append(longer, x))
  BY <1>2, <1>3, <1>5, <1>6, FitsAfter
<1> QED
  BY <1>1, <1>5, <1>7, Zenon

\* m has what the levels of a chain amount to.
Good(m, chain) == Fits(m, chain) /\ \A X : X = Effective!Elements(chain) => Covers(m, X)

GatewayFits(g) ==
    IF graph.classOf[g] = "" THEN g \notin DOMAIN effective
    ELSE /\ g \in DOMAIN effective
         /\ \A m, chain : m = effective[g] /\ chain = Effective!GatewayChain(g) => Good(m, chain)

RouteFits(r) ==
    \A g \in graph.parents[r] : \A m, chain :
        m = effective[r][g] /\ chain = Effective!RouteChain(r, g) => Good(m, chain)

\* The routes among rs that connect a Backend with g.
Via(rs, g) == {q \in rs : g \in graph.parents[q]}

\* The levels above the routes in rs, from g, and those above a Backend.
LevelsVia(rs, g) == UNION {Effective!Elements(Effective!RouteChain(r, g)) : r \in rs}
LevelsTo(b, rs, g) == UNION {Effective!Elements(Effective!BackendChain(b, r, g)) : r \in rs}

\* m has what the routes in rs get from g, the policies of the Backend not included ...
Gathered(m, rs, g) ==
    /\ \A X : X = LevelsVia(rs, g) => Covers(m, X)
    /\ \A r, chain : rs = {r} /\ chain = Effective!RouteChain(r, g) => Fits(m, chain)

ResultFits ==
    \A g, rs, m : rs = Via(graph.routesOf[backend] \ todo, g) /\ m = result[g] =>
        IF rs = {} THEN g \notin DOMAIN result
        ELSE g \in DOMAIN result /\ Gathered(m, rs, g)

\* ... and included.
Reached(m, b, rs, g) ==
    /\ \A X : X = LevelsTo(b, rs, g) => Covers(m, X)
    /\ \A r, chain : rs = {r} /\ chain = Effective!BackendChain(b, r, g) => Fits(m, chain)

BackendFits(b) ==
    \A g, rs, m : rs = Via(graph.routesOf[b], g) /\ m = effective[b][g] =>
        IF rs = {} THEN g \notin DOMAIN effective[b]
        ELSE g \in DOMAIN effective[b] /\ Reached(m, b, rs, g)

EffectiveInv ==
    /\ phase = "load" => DOMAIN effective = {}
    /\ phase = "gateways" =>
         /\ DOMAIN effective \subseteq DOMAIN graph.classOf \ left
         /\ \A g \in DOMAIN graph.classOf \ left : GatewayFits(g)
    /\ phase \in {"routes", "backends", "done"} =>
         \A g \in DOMAIN graph.classOf : GatewayFits(g)
    /\ phase = "routes" => \A r \in DOMAIN graph.parents \ left : RouteFits(r)
    /\ phase \in {"backends", "done"} =>
         /\ \A r \in DOMAIN graph.parents : RouteFits(r)
         /\ \A b \in DOMAIN graph.routesOf \ (left \cup {backend}) : BackendFits(b)
    /\ backend # "" => todo \subseteq graph.routesOf[backend] /\ ResultFits

LEMMA ChainsStay ==
    ASSUME UNCHANGED graph
    PROVE  /\ \A g : Effective!GatewayChain(g)' = Effective!GatewayChain(g)
           /\ \A r, g : Effective!RouteChain(r, g)' = Effective!RouteChain(r, g)
           /\ \A b, r, g : Effective!BackendChain(b, r, g)' = Effective!BackendChain(b, r, g)
           /\ \A rs, g : Via(rs, g)' = Via(rs, g)
<1>1. \A g : Effective!GatewayChain(g)' = Effective!GatewayChain(g)
  BY DEF Effective!GatewayChain, Effective!ClassOf
<1>2. \A r, g : Effective!RouteChain(r, g)' = Effective!RouteChain(r, g)
  BY <1>1, Zenon DEF Effective!RouteChain
<1>3. \A b, r, g : Effective!BackendChain(b, r, g)' = Effective!BackendChain(b, r, g)
  BY <1>2, Zenon DEF Effective!BackendChain
<1>4. \A rs, g : Via(rs, g)' = Via(rs, g)
  BY DEF Via
<1> QED
  BY <1>1, <1>2, <1>3, <1>4

LEMMA AttachedStay ==
    ASSUME UNCHANGED policies
    PROVE  /\ \A x, k : Effective!Attached(x, k)' = Effective!Attached(x, k)
           /\ \A X, k : Above(X, k)' = Above(X, k)
           /\ \A chain, k : Effective!Places(chain, k)' = Effective!Places(chain, k)
           /\ \A chain, k : Few(chain, k)' <=> Few(chain, k)
<1>1. Effective!Cached' = Effective!Cached
  BY DEF Effective!Cached
<1>2. \A x, k : Effective!Attached(x, k)' = Effective!Attached(x, k)
  BY <1>1 DEF Effective!Attached
<1>3. \A X, k : Above(X, k)' = Above(X, k)
  BY <1>2 DEF Above
<1>4. \A chain, k : Effective!Places(chain, k)' = Effective!Places(chain, k)
  BY <1>2 DEF Effective!Places
<1>5. \A chain, k : Few(chain, k)' <=> Few(chain, k)
  BY <1>2, Zenon DEF Few
<1> QED
  BY <1>2, <1>3, <1>4, <1>5

LEMMA CoversStays ==
    ASSUME UNCHANGED policies
    PROVE  /\ \A m, X : Covers(m, X)' <=> Covers(m, X)
           /\ \A m, chain : Fits(m, chain)' <=> Fits(m, chain)
           /\ \A m, chain : Good(m, chain)' <=> Good(m, chain)
<1>1. \A m, X : Covers(m, X)' <=> Covers(m, X)
  BY AttachedStay, Zenon DEF Covers
<1>2. \A m, chain : Fits(m, chain)' <=> Fits(m, chain)
  BY AttachedStay, Zenon DEF Fits
<1> QED
  BY <1>1, <1>2, Zenon DEF Good

LEMMA GatheredStays ==
    ASSUME UNCHANGED <<policies, graph>>
    PROVE  /\ \A m, rs, g : Gathered(m, rs, g)' <=> Gathered(m, rs, g)
           /\ \A m, b, rs, g : Reached(m, b, rs, g)' <=> Reached(m, b, rs, g)
<1>1. /\ \A m, X : Covers(m, X)' <=> Covers(m, X)
      /\ \A m, chain : Fits(m, chain)' <=> Fits(m, chain)
  BY CoversStays
<1>2. /\ \A r, g : Effective!RouteChain(r, g)' = Effective!RouteChain(r, g)
      /\ \A b, r, g : Effective!BackendChain(b, r, g)' = Effective!BackendChain(b, r, g)
  BY ChainsStay
<1>3. ASSUME NEW rs, NEW g
      PROVE  LevelsVia(rs, g)' = LevelsVia(rs, g)
  BY <1>2 DEF LevelsVia, Effective!Elements
<1>4. ASSUME NEW b, NEW rs, NEW g
      PROVE  LevelsTo(b, rs, g)' = LevelsTo(b, rs, g)
  BY <1>2 DEF LevelsTo, Effective!Elements
<1>5. \A m, rs, g : Gathered(m, rs, g)' <=> Gathered(m, rs, g)
  BY <1>1, <1>2, <1>3, Zenon DEF Gathered
<1>6. \A m, b, rs, g : Reached(m, b, rs, g)' <=> Reached(m, b, rs, g)
  BY <1>1, <1>2, <1>4, Zenon DEF Reached
<1> QED
  BY <1>5, <1>6

\* Nothing that a node has changes with another one.
LEMMA FitsStay ==
    ASSUME UNCHANGED <<policies, graph>>
    PROVE  /\ \A g : /\ GatewayFits(g)
                     /\ g \in DOMAIN effective' <=> g \in DOMAIN effective
                     /\ g \in DOMAIN effective => effective'[g] = effective[g]
                     => GatewayFits(g)'
           /\ \A r : RouteFits(r) /\ effective'[r] = effective[r] => RouteFits(r)'
           /\ \A b : BackendFits(b) /\ effective'[b] = effective[b] => BackendFits(b)'
           /\ ResultFits /\ UNCHANGED <<backend, todo, result>> => ResultFits'
<1>1. \A m, chain : Good(m, chain)' <=> Good(m, chain)
  BY CoversStays
<1>2. /\ \A g : Effective!GatewayChain(g)' = Effective!GatewayChain(g)
      /\ \A r, g : Effective!RouteChain(r, g)' = Effective!RouteChain(r, g)
      /\ \A rs, g : Via(rs, g)' = Via(rs, g)
  BY ChainsStay
<1>3. ASSUME NEW g, GatewayFits(g), g \in DOMAIN effective' <=> g \in DOMAIN effective,
             g \in DOMAIN effective => effective'[g] = effective[g]
      PROVE  GatewayFits(g)'
  BY <1>1, <1>2, <1>3, Zenon DEF GatewayFits
<1>4. ASSUME NEW r, RouteFits(r), effective'[r] = effective[r]
      PROVE  RouteFits(r)'
  BY <1>1, <1>2, <1>4, Zenon DEF RouteFits
<1>5. /\ \A m, rs, g : Gathered(m, rs, g)' <=> Gathered(m, rs, g)
      /\ \A m, b, rs, g : Reached(m, b, rs, g)' <=> Reached(m, b, rs, g)
  BY GatheredStays
<1>6. ASSUME NEW b, BackendFits(b), effective'[b] = effective[b]
      PROVE  BackendFits(b)'
  BY <1>1, <1>2, <1>5, <1>6, Zenon DEF BackendFits
<1>7. ASSUME ResultFits, UNCHANGED <<backend, todo, result>>
      PROVE  ResultFits'
  BY <1>1, <1>2, <1>5, <1>7, Zenon DEF ResultFits
<1> QED
  BY <1>3, <1>4, <1>6, <1>7, Zenon

LEMMA ChainsAre ==
    ASSUME Levels
    PROVE  /\ \A g \in DOMAIN graph.classOf :
                /\ Effective!GatewayChain(g) \in Seq(nodes)
                /\ graph.classOf[g] = "" => Effective!GatewayChain(g) = <<>>
                /\ graph.classOf[g] # "" =>
                     Effective!GatewayChain(g) = <<graph.classOf[g]>> \o <<NamespaceOf(g), g>>
           /\ \A r \in DOMAIN graph.parents : \A g \in graph.parents[r] :
                /\ Effective!RouteChain(r, g) \in Seq(nodes)
                /\ Effective!RouteChain(r, g) = Effective!GatewayChain(g) \o <<NamespaceOf(r), r>>
           /\ \A b \in DOMAIN graph.routesOf :
              \A r \in graph.routesOf[b] : \A g \in graph.parents[r] :
                /\ Effective!BackendChain(b, r, g) \in Seq(nodes)
                /\ Effective!BackendChain(b, r, g) =
                     Effective!RouteChain(r, g) \o <<NamespaceOf(b), b>>
<1>0. PICK ns : ns = [x \in Members |-> NamespaceOf(x)]
  BY Zenon
<1>1. \A x \in Members : ns[x] = NamespaceOf(x)
  BY <1>0, Zenon
<1>2. ASSUME NEW g \in DOMAIN graph.classOf
      PROVE  /\ Effective!GatewayChain(g) \in Seq(nodes)
             /\ graph.classOf[g] = "" => Effective!GatewayChain(g) = <<>>
             /\ graph.classOf[g] # "" =>
                  Effective!GatewayChain(g) = <<graph.classOf[g]>> \o <<NamespaceOf(g), g>>
  <2>1. PICK c, n : c = graph.classOf[g] /\ n = NamespaceOf(g)
    OBVIOUS
  <2>2. g \in Members /\ g \in nodes /\ (c # "" => c \in nodes /\ n \in nodes)
    BY <2>1, Zenon DEF Levels, Members
  <2>3. Effective!GatewayChain(g) = IF c = "" THEN <<>> ELSE <<c, n, g>>
    BY <1>0, <1>1, <2>1, <2>2, Zenon DEF Effective!GatewayChain, Effective!ClassOf
  <2>4. <<c, n, g>> = <<c>> \o <<n, g>>
    OBVIOUS
  <2>5. c = "" => Effective!GatewayChain(g) = <<>>
    BY <2>3, Zenon
  <2>6. c # "" => Effective!GatewayChain(g) = <<c, n, g>>
    BY <2>3, Zenon
  <2>7. <<>> \in Seq(nodes)
    OBVIOUS
  <2>8. ASSUME c \in nodes, n \in nodes PROVE <<c, n, g>> \in Seq(nodes)
    <3>1. g \in nodes
      BY <2>2, Zenon
    <3> QED
      BY <2>8, <3>1
  <2> QED
    BY <2>1, <2>2, <2>4, <2>5, <2>6, <2>7, <2>8, Zenon
<1>3. ASSUME NEW r \in DOMAIN graph.parents, NEW g \in graph.parents[r]
      PROVE  /\ Effective!RouteChain(r, g) \in Seq(nodes)
             /\ Effective!RouteChain(r, g) = Effective!GatewayChain(g) \o <<NamespaceOf(r), r>>
  <2>1. PICK chain, n : chain = Effective!GatewayChain(g) /\ n = NamespaceOf(r)
    OBVIOUS
  <2>2. r \in Members /\ r \in nodes /\ n \in nodes /\ g \in DOMAIN graph.classOf
    BY <2>1, Zenon DEF Levels, Members
  <2>3. chain \in Seq(nodes)
    BY <1>2, <2>1, <2>2, Zenon
  <2>4. Effective!RouteChain(r, g) = chain \o <<n, r>>
    BY <1>0, <1>1, <2>1, <2>2, Zenon DEF Effective!RouteChain
  <2>5. chain \o <<n, r>> \in Seq(nodes)
    BY <2>2, <2>3, TwoMore, Zenon
  <2> QED
    BY <2>1, <2>4, <2>5, Zenon
<1>4. ASSUME NEW b \in DOMAIN graph.routesOf, NEW r \in graph.routesOf[b], NEW g \in graph.parents[r]
      PROVE  /\ Effective!BackendChain(b, r, g) \in Seq(nodes)
             /\ Effective!BackendChain(b, r, g) =
                  Effective!RouteChain(r, g) \o <<NamespaceOf(b), b>>
  <2>1. PICK chain, n : chain = Effective!RouteChain(r, g) /\ n = NamespaceOf(b)
    OBVIOUS
  <2>2. b \in Members /\ b \in nodes /\ n \in nodes /\ r \in DOMAIN graph.parents
    BY <2>1, Zenon DEF Levels, Members
  <2>3. chain \in Seq(nodes)
    BY <1>3, <2>1, <2>2, Zenon
  <2>4. Effective!BackendChain(b, r, g) = chain \o <<n, b>>
    BY <1>0, <1>1, <2>1, <2>2, Zenon DEF Effective!BackendChain
  <2>5. chain \o <<n, b>> \in Seq(nodes)
    BY <2>2, <2>3, TwoMore, Zenon
  <2> QED
    BY <2>1, <2>4, <2>5, Zenon
<1> QED
  BY <1>2, <1>3, <1>4, Zenon

LEMMA BelowIsGood ==
    ASSUME DeployedInv, CacheInv, Levels, NEW chain \in Seq(nodes), NEW f, Good(f, chain),
           NEW x \in Members, x \in nodes, NamespaceOf(x) \in nodes
    PROVE  Good(Effective!Below(f, x), chain \o <<NamespaceOf(x), x>>)
<1>1. AllAttached(x) /\ AllAttached(NamespaceOf(x))
  BY Zenon DEF Levels
<1>2. Fits(f, chain) /\ Covers(f, Effective!Elements(chain))
  BY Zenon DEF Good
<1>3. Fits(Effective!Below(f, x), chain \o <<NamespaceOf(x), x>>)
  BY <1>1, <1>2, BelowFits
<1>4. Covers(Effective!Below(f, x), Effective!Elements(chain) \cup {NamespaceOf(x), x})
  BY <1>1, <1>2, BelowCovers
<1>5. Effective!Elements(chain \o <<NamespaceOf(x), x>>)
        = Effective!Elements(chain) \cup {NamespaceOf(x), x}
  BY TwoMore
<1> QED
  BY <1>3, <1>4, <1>5, Zenon DEF Good

LEMMA LevelIsGood ==
    ASSUME DeployedInv, CacheInv, NEW x, AllAttached(x)
    PROVE  Good(Effective!ByKind(x), <<x>>)
<1>1. Level(Effective!ByKind(x), x)
  BY ByKindIs
<1>2. Effective!Elements(<<x>>) = {x}
  BY DEF Effective!Elements
<1> QED
  BY <1>1, <1>2, LevelFits, LevelCovers, Zenon DEF Good

LEMMA NothingIsGood == Good(<<>>, <<>>)
<1>1. Effective!Elements(<<>>) = {}
  BY DEF Effective!Elements
<1> QED
  BY <1>1, FitsNothing, CoversNothing, Zenon DEF Good

LEMMA OneLevel ==
    ASSUME NEW S, NEW x \in S
    PROVE  <<x>> \in Seq(S)
  OBVIOUS

LEMMA GatewayIsGood ==
    ASSUME DeployedInv, CacheInv, Levels, NEW g \in DOMAIN graph.classOf, graph.classOf[g] # ""
    PROVE  Good(Effective!Below(Effective!ByKind(graph.classOf[g]), g), Effective!GatewayChain(g))
<1>1. PICK c : c = graph.classOf[g]
  BY Zenon
<1>2. /\ g \in Members /\ g \in nodes /\ NamespaceOf(g) \in nodes
      /\ c \in nodes /\ AllAttached(c)
  BY <1>1, Zenon DEF Levels, Members
<1>3. Good(Effective!ByKind(c), <<c>>)
  BY <1>2, LevelIsGood, Zenon
<1>4. <<c>> \in Seq(nodes)
  BY <1>2, OneLevel, Zenon
<1>5. Good(Effective!Below(Effective!ByKind(c), g), <<c>> \o <<NamespaceOf(g), g>>)
  BY <1>2, <1>3, <1>4, BelowIsGood, Zenon
<1> QED
  BY <1>1, <1>5, ChainsAre, Zenon

LEMMA OfGatewayIsGood ==
    ASSUME Levels, NEW g \in DOMAIN graph.classOf, GatewayFits(g)
    PROVE  Good(Effective!OfGateway(g), Effective!GatewayChain(g))
<1>1. CASE graph.classOf[g] = ""
  <2>1. Effective!OfGateway(g) = <<>> /\ Effective!GatewayChain(g) = <<>>
    BY <1>1, ChainsAre, Zenon DEF GatewayFits, Effective!OfGateway
  <2> QED
    BY <2>1, NothingIsGood, Zenon
<1>2. CASE graph.classOf[g] # ""
  BY <1>2, Zenon DEF GatewayFits, Effective!OfGateway
<1> QED
  BY <1>1, <1>2, Zenon

LEMMA RouteIsGood ==
    ASSUME DeployedInv, CacheInv, Levels, NEW r \in DOMAIN graph.parents, NEW g \in graph.parents[r],
           NEW f, Good(f, Effective!GatewayChain(g))
    PROVE  Good(Effective!Below(f, r), Effective!RouteChain(r, g))
<1>1. PICK chain : chain = Effective!GatewayChain(g)
  OBVIOUS
<1>2. /\ r \in Members /\ r \in nodes /\ NamespaceOf(r) \in nodes
      /\ g \in DOMAIN graph.classOf
  BY Zenon DEF Levels, Members
<1>3. chain \in Seq(nodes) /\ Effective!RouteChain(r, g) = chain \o <<NamespaceOf(r), r>>
  BY <1>1, <1>2, ChainsAre, Zenon
<1> QED
  BY <1>1, <1>2, <1>3, BelowIsGood, Zenon

\* The policies that the first route of a Backend has, ...
LEMMA FirstIsGathered ==
    ASSUME NEW r, NEW g, NEW f, Good(f, Effective!RouteChain(r, g)), NEW m, Copies(m, f)
    PROVE  Gathered(m, {r}, g)
<1>1. LevelsVia({r}, g) = Effective!Elements(Effective!RouteChain(r, g))
  BY Zenon DEF LevelsVia
<1>2. Covers(m, LevelsVia({r}, g)) /\ Fits(m, Effective!RouteChain(r, g))
  BY <1>1, CopyCovers, CopyFits, Zenon DEF Good
<1>3. \A q : {r} = {q} => q = r
  OBVIOUS
<1> QED
  BY <1>2, <1>3, Zenon DEF Gathered

\* ... those of one more, ...
LEMMA OneMoreIsGathered ==
    ASSUME NEW r, NEW g, NEW f, Good(f, Effective!RouteChain(r, g)),
           NEW rs, rs # {}, r \notin rs, NEW old, Gathered(old, rs, g), NEW m, Same(m, old, f)
    PROVE  Gathered(m, rs \cup {r}, g)
<1>1. LevelsVia(rs \cup {r}, g) = LevelsVia(rs, g) \cup Effective!Elements(Effective!RouteChain(r, g))
  BY DEF LevelsVia
<1>2. Covers(m, LevelsVia(rs, g) \cup Effective!Elements(Effective!RouteChain(r, g)))
  BY CoversBoth, Zenon DEF Good, Gathered
<1>3. \A q : rs \cup {r} # {q}
  OBVIOUS
<1> QED
  BY <1>1, <1>2, <1>3, Zenon DEF Gathered

LEMMA CopyIsGathered ==
    ASSUME NEW g, NEW rs, NEW old, Gathered(old, rs, g), NEW m, Copies(m, old)
    PROVE  Gathered(m, rs, g)
  BY CopyCovers, CopyFits, Zenon DEF Gathered

\* ... and those of the Backend.
LEMMA BackendIsReached ==
    ASSUME DeployedInv, CacheInv, Levels, NEW b \in DOMAIN graph.routesOf, NEW g,
           NEW rs, rs # {}, rs \subseteq graph.routesOf[b], \A r \in rs : g \in graph.parents[r],
           NEW f, Gathered(f, rs, g)
    PROVE  Reached(Effective!Below(f, b), b, rs, g)
<1>1. PICK n, m : n = NamespaceOf(b) /\ m = Effective!Below(f, b)
  OBVIOUS
<1>2. /\ b \in Members /\ b \in nodes /\ n \in nodes /\ AllAttached(b) /\ AllAttached(n)
      /\ rs \subseteq DOMAIN graph.parents
  BY <1>1, Zenon DEF Levels, Members
<1>3. Covers(m, LevelsVia(rs, g) \cup {n, b})
  BY <1>1, <1>2, BelowCovers, Zenon DEF Gathered
<1>4. ASSUME NEW r \in rs
      PROVE  /\ Effective!RouteChain(r, g) \in Seq(nodes)
             /\ Effective!BackendChain(b, r, g) = Effective!RouteChain(r, g) \o <<n, b>>
             /\ Effective!Elements(Effective!BackendChain(b, r, g))
                  = Effective!Elements(Effective!RouteChain(r, g)) \cup {n, b}
  <2>1. PICK chain : chain = Effective!RouteChain(r, g)
    OBVIOUS
  <2>2. chain \in Seq(nodes) /\ Effective!BackendChain(b, r, g) = chain \o <<n, b>>
    BY <1>1, <1>2, <2>1, ChainsAre, Zenon
  <2>3. Effective!Elements(chain \o <<n, b>>) = Effective!Elements(chain) \cup {n, b}
    <3>1. chain \in Seq(nodes) /\ n \in nodes /\ b \in nodes
      BY <1>2, <2>2, Zenon
    <3> QED
      BY ONLY <3>1, TwoMore
  <2> QED
    BY <2>1, <2>2, <2>3, Zenon
<1>5. LevelsTo(b, rs, g) = LevelsVia(rs, g) \cup {n, b}
  <2>1. \A y : y \in LevelsTo(b, rs, g) <=>
                 \E r \in rs : y \in Effective!Elements(Effective!BackendChain(b, r, g))
    BY Zenon DEF LevelsTo
  <2>2. \A y : y \in LevelsVia(rs, g) <=>
                 \E r \in rs : y \in Effective!Elements(Effective!RouteChain(r, g))
    BY Zenon DEF LevelsVia
  <2>3. \A y : y \in LevelsTo(b, rs, g) <=> y \in LevelsVia(rs, g) \cup {n, b}
    BY ONLY rs # {}, <1>4, <2>1, <2>2
  <2> QED
    BY <2>3, Zenon
<1>6. ASSUME NEW r, rs = {r} PROVE Fits(m, Effective!BackendChain(b, r, g))
  <2>1. PICK chain : chain = Effective!RouteChain(r, g)
    OBVIOUS
  <2>2. Fits(f, chain)
    BY <1>6, <2>1, Zenon DEF Gathered
  <2>3. chain \in Seq(nodes) /\ Effective!BackendChain(b, r, g) = chain \o <<n, b>>
    BY <1>4, <1>6, <2>1, Zenon
  <2> QED
    BY <1>1, <1>2, <2>2, <2>3, BelowFits, Zenon
<1> QED
  BY <1>1, <1>3, <1>5, <1>6, Zenon DEF Reached

\* The policies of one more route are merged into the result.
LEMMA RouteIsMerged ==
    ASSUME Levels, ResultFits, backend \in DOMAIN graph.routesOf, todo \subseteq graph.routesOf[backend],
           NEW r \in todo, RouteFits(r), DOMAIN effective[r] = graph.parents[r],
           NEW new, new = [g \in DOMAIN result \cup DOMAIN effective[r] |->
                    Effective!MergePoliciesOfSameHierarchy(
                        IF g \in DOMAIN result THEN result[g] ELSE <<>>,
                        IF g \in DOMAIN effective[r] THEN effective[r][g] ELSE <<>>)],
           NEW g, NEW rs, rs = Via(graph.routesOf[backend] \ (todo \ {r}), g)
    PROVE  IF rs = {} THEN g \notin DOMAIN new
           ELSE g \in DOMAIN new /\ Gathered(new[g], rs, g)
<1>1. PICK old : old = Via(graph.routesOf[backend] \ todo, g)
  OBVIOUS
<1>2. PICK f : f = effective[r]
  BY Zenon
<1>3. IF old = {} THEN g \notin DOMAIN result
      ELSE g \in DOMAIN result /\ Gathered(result[g], old, g)
  BY <1>1, Zenon DEF ResultFits
<1>4. g \in graph.parents[r] => Good(f[g], Effective!RouteChain(r, g))
  BY <1>2, Zenon DEF RouteFits
<1>5. /\ r \notin old
      /\ g \in graph.parents[r] => rs = old \cup {r}
      /\ g \notin graph.parents[r] => rs = old
  BY <1>1, Zenon DEF Via
<1>6. DOMAIN new = DOMAIN result \cup graph.parents[r]
  BY Zenon
<1>7. \A h \in DOMAIN new :
        Same(new[h], IF h \in DOMAIN result THEN result[h] ELSE <<>>,
                     IF h \in DOMAIN f THEN f[h] ELSE <<>>)
  BY <1>2, SameHierarchyIs, Zenon
<1>8. DOMAIN <<>> = {}
  OBVIOUS
<1>9. CASE g \notin graph.parents[r] /\ old = {}
  BY <1>3, <1>5, <1>6, <1>9, Zenon
<1>10. CASE g \notin graph.parents[r] /\ old # {}
  <2>1. g \in DOMAIN new /\ g \in DOMAIN result /\ Gathered(result[g], old, g)
    BY <1>3, <1>6, <1>10, Zenon
  <2>2. Same(new[g], result[g], <<>>)
    BY <1>2, <1>7, <1>10, <2>1, Zenon
  <2>3. Copies(new[g], result[g])
    BY <1>8, <2>2, MergedWithNothing, Zenon
  <2>4. Gathered(new[g], old, g)
    BY <2>1, <2>3, CopyIsGathered, Zenon
  <2> QED
    BY <1>5, <1>10, <2>1, <2>4, Zenon
<1>11. CASE g \in graph.parents[r] /\ old = {}
  <2>1. g \in DOMAIN new /\ g \notin DOMAIN result /\ g \in DOMAIN f
    BY <1>2, <1>3, <1>6, <1>11, Zenon
  <2>2. Same(new[g], <<>>, f[g])
    BY <1>7, <2>1, Zenon
  <2>3. Copies(new[g], f[g])
    BY <1>8, <2>2, MergedWithNothing, Zenon
  <2>4. Gathered(new[g], {r}, g)
    BY <1>4, <1>11, <2>3, FirstIsGathered, Zenon
  <2>5. rs = {r}
    BY <1>5, <1>11, Zenon
  <2> QED
    BY <2>1, <2>4, <2>5, Zenon
<1>12. CASE g \in graph.parents[r] /\ old # {}
  <2>1. g \in DOMAIN new /\ g \in DOMAIN result /\ g \in DOMAIN f /\ Gathered(result[g], old, g)
    BY <1>2, <1>3, <1>6, <1>12, Zenon
  <2>2. Same(new[g], result[g], f[g])
    BY <1>7, <2>1, Zenon
  <2>3. Gathered(new[g], old \cup {r}, g)
    BY <1>4, <1>5, <1>12, <2>1, <2>2, OneMoreIsGathered, Zenon
  <2> QED
    BY <1>5, <1>12, <2>1, <2>3, Zenon
<1> QED
  BY <1>9, <1>10, <1>11, <1>12, Zenon

LEMMA NextPhaseKeepsEffective ==
    ASSUME EffectiveInv, Effective!NextPhase
    PROVE  EffectiveInv'
<1>1. /\ UNCHANGED <<policies, graph, backend, effective>> /\ backend = "" /\ left = {}
      /\ \/ phase = "gateways" /\ phase' = "routes" /\ left' = DOMAIN graph.parents
         \/ phase = "routes" /\ phase' = "backends" /\ left' = DOMAIN graph.routesOf
         \/ phase = "backends" /\ phase' = "done" /\ left' = {}
  BY Zenon DEF Effective!NextPhase, Effective!Enter, Effective!Parents, Effective!RoutesOf
<1>2. /\ \A g : GatewayFits(g) => GatewayFits(g)'
      /\ \A r : RouteFits(r) => RouteFits(r)'
      /\ \A b : BackendFits(b) => BackendFits(b)'
  BY <1>1, FitsStay, Zenon
<1> QED
  BY <1>1, <1>2, Zenon DEF EffectiveInv

=============================================================================
