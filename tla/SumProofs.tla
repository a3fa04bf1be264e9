----------------------------- MODULE SumProofs -----------------------------
(* Induction over numbers and over finite sets, stated with the set of what *)
(* a property holds for, and what it yields for the sums of the models.     *)
EXTENDS Naturals, Functions, FiniteSets, FiniteSetTheorems, WellFoundedInduction, TLAPS

\* Every nonempty set of naturals has a least element.
LEMMA LeastNumber ==
    ASSUME NEW S \in SUBSET Nat, S # {}
    PROVE  \E x \in S : \A y \in S : x <= y
<1>1. \E x \in S : \A y \in S : <<y, x>> \notin OpToRel(<, Nat)
  BY NatLessThanWellFounded, WFMin
<1>2. \A x, y \in Nat : x < y => <<x, y>> \in OpToRel(<, Nat)
  BY DEF OpToRel
<1>3. \E x \in S : \A y \in S : ~ (y < x)
  BY <1>1, <1>2, Zenon
<1> QED BY <1>3

\* Induction over the numbers.
LEMMA NumberInduction ==
    ASSUME NEW P \in SUBSET Nat, 0 \in P, \A n \in P : n + 1 \in P
    PROVE  P = Nat
<1> SUFFICES ASSUME Nat \ P # {} PROVE FALSE
  OBVIOUS
<1>1. PICK n \in Nat \ P : \A m \in Nat \ P : n <= m
  <2>1. (Nat \ P) \in SUBSET Nat
    OBVIOUS
  <2> QED BY <2>1, LeastNumber
<1>2. n # 0 /\ n - 1 \in Nat
  BY <1>1
<1>3. n - 1 \in P
  BY <1>1, <1>2
<1>4. (n - 1) + 1 \in P
  BY <1>3
<1> QED BY <1>1, <1>2, <1>4

\* Induction over the subsets of a finite set, by what is added last.
LEMMA SetInduction ==
    ASSUME NEW S, IsFiniteSet(S), NEW P \in SUBSET (SUBSET S),
           {} \in P, \A T \in P : \A x \in S \ T : T \cup {x} \in P
    PROVE  P = SUBSET S
<1> SUFFICES ASSUME NEW T \in SUBSET S, T \notin P PROVE FALSE
  OBVIOUS
<1> DEFINE size == {n \in Nat : \E R \in SUBSET S : R \notin P /\ Cardinality(R) = n}
<1>1. \A R \in SUBSET S : IsFiniteSet(R) /\ Cardinality(R) \in Nat
  BY FS_Subset, FS_CardinalityType
<1>2. Cardinality(T) \in size
  BY <1>1
<1>3. PICK n \in size : \A m \in size : n <= m
  <2> HIDE DEF size
  <2>1. size \in SUBSET Nat
    BY DEF size
  <2> QED BY <1>2, <2>1, LeastNumber
<1>4. PICK R \in SUBSET S : R \notin P /\ Cardinality(R) = n
  BY <1>3
<1>5. PICK x \in R : TRUE
  BY <1>4
<1>6. Cardinality(R \ {x}) = n - 1 /\ n \in Nat /\ n - 1 < n
  BY <1>1, <1>3, <1>4, <1>5, FS_RemoveElement
<1>7. R \ {x} \in SUBSET S /\ Cardinality(R \ {x}) \in Nat
  BY <1>1
<1>8. R \ {x} \in P
  <2>1. ASSUME R \ {x} \notin P PROVE n <= Cardinality(R \ {x})
    BY <1>3, <1>7, <2>1
  <2> QED BY <1>6, <2>1
<1>9. (R \ {x}) \cup {x} \in P
  BY <1>8
<1>10. (R \ {x}) \cup {x} = R
  BY <1>5
<1> QED BY <1>4, <1>9, <1>10

----------------------------------------------------------------------------
(* Sums *)

\* What the fold of a sum adds next, and that g is such a fold below size n.
Picked(s) == CHOOSE x \in s : TRUE
Sums(g, f, S) ==
    g = [s \in SUBSET S |-> IF s = {} THEN 0 ELSE f[Picked(s)] + g[s \ {Picked(s)}]]

\* What a sum is, without the fold.
LEMMA SumUnfolds ==
    ASSUME NEW f, NEW S
    PROVE  SumFunctionOnSet(f, S) = (CHOOSE g : Sums(g, f, S))[S]
  BY DEF SumFunctionOnSet, FoldFunctionOnSet, MapThenFoldSet, Sums, Picked

\* What a fold adds at s, given what it has for smaller sets.
AddedAt(g, f, s) == IF s = {} THEN 0 ELSE f[Picked(s)] + g[s \ {Picked(s)}]

\* The fold picks a member.
LEMMA PickedMember ==
    ASSUME NEW s, s # {}
    PROVE  Picked(s) \in s
  BY DEF Picked

\* The fold is well defined: it has a value at every subset.
LEMMA SumsExist ==
    ASSUME NEW f, NEW S, IsFiniteSet(S)
    PROVE  \E g : Sums(g, f, S)
<1> DEFINE Small(n) == {s \in SUBSET S : Cardinality(s) <= n}
           Upto(g, n) == /\ g = [s \in Small(n) |-> g[s]]
                         /\ \A s \in Small(n) : g[s] = AddedAt(g, f, s)
           P == {n \in Nat : \E g : Upto(g, n)}
<1>1. \A s \in SUBSET S : IsFiniteSet(s) /\ Cardinality(s) \in Nat
  BY FS_Subset, FS_CardinalityType
<1>2. ASSUME NEW s \in SUBSET S, s # {}
      PROVE  /\ s \ {Picked(s)} \in SUBSET S
             /\ Cardinality(s \ {Picked(s)}) = Cardinality(s) - 1
             /\ Cardinality(s) # 0
  BY <1>1, <1>2, PickedMember, FS_RemoveElement, FS_EmptySet
<1>3. 0 \in P
  <2> DEFINE g == [s \in Small(0) |-> 0]
  <2>1. ASSUME NEW s \in Small(0) PROVE s = {}
    <3>1. Cardinality(s) \in Nat /\ Cardinality(s) <= 0
      BY <1>1
    <3>2. Cardinality(s) = 0
      BY <3>1
    <3> QED BY <1>2, <3>2
  <2>2. \A s \in Small(0) : g[s] = AddedAt(g, f, s)
    BY <2>1 DEF AddedAt
  <2>3. Upto(g, 0)
    BY <2>2
  <2> QED BY <2>3
<1>4. ASSUME NEW n \in P PROVE n + 1 \in P
  <2>1. PICK g : Upto(g, n)
    OBVIOUS
  <2> DEFINE h == [s \in Small(n + 1) |-> IF s \in Small(n) THEN g[s] ELSE AddedAt(g, f, s)]
  <2>2. Small(n) \subseteq Small(n + 1)
    BY <1>1
  <2>3. ASSUME NEW s \in Small(n + 1) PROVE h[s] = AddedAt(h, f, s)
    <3>1. h[s] = AddedAt(g, f, s)
      BY <2>1
    <3>2. CASE s = {}
      BY <3>1, <3>2 DEF AddedAt
    <3>3. CASE s # {}
      <4>1. s \ {Picked(s)} \in Small(n)
        BY <1>1, <1>2, <3>3
      <4>2. h[s \ {Picked(s)}] = g[s \ {Picked(s)}]
        BY <2>2, <4>1
      <4> QED BY <3>1, <3>3, <4>2 DEF AddedAt
    <3> QED BY <3>2, <3>3
  <2>4. h = [s \in Small(n + 1) |-> h[s]]
    OBVIOUS
  <2> HIDE DEF h, Small
  <2>5. Upto(h, n + 1)
    BY <2>3, <2>4
  <2> QED BY <2>5
<1>5. P = Nat
  <2> HIDE DEF P
  <2>1. P \in SUBSET Nat
    BY DEF P
  <2> QED BY <1>3, <1>4, <2>1, NumberInduction
<1>6. Cardinality(S) \in Nat /\ Small(Cardinality(S)) = SUBSET S
  BY <1>1, FS_Subset
<1>7. PICK g : Upto(g, Cardinality(S))
  BY <1>5, <1>6
<1>8. \A s \in SUBSET S : g[s] = AddedAt(g, f, s)
  BY <1>6, <1>7
<1>9. g = [s \in SUBSET S |-> g[s]]
  BY <1>6, <1>7
<1>10. [s \in SUBSET S |-> g[s]] = [s \in SUBSET S |-> AddedAt(g, f, s)]
  BY <1>8
<1> QED BY <1>9, <1>10 DEF Sums, AddedAt

\* What the fold of f over S has computed for each subset of S.
Partial(f, S) == CHOOSE g : Sums(g, f, S)

\* The fold adds what it picked to what it has for the rest.
LEMMA PartialUnfolds ==
    ASSUME NEW f, NEW S, IsFiniteSet(S), NEW s \in SUBSET S
    PROVE  Partial(f, S)[s] = AddedAt(Partial(f, S), f, s)
<1> DEFINE g == Partial(f, S)
<1>1. Sums(g, f, S)
  BY SumsExist DEF Partial
<1> HIDE DEF g
<1>2. g[s] = AddedAt(g, f, s)
  BY <1>1 DEF Sums, AddedAt
<1> QED BY <1>2 DEF g

\* A fold of numbers is a number, and it does not matter which element comes last.
LEMMA PartialOrderless ==
    ASSUME NEW f, NEW S, IsFiniteSet(S), \A x \in S : f[x] \in Nat
    PROVE  \A s \in SUBSET S :
              /\ Partial(f, S)[s] \in Nat
              /\ \A x \in s : Partial(f, S)[s] = f[x] + Partial(f, S)[s \ {x}]
<1> DEFINE g == Partial(f, S)
           Fine(s) == g[s] \in Nat /\ \A x \in s : g[s] = f[x] + g[s \ {x}]
           P == {n \in Nat : \A s \in SUBSET S : Cardinality(s) <= n => Fine(s)}
<1>1. \A s \in SUBSET S : IsFiniteSet(s) /\ Cardinality(s) \in Nat
  BY FS_Subset, FS_CardinalityType
<1>2. \A s \in SUBSET S : \A x \in s :
         s \ {x} \in SUBSET S /\ Cardinality(s \ {x}) = Cardinality(s) - 1
  BY <1>1, FS_RemoveElement
<1>3. g[{}] = 0 /\ \A s \in SUBSET S : s # {} => g[s] = f[Picked(s)] + g[s \ {Picked(s)}]
  <2>1. \A s \in SUBSET S : g[s] = AddedAt(g, f, s)
    BY PartialUnfolds
  <2>2. {} \in SUBSET S
    OBVIOUS
  <2> HIDE DEF g
  <2> QED BY <2>1, <2>2 DEF AddedAt
<1> HIDE DEF g
<1>4. 0 \in P
  <2>1. ASSUME NEW s \in SUBSET S, Cardinality(s) <= 0 PROVE s = {}
    <3>1. Cardinality(s) = 0
      BY <1>1, <2>1
    <3> QED BY <1>1, <3>1, FS_EmptySet
  <2>2. Fine({})
    BY <1>3
  <2> HIDE DEF Fine
  <2> QED BY <2>1, <2>2
<1>5. ASSUME NEW n \in P PROVE n + 1 \in P
  <2> SUFFICES ASSUME NEW s \in SUBSET S, Cardinality(s) <= n + 1, s # {}
               PROVE  Fine(s)
    <3>1. Fine({})
      BY <1>3
    <3> HIDE DEF Fine
    <3> QED BY <3>1
  <2> DEFINE c == Picked(s)
  <2>1. c \in s
    BY PickedMember
  <2> HIDE DEF c
  <2>2. g[s] = f[c] + g[s \ {c}]
    BY <1>3 DEF c
  <2>3. ASSUME NEW x \in s PROVE Fine(s \ {x}) /\ s \ {x} \in SUBSET S
    <3>1. s \ {x} \in SUBSET S /\ Cardinality(s \ {x}) <= n
      BY <1>1, <1>2
    <3> QED BY <3>1
  <2>4. g[s] \in Nat
    BY <2>1, <2>2, <2>3
  <2>5. ASSUME NEW x \in s, x # c PROVE g[s] = f[x] + g[s \ {x}]
    <3>1. g[s \ {c}] = f[x] + g[(s \ {c}) \ {x}]
      BY <2>1, <2>3, <2>5
    <3>2. g[s \ {x}] = f[c] + g[(s \ {x}) \ {c}]
      BY <2>1, <2>3, <2>5
    <3>3. (s \ {c}) \ {x} = (s \ {x}) \ {c}
      OBVIOUS
    <3>4. g[(s \ {c}) \ {x}] \in Nat
      <4>1. (s \ {c}) \ {x} \in SUBSET S /\ Cardinality((s \ {c}) \ {x}) <= n
        <5>1. x \in s \ {c} /\ s \ {c} \in SUBSET S /\ Cardinality(s \ {c}) <= n
          BY <1>1, <1>2, <2>1, <2>5
        <5>2. /\ (s \ {c}) \ {x} \in SUBSET S
              /\ Cardinality((s \ {c}) \ {x}) = Cardinality(s \ {c}) - 1
          BY <1>2, <5>1
        <5>3. Cardinality(s \ {c}) \in Nat /\ n \in Nat
          BY <1>1, <5>1
        <5> QED BY <5>1, <5>2, <5>3
      <4> QED BY <4>1
    <3>5. f[x] \in Nat /\ f[c] \in Nat
      BY <2>1
    <3> DEFINE both == g[(s \ {c}) \ {x}]
    <3>6. /\ both \in Nat /\ g[s \ {c}] = f[x] + both /\ g[s \ {x}] = f[c] + both
      BY <3>1, <3>2, <3>3, <3>4
    <3> HIDE DEF both
    <3> QED BY <2>2, <3>5, <3>6
  <2> QED BY <2>2, <2>4, <2>5
<1>6. P = Nat
  <2> HIDE DEF P
  <2>1. P \in SUBSET Nat
    BY DEF P
  <2> QED BY <1>4, <1>5, <2>1, NumberInduction
<1>7. \A s \in SUBSET S : Fine(s)
  BY <1>1, <1>6
<1> QED BY <1>7 DEF g

\* The sum over a subset is what the fold over the whole had computed for it.
LEMMA PartialAgrees ==
    ASSUME NEW f, NEW S, IsFiniteSet(S), NEW T \in SUBSET S, \A x \in S : f[x] \in Nat
    PROVE  Partial(f, T)[T] = Partial(f, S)[T]
<1> DEFINE P == {s \in SUBSET T : Partial(f, T)[s] = Partial(f, S)[s]}
<1>1. IsFiniteSet(T)
  BY FS_Subset
<1>2. Partial(f, T)[{}] = 0 /\ Partial(f, S)[{}] = 0
  BY <1>1, PartialUnfolds DEF AddedAt
<1>3. ASSUME NEW s \in P, NEW x \in T \ s PROVE s \cup {x} \in P
  <2>1. (s \cup {x}) \ {x} = s /\ s \cup {x} \in SUBSET T /\ s \cup {x} \in SUBSET S
    OBVIOUS
  <2>2. Partial(f, T)[s \cup {x}] = f[x] + Partial(f, T)[s]
    BY <1>1, <2>1, PartialOrderless
  <2>3. Partial(f, S)[s \cup {x}] = f[x] + Partial(f, S)[s]
    BY <2>1, PartialOrderless
  <2> QED BY <2>1, <2>2, <2>3
<1>4. P = SUBSET T
  <2> HIDE DEF P
  <2>1. P \in SUBSET (SUBSET T) /\ {} \in P
    BY <1>2 DEF P
  <2> QED BY <1>1, <1>3, <2>1, SetInduction
<1> QED BY <1>4

\* The sum of nothing is nothing.
LEMMA SumEmpty ==
    ASSUME NEW f
    PROVE  SumFunctionOnSet(f, {}) = 0
<1>1. IsFiniteSet({}) /\ {} \in SUBSET {}
  BY FS_EmptySet
<1> QED BY <1>1, SumUnfolds, PartialUnfolds DEF Partial, AddedAt

\* A sum of natural numbers is one.
LEMMA SumType ==
    ASSUME NEW f, NEW S, IsFiniteSet(S), \A x \in S : f[x] \in Nat
    PROVE  SumFunctionOnSet(f, S) \in Nat
  BY SumUnfolds, PartialOrderless DEF Partial

\* Any element can be taken out of a sum.
LEMMA SumRemove ==
    ASSUME NEW f, NEW S, IsFiniteSet(S), \A x \in S : f[x] \in Nat, NEW x \in S
    PROVE  SumFunctionOnSet(f, S) = f[x] + SumFunctionOnSet(f, S \ {x})
<1>1. S \ {x} \in SUBSET S /\ S \in SUBSET S
  OBVIOUS
<1>2. SumFunctionOnSet(f, S) = Partial(f, S)[S]
  BY SumUnfolds DEF Partial
<1>3. SumFunctionOnSet(f, S \ {x}) = Partial(f, S \ {x})[S \ {x}]
  BY SumUnfolds DEF Partial
<1>4. Partial(f, S \ {x})[S \ {x}] = Partial(f, S)[S \ {x}]
  BY <1>1, PartialAgrees
<1>5. Partial(f, S)[S] = f[x] + Partial(f, S)[S \ {x}]
  BY <1>1, PartialOrderless
<1> QED BY <1>2, <1>3, <1>4, <1>5

\* The same with the element added.
LEMMA SumAdd ==
    ASSUME NEW f, NEW S, IsFiniteSet(S), \A y \in S : f[y] \in Nat,
           NEW x, x \notin S, f[x] \in Nat
    PROVE  SumFunctionOnSet(f, S \cup {x}) = f[x] + SumFunctionOnSet(f, S)
<1>1. (S \cup {x}) \ {x} = S /\ IsFiniteSet(S \cup {x})
  BY FS_AddElement
<1> QED BY <1>1, SumRemove

\* A sum depends on what is summed only.
LEMMA SumEqual ==
    ASSUME NEW f, NEW g, NEW S, IsFiniteSet(S),
           \A x \in S : f[x] = g[x], \A x \in S : f[x] \in Nat
    PROVE  SumFunctionOnSet(f, S) = SumFunctionOnSet(g, S)
<1> DEFINE P == {T \in SUBSET S : SumFunctionOnSet(f, T) = SumFunctionOnSet(g, T)}
<1>1. {} \in P
  BY SumEmpty
<1>2. ASSUME NEW T \in P, NEW x \in S \ T PROVE T \cup {x} \in P
  BY FS_Subset, SumAdd
<1>3. P = SUBSET S
  <2> HIDE DEF P
  <2>1. P \in SUBSET (SUBSET S)
    BY DEF P
  <2> QED BY <1>1, <1>2, <2>1, SetInduction
<1> QED BY <1>3

\* A sum of zeros, and no summand above the sum.
LEMMA SumZero ==
    ASSUME NEW f, NEW S, IsFiniteSet(S), \A x \in S : f[x] = 0
    PROVE  SumFunctionOnSet(f, S) = 0
<1> DEFINE P == {T \in SUBSET S : SumFunctionOnSet(f, T) = 0}
<1>1. {} \in P
  BY SumEmpty
<1>2. ASSUME NEW T \in P, NEW x \in S \ T PROVE T \cup {x} \in P
  <2>1. SumFunctionOnSet(f, T \cup {x}) = f[x] + SumFunctionOnSet(f, T)
    BY FS_Subset, SumAdd
  <2> QED BY <2>1
<1>3. P = SUBSET S
  <2> HIDE DEF P
  <2>1. P \in SUBSET (SUBSET S)
    BY DEF P
  <2> QED BY <1>1, <1>2, <2>1, SetInduction
<1> QED BY <1>3

\* A sum is no less than any of its parts.
LEMMA SumMember ==
    ASSUME NEW f, NEW S, IsFiniteSet(S), \A x \in S : f[x] \in Nat, NEW x \in S
    PROVE  f[x] <= SumFunctionOnSet(f, S)
<1>1. SumFunctionOnSet(f, S) = f[x] + SumFunctionOnSet(f, S \ {x})
  BY SumRemove
<1>2. SumFunctionOnSet(f, S \ {x}) \in Nat
  BY FS_Subset, SumType
<1> QED BY <1>1, <1>2

\* One summand changed: the sum changes by as much.
LEMMA SumChanged ==
    ASSUME NEW f, NEW g, NEW S, IsFiniteSet(S), NEW x \in S,
           \A y \in S : f[y] \in Nat /\ g[y] \in Nat, \A y \in S \ {x} : g[y] = f[y]
    PROVE  SumFunctionOnSet(g, S) + f[x] = SumFunctionOnSet(f, S) + g[x]
<1>1. IsFiniteSet(S \ {x})
  BY FS_Subset
<1>2. SumFunctionOnSet(f, S \ {x}) = SumFunctionOnSet(g, S \ {x})
  BY <1>1, SumEqual
<1>3. SumFunctionOnSet(f, S \ {x}) \in Nat
  BY <1>1, SumType
<1>4. SumFunctionOnSet(f, S) = f[x] + SumFunctionOnSet(f, S \ {x})
  BY SumRemove
<1>5. SumFunctionOnSet(g, S) = g[x] + SumFunctionOnSet(g, S \ {x})
  BY SumRemove
<1> QED BY <1>2, <1>3, <1>4, <1>5

\* Sums are added element by element.
LEMMA SumPlus ==
    ASSUME NEW f, NEW g, NEW h, NEW S, IsFiniteSet(S),
           \A x \in S : f[x] \in Nat /\ g[x] \in Nat /\ h[x] = f[x] + g[x]
    PROVE  SumFunctionOnSet(h, S) = SumFunctionOnSet(f, S) + SumFunctionOnSet(g, S)
<1> DEFINE P == {T \in SUBSET S : SumFunctionOnSet(h, T)
                                    = SumFunctionOnSet(f, T) + SumFunctionOnSet(g, T)}
<1>1. {} \in P
  BY SumEmpty
<1>2. ASSUME NEW T \in P, NEW x \in S \ T PROVE T \cup {x} \in P
  <2>1. IsFiniteSet(T) /\ \A y \in T : f[y] \in Nat /\ g[y] \in Nat /\ h[y] \in Nat
    BY FS_Subset
  <2>2. /\ SumFunctionOnSet(f, T \cup {x}) = f[x] + SumFunctionOnSet(f, T)
        /\ SumFunctionOnSet(g, T \cup {x}) = g[x] + SumFunctionOnSet(g, T)
        /\ SumFunctionOnSet(h, T \cup {x}) = h[x] + SumFunctionOnSet(h, T)
    BY <2>1, SumAdd
  <2>3. SumFunctionOnSet(f, T) \in Nat /\ SumFunctionOnSet(g, T) \in Nat
    BY <2>1, SumType
  <2>4. /\ SumFunctionOnSet(h, T) = SumFunctionOnSet(f, T) + SumFunctionOnSet(g, T)
        /\ f[x] \in Nat /\ g[x] \in Nat /\ h[x] = f[x] + g[x] /\ T \cup {x} \in SUBSET S
    OBVIOUS
  <2> QED BY <2>2, <2>3, <2>4
<1>3. P = SUBSET S
  <2> HIDE DEF P
  <2>1. P \in SUBSET (SUBSET S)
    BY DEF P
  <2> QED BY <1>1, <1>2, <2>1, SetInduction
<1> QED BY <1>3

\* A factor can be taken out of a sum.
LEMMA SumScale ==
    ASSUME NEW f, NEW g, NEW c \in Nat, NEW S, IsFiniteSet(S),
           \A x \in S : f[x] \in Nat /\ g[x] = c * f[x]
    PROVE  SumFunctionOnSet(g, S) = c * SumFunctionOnSet(f, S)
<1> DEFINE P == {T \in SUBSET S : SumFunctionOnSet(g, T) = c * SumFunctionOnSet(f, T)}
<1>1. {} \in P
  BY SumEmpty
<1>2. ASSUME NEW T \in P, NEW x \in S \ T PROVE T \cup {x} \in P
  <2>1. IsFiniteSet(T) /\ \A y \in T : f[y] \in Nat /\ g[y] \in Nat
    BY FS_Subset
  <2>2. /\ SumFunctionOnSet(f, T \cup {x}) = f[x] + SumFunctionOnSet(f, T)
        /\ SumFunctionOnSet(g, T \cup {x}) = g[x] + SumFunctionOnSet(g, T)
    BY <2>1, SumAdd
  <2>3. SumFunctionOnSet(f, T) \in Nat /\ f[x] \in Nat /\ T \cup {x} \in SUBSET S
    BY <2>1, SumType
  <2>4. SumFunctionOnSet(g, T) = c * SumFunctionOnSet(f, T) /\ g[x] = c * f[x]
    OBVIOUS
  <2>5. \A a, b \in Nat : c * (a + b) = c * a + c * b
    OBVIOUS
  <2> QED BY <2>2, <2>3, <2>4, <2>5
<1>3. P = SUBSET S
  <2> HIDE DEF P
  <2>1. P \in SUBSET (SUBSET S)
    BY DEF P
  <2> QED BY <1>1, <1>2, <2>1, SetInduction
<1> QED BY <1>3

\* A sum grows with its elements.
LEMMA SumLeq ==
    ASSUME NEW f, NEW g, NEW S, IsFiniteSet(S),
           \A x \in S : f[x] \in Nat /\ g[x] \in Nat /\ f[x] <= g[x]
    PROVE  SumFunctionOnSet(f, S) <= SumFunctionOnSet(g, S)
<1> DEFINE P == {T \in SUBSET S : SumFunctionOnSet(f, T) <= SumFunctionOnSet(g, T)}
<1>1. {} \in P
  <2>1. SumFunctionOnSet(f, {}) = 0 /\ SumFunctionOnSet(g, {}) = 0
    BY SumEmpty
  <2> QED BY <2>1
<1>2. ASSUME NEW T \in P, NEW x \in S \ T PROVE T \cup {x} \in P
  <2>1. IsFiniteSet(T) /\ \A y \in T : f[y] \in Nat /\ g[y] \in Nat
    BY FS_Subset
  <2>2. /\ SumFunctionOnSet(f, T \cup {x}) = f[x] + SumFunctionOnSet(f, T)
        /\ SumFunctionOnSet(g, T \cup {x}) = g[x] + SumFunctionOnSet(g, T)
    BY <2>1, SumAdd
  <2>3. SumFunctionOnSet(f, T) \in Nat /\ SumFunctionOnSet(g, T) \in Nat
    BY <2>1, SumType
  <2>4. /\ SumFunctionOnSet(f, T) <= SumFunctionOnSet(g, T)
        /\ f[x] \in Nat /\ g[x] \in Nat /\ f[x] <= g[x] /\ T \cup {x} \in SUBSET S
    OBVIOUS
  <2> QED BY <2>2, <2>3, <2>4
<1>3. P = SUBSET S
  <2> HIDE DEF P
  <2>1. P \in SUBSET (SUBSET S)
    BY DEF P
  <2> QED BY <1>1, <1>2, <2>1, SetInduction
<1> QED BY <1>3

\* A sum falls apart into the sums over a part and over the rest.
LEMMA SumSplit ==
    ASSUME NEW f, NEW R, IsFiniteSet(R), \A x \in R : f[x] \in Nat, NEW S \in SUBSET R
    PROVE  SumFunctionOnSet(f, R) = SumFunctionOnSet(f, S) + SumFunctionOnSet(f, R \ S)
<1> DEFINE P == {T \in SUBSET S : SumFunctionOnSet(f, R)
                                    = SumFunctionOnSet(f, T) + SumFunctionOnSet(f, R \ T)}
<1>0. IsFiniteSet(S)
  BY FS_Subset
<1>1. {} \in P
  <2>1. R \ {} = R /\ SumFunctionOnSet(f, {}) = 0 /\ SumFunctionOnSet(f, R) \in Nat
    BY SumEmpty, SumType
  <2> QED BY <2>1
<1>2. ASSUME NEW T \in P, NEW x \in S \ T PROVE T \cup {x} \in P
  <2>1. /\ IsFiniteSet(T) /\ \A y \in T : f[y] \in Nat
        /\ IsFiniteSet(R \ T) /\ IsFiniteSet(R \ (T \cup {x})) /\ f[x] \in Nat
    BY FS_Subset
  <2>2. SumFunctionOnSet(f, T \cup {x}) = f[x] + SumFunctionOnSet(f, T)
    BY <2>1, SumAdd
  <2>3. SumFunctionOnSet(f, R \ T) = f[x] + SumFunctionOnSet(f, R \ (T \cup {x}))
    <3>1. (R \ T) \ {x} = R \ (T \cup {x}) /\ x \in R \ T
      OBVIOUS
    <3> QED BY <2>1, <3>1, SumRemove
  <2>4. SumFunctionOnSet(f, T) \in Nat /\ SumFunctionOnSet(f, R \ (T \cup {x})) \in Nat
    BY <2>1, SumType
  <2>5. /\ SumFunctionOnSet(f, R) = SumFunctionOnSet(f, T) + SumFunctionOnSet(f, R \ T)
        /\ T \cup {x} \in SUBSET S
    OBVIOUS
  <2> QED BY <2>1, <2>2, <2>3, <2>4, <2>5
<1>3. P = SUBSET S
  <2> HIDE DEF P
  <2>1. P \in SUBSET (SUBSET S)
    BY DEF P
  <2> QED BY <1>0, <1>1, <1>2, <2>1, SetInduction
<1> QED BY <1>3

\* A part of a set sums to no more than the set.
LEMMA SumPart ==
    ASSUME NEW f, NEW R, IsFiniteSet(R), \A x \in R : f[x] \in Nat, NEW S \in SUBSET R
    PROVE  /\ SumFunctionOnSet(f, S) <= SumFunctionOnSet(f, R)
           /\ (\A x \in R \ S : f[x] = 0) => SumFunctionOnSet(f, S) = SumFunctionOnSet(f, R)
<1>1. IsFiniteSet(S) /\ IsFiniteSet(R \ S)
  BY FS_Subset
<1>2. SumFunctionOnSet(f, R) = SumFunctionOnSet(f, S) + SumFunctionOnSet(f, R \ S)
  BY SumSplit
<1>3. SumFunctionOnSet(f, S) \in Nat /\ SumFunctionOnSet(f, R \ S) \in Nat
  BY <1>1, SumType
<1>4. (\A x \in R \ S : f[x] = 0) => SumFunctionOnSet(f, R \ S) = 0
  BY <1>1, SumZero
<1> QED BY <1>2, <1>3, <1>4

\* Summed in other terms: h names each summand once.
LEMMA SumImage ==
    ASSUME NEW f, NEW g, NEW h, NEW S, IsFiniteSet(S),
           \A x, y \in S : h[x] = h[y] => x = y,
           \A x \in S : g[x] \in Nat /\ f[h[x]] = g[x]
    PROVE  SumFunctionOnSet(f, {h[x] : x \in S}) = SumFunctionOnSet(g, S)
<1> DEFINE P == {T \in SUBSET S : /\ IsFiniteSet({h[x] : x \in T})
                                  /\ SumFunctionOnSet(f, {h[x] : x \in T}) = SumFunctionOnSet(g, T)}
<1>1. {} \in P
  <2>1. {h[x] : x \in {}} = {}
    OBVIOUS
  <2> QED BY <2>1, SumEmpty, FS_EmptySet
<1>2. ASSUME NEW T \in P, NEW x \in S \ T PROVE T \cup {x} \in P
  <2> DEFINE I == {h[y] : y \in T}
  <2>1. {h[y] : y \in T \cup {x}} = I \cup {h[x]} /\ h[x] \notin I
    OBVIOUS
  <2>2. IsFiniteSet(T) /\ IsFiniteSet(I) /\ \A y \in T : g[y] \in Nat
    BY FS_Subset
  <2>3. \A z \in I : f[z] \in Nat
    OBVIOUS
  <2>4. SumFunctionOnSet(f, I) = SumFunctionOnSet(g, T) /\ f[h[x]] = g[x] /\ g[x] \in Nat
    OBVIOUS
  <2> HIDE DEF I
  <2>5. SumFunctionOnSet(f, I \cup {h[x]}) = f[h[x]] + SumFunctionOnSet(f, I)
    BY <2>1, <2>2, <2>3, <2>4, SumAdd
  <2>6. SumFunctionOnSet(g, T \cup {x}) = g[x] + SumFunctionOnSet(g, T)
    BY <2>2, <2>4, SumAdd
  <2>7. IsFiniteSet(I \cup {h[x]})
    BY <2>2, FS_AddElement
  <2> QED BY <2>1, <2>4, <2>5, <2>6, <2>7
<1>3. P = SUBSET S
  <2> HIDE DEF P
  <2>1. P \in SUBSET (SUBSET S)
    BY DEF P
  <2> QED BY <1>1, <1>2, <2>1, SetInduction
<1> QED BY <1>3

\* Summing over A what each a takes of R counts every r as often as it is taken.
LEMMA SumTaken ==
    ASSUME NEW R, IsFiniteSet(R), NEW f, \A r \in R : f[r] \in Nat,
           NEW S, IsFiniteSet(S), NEW B, \A a \in S : B[a] \in SUBSET R,
           NEW g, \A a \in S : g[a] = SumFunctionOnSet(f, B[a]),
           NEW h, \A r \in R : h[r] = f[r] * Cardinality({a \in S : r \in B[a]})
    PROVE  SumFunctionOnSet(g, S) = SumFunctionOnSet(h, R)
<1> DEFINE Times(T) == [r \in R |-> f[r] * Cardinality({a \in T : r \in B[a]})]
           P == {T \in SUBSET S : SumFunctionOnSet(g, T) = SumFunctionOnSet(Times(T), R)}
<1>0. \A a \in S : g[a] \in Nat
  <2> SUFFICES ASSUME NEW a \in S PROVE g[a] \in Nat
    OBVIOUS
  <2>1. IsFiniteSet(B[a]) /\ \A r \in B[a] : f[r] \in Nat
    BY FS_Subset
  <2> QED BY <2>1, SumType
<1>1. {} \in P
  <2>1. \A r \in R : Times({})[r] = 0
    <3>1. \A r \in R : {a \in {} : r \in B[a]} = {}
      OBVIOUS
    <3> QED BY <3>1, FS_EmptySet
  <2> HIDE DEF Times
  <2> QED BY <2>1, SumEmpty, SumZero
<1>2. ASSUME NEW T \in P, NEW x \in S \ T PROVE T \cup {x} \in P
  <2>1. IsFiniteSet(T) /\ \A a \in T : g[a] \in Nat
    BY <1>0, FS_Subset
  <2>2. SumFunctionOnSet(g, T \cup {x}) = g[x] + SumFunctionOnSet(g, T)
    BY <1>0, <2>1, SumAdd
  <2> DEFINE one == [r \in R |-> IF r \in B[x] THEN f[r] ELSE 0]
  <2>3. \A r \in R : IsFiniteSet({a \in T : r \in B[a]})
    BY <2>1, FS_Subset
  <2>4. ASSUME NEW r \in R
        PROVE  /\ Times(T)[r] \in Nat /\ one[r] \in Nat
               /\ Times(T \cup {x})[r] = Times(T)[r] + one[r]
    <3> DEFINE now == {a \in T : r \in B[a]}
               then == {a \in T \cup {x} : r \in B[a]}
    <3>1. IsFiniteSet(now) /\ Cardinality(now) \in Nat /\ f[r] \in Nat /\ x \notin now
      BY <2>3, FS_CardinalityType
    <3>2. Times(T)[r] = f[r] * Cardinality(now) /\ Times(T \cup {x})[r] = f[r] * Cardinality(then)
      OBVIOUS
    <3>3. CASE r \in B[x]
      <4>1. then = now \cup {x}
        BY <3>3
      <4>2. Cardinality(then) = Cardinality(now) + 1
        BY <3>1, <4>1, FS_AddElement
      <4>3. one[r] = f[r]
        BY <3>3
      <4> HIDE DEF now, then, Times, one
      <4>4. \A m, n \in Nat : m * (n + 1) = m * n + m /\ m * n \in Nat
        OBVIOUS
      <4> QED BY <3>1, <3>2, <4>2, <4>3, <4>4
    <3>4. CASE r \notin B[x]
      <4>1. then = now /\ one[r] = 0
        BY <3>4
      <4> HIDE DEF now, then, Times, one
      <4>2. \A m, n \in Nat : m * n \in Nat
        OBVIOUS
      <4> QED BY <3>1, <3>2, <4>1, <4>2
    <3> QED BY <3>3, <3>4
  <2>5. SumFunctionOnSet(one, R) = g[x]
    <3>1. B[x] \in SUBSET R /\ IsFiniteSet(B[x])
      BY FS_Subset
    <3>2. SumFunctionOnSet(one, B[x]) = SumFunctionOnSet(one, R)
      <4>1. \A r \in R \ B[x] : one[r] = 0
        OBVIOUS
      <4>2. \A r \in R : one[r] \in Nat
        OBVIOUS
      <4> HIDE DEF one
      <4> QED BY <3>1, <4>1, <4>2, SumPart
    <3>3. SumFunctionOnSet(one, B[x]) = SumFunctionOnSet(f, B[x])
      <4>1. \A r \in B[x] : one[r] = f[r] /\ one[r] \in Nat
        BY <3>1
      <4> HIDE DEF one
      <4> QED BY <3>1, <4>1, SumEqual
    <3> QED BY <3>2, <3>3
  <2> HIDE DEF one, Times
  <2>6. SumFunctionOnSet(Times(T \cup {x}), R) = SumFunctionOnSet(Times(T), R) + SumFunctionOnSet(one, R)
    <3> DEFINE now == Times(T)
               then == Times(T \cup {x})
    <3>1. \A r \in R : now[r] \in Nat /\ one[r] \in Nat /\ then[r] = now[r] + one[r]
      BY <2>4
    <3> HIDE DEF now, then
    <3>2. SumFunctionOnSet(then, R) = SumFunctionOnSet(now, R) + SumFunctionOnSet(one, R)
      BY <3>1, SumPlus
    <3> QED BY <3>2 DEF now, then
  <2>7. SumFunctionOnSet(Times(T), R) \in Nat /\ g[x] \in Nat /\ T \cup {x} \in SUBSET S
    BY <1>0, <2>4, SumType
  <2> QED BY <2>2, <2>5, <2>6, <2>7
<1>3. P = SUBSET S
  <2> HIDE DEF P
  <2>1. P \in SUBSET (SUBSET S)
    BY DEF P
  <2> QED BY <1>1, <1>2, <2>1, SetInduction
<1>4. SumFunctionOnSet(g, S) = SumFunctionOnSet(Times(S), R)
  BY <1>3
<1>5. \A r \in R : Times(S)[r] = h[r]
  OBVIOUS
<1>6. \A r \in R : h[r] \in Nat
  <2> SUFFICES ASSUME NEW r \in R PROVE h[r] \in Nat
    OBVIOUS
  <2>1. Cardinality({a \in S : r \in B[a]}) \in Nat
    BY FS_Subset, FS_CardinalityType
  <2> QED BY <2>1
<1> HIDE DEF Times
<1> QED BY <1>4, <1>5, <1>6, SumEqual

\* A partition: each element is in one block.
LEMMA SumParted ==
    ASSUME NEW R, IsFiniteSet(R), NEW f, \A r \in R : f[r] \in Nat,
           NEW S, IsFiniteSet(S), NEW B, \A a \in S : B[a] \in SUBSET R,
           NEW g, \A a \in S : g[a] = SumFunctionOnSet(f, B[a]),
           \A r \in R : Cardinality({a \in S : r \in B[a]}) = 1
    PROVE  SumFunctionOnSet(g, S) = SumFunctionOnSet(f, R)
<1> DEFINE h == [r \in R |-> f[r] * Cardinality({a \in S : r \in B[a]})]
<1>1. \A r \in R : h[r] = f[r] * Cardinality({a \in S : r \in B[a]})
  OBVIOUS
<1>2. \A r \in R : f[r] = h[r]
  OBVIOUS
<1> HIDE DEF h
<1>3. SumFunctionOnSet(g, S) = SumFunctionOnSet(h, R)
  <2>1. \A r \in R : f[r] \in Nat
    OBVIOUS
  <2>2. \A a \in S : B[a] \in SUBSET R
    OBVIOUS
  <2>3. \A a \in S : g[a] = SumFunctionOnSet(f, B[a])
    OBVIOUS
  <2> QED BY <1>1, <2>1, <2>2, <2>3, SumTaken, Z3
<1>4. SumFunctionOnSet(f, R) = SumFunctionOnSet(h, R)
  BY <1>2, SumEqual
<1> QED BY <1>3, <1>4

----------------------------------------------------------------------------
\* pick chooses the last element of every subset, next computes within A.
Picks(pick, S) == \A s \in SUBSET S : s # {} => pick[s] \in s
Steps(next, S, A) == \A x \in S, a \in A : next[x][a] \in A

\* g is what a fold has of every subset.
Folds(g, base, next, pick, S) ==
    \A s \in SUBSET S : g[s] = IF s = {} THEN base ELSE next[pick[s]][g[s \ {pick[s]}]]

\* Induction over subsets that lose one chosen element at a time.
LEMMA PickInduction ==
    ASSUME NEW S, IsFiniteSet(S), NEW pick, Picks(pick, S),
           NEW P \in SUBSET (SUBSET S), {} \in P,
           \A s \in SUBSET S : s # {} /\ s \ {pick[s]} \in P => s \in P
    PROVE  P = SUBSET S
<1> DEFINE Q == {n \in Nat : \A s \in SUBSET S : Cardinality(s) <= n => s \in P}
<1>1. \A s \in SUBSET S : IsFiniteSet(s) /\ Cardinality(s) \in Nat
  BY FS_Subset, FS_CardinalityType
<1>2. 0 \in Q
  <2> SUFFICES ASSUME NEW s \in SUBSET S, Cardinality(s) <= 0 PROVE s \in P
    OBVIOUS
  <2>1. Cardinality(s) = 0
    BY <1>1
  <2> QED BY <1>1, <2>1, FS_EmptySet
<1>3. ASSUME NEW n \in Q PROVE n + 1 \in Q
  <2> SUFFICES ASSUME NEW s \in SUBSET S, Cardinality(s) <= n + 1 PROVE s \in P
    OBVIOUS
  <2>1. CASE s = {}
    BY <2>1
  <2>2. CASE s # {}
    <3>1. pick[s] \in s /\ s \ {pick[s]} \in SUBSET S
      BY <2>2 DEF Picks
    <3>2. Cardinality(s \ {pick[s]}) = Cardinality(s) - 1
      BY <1>1, <3>1, FS_RemoveElement
    <3>3. s \ {pick[s]} \in P
      BY <1>1, <3>1, <3>2
    <3> QED BY <2>2, <3>3
  <2> QED BY <2>1, <2>2
<1>4. Q = Nat
  <2> HIDE DEF Q
  <2>1. Q \in SUBSET Nat
    BY DEF Q
  <2> QED BY <1>2, <1>3, <2>1, NumberInduction
<1>5. \A s \in SUBSET S : s \in P
  BY <1>1, <1>4
<1> QED BY <1>5

\* A fold over a finite set that takes a chosen element last is well defined.
LEMMA FoldsExist ==
    ASSUME NEW S, IsFiniteSet(S), NEW pick, Picks(pick, S),
           NEW A, NEW base \in A, NEW next, Steps(next, S, A)
    PROVE  \E g \in [SUBSET S -> A] : Folds(g, base, next, pick, S)
<1> DEFINE At(g, s) == IF s = {} THEN base ELSE next[pick[s]][g[s \ {pick[s]}]]
           Small(n) == {s \in SUBSET S : Cardinality(s) <= n}
           Upto(g, n) == g \in [Small(n) -> A] /\ \A s \in Small(n) : g[s] = At(g, s)
           P == {n \in Nat : \E g : Upto(g, n)}
<1>1. \A s \in SUBSET S : IsFiniteSet(s) /\ Cardinality(s) \in Nat
  BY FS_Subset, FS_CardinalityType
<1>2. ASSUME NEW s \in SUBSET S, s # {}
      PROVE  /\ s \ {pick[s]} \in SUBSET S /\ pick[s] \in S
             /\ Cardinality(s \ {pick[s]}) = Cardinality(s) - 1
             /\ Cardinality(s) # 0
  <2>1. pick[s] \in s
    BY <1>2 DEF Picks
  <2> QED BY <1>1, <1>2, <2>1, FS_RemoveElement, FS_EmptySet
<1>3. 0 \in P
  <2> DEFINE g == [s \in Small(0) |-> base]
  <2>1. ASSUME NEW s \in Small(0) PROVE s = {}
    <3>1. Cardinality(s) \in Nat /\ Cardinality(s) <= 0
      BY <1>1
    <3>2. Cardinality(s) = 0
      BY <3>1
    <3> QED BY <1>2, <3>2
  <2>2. \A s \in Small(0) : g[s] = At(g, s)
    BY <2>1
  <2>3. g \in [Small(0) -> A]
    OBVIOUS
  <2>4. Upto(g, 0)
    BY <2>2, <2>3
  <2> QED BY <2>4
<1>4. ASSUME NEW n \in P PROVE n + 1 \in P
  <2>1. PICK g : Upto(g, n)
    OBVIOUS
  <2> DEFINE h == [s \in Small(n + 1) |-> IF s \in Small(n) THEN g[s] ELSE At(g, s)]
  <2>2. Small(n) \subseteq Small(n + 1)
    BY <1>1
  <2>3. ASSUME NEW s \in Small(n + 1), s # {}
        PROVE  s \ {pick[s]} \in Small(n) /\ pick[s] \in S
    BY <1>1, <1>2, <2>3
  <2>4. ASSUME NEW s \in Small(n + 1) PROVE h[s] = At(h, s) /\ At(g, s) \in A
    <3>1. h[s] = At(g, s)
      BY <2>1
    <3>2. CASE s = {}
      BY <3>1, <3>2
    <3>3. CASE s # {}
      <4>1. s \ {pick[s]} \in Small(n) /\ pick[s] \in S
        BY <2>3, <3>3
      <4>2. h[s \ {pick[s]}] = g[s \ {pick[s]}] /\ g[s \ {pick[s]}] \in A
        BY <2>1, <2>2, <4>1
      <4> HIDE DEF h, Small
      <4> QED BY <3>1, <3>3, <4>1, <4>2 DEF Steps
    <3> QED BY <3>2, <3>3
  <2>5. h \in [Small(n + 1) -> A]
    <3> SUFFICES ASSUME NEW s \in Small(n + 1)
                 PROVE  (IF s \in Small(n) THEN g[s] ELSE At(g, s)) \in A
      OBVIOUS
    <3> QED BY <2>1, <2>4 DEF Steps
  <2> HIDE DEF h, Small
  <2>6. Upto(h, n + 1)
    BY <2>4, <2>5
  <2> HIDE DEF Upto
  <2> QED BY <2>6
<1>5. P = Nat
  <2> HIDE DEF P
  <2>1. P \in SUBSET Nat
    BY DEF P
  <2> QED BY <1>3, <1>4, <2>1, NumberInduction
<1>6. Cardinality(S) \in Nat /\ Small(Cardinality(S)) = SUBSET S
  BY <1>1, FS_Subset
<1> HIDE DEF Upto
<1>7. PICK g : Upto(g, Cardinality(S))
  BY <1>5, <1>6
<1>8. g \in [SUBSET S -> A] /\ \A s \in SUBSET S : g[s] = At(g, s)
  <2> HIDE DEF Small, At
  <2> QED BY <1>6, <1>7 DEF Upto
<1> QED BY <1>8 DEF Folds
=============================================================================
