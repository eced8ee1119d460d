----------------------------- MODULE SumTheorems -----------------------------
(***************************************************************************)
(* Facts about SumFunctionOnSet, in which the balances and totals of the   *)
(* other modules are stated.  Induction is used in the form that the       *)
(* provers can instantiate: a set of counterexamples that is not empty has *)
(* a smallest member.                                                      *)
(***************************************************************************)
EXTENDS Integers, FiniteSets, Functions, FiniteSetTheorems, WellFoundedInduction, TLAPS

\* A set of natural numbers that is not empty has a least member.
LEMMA LeastNat ==
    ASSUME NEW T \in SUBSET Nat, T # {}
    PROVE  \E m \in T : \A n \in T : m <= n
  <1>1. OpToRel(<, Nat) = {ss \in Nat \X Nat : ss[1] < ss[2]}
    BY DEF OpToRel
  <1>2. IsWellFoundedOn({ss \in Nat \X Nat : ss[1] < ss[2]}, Nat)
    BY <1>1, NatLessThanWellFounded
  <1>3. PICK m \in T : \A n \in T : <<n, m>> \notin {ss \in Nat \X Nat : ss[1] < ss[2]}
    BY <1>2, WFMin
  <1>4. \A n \in T : ~(n < m)
    BY <1>3
  <1> QED BY <1>4

\* Induction over the subsets of a finite set: a family of them that holds the
\* empty set and is closed under adding one element holds the set itself.
LEMMA SubsetInduction ==
    ASSUME NEW S, IsFiniteSet(S), NEW Good \in SUBSET (SUBSET S), {} \in Good,
           \A T \in SUBSET S, x \in S : T \in Good /\ x \notin T => T \cup {x} \in Good
    PROVE  S \in Good
  <1> SUFFICES ASSUME S \notin Good PROVE FALSE
    OBVIOUS
  <1> DEFINE Bad == {T \in SUBSET S : T \notin Good}
             Sizes == {Cardinality(T) : T \in Bad}
  <1>1. \A T \in SUBSET S : IsFiniteSet(T) /\ Cardinality(T) \in Nat
    BY FS_Subset, FS_CardinalityType
  <1>2. Sizes \in SUBSET Nat /\ Sizes # {}
    BY <1>1
  <1>3. PICK m \in Sizes : \A n \in Sizes : m <= n
    <2> HIDE DEF Sizes
    <2> QED BY <1>2, LeastNat
  <1>4. PICK T \in Bad : Cardinality(T) = m
    BY <1>3
  <1>5. PICK x : x \in T
    BY <1>4
  <1>6. Cardinality(T \ {x}) = Cardinality(T) - 1
    BY <1>1, <1>4, <1>5, FS_RemoveElement
  <1>a. \A V \in SUBSET S : Cardinality(V) < m => V \in Good
    <2>1. m \in Nat /\ \A V \in SUBSET S : V \notin Good => m <= Cardinality(V)
      BY <1>1, <1>3
    <2> HIDE DEF Bad, Sizes
    <2> QED BY <1>1, <2>1
  <1>b. T \ {x} \in SUBSET S /\ Cardinality(T) = m /\ m \in Nat
    BY <1>1, <1>4
  <1>7. T \ {x} \in Good
    <2> HIDE DEF Bad
    <2> QED BY <1>6, <1>a, <1>b
  <1>8. T \ {x} \in SUBSET S /\ x \in S /\ x \notin T \ {x} /\ T \notin Good
    BY <1>4, <1>5
  <1>9. (T \ {x}) \cup {x} \in Good
    BY <1>7, <1>8
  <1>10. (T \ {x}) \cup {x} = T
    BY <1>5
  <1> QED BY <1>8, <1>9, <1>10
\* A finite set of naturals that is not empty has a largest element.
LEMMA LargestNat ==
    ASSUME NEW S \in SUBSET Nat, IsFiniteSet(S), S # {}
    PROVE  \E m \in S : \A n \in S : n <= m
  <1> DEFINE Good == {T \in SUBSET S : T = {} \/ \E m \in T : \A n \in T : n <= m}
  <1>1. Good \in SUBSET (SUBSET S) /\ {} \in Good
    OBVIOUS
  <1>2. ASSUME NEW T \in SUBSET S, NEW x \in S, T \in Good, x \notin T
        PROVE  T \cup {x} \in Good
    <2>1. CASE T = {}
      BY <2>1
    <2>2. CASE T # {}
      <3>1. PICK m \in T : \A n \in T : n <= m
        BY <1>2, <2>2
      <3>2. CASE x <= m
        BY <3>1, <3>2
      <3>3. CASE ~(x <= m)
        <4>1. x \in Nat /\ m \in Nat /\ \A n \in T : n \in Nat /\ n <= m
          BY <3>1
        <4>2. \A n \in T \cup {x} : n <= x
          BY <3>3, <4>1
        <4> QED BY <4>2
      <3> QED BY <3>2, <3>3
    <2> QED BY <2>1, <2>2
  <1> HIDE DEF Good
  <1>3. S \in Good
    BY <1>1, <1>2, SubsetInduction
  <1> QED BY <1>3 DEF Good

\* What a function makes of a finite set is finite.
LEMMA FiniteImage ==
    ASSUME NEW S, IsFiniteSet(S), NEW f
    PROVE  IsFiniteSet({f[x] : x \in S})
  <1> DEFINE T == {f[x] : x \in S}
             g == [x \in S |-> f[x]]
  <1>1. g \in Surjection(S, T)
    BY DEF Surjection
  <1> HIDE DEF g, T
  <1> QED BY <1>1, FS_Surjection DEF T
-----------------------------------------------------------------------------
\* The element that a sum takes from a set next.
Picked(s) == CHOOSE x \in s : TRUE

\* One step of a sum, with what g says of smaller sets.
SumStep(g, f, s) == IF s = {} THEN 0 ELSE f[Picked(s)] + g[s \ {Picked(s)}]

\* g is the sum of f over every subset of S.
SumsUp(g, f, S) == g = [s \in SUBSET S |-> SumStep(g, f, s)]

\* The definition of the library, unfolded.
LEMMA SumUnfolded ==
    ASSUME NEW f, NEW S
    PROVE  SumFunctionOnSet(f, S) = (CHOOSE g : SumsUp(g, f, S))[S]
  <1>1. SumFunctionOnSet(f, S) =
           (CHOOSE g : g = [s \in SUBSET S |->
              IF s = {} THEN 0
              ELSE f[CHOOSE x \in s : TRUE] + g[s \ {CHOOSE x \in s : TRUE}]])[S]
    BY DEF SumFunctionOnSet, FoldFunctionOnSet, MapThenFoldSet
  <1> QED BY <1>1 DEF SumsUp, SumStep, Picked

\* A non-empty set loses one element at a time.
LEMMA PickedSmaller ==
    ASSUME NEW s, IsFiniteSet(s), s # {}
    PROVE  /\ Picked(s) \in s
           /\ IsFiniteSet(s \ {Picked(s)})
           /\ Cardinality(s \ {Picked(s)}) = Cardinality(s) - 1
           /\ Cardinality(s) \in Nat
  <1>1. Picked(s) \in s
    BY DEF Picked
  <1> QED BY <1>1, FS_RemoveElement, FS_CardinalityType

\* A function that sums up the subsets exists.
LEMMA SumExists ==
    ASSUME NEW f, NEW S, IsFiniteSet(S)
    PROVE  \E g : SumsUp(g, f, S)
  <1> DEFINE Up(g, n) == \A s \in SUBSET S : Cardinality(s) <= n => g[s] = SumStep(g, f, s)
             Bad == {n \in Nat : ~ \E g : Up(g, n)}
  <1>0. \A s \in SUBSET S : IsFiniteSet(s) /\ Cardinality(s) \in Nat /\ Cardinality(s) <= Cardinality(S)
    BY FS_Subset, FS_CardinalityType
  <1>1. Bad = {}
    <2> SUFFICES ASSUME Bad # {} PROVE FALSE
      OBVIOUS
    <2>1. PICK n \in Bad : \A k \in Bad : n <= k
      <3>1. Bad \in SUBSET Nat
        OBVIOUS
      <3> HIDE DEF Bad
      <3> QED BY <3>1, LeastNat
    <2>2. n \in Nat /\ \A g : ~Up(g, n)
      BY <2>1
    <2>3. \E g : n > 0 => Up(g, n - 1)
      <3>1. CASE n = 0
        BY <3>1
      <3>2. CASE n > 0
        <4>1. n - 1 \in Nat /\ n - 1 \notin Bad
          BY <2>1, <2>2, <3>2
        <4> QED BY <4>1
      <3> QED BY <2>2, <3>1, <3>2
    <2>4. PICK g : n > 0 => Up(g, n - 1)
      BY <2>3
    <2> DEFINE h == [s \in SUBSET S |-> SumStep(g, f, s)]
    <2>5. ASSUME NEW s \in SUBSET S, Cardinality(s) <= n
          PROVE  h[s] = SumStep(h, f, s)
      <3>1. CASE s = {}
        BY <3>1 DEF SumStep
      <3>2. CASE s # {}
        <4> DEFINE t == s \ {Picked(s)}
        <4>1. t \in SUBSET S /\ Cardinality(t) = Cardinality(s) - 1 /\ Cardinality(t) \in Nat
          BY <1>0, <3>2, PickedSmaller
        <4>2. n > 0 /\ Cardinality(t) <= n - 1
          BY <1>0, <2>2, <2>5, <4>1
        <4>3. g[t] = SumStep(g, f, t)
          BY <2>4, <4>1, <4>2
        <4>4. h[t] = g[t]
          BY <4>1, <4>3
        <4>5. h[s] = f[Picked(s)] + g[t]
          BY <3>2 DEF SumStep
        <4> QED BY <3>2, <4>4, <4>5 DEF SumStep
      <3> QED BY <3>1, <3>2
    <2>6. Up(h, n)
      BY <2>5
    <2> QED BY <2>2, <2>6
  <1>2. Cardinality(S) \in Nat
    BY FS_CardinalityType
  <1>3. PICK g : Up(g, Cardinality(S))
    BY <1>1, <1>2
  <1> DEFINE h == [s \in SUBSET S |-> g[s]]
  <1>4. ASSUME NEW s \in SUBSET S
        PROVE  h[s] = SumStep(h, f, s)
    <2>1. g[s] = SumStep(g, f, s)
      BY <1>0, <1>3
    <2>2. s \ {Picked(s)} \in SUBSET S
      OBVIOUS
    <2> QED BY <2>1, <2>2 DEF SumStep
  <1>5. h = [s \in SUBSET S |-> SumStep(h, f, s)]
    BY <1>4
  <1>6. SumsUp(h, f, S)
    BY <1>5 DEF SumsUp
  <1> QED BY <1>6

\* Two such functions agree on the sets that both know.
LEMMA SumUnique ==
    ASSUME NEW f, NEW S, IsFiniteSet(S), NEW T \in SUBSET S,
           NEW g, SumsUp(g, f, S), NEW h, SumsUp(h, f, T)
    PROVE  g[T] = h[T]
  <1> DEFINE Bad == {s \in SUBSET T : g[s] # h[s]}
             Sizes == {Cardinality(s) : s \in Bad}
  <1>0. \A s \in SUBSET T : /\ IsFiniteSet(s) /\ Cardinality(s) \in Nat /\ s \in SUBSET S
                            /\ g[s] = SumStep(g, f, s) /\ h[s] = SumStep(h, f, s)
    BY FS_Subset, FS_CardinalityType DEF SumsUp
  <1>1. Bad = {}
    <2> SUFFICES ASSUME Bad # {} PROVE FALSE
      OBVIOUS
    <2>1. Sizes \in SUBSET Nat /\ Sizes # {}
      BY <1>0
    <2>2. PICK m \in Sizes : \A n \in Sizes : m <= n
      <3> HIDE DEF Sizes
      <3> QED BY <2>1, LeastNat
    <2>3. PICK s \in Bad : Cardinality(s) = m
      BY <2>2
    <2>4. s # {}
      BY <1>0, <2>3 DEF SumStep
    <2> DEFINE t == s \ {Picked(s)}
    <2>5. t \in SUBSET T /\ Cardinality(t) = Cardinality(s) - 1
      BY <1>0, <2>3, <2>4, PickedSmaller
    <2>6. g[t] = h[t]
      BY <1>0, <2>2, <2>3, <2>5
    <2>7. SumStep(g, f, s) = SumStep(h, f, s)
      BY <2>4, <2>6 DEF SumStep
    <2> QED BY <1>0, <2>3, <2>7
  <1> QED BY <1>1

\* The sum over a subset is read off the function of the whole set.
LEMMA SumReadOff ==
    ASSUME NEW f, NEW S, IsFiniteSet(S), NEW T \in SUBSET S, NEW g, SumsUp(g, f, S)
    PROVE  SumFunctionOnSet(f, T) = g[T]
  <1>1. IsFiniteSet(T)
    BY FS_Subset
  <1> DEFINE h == CHOOSE k : SumsUp(k, f, T)
  <1>2. SumsUp(h, f, T)
    BY <1>1, SumExists
  <1>3. SumFunctionOnSet(f, T) = h[T]
    BY SumUnfolded
  <1> HIDE DEF h
  <1> QED BY <1>2, <1>3, SumUnique
-----------------------------------------------------------------------------
\* Nothing sums up to nothing.
THEOREM SumEmpty ==
    ASSUME NEW f
    PROVE  SumFunctionOnSet(f, {}) = 0
  <1>1. IsFiniteSet({})
    BY FS_EmptySet
  <1>2. PICK g : SumsUp(g, f, {})
    BY <1>1, SumExists
  <1>3. SumFunctionOnSet(f, {}) = g[{}]
    BY <1>1, <1>2, SumReadOff
  <1>4. g[{}] = SumStep(g, f, {})
    BY <1>2 DEF SumsUp
  <1> QED BY <1>3, <1>4 DEF SumStep

\* The element that is picked first is one term of the sum.
LEMMA SumPicked ==
    ASSUME NEW f, NEW S, IsFiniteSet(S), S # {}
    PROVE  SumFunctionOnSet(f, S) = f[Picked(S)] + SumFunctionOnSet(f, S \ {Picked(S)})
  <1>1. PICK g : SumsUp(g, f, S)
    BY SumExists
  <1>2. /\ SumFunctionOnSet(f, S) = g[S]
        /\ SumFunctionOnSet(f, S \ {Picked(S)}) = g[S \ {Picked(S)}]
    BY <1>1, SumReadOff
  <1>3. g[S] = SumStep(g, f, S)
    BY <1>1 DEF SumsUp
  <1> QED BY <1>2, <1>3 DEF SumStep

\* A sum of integers is an integer.
THEOREM SumInt ==
    ASSUME NEW S, IsFiniteSet(S), NEW f, \A x \in S : f[x] \in Int
    PROVE  SumFunctionOnSet(f, S) \in Int
  <1> DEFINE Bad == {T \in SUBSET S : SumFunctionOnSet(f, T) \notin Int}
             Sizes == {Cardinality(T) : T \in Bad}
  <1>0. \A T \in SUBSET S : IsFiniteSet(T) /\ Cardinality(T) \in Nat
    BY FS_Subset, FS_CardinalityType
  <1>1. Bad = {}
    <2> SUFFICES ASSUME Bad # {} PROVE FALSE
      OBVIOUS
    <2>1. Sizes \in SUBSET Nat /\ Sizes # {}
      BY <1>0
    <2>2. PICK m \in Sizes : \A n \in Sizes : m <= n
      <3> HIDE DEF Sizes
      <3> QED BY <2>1, LeastNat
    <2>3. PICK T \in Bad : Cardinality(T) = m
      BY <2>2
    <2>4. T # {}
      BY <2>3, SumEmpty
    <2> DEFINE t == T \ {Picked(T)}
    <2>5. Picked(T) \in T /\ t \in SUBSET S /\ Cardinality(t) = Cardinality(T) - 1
      BY <1>0, <2>3, <2>4, PickedSmaller
    <2>6. SumFunctionOnSet(f, t) \in Int
      BY <1>0, <2>2, <2>3, <2>5
    <2>7. SumFunctionOnSet(f, T) = f[Picked(T)] + SumFunctionOnSet(f, t)
      BY <1>0, <2>3, <2>4, SumPicked
    <2> QED BY <2>3, <2>5, <2>6, <2>7
  <1> QED BY <1>1

\* Any element is one term of the sum.
THEOREM SumRemove ==
    ASSUME NEW S, IsFiniteSet(S), NEW f, \A y \in S : f[y] \in Int, NEW x \in S
    PROVE  SumFunctionOnSet(f, S) = f[x] + SumFunctionOnSet(f, S \ {x})
  <1> DEFINE Sum(T) == SumFunctionOnSet(f, T)
             Bad == {T \in SUBSET S : \E y \in T : Sum(T) # f[y] + Sum(T \ {y})}
             Sizes == {Cardinality(T) : T \in Bad}
  <1>0. \A T \in SUBSET S : IsFiniteSet(T) /\ Cardinality(T) \in Nat /\ Sum(T) \in Int
    BY FS_Subset, FS_CardinalityType, SumInt
  <1>1. Bad = {}
    <2> SUFFICES ASSUME Bad # {} PROVE FALSE
      OBVIOUS
    <2>1. Sizes \in SUBSET Nat /\ Sizes # {}
      BY <1>0
    <2>2. PICK m \in Sizes : \A n \in Sizes : m <= n
      <3> HIDE DEF Sizes
      <3> QED BY <2>1, LeastNat
    <2>3. PICK T \in Bad : Cardinality(T) = m
      BY <2>2
    <2>4. PICK y \in T : Sum(T) # f[y] + Sum(T \ {y})
      BY <2>3
    <2> DEFINE p == Picked(T)
    <2>5. p \in T /\ Sum(T) = f[p] + Sum(T \ {p})
      BY <1>0, <2>3, <2>4, PickedSmaller, SumPicked
    <2>6. y # p
      BY <2>4, <2>5
    <2>7. /\ Cardinality(T \ {p}) = Cardinality(T) - 1
          /\ Cardinality(T \ {y}) = Cardinality(T) - 1
      BY <1>0, <2>3, <2>4, <2>5, FS_RemoveElement
    <2> HIDE DEF p
    <2>a. \A V \in SUBSET S : Cardinality(V) < m => V \notin Bad
      <3> HIDE DEF Sum
      <3> QED BY <1>0, <2>2
    <2>b. T \ {p} \in SUBSET S /\ T \ {y} \in SUBSET S /\ Cardinality(T) = m /\ m \in Nat
      <3> HIDE DEF Sum
      <3> QED BY <1>0, <2>3
    <2>8. T \ {p} \in SUBSET S /\ T \ {p} \notin Bad /\ T \ {y} \in SUBSET S /\ T \ {y} \notin Bad
      <3> HIDE DEF Sum, Bad
      <3> QED BY <2>7, <2>a, <2>b
    <2>9. Sum(T \ {p}) = f[y] + Sum((T \ {p}) \ {y})
      <3> HIDE DEF Sum
      <3> QED BY <2>4, <2>6, <2>8
    <2>10. Sum(T \ {y}) = f[p] + Sum((T \ {y}) \ {p})
      <3> HIDE DEF Sum
      <3> QED BY <2>5, <2>6, <2>8
    <2>11. (T \ {p}) \ {y} = (T \ {y}) \ {p}
      OBVIOUS
    <2>12. /\ f[p] \in Int /\ f[y] \in Int
           /\ Sum((T \ {y}) \ {p}) \in Int
      <3>1. (T \ {y}) \ {p} \in SUBSET S /\ p \in S /\ y \in S
        <4> HIDE DEF Sum
        <4> QED BY <2>3, <2>4, <2>5
      <3>2. Sum((T \ {y}) \ {p}) \in Int
        <4> HIDE DEF Sum
        <4> QED BY <1>0, <3>1
      <3> QED BY <3>1, <3>2
    <2>13. Sum(T) = f[y] + Sum(T \ {y})
      <3>1. \A a, b, c \in Int : a + (b + c) = b + (a + c)
        OBVIOUS
      <3>2. /\ Sum(T) = f[p] + (f[y] + Sum((T \ {y}) \ {p}))
            /\ f[y] + Sum(T \ {y}) = f[y] + (f[p] + Sum((T \ {y}) \ {p}))
        BY <2>5, <2>9, <2>10, <2>11
      <3> HIDE DEF Sum
      <3> QED BY <2>12, <3>1, <3>2
    <2> QED BY <2>4, <2>13
  <1>2. S \notin Bad
    BY <1>1
  <1> QED BY <1>2

\* A new element is one more term.
THEOREM SumInsert ==
    ASSUME NEW S, IsFiniteSet(S), NEW x, x \notin S,
           NEW f, \A y \in S \cup {x} : f[y] \in Int
    PROVE  SumFunctionOnSet(f, S \cup {x}) = f[x] + SumFunctionOnSet(f, S)
  <1>1. IsFiniteSet(S \cup {x}) /\ (S \cup {x}) \ {x} = S
    BY FS_AddElement
  <1> DEFINE T == S \cup {x}
  <1>2. IsFiniteSet(T) /\ x \in T /\ \A y \in T : f[y] \in Int
    BY <1>1
  <1> HIDE DEF T
  <1>3. SumFunctionOnSet(f, T) = f[x] + SumFunctionOnSet(f, T \ {x})
    BY <1>2, SumRemove
  <1> QED BY <1>1, <1>3 DEF T

\* Terms that are equal one by one have the same sum.
THEOREM SumSame ==
    ASSUME NEW S, IsFiniteSet(S), NEW f, NEW g,
           \A x \in S : f[x] \in Int /\ f[x] = g[x]
    PROVE  SumFunctionOnSet(f, S) = SumFunctionOnSet(g, S)
  <1> DEFINE Same(T) == SumFunctionOnSet(f, T) = SumFunctionOnSet(g, T)
             Good == {T \in SUBSET S : Same(T)}
  <1>1. Good \in SUBSET (SUBSET S) /\ {} \in Good
    BY SumEmpty
  <1>2. ASSUME NEW T \in SUBSET S, NEW x \in S, T \in Good, x \notin T
        PROVE  T \cup {x} \in Good
    <2>1. IsFiniteSet(T) /\ T \cup {x} \in SUBSET S
      BY FS_Subset
    <2>2. /\ SumFunctionOnSet(f, T \cup {x}) = f[x] + SumFunctionOnSet(f, T)
          /\ SumFunctionOnSet(g, T \cup {x}) = g[x] + SumFunctionOnSet(g, T)
      BY <1>2, <2>1, SumInsert
    <2> QED BY <1>2, <2>1, <2>2
  <1>3. S \in Good
    <2> HIDE DEF Good
    <2> QED BY <1>1, <1>2, SubsetInduction
  <1> QED BY <1>3

\* The sum of two functions, term by term, has the sum of their sums.
THEOREM SumPlus ==
    ASSUME NEW S, IsFiniteSet(S), NEW f, NEW g, NEW h,
           \A x \in S : f[x] \in Int /\ g[x] \in Int /\ h[x] = f[x] + g[x]
    PROVE  SumFunctionOnSet(h, S) = SumFunctionOnSet(f, S) + SumFunctionOnSet(g, S)
  <1> DEFINE Good == {T \in SUBSET S :
               SumFunctionOnSet(h, T) = SumFunctionOnSet(f, T) + SumFunctionOnSet(g, T)}
  <1>1. Good \in SUBSET (SUBSET S) /\ {} \in Good
    BY SumEmpty
  <1>2. ASSUME NEW T \in SUBSET S, NEW x \in S, T \in Good, x \notin T
        PROVE  T \cup {x} \in Good
    <2>1. IsFiniteSet(T) /\ T \cup {x} \in SUBSET S
      BY FS_Subset
    <2>2. f[x] \in Int /\ g[x] \in Int /\ h[x] = f[x] + g[x]
      OBVIOUS
    <2>3. /\ SumFunctionOnSet(f, T \cup {x}) = f[x] + SumFunctionOnSet(f, T)
          /\ SumFunctionOnSet(g, T \cup {x}) = g[x] + SumFunctionOnSet(g, T)
          /\ SumFunctionOnSet(h, T \cup {x}) = h[x] + SumFunctionOnSet(h, T)
      <3>1. x \notin T /\ \A y \in T \cup {x} : f[y] \in Int /\ g[y] \in Int /\ h[y] \in Int
        BY <1>2
      <3> HIDE DEF Good
      <3> QED BY <2>1, <3>1, SumInsert
    <2>4. SumFunctionOnSet(f, T) \in Int /\ SumFunctionOnSet(g, T) \in Int
      BY <2>1, SumInt
    <2>5. SumFunctionOnSet(h, T) = SumFunctionOnSet(f, T) + SumFunctionOnSet(g, T)
      BY <1>2
    <2>6. SumFunctionOnSet(h, T \cup {x})
            = SumFunctionOnSet(f, T \cup {x}) + SumFunctionOnSet(g, T \cup {x})
      BY <2>2, <2>3, <2>4, <2>5
    <2> QED BY <2>1, <2>6
  <1>3. S \in Good
    <2> HIDE DEF Good
    <2> QED BY <1>1, <1>2, SubsetInduction
  <1> QED BY <1>3

\* Larger terms have a larger sum.
THEOREM SumMonotone ==
    ASSUME NEW S, IsFiniteSet(S), NEW f, NEW g,
           \A x \in S : f[x] \in Int /\ g[x] \in Int /\ f[x] <= g[x]
    PROVE  SumFunctionOnSet(f, S) <= SumFunctionOnSet(g, S)
  <1> DEFINE Good == {T \in SUBSET S : SumFunctionOnSet(f, T) <= SumFunctionOnSet(g, T)}
  <1>1. Good \in SUBSET (SUBSET S) /\ {} \in Good
    BY SumEmpty
  <1>2. ASSUME NEW T \in SUBSET S, NEW x \in S, T \in Good, x \notin T
        PROVE  T \cup {x} \in Good
    <2>1. IsFiniteSet(T) /\ T \cup {x} \in SUBSET S
      BY FS_Subset
    <2>2. f[x] \in Int /\ g[x] \in Int /\ f[x] <= g[x]
      OBVIOUS
    <2>3. /\ SumFunctionOnSet(f, T \cup {x}) = f[x] + SumFunctionOnSet(f, T)
          /\ SumFunctionOnSet(g, T \cup {x}) = g[x] + SumFunctionOnSet(g, T)
      BY <1>2, <2>1, SumInsert
    <2>4. SumFunctionOnSet(f, T) \in Int /\ SumFunctionOnSet(g, T) \in Int
      BY <2>1, SumInt
    <2>5. SumFunctionOnSet(f, T \cup {x}) <= SumFunctionOnSet(g, T \cup {x})
      BY <1>2, <2>2, <2>3, <2>4
    <2> QED BY <2>1, <2>5
  <1>3. S \in Good
    <2> HIDE DEF Good
    <2> QED BY <1>1, <1>2, SubsetInduction
  <1> QED BY <1>3

\* Nothing but zeros sums up to zero.
THEOREM SumZero ==
    ASSUME NEW S, IsFiniteSet(S), NEW f, \A x \in S : f[x] = 0
    PROVE  SumFunctionOnSet(f, S) = 0
  <1> DEFINE Good == {T \in SUBSET S : SumFunctionOnSet(f, T) = 0}
  <1>1. Good \in SUBSET (SUBSET S) /\ {} \in Good
    BY SumEmpty
  <1>2. ASSUME NEW T \in SUBSET S, NEW x \in S, T \in Good, x \notin T
        PROVE  T \cup {x} \in Good
    <2>1. IsFiniteSet(T) /\ T \cup {x} \in SUBSET S
      BY FS_Subset
    <2>2. SumFunctionOnSet(f, T \cup {x}) = f[x] + SumFunctionOnSet(f, T)
      <3>1. x \notin T /\ \A y \in T \cup {x} : f[y] \in Int
        BY <1>2
      <3> HIDE DEF Good
      <3> QED BY <2>1, <3>1, SumInsert
    <2> QED BY <1>2, <2>1, <2>2
  <1>3. S \in Good
    <2> HIDE DEF Good
    <2> QED BY <1>1, <1>2, SubsetInduction
  <1> QED BY <1>3

\* Terms that are natural numbers have a sum that is one.
THEOREM SumNat ==
    ASSUME NEW S, IsFiniteSet(S), NEW f, \A x \in S : f[x] \in Nat
    PROVE  SumFunctionOnSet(f, S) \in Nat
  <1> DEFINE z == [x \in S |-> 0]
  <1>1. SumFunctionOnSet(z, S) = 0
    BY SumZero
  <1>2. \A x \in S : z[x] \in Int /\ f[x] \in Int /\ z[x] <= f[x]
    OBVIOUS
  <1> HIDE DEF z
  <1>3. SumFunctionOnSet(z, S) <= SumFunctionOnSet(f, S)
    BY <1>2, SumMonotone
  <1>4. SumFunctionOnSet(f, S) \in Int
    BY SumInt
  <1> QED BY <1>1, <1>3, <1>4

\* When one term changes, the sum changes by as much.
THEOREM SumChange ==
    ASSUME NEW S, IsFiniteSet(S), NEW x \in S, NEW f, NEW g,
           \A y \in S : f[y] \in Int /\ g[y] \in Int,
           \A y \in S \ {x} : g[y] = f[y]
    PROVE  SumFunctionOnSet(g, S) = SumFunctionOnSet(f, S) + g[x] - f[x]
  <1>1. IsFiniteSet(S \ {x})
    BY FS_RemoveElement
  <1>2. SumFunctionOnSet(f, S \ {x}) = SumFunctionOnSet(g, S \ {x})
    BY <1>1, SumSame
  <1>3. /\ SumFunctionOnSet(f, S) = f[x] + SumFunctionOnSet(f, S \ {x})
        /\ SumFunctionOnSet(g, S) = g[x] + SumFunctionOnSet(g, S \ {x})
    BY SumRemove
  <1>4. SumFunctionOnSet(f, S \ {x}) \in Int
    BY <1>1, SumInt
  <1> QED BY <1>2, <1>3, <1>4

\* What moves between two rows of a table, column by column, leaves its total.
LEMMA SumTransfer ==
    ASSUME NEW A, NEW D, IsFiniteSet(A), IsFiniteSet(D), NEW a \in A, NEW b \in A, a # b,
           NEW f, NEW g,
           \A r \in A \X D : f[r] \in Int /\ g[r] \in Int,
           \A d \in D : f[<<a, d>>] + f[<<b, d>>] = g[<<a, d>>] + g[<<b, d>>],
           \A x \in A \ {a, b}, d \in D : g[<<x, d>>] = f[<<x, d>>]
    PROVE  SumFunctionOnSet(g, A \X D) = SumFunctionOnSet(f, A \X D)
  <1> DEFINE Mixed(T) == [r \in A \X D |-> IF r[2] \in T THEN g[r] ELSE f[r]]
             Sum(h) == SumFunctionOnSet(h, A \X D)
             Good == {T \in SUBSET D : Sum(Mixed(T)) = Sum(f)}
  <1>0. IsFiniteSet(A \X D)
    BY FS_Product
  <1>1. \A T \in SUBSET D, r \in A \X D : Mixed(T)[r] \in Int
    OBVIOUS
  <1>2. Sum(Mixed({})) = Sum(f) /\ Sum(Mixed(D)) = Sum(g)
    <2>1. \A r \in A \X D : Mixed({})[r] = f[r] /\ Mixed(D)[r] = g[r]
      OBVIOUS
    <2> HIDE DEF Mixed
    <2> QED BY <1>0, <1>1, <2>1, SumSame
  <1>3. ASSUME NEW T \in SUBSET D, NEW d \in D, T \in Good, d \notin T
        PROVE  T \cup {d} \in Good
    <2> DEFINE p == <<a, d>>
               q == <<b, d>>
               m == Mixed(T)
               h == [m EXCEPT ![p] = g[p]]
               n == Mixed(T \cup {d})
    <2>1. p \in A \X D /\ q \in A \X D /\ p # q
      OBVIOUS
    <2>2. /\ \A r \in A \X D : m[r] \in Int /\ h[r] \in Int /\ n[r] \in Int
          /\ \A r \in (A \X D) \ {p} : h[r] = m[r]
          /\ \A r \in (A \X D) \ {q} : n[r] = h[r]
          /\ m[p] = f[p] /\ h[p] = g[p] /\ h[q] = f[q] /\ n[q] = g[q]
      <3>1. \A r \in A \X D : m[r] \in Int /\ n[r] \in Int
        BY <1>1
      <3>2. \A r \in A \X D : h[r] = IF r = p THEN g[p] ELSE m[r]
        OBVIOUS
      <3>3. \A r \in (A \X D) \ {p, q} : n[r] = m[r]
        <4> SUFFICES ASSUME NEW r \in (A \X D) \ {p, q} PROVE n[r] = m[r]
          OBVIOUS
        <4>1. CASE r[2] = d
          <5>1. r[1] \in A \ {a, b} /\ r = <<r[1], d>>
            BY <4>1
          <5>2. g[r] = f[r]
            BY <5>1
          <5> QED BY <4>1, <5>2
        <4>2. CASE r[2] # d
          BY <4>2
        <4> QED BY <4>1, <4>2
      <3>4. m[p] = f[p] /\ m[q] = f[q] /\ n[p] = g[p] /\ n[q] = g[q]
        BY <1>3, <2>1
      <3>5. g[p] \in Int
        BY <2>1
      <3> HIDE DEF m, n, h, p, q
      <3> QED BY <2>1, <3>1, <3>2, <3>3, <3>4, <3>5
    <2>3. f[p] + f[q] = g[p] + g[q] /\ f[p] \in Int /\ f[q] \in Int /\ g[p] \in Int /\ g[q] \in Int
      BY <2>1
    <2>4. Sum(m) = Sum(f) /\ T \cup {d} \in SUBSET D
      BY <1>3
    <2> HIDE DEF Mixed, Good, m, n, h, p, q
    <2> DEFINE S == A \X D
    <2>a. IsFiniteSet(S) /\ p \in S /\ q \in S
      BY <1>0, <2>1
    <2>b. /\ \A r \in S : m[r] \in Int /\ h[r] \in Int
          /\ \A r \in S \ {p} : h[r] = m[r]
      BY <2>2
    <2>c. /\ \A r \in S : h[r] \in Int /\ n[r] \in Int
          /\ \A r \in S \ {q} : n[r] = h[r]
      BY <2>2
    <2>5. Sum(h) = Sum(m) + h[p] - m[p] /\ Sum(n) = Sum(h) + n[q] - h[q]
      <3> HIDE DEF S
      <3>1. SumFunctionOnSet(h, S) = SumFunctionOnSet(m, S) + h[p] - m[p]
        BY <2>a, <2>b, SumChange
      <3>2. SumFunctionOnSet(n, S) = SumFunctionOnSet(h, S) + n[q] - h[q]
        BY <2>a, <2>c, SumChange
      <3> QED BY <3>1, <3>2 DEF S
    <2>6. Sum(m) \in Int
      BY <1>0, <2>2, SumInt
    <2>7. Sum(n) = Sum(f)
      <3> HIDE DEF Sum
      <3> QED BY <2>2, <2>3, <2>4, <2>5, <2>6
    <2> QED BY <2>4, <2>7 DEF Good, n
  <1>4. D \in Good
    <2>1. Good \in SUBSET (SUBSET D) /\ {} \in Good
      BY <1>2
    <2> HIDE DEF Good
    <2> QED BY <1>3, <2>1, SubsetInduction
  <1> QED BY <1>2, <1>4
=============================================================================
