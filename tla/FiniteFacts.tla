----------------------------- MODULE FiniteFacts -----------------------------
(***************************************************************************)
(* Facts about Max and SumFunctionOnSet of the community modules, for the  *)
(* last event of a kind and for the balances that the ledgers add up: a    *)
(* sum over a finite set satisfies its recursive equation, does not depend *)
(* on the order of its elements, and follows a change of one value.        *)
(* Induction is by a least counterexample: the natural numbers and the     *)
(* subsets of a finite set are well-founded.                               *)
(***************************************************************************)
EXTENDS Integers, FiniteSets, FiniteSetsExt, Functions, FiniteSetTheorems, WellFoundedInduction, TLAPS

\* The element that SumFunctionOnSet takes out of a set first.
Chosen(s) == CHOOSE x \in s : TRUE

\* The recursive equation of the sum, and a function on sets that solves it.
SumBody(g, f, s) == IF s = {} THEN 0 ELSE f[Chosen(s)] + g[s \ {Chosen(s)}]
IsSumOver(g, f, D) == g = [s \in D |-> SumBody(g, f, s)]
SumsOver(f, S) == CHOOSE g : IsSumOver(g, f, SUBSET S)

SubsetsUpTo(S, n) == {s \in SUBSET S : Cardinality(s) <= n}

NumericOn(f, S) == \A x \in S : f[x] \in Int

-----------------------------------------------------------------------------
\* The library's sum is the chosen solution of its equation.
LEMMA SumIsSums ==
  ASSUME NEW f, NEW S
  PROVE SumFunctionOnSet(f, S) = SumsOver(f, S)[S]
BY DEF SumFunctionOnSet, FoldFunctionOnSet, MapThenFoldSet, SumsOver, IsSumOver, SumBody, Chosen

\* A set of natural numbers that is not empty has a least element.
LEMMA LeastNumber ==
  ASSUME NEW T, T \subseteq Nat, T # {}
  PROVE \E n \in T : \A m \in T : n <= m
<1> DEFINE R == {ss \in Nat \X Nat : ss[1] < ss[2]}
<1>1. IsWellFoundedOn(R, Nat)
  BY NatLessThanWellFounded DEF OpToRel
<1>2. \A x, y \in Nat : <<y, x>> \in R <=> y < x
  OBVIOUS
<1> HIDE DEF R
<1>3. PICK x \in T : \A y \in T : ~ (<<y, x>> \in R)
  BY <1>1, WFMin
<1>4. ASSUME NEW y \in T PROVE x <= y
  <2>1. ~ (<<y, x>> \in R) /\ x \in Nat /\ y \in Nat
    BY <1>3
  <2>2. ~ (y < x)
    BY <1>2, <2>1
  <2> QED
    BY <2>1, <2>2
<1> QED
  BY <1>4

\* The greatest of some positions is one of them.
LEMMA GreatestPosition ==
  ASSUME NEW n \in Nat, NEW T, T \subseteq 1..n, T # {}
  PROVE  Max(T) \in T /\ \A m \in T : m <= Max(T)
<1> DEFINE Bounds == {m \in Nat : \A t \in T : t <= m}
<1>1. n \in Bounds /\ Bounds \subseteq Nat
  OBVIOUS
<1>2. PICK b \in Bounds : \A m \in Bounds : b <= m
  <2> HIDE DEF Bounds
  <2> QED
    BY <1>1, LeastNumber
<1>3. b \in T
  <2> SUFFICES ASSUME b \notin T PROVE FALSE
    OBVIOUS
  <2>1. PICK t \in T : TRUE
    OBVIOUS
  <2>2. b \in Nat /\ t \in 1..n /\ t <= b
    BY <1>2
  <2>3. \A x \in T : x \in Nat /\ x <= b /\ x # b
    BY <1>2
  <2>4. b - 1 \in Nat /\ \A x \in T : x <= b - 1
    BY <2>2, <2>3
  <2>5. ~ (b <= b - 1)
    BY <2>2
  <2> QED
    BY <1>2, <2>4, <2>5
<1>4. \E x \in T : \A y \in T : x >= y
  BY <1>3
<1> QED
  BY <1>4 DEF Max

\* A family of subsets of a finite set that is not empty has a member
\* with no other member inside it.
LEMMA LeastSubset ==
  ASSUME NEW S, IsFiniteSet(S), NEW F, F \subseteq SUBSET S, F # {}
  PROVE \E A \in F : \A B \in F : B \subseteq A => B = A
<1> DEFINE R == StrictSubsetOrdering(S)
<1>1. IsWellFoundedOn(R, SUBSET S)
  BY FS_StrictSubsetOrderingWellFounded, FS_FiniteSubsetsOfFinite
<1>2. \A A, B \in SUBSET S : <<B, A>> \in R <=> B \subseteq A /\ B # A
  BY DEF StrictSubsetOrdering
<1> HIDE DEF R
<1>3. \E A \in F : \A B \in F : ~ (<<B, A>> \in R)
  BY <1>1, WFMin
<1> QED
  BY <1>2, <1>3

\* A finite set of integers that is not empty has its maximum as a member.
LEMMA GreatestMember ==
  ASSUME NEW S, IsFiniteSet(S), S \subseteq Int, S # {}
  PROVE  Max(S) \in S /\ \A y \in S : Max(S) >= y
<1> DEFINE Topped(T) == \E x \in T : \A y \in T : x >= y
           Bad == {T \in SUBSET S : T # {} /\ ~ Topped(T)}
<1>1. Bad = {}
  <2> SUFFICES ASSUME Bad # {} PROVE FALSE
    OBVIOUS
  <2>1. PICK T \in Bad : \A U \in Bad : U \subseteq T => U = T
    <3>1. Bad \subseteq SUBSET S
      OBVIOUS
    <3> HIDE DEF Bad, Topped
    <3>2. \E A \in Bad : \A B \in Bad : B \subseteq A => B = A
      BY ONLY <3>1, IsFiniteSet(S), Bad # {}, LeastSubset
    <3> QED
      BY <3>2
  <2>2. PICK x \in T : TRUE
    OBVIOUS
  <2>3. CASE T \ {x} = {}
    <3>1. T = {x} /\ x \in Int
      BY <2>2, <2>3
    <3>2. Topped(T)
      BY <3>1
    <3> QED
      BY <3>2
  <2>4. CASE T \ {x} # {}
    <3>0. T \ {x} \in SUBSET S /\ T \ {x} \subseteq T /\ T \ {x} # T
      BY <2>1, <2>2
    <3>1. Topped(T \ {x})
      <4>1. T \ {x} \notin Bad
        BY <2>1, <3>0
      <4> HIDE DEF Topped
      <4> QED
        BY <2>4, <3>0, <4>1
    <3>2. PICK z \in T \ {x} : \A y \in T \ {x} : z >= y
      BY <3>1
    <3>3. x \in Int /\ z \in Int /\ T \subseteq Int
      BY <2>2, <3>2
    <3>4. CASE x >= z
      <4>1. \A y \in T : x >= y
        BY <3>2, <3>3, <3>4
      <4> QED
        BY <2>2, <4>1
    <3>5. CASE z >= x
      <4>1. \A y \in T : z >= y
        BY <3>2, <3>3, <3>5
      <4> QED
        BY <3>2, <4>1
    <3> QED
      BY <3>3, <3>4, <3>5
  <2> QED
    BY <2>3, <2>4
<1>2. Topped(S)
  BY <1>1
<1> QED
  BY <1>2 DEF Max

\* The maximum after one more member.
LEMMA GreatestWith ==
  ASSUME NEW S, IsFiniteSet(S), S \subseteq Int, S # {}, NEW x \in Int
  PROVE  Max(S \cup {x}) = IF Max(S) < x THEN x ELSE Max(S)
<1>1. IsFiniteSet(S \cup {x}) /\ S \cup {x} \subseteq Int /\ S \cup {x} # {}
  BY FS_AddElement
<1>2. PICK m : m = Max(S \cup {x})
  OBVIOUS
<1>3. PICK n : n = Max(S)
  OBVIOUS
<1>4. m \in S \cup {x} /\ \A y \in S \cup {x} : m >= y
  BY <1>1, <1>2, GreatestMember
<1>5. n \in S /\ \A y \in S : n >= y
  BY <1>3, GreatestMember
<1>6. m \in Int /\ n \in Int /\ m >= n /\ m >= x /\ (m = x \/ n >= m)
  BY <1>4, <1>5
<1> QED
  BY <1>2, <1>3, <1>6

\* The values of a function on a finite set, one for each element if no two
\* have the same.
LEMMA FiniteImage ==
  ASSUME NEW S, IsFiniteSet(S), NEW f, NEW T, T = {f[x] : x \in S}
  PROVE  /\ IsFiniteSet(T)
         /\ (\A x, y \in S : f[x] = f[y] => x = y) => Cardinality(T) = Cardinality(S)
<1> DEFINE g == [x \in S |-> f[x]]
<1>1. g \in Surjection(S, T)
  BY DEF Surjection
<1>2. (\A x, y \in S : f[x] = f[y] => x = y) => g \in Injection(S, T)
  BY DEF Injection, IsInjective
<1> HIDE DEF g
<1> QED
  BY <1>1, <1>2, FS_Surjection

\* The chosen element is one of the set.
LEMMA PickIn == ASSUME NEW s, s # {} PROVE Chosen(s) \in s
BY DEF Chosen

\* The equation of the sum has a solution on the subsets of up to n
\* elements.
LEMMA SumsUpTo ==
  ASSUME NEW f, NEW S, IsFiniteSet(S), NEW n \in Nat
  PROVE  \E g : IsSumOver(g, f, SubsetsUpTo(S, n))
<1> DEFINE Good(m) == \E g : IsSumOver(g, f, SubsetsUpTo(S, m))
           Bad == {m \in Nat : ~Good(m)}
<1>0. \A s \in SUBSET S : IsFiniteSet(s) /\ Cardinality(s) \in Nat /\ (Cardinality(s) = 0 <=> s = {})
  BY FS_Subset, FS_CardinalityType, FS_EmptySet
<1>1. Good(0)
  <2>1. SubsetsUpTo(S, 0) = {{}}
    BY <1>0 DEF SubsetsUpTo
  <2>2. [s \in SubsetsUpTo(S, 0) |-> 0] = [s \in SubsetsUpTo(S, 0) |-> SumBody([t \in SubsetsUpTo(S, 0) |-> 0], f, s)]
    BY <2>1 DEF SumBody
  <2>3. IsSumOver([s \in SubsetsUpTo(S, 0) |-> 0], f, SubsetsUpTo(S, 0))
    BY <2>2 DEF IsSumOver
  <2> QED
    BY <2>3
<1>2. ASSUME NEW m \in Nat, Good(m) PROVE Good(m + 1)
  <2>1. PICK g : g = [s \in SubsetsUpTo(S, m) |-> SumBody(g, f, s)]
    BY <1>2 DEF IsSumOver
  <2> DEFINE h == [s \in SubsetsUpTo(S, m + 1) |->
                     IF s \in SubsetsUpTo(S, m) THEN g[s] ELSE f[Chosen(s)] + g[s \ {Chosen(s)}]]
  <2>2. SubsetsUpTo(S, m) \subseteq SubsetsUpTo(S, m + 1)
    BY <1>0 DEF SubsetsUpTo
  <2>3. ASSUME NEW s \in SubsetsUpTo(S, m + 1), s # {}
        PROVE  s \ {Chosen(s)} \in SubsetsUpTo(S, m)
    <3>1. Chosen(s) \in s /\ s \in SUBSET S /\ Cardinality(s) <= m + 1
      BY <2>3, PickIn DEF SubsetsUpTo
    <3>2. Cardinality(s \ {Chosen(s)}) = Cardinality(s) - 1
      BY <1>0, <3>1, FS_RemoveElement
    <3> QED
      BY <1>0, <3>1, <3>2 DEF SubsetsUpTo
  <2>4. ASSUME NEW s \in SubsetsUpTo(S, m + 1)
        PROVE  h[s] = SumBody(h, f, s)
    <3>1. CASE s = {}
      <4>1. s \in SubsetsUpTo(S, m)
        BY <1>0, <3>1 DEF SubsetsUpTo
      <4> QED
        BY <2>1, <4>1, <3>1 DEF SumBody
    <3>2. CASE s # {}
      <4>1. h[s \ {Chosen(s)}] = g[s \ {Chosen(s)}]
        BY <2>2, <2>3, <3>2
      <4>2. h[s] = f[Chosen(s)] + g[s \ {Chosen(s)}]
        <5>1. CASE s \in SubsetsUpTo(S, m)
          BY <2>1, <3>2, <5>1 DEF SumBody
        <5>2. CASE s \notin SubsetsUpTo(S, m)
          BY <5>2
        <5> QED
          BY <5>1, <5>2
      <4> QED
        BY <3>2, <4>1, <4>2 DEF SumBody
    <3> QED
      BY <3>1, <3>2
  <2>5. h = [s \in SubsetsUpTo(S, m + 1) |-> h[s]]
    OBVIOUS
  <2> HIDE DEF h
  <2>6. IsSumOver(h, f, SubsetsUpTo(S, m + 1))
    BY <2>4, <2>5 DEF IsSumOver
  <2> QED
    BY <2>6
<1> HIDE DEF Good
<1>3. Bad = {}
  <2> SUFFICES ASSUME Bad # {} PROVE FALSE
    OBVIOUS
  <2>1. PICK m \in Bad : \A k \in Bad : m <= k
    BY LeastNumber
  <2>2. m # 0
    BY <1>1
  <2>3. m - 1 \in Nat /\ m - 1 \notin Bad
    BY <2>1, <2>2
  <2>4. Good((m - 1) + 1)
    BY <2>3, <1>2
  <2> QED
    BY <2>3, <2>4
<1> QED
  BY <1>3 DEF Good

\* The equation has a solution on all subsets of a finite set.
LEMMA SumsDef ==
  ASSUME NEW f, NEW S, IsFiniteSet(S)
  PROVE  IsSumOver(SumsOver(f, S), f, SUBSET S)
<1>1. PICK n \in Nat : n = Cardinality(S)
  BY FS_CardinalityType
<1>2. SubsetsUpTo(S, n) = SUBSET S
  BY <1>1, FS_Subset DEF SubsetsUpTo
<1>3. \E g : IsSumOver(g, f, SubsetsUpTo(S, n))
  BY SumsUpTo
<1> QED
  BY <1>2, <1>3 DEF SumsOver

\* The chosen solution satisfies the equation at every subset.
LEMMA SumsAt ==
  ASSUME NEW f, NEW S, IsFiniteSet(S), NEW T \in SUBSET S
  PROVE  SumsOver(f, S)[T] = SumBody(SumsOver(f, S), f, T)
<1>1. ASSUME NEW g, IsSumOver(g, f, SUBSET S) PROVE g[T] = SumBody(g, f, T)
  BY <1>1 DEF IsSumOver
<1> QED
  BY <1>1, SumsDef

\* The solution for a set and that for a subset of it agree on the subset.
LEMMA SumsUnique ==
  ASSUME NEW f, NEW S, IsFiniteSet(S), NEW T \in SUBSET S
  PROVE  SumsOver(f, S)[T] = SumFunctionOnSet(f, T)
<1> DEFINE Differ == {U \in SUBSET T : SumsOver(f, S)[U] # SumsOver(f, T)[U]}
<1>1. IsFiniteSet(T)
  BY FS_Subset
<1>2. ASSUME NEW U \in SUBSET T
      PROVE  /\ SumsOver(f, S)[U] = SumBody(SumsOver(f, S), f, U)
             /\ SumsOver(f, T)[U] = SumBody(SumsOver(f, T), f, U)
  <2>1. U \in SUBSET S /\ U \in SUBSET T
    OBVIOUS
  <2> QED
    BY <1>1, <2>1, SumsAt
<1>3. Differ = {}
  <2> SUFFICES ASSUME Differ # {} PROVE FALSE
    OBVIOUS
  <2>0. Differ \subseteq SUBSET T
    OBVIOUS
  <2>1. PICK U \in Differ : \A V \in Differ : V \subseteq U => V = U
    <3> HIDE DEF Differ
    <3> QED
      BY <1>1, <2>0, LeastSubset
  <2>2. U # {}
    BY <1>2 DEF SumBody
  <2>3. Chosen(U) \in U
    BY <2>2, PickIn
  <2>4. U \ {Chosen(U)} \notin Differ
    BY <2>1, <2>3
  <2> QED
    BY <1>2, <2>2, <2>4 DEF SumBody
<1>4. SumsOver(f, S)[T] = SumsOver(f, T)[T]
  BY <1>3
<1> QED
  BY <1>4, SumIsSums

\* The sum over no elements is zero.
LEMMA SumEmpty == ASSUME NEW f PROVE SumFunctionOnSet(f, {}) = 0
<1>1. IsFiniteSet({})
  BY FS_EmptySet
<1> QED
  BY <1>1, SumsAt, SumIsSums DEF SumBody

\* The recursive equation, said of the sum itself.
LEMMA SumPick ==
  ASSUME NEW f, NEW S, IsFiniteSet(S), S # {}
  PROVE  SumFunctionOnSet(f, S) = f[Chosen(S)] + SumFunctionOnSet(f, S \ {Chosen(S)})
<1>1. SumFunctionOnSet(f, S) = f[Chosen(S)] + SumsOver(f, S)[S \ {Chosen(S)}]
  BY SumsAt, SumIsSums DEF SumBody
<1> QED
  BY <1>1, SumsUnique

\* A sum of integers is an integer.
LEMMA SumType ==
  ASSUME NEW f, NEW S, IsFiniteSet(S), NumericOn(f, S)
  PROVE  SumFunctionOnSet(f, S) \in Int
<1> DEFINE Bad == {T \in SUBSET S : SumFunctionOnSet(f, T) \notin Int}
<1> SUFFICES ASSUME Bad # {} PROVE FALSE
  OBVIOUS
<1>1. PICK T \in Bad : \A U \in Bad : U \subseteq T => U = T
  <2>1. Bad \subseteq SUBSET S
    OBVIOUS
  <2> HIDE DEF Bad
  <2> QED
    BY <2>1, LeastSubset
<1>2. T # {} /\ IsFiniteSet(T)
  <2>1. SumFunctionOnSet(f, {}) \in Int
    BY SumEmpty
  <2> QED
    BY <2>1, FS_Subset
<1>3. Chosen(T) \in T
  BY <1>2, PickIn
<1>4. SumFunctionOnSet(f, T \ {Chosen(T)}) \in Int
  BY <1>1, <1>3
<1> QED
  BY <1>2, <1>3, <1>4, SumPick DEF NumericOn

\* Any element may be taken out first.
LEMMA SumElement ==
  ASSUME NEW f, NEW S, IsFiniteSet(S), NumericOn(f, S), NEW x \in S
  PROVE  SumFunctionOnSet(f, S) = f[x] + SumFunctionOnSet(f, S \ {x})
<1> DEFINE Bad == {T \in SUBSET S : \E y \in T : SumFunctionOnSet(f, T) # f[y] + SumFunctionOnSet(f, T \ {y})}
<1>0. \A T \in SUBSET S : IsFiniteSet(T) /\ NumericOn(f, T)
  BY FS_Subset DEF NumericOn
<1>1. Bad = {}
  <2> SUFFICES ASSUME Bad # {} PROVE FALSE
    OBVIOUS
  <2>1. PICK T \in Bad : \A U \in Bad : U \subseteq T => U = T
    <3>1. Bad \subseteq SUBSET S
      OBVIOUS
    <3> HIDE DEF Bad
    <3> QED
      BY <3>1, LeastSubset
  <2>2. PICK y \in T : SumFunctionOnSet(f, T) # f[y] + SumFunctionOnSet(f, T \ {y})
    OBVIOUS
  <2>3. PICK z : z = Chosen(T)
    OBVIOUS
  <2>4. z \in T /\ SumFunctionOnSet(f, T) = f[z] + SumFunctionOnSet(f, T \ {z})
    BY <1>0, <2>2, <2>3, PickIn, SumPick
  <2>5. y # z
    BY <2>2, <2>4
  <2>6. SumFunctionOnSet(f, T \ {z}) = f[y] + SumFunctionOnSet(f, (T \ {z}) \ {y})
    BY <2>1, <2>4, <2>5
  <2>7. SumFunctionOnSet(f, T \ {y}) = f[z] + SumFunctionOnSet(f, (T \ {y}) \ {z})
    BY <2>1, <2>4, <2>5
  <2>8. (T \ {z}) \ {y} = (T \ {y}) \ {z}
    OBVIOUS
  <2>9. f[y] \in Int /\ f[z] \in Int /\ SumFunctionOnSet(f, (T \ {y}) \ {z}) \in Int
    <3>1. (T \ {y}) \ {z} \in SUBSET S
      OBVIOUS
    <3> QED
      BY <1>0, <2>4, <3>1, SumType DEF NumericOn
  <2>10. SumFunctionOnSet(f, T \ {z}) = f[y] + SumFunctionOnSet(f, (T \ {y}) \ {z})
    BY <2>6, <2>8
  <2> QED
    BY <2>2, <2>4, <2>7, <2>9, <2>10
<1> QED
  BY <1>1

\* Two functions that agree on a set have the same sum.
LEMMA SumSame ==
  ASSUME NEW f, NEW g, NEW S, IsFiniteSet(S), \A x \in S : f[x] = g[x]
  PROVE  SumFunctionOnSet(f, S) = SumFunctionOnSet(g, S)
<1> DEFINE Bad == {T \in SUBSET S : SumFunctionOnSet(f, T) # SumFunctionOnSet(g, T)}
<1> SUFFICES ASSUME Bad # {} PROVE FALSE
  OBVIOUS
<1>1. PICK T \in Bad : \A U \in Bad : U \subseteq T => U = T
  <2>1. Bad \subseteq SUBSET S
    OBVIOUS
  <2> HIDE DEF Bad
  <2> QED
    BY <2>1, LeastSubset
<1>2. T # {} /\ IsFiniteSet(T)
  BY SumEmpty, FS_Subset
<1>3. Chosen(T) \in T
  BY <1>2, PickIn
<1>4. SumFunctionOnSet(f, T \ {Chosen(T)}) = SumFunctionOnSet(g, T \ {Chosen(T)})
  BY <1>1, <1>3
<1> QED
  BY <1>2, <1>3, <1>4, SumPick

\* One changed value moves the sum by its change.
LEMMA SumChange ==
  ASSUME NEW f, NEW g, NEW S, IsFiniteSet(S), NumericOn(f, S), NEW x \in S,
         g[x] \in Int, \A y \in S \ {x} : g[y] = f[y]
  PROVE  SumFunctionOnSet(g, S) = SumFunctionOnSet(f, S) - f[x] + g[x]
<1>1. IsFiniteSet(S \ {x}) /\ NumericOn(f, S \ {x}) /\ NumericOn(g, S)
  BY FS_Subset DEF NumericOn
<1>2. SumFunctionOnSet(f, S) = f[x] + SumFunctionOnSet(f, S \ {x}) /\ SumFunctionOnSet(g, S) = g[x] + SumFunctionOnSet(g, S \ {x})
  BY <1>1, SumElement
<1>3. SumFunctionOnSet(f, S \ {x}) = SumFunctionOnSet(g, S \ {x}) /\ SumFunctionOnSet(f, S \ {x}) \in Int
  BY <1>1, SumSame, SumType
<1> QED
  BY <1>2, <1>3 DEF NumericOn

\* A sum of zeros is zero.
LEMMA SumZero ==
  ASSUME NEW f, NEW S, IsFiniteSet(S), \A x \in S : f[x] = 0
  PROVE  SumFunctionOnSet(f, S) = 0
<1> DEFINE Bad == {T \in SUBSET S : SumFunctionOnSet(f, T) # 0}
<1> SUFFICES ASSUME Bad # {} PROVE FALSE
  OBVIOUS
<1>1. PICK T \in Bad : \A U \in Bad : U \subseteq T => U = T
  <2>1. Bad \subseteq SUBSET S
    OBVIOUS
  <2> HIDE DEF Bad
  <2> QED
    BY <2>1, LeastSubset
<1>2. T # {} /\ IsFiniteSet(T)
  <2>1. SumFunctionOnSet(f, {}) = 0
    BY SumEmpty
  <2> QED
    BY <2>1, FS_Subset
<1>3. Chosen(T) \in T
  BY <1>2, PickIn
<1>4. SumFunctionOnSet(f, T \ {Chosen(T)}) = 0
  BY <1>1, <1>3
<1> QED
  BY <1>2, <1>3, <1>4, SumPick

\* Ranks: when of any two elements one is in all that is at or below the
\* other, the numbers at or below are 1 to the number of elements.
LEMMA Ranking ==
  ASSUME NEW S, IsFiniteSet(S), NEW below,
         \A i \in S : below[i] \subseteq S /\ i \in below[i],
         \A i, j \in S : \/ i = j
                         \/ below[i] \subseteq below[j] /\ j \notin below[i]
                         \/ below[j] \subseteq below[i] /\ i \notin below[j]
  PROVE  /\ Cardinality(S) \in Nat
         /\ \A i \in S : Cardinality(below[i]) \in 1..Cardinality(S)
         /\ \A i, j \in S : Cardinality(below[i]) = Cardinality(below[j]) => i = j
         /\ \A n \in 1..Cardinality(S) : \E i \in S : Cardinality(below[i]) = n
         /\ \A i, j \in S : below[i] \subseteq below[j] <=> Cardinality(below[i]) <= Cardinality(below[j])
<1>1. PICK size \in Nat : size = Cardinality(S)
  BY FS_CardinalityType
<1>2. ASSUME NEW i \in S
      PROVE  IsFiniteSet(below[i]) /\ Cardinality(below[i]) \in 1..size
  <2>1. /\ IsFiniteSet(below[i]) /\ Cardinality(below[i]) <= size
        /\ Cardinality(below[i]) \in Nat
    BY <1>1, FS_Subset, FS_CardinalityType
  <2>2. Cardinality(below[i]) # 0
    BY <2>1, FS_EmptySet
  <2> QED
    BY <2>1, <2>2
<1>3. ASSUME NEW i \in S, NEW j \in S, below[i] \subseteq below[j], j \notin below[i]
      PROVE  Cardinality(below[i]) < Cardinality(below[j])
  <2>1. IsFiniteSet(below[j]) /\ below[j] # below[i]
    BY <1>2, <1>3
  <2>2. /\ Cardinality(below[i]) <= Cardinality(below[j])
        /\ Cardinality(below[j]) # Cardinality(below[i])
    BY <1>3, <2>1, FS_Subset
  <2> QED
    BY <1>2, <2>2
<1>4. \A i, j \in S : Cardinality(below[i]) = Cardinality(below[j]) => i = j
  BY <1>2, <1>3
<1>5. \A i, j \in S : below[i] \subseteq below[j] <=> Cardinality(below[i]) <= Cardinality(below[j])
  BY <1>2, <1>3
<1>6. ASSUME NEW n \in 1..size PROVE \E i \in S : Cardinality(below[i]) = n
  <2>1. PICK rank : rank = [i \in S |-> Cardinality(below[i])]
    OBVIOUS
  <2>2. PICK T : T = {rank[i] : i \in S}
    OBVIOUS
  <2>3. \A i, j \in S : rank[i] = rank[j] => i = j
    BY <1>4, <2>1
  <2>4. Cardinality(T) = size
    BY <1>1, <2>2, <2>3, FiniteImage
  <2>5. T \subseteq 1..size
    BY <1>2, <2>1, <2>2
  <2>6. IsFiniteSet(1..size) /\ Cardinality(1..size) = size
    BY FS_Interval
  <2>7. T = 1..size
    BY <2>4, <2>5, <2>6, FS_Subset
  <2>8. PICK i \in S : n = rank[i]
    BY <2>2, <2>7
  <2> QED
    BY <2>1, <2>8
<1> QED
  BY <1>1, <1>2, <1>4, <1>5, <1>6

-----------------------------------------------------------------------------
(***************************************************************************)
(* Recursion over positions: from a first value and a step there is the    *)
(* function that takes the step at every position.                         *)
(***************************************************************************)
StepsFrom(g, base, step, m) ==
    g[0] = base /\ \A n \in 1..m : g[n] = step[<<n, g[n - 1]>>]

LEMMA StepsExist ==
  ASSUME NEW L \in Nat, NEW V, NEW base \in V, NEW step,
         \A n \in 1..L, v \in V : step[<<n, v>>] \in V
  PROVE  \E g \in [0..L -> V] : StepsFrom(g, base, step, L)
<1> DEFINE Good(m) == \E g \in [0..m -> V] : StepsFrom(g, base, step, m)
           Bad == {m \in 0..L : ~Good(m)}
<1>1. Good(0)
  <2>1. [n \in 0..0 |-> base] \in [0..0 -> V] /\ StepsFrom([n \in 0..0 |-> base], base, step, 0)
    BY DEF StepsFrom
  <2> QED
    BY <2>1
<1>2. ASSUME NEW m \in 0..L, m # 0, Good(m - 1) PROVE Good(m)
  <2>1. PICK g \in [0..(m - 1) -> V] : StepsFrom(g, base, step, m - 1)
    BY <1>2
  <2>2. PICK h : h = [n \in 0..m |-> IF n = m THEN step[<<m, g[m - 1]>>] ELSE g[n]]
    OBVIOUS
  <2>3. /\ m \in 1..L /\ m - 1 \in 0..(m - 1)
        /\ \A n \in 0..m : n = m \/ n \in 0..(m - 1)
        /\ \A n \in 1..m : n - 1 \in 0..m /\ n - 1 # m /\ n \in 0..m /\ (n = m \/ n \in 1..(m - 1))
    BY <1>2
  <2>4. step[<<m, g[m - 1]>>] \in V
    BY <2>1, <2>3
  <2>5. h \in [0..m -> V]
    BY <2>1, <2>2, <2>3, <2>4
  <2>6. h[0] = base
    BY <1>2, <2>1, <2>2 DEF StepsFrom
  <2>7. ASSUME NEW n \in 1..m PROVE h[n] = step[<<n, h[n - 1]>>]
    <3>1. h[n - 1] = g[n - 1]
      BY <2>2, <2>3
    <3>2. CASE n = m
      BY <2>2, <2>3, <3>1, <3>2
    <3>3. CASE n # m
      <4>1. g[n] = step[<<n, g[n - 1]>>]
        BY <2>1, <2>3, <3>3 DEF StepsFrom
      <4> QED
        BY <2>2, <2>3, <3>1, <3>3, <4>1
    <3> QED
      BY <3>2, <3>3
  <2>8. StepsFrom(h, base, step, m)
    BY <2>6, <2>7 DEF StepsFrom
  <2> QED
    BY <2>5, <2>8
<1> HIDE DEF Good
<1>3. Bad = {}
  <2> SUFFICES ASSUME Bad # {} PROVE FALSE
    OBVIOUS
  <2>0. Bad \subseteq Nat
    OBVIOUS
  <2>1. PICK m \in Bad : \A k \in Bad : m <= k
    <3> HIDE DEF Bad
    <3> QED
      BY <2>0, LeastNumber
  <2>2. m # 0
    BY <1>1, <2>1
  <2>3. m - 1 \in 0..L /\ m - 1 \notin Bad
    BY <2>1, <2>2
  <2>4. Good(m)
    BY <1>2, <2>1, <2>2, <2>3
  <2> QED
    BY <2>1, <2>4
<1> QED
  BY <1>3 DEF Good

\* The least of some natural numbers is one of them.
LEMMA LeastPosition ==
  ASSUME NEW T, T \subseteq Nat, T # {}
  PROVE  Min(T) \in T /\ \A m \in T : Min(T) <= m
<1>1. \E x \in T : \A y \in T : x <= y
  BY LeastNumber
<1> QED
  BY <1>1 DEF Min

=============================================================================
