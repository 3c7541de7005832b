----------------------------- MODULE FiniteSums -----------------------------
(***************************************************************************)
(* Facts about finite sets and about sums over them, which the proofs of   *)
(* several components use.  A sum is SumFunctionOnSet of the community     *)
(* module Functions; it takes its elements in an order of its own choosing *)
(* and the lemmas show that the order does not matter.                     *)
(***************************************************************************)
EXTENDS Integers, FiniteSets, FiniteSetsExt, Functions, FiniteSetTheorems, TLAPS

-----------------------------------------------------------------------------
(* Finite sets: induction with a set of good subsets in place of a         *)
(* predicate, and the least and greatest element.                          *)

\* A set of subsets that contains T whenever it contains every T without one
\* element contains the whole of a finite set.
LEMMA FiniteInduction ==
    ASSUME NEW S, IsFiniteSet(S), NEW Good,
           \A T \in SUBSET S : (\A x \in T : T \ {x} \in Good) => T \in Good
    PROVE  S \in Good
<1> DEFINE R == StrictSubsetOrdering(S)
           F == FiniteSubsetsOf(S)
           Bad == {T \in F : T \notin Good}
<1>1. IsWellFoundedOn(R, F)
    BY FS_StrictSubsetOrderingWellFounded
<1>2. S \in F
    BY DEF FiniteSubsetsOf
<1>3. SUFFICES ASSUME Bad # {} PROVE FALSE
    BY <1>2
<1>4. PICK T \in Bad : \A U \in Bad : ~(<<U, T>> \in R)
  <2> HIDE DEF R, F
  <2> QED BY <1>1, <1>3, WFMin
<1>5. T \in SUBSET S /\ IsFiniteSet(T)
    BY DEF FiniteSubsetsOf
<1>6. ASSUME NEW x \in T PROVE T \ {x} \in Good
  <2>1. IsFiniteSet(T \ {x}) /\ T \ {x} \in SUBSET S
      BY <1>5, FS_RemoveElement
  <2>2. T \ {x} \in F
      BY <2>1 DEF FiniteSubsetsOf
  <2>3. <<T \ {x}, T>> \in R
      BY <1>5, <2>1 DEF StrictSubsetOrdering
  <2> QED BY <1>4, <2>2, <2>3
<1> QED BY <1>5, <1>6

\* Min of a finite set of integers is its least element.
LEMMA FiniteMin ==
    ASSUME NEW S \in SUBSET Int, IsFiniteSet(S), S # {}
    PROVE  Min(S) \in S /\ \A y \in S : Min(S) <= y
<1> DEFINE Good == {T \in SUBSET S : T # {} => \E x \in T : \A y \in T : x <= y}
<1>1. ASSUME NEW T \in SUBSET S, \A x \in T : T \ {x} \in Good
      PROVE  T \in Good
  <2> SUFFICES ASSUME T # {} PROVE \E x \in T : \A y \in T : x <= y
      OBVIOUS
  <2>1. PICK a \in T : TRUE
      OBVIOUS
  <2>2. CASE T \ {a} = {}
      BY <2>2
  <2>3. CASE T \ {a} # {}
    <3>1. PICK b \in T \ {a} : \A y \in T \ {a} : b <= y
        BY <1>1, <2>3
    <3>2. CASE a <= b BY <3>1, <3>2
    <3>3. CASE ~(a <= b) BY <3>1, <3>3
    <3> QED BY <3>2, <3>3
  <2> QED BY <2>2, <2>3
<1>2. S \in Good
  <2> HIDE DEF Good
  <2> QED BY <1>1, FiniteInduction
<1>3. \E x \in S : \A y \in S : x <= y
    BY <1>2
<1> QED BY <1>3 DEF Min

\* Max is its greatest.
LEMMA FiniteMax ==
    ASSUME NEW S \in SUBSET Int, IsFiniteSet(S), S # {}
    PROVE  Max(S) \in S /\ \A y \in S : Max(S) >= y
<1> DEFINE Good == {T \in SUBSET S : T # {} => \E x \in T : \A y \in T : x >= y}
<1>1. ASSUME NEW T \in SUBSET S, \A x \in T : T \ {x} \in Good
      PROVE  T \in Good
  <2> SUFFICES ASSUME T # {} PROVE \E x \in T : \A y \in T : x >= y
      OBVIOUS
  <2>1. PICK a \in T : TRUE
      OBVIOUS
  <2>2. CASE T \ {a} = {}
      BY <2>2
  <2>3. CASE T \ {a} # {}
    <3>1. PICK b \in T \ {a} : \A y \in T \ {a} : b >= y
        BY <1>1, <2>3
    <3>2. CASE a >= b BY <3>1, <3>2
    <3>3. CASE ~(a >= b) BY <3>1, <3>3
    <3> QED BY <3>2, <3>3
  <2> QED BY <2>2, <2>3
<1>2. S \in Good
  <2> HIDE DEF Good
  <2> QED BY <1>1, FiniteInduction
<1>3. \E x \in S : \A y \in S : x >= y
    BY <1>2
<1> QED BY <1>3 DEF Max

\* The image of a finite set under a function is finite.
LEMMA FiniteImage ==
    ASSUME NEW S, IsFiniteSet(S), NEW f
    PROVE  IsFiniteSet({f[x] : x \in S})
<1> DEFINE T == {f[x] : x \in S}
           g == [x \in S |-> f[x]]
<1>1. g \in Surjection(S, T)
    BY DEF Surjection
<1> QED BY <1>1, FS_Surjection

\* The lesser of two integers.
LEMMA MinOfTwo ==
    ASSUME NEW a \in Int, NEW b \in Int
    PROVE  Min({a, b}) = IF a <= b THEN a ELSE b
<1>1. \A x \in {a, b} : (\A y \in {a, b} : x <= y) => x = IF a <= b THEN a ELSE b
    OBVIOUS
<1>2. \E x \in {a, b} : \A y \in {a, b} : x <= y
    OBVIOUS
<1> QED BY <1>1, <1>2 DEF Min

\* The greater of two integers.
LEMMA MaxOfTwo ==
    ASSUME NEW a \in Int, NEW b \in Int
    PROVE  Max({a, b}) = IF a >= b THEN a ELSE b
<1>1. \A x \in {a, b} : (\A y \in {a, b} : x >= y) => x = IF a >= b THEN a ELSE b
    OBVIOUS
<1>2. \E x \in {a, b} : \A y \in {a, b} : x >= y
    OBVIOUS
<1> QED BY <1>1, <1>2 DEF Max

-----------------------------------------------------------------------------
(* The recursive function behind a sum.                                    *)

ChosenOf(s) == CHOOSE x \in s : TRUE

\* h is the sum of f on all subsets of S.
IsSums(f, h, S) ==
    /\ h = [s \in SUBSET S |-> h[s]]
    /\ \A s \in SUBSET S : h[s] = IF s = {} THEN 0 ELSE f[ChosenOf(s)] + h[s \ {ChosenOf(s)}]

\* What the definition of the sum amounts to.
LEMMA SumIsChosen ==
    ASSUME NEW f, NEW S
    PROVE  SumFunctionOnSet(f, S)
             = (CHOOSE h : h = [s \in SUBSET S |-> IF s = {} THEN 0 ELSE f[ChosenOf(s)] + h[s \ {ChosenOf(s)}]])[S]
BY DEF SumFunctionOnSet, FoldFunctionOnSet, MapThenFoldSet, ChosenOf

\* Two such functions agree on the subsets they share.
LEMMA SumsUnique ==
    ASSUME NEW f, NEW S, NEW T, NEW g, NEW h, IsSums(f, g, S), IsSums(f, h, T),
           NEW s \in SUBSET (S \cap T), IsFiniteSet(s)
    PROVE  g[s] = h[s]
<1> DEFINE Good == {t \in SUBSET s : g[t] = h[t]}
<1>1. ASSUME NEW t \in SUBSET s, \A x \in t : t \ {x} \in Good
      PROVE  t \in Good
  <2>1. CASE t = {}
      BY <2>1 DEF IsSums
  <2>2. CASE t # {}
    <3>1. ChosenOf(t) \in t
        BY <2>2 DEF ChosenOf
    <3>2. g[t \ {ChosenOf(t)}] = h[t \ {ChosenOf(t)}]
        BY <1>1, <3>1
    <3>3. g[t] = f[ChosenOf(t)] + g[t \ {ChosenOf(t)}] /\ h[t] = f[ChosenOf(t)] + h[t \ {ChosenOf(t)}]
        BY <2>2 DEF IsSums
    <3> QED BY <3>2, <3>3
  <2> QED BY <2>1, <2>2
<1>2. s \in Good
  <2> HIDE DEF Good
  <2> QED BY <1>1, FiniteInduction
<1> QED BY <1>2

\* On part of its sets a function of sums is one still.
LEMMA SumsRestrict ==
    ASSUME NEW f, NEW S, NEW T \in SUBSET S, NEW h, IsSums(f, h, S)
    PROVE  IsSums(f, [s \in SUBSET T |-> h[s]], T)
<1> DEFINE k == [s \in SUBSET T |-> h[s]]
<1>1. ASSUME NEW s \in SUBSET T
      PROVE  k[s] = IF s = {} THEN 0 ELSE f[ChosenOf(s)] + k[s \ {ChosenOf(s)}]
  <2>1. h[s] = IF s = {} THEN 0 ELSE f[ChosenOf(s)] + h[s \ {ChosenOf(s)}]
      BY DEF IsSums
  <2>2. k[s] = h[s] /\ k[s \ {ChosenOf(s)}] = h[s \ {ChosenOf(s)}]
      OBVIOUS
  <2> QED BY <2>1, <2>2
<1>2. k = [s \in SUBSET T |-> k[s]]
    OBVIOUS
<1> QED BY <1>1, <1>2 DEF IsSums

\* Every finite set has one.
LEMMA SumsExist ==
    ASSUME NEW f, NEW S, IsFiniteSet(S)
    PROVE  \E h : IsSums(f, h, S)
<1> DEFINE Good == {T \in SUBSET S : \E h : IsSums(f, h, T)}
           V(T) == (CHOOSE h : IsSums(f, h, T))[T]
<1>1. ASSUME NEW T \in SUBSET S, \A x \in T : T \ {x} \in Good
      PROVE  T \in Good
  <2> DEFINE Next(s) == IF s = {} THEN 0 ELSE f[ChosenOf(s)] + V(s \ {ChosenOf(s)})
             g == [s \in SUBSET T |-> IF s = T THEN Next(T) ELSE V(s)]
  <2>1. IsFiniteSet(T)
      BY FS_Subset
  <2>2. ASSUME NEW s \in SUBSET T, s # T
        PROVE  V(s) = Next(s)
    <3>1. PICK x \in T : x \notin s
        BY <2>2
    <3>2. PICK h : IsSums(f, h, T \ {x})
        BY <1>1
    <3>3. s \in SUBSET (T \ {x}) /\ IsFiniteSet(s)
        BY <2>1, <3>1, FS_Subset
    <3>4. ASSUME NEW t \in SUBSET s PROVE V(t) = h[t]
      <4>0. t \in SUBSET (T \ {x})
          BY <3>3
      <4>1. IsSums(f, [u \in SUBSET t |-> h[u]], t)
        <5>1. PICK D : D = T \ {x}
            OBVIOUS
        <5>2. t \in SUBSET D /\ IsSums(f, h, D)
            BY <3>2, <4>0, <5>1
        <5> QED BY <5>2, SumsRestrict
      <4>2. IsSums(f, CHOOSE k : IsSums(f, k, t), t)
          BY <4>1
      <4>3. IsFiniteSet(t) /\ t \in SUBSET (t \cap (T \ {x}))
          BY <3>3, FS_Subset
      <4> QED BY <3>2, <4>2, <4>3, SumsUnique
    <3>5. h[s] = IF s = {} THEN 0 ELSE f[ChosenOf(s)] + h[s \ {ChosenOf(s)}]
        BY <3>2, <3>3 DEF IsSums
    <3>6. V(s) = h[s] /\ V(s \ {ChosenOf(s)}) = h[s \ {ChosenOf(s)}]
        BY <3>4
    <3> HIDE DEF V
    <3> QED BY <3>5, <3>6
  <2>3. ASSUME NEW s \in SUBSET T
        PROVE  g[s] = IF s = {} THEN 0 ELSE f[ChosenOf(s)] + g[s \ {ChosenOf(s)}]
    <3> HIDE DEF V
    <3>1. g[s] = Next(s)
        BY <2>2
    <3>2. CASE s = {}
        BY <3>1, <3>2
    <3>3. CASE s # {}
      <4>1. ChosenOf(s) \in s
          BY <3>3 DEF ChosenOf
      <4>2. s \ {ChosenOf(s)} # T /\ s \ {ChosenOf(s)} \in SUBSET T
          BY <4>1
      <4>3. g[s \ {ChosenOf(s)}] = V(s \ {ChosenOf(s)})
          BY <4>2
      <4> QED BY <3>1, <3>3, <4>3
    <3> QED BY <3>2, <3>3
  <2>4. g = [s \in SUBSET T |-> g[s]]
      OBVIOUS
  <2>5. IsSums(f, g, T)
    <3> HIDE DEF g
    <3> QED BY <2>3, <2>4 DEF IsSums
  <2> QED BY <2>5
<1>2. S \in Good
  <2> HIDE DEF Good
  <2> QED BY <1>1, FiniteInduction
<1> QED BY <1>2

\* The sum is the value of any such function.
LEMMA SumIs ==
    ASSUME NEW f, NEW S, IsFiniteSet(S), NEW T, NEW h, IsSums(f, h, T), S \in SUBSET T
    PROVE  SumFunctionOnSet(f, S) = h[S]
<1> DEFINE Def(k) == k = [s \in SUBSET S |-> IF s = {} THEN 0 ELSE f[ChosenOf(s)] + k[s \ {ChosenOf(s)}]]
           g == CHOOSE k : Def(k)
<1>1. PICK k : IsSums(f, k, S)
    BY SumsExist
<1>2. Def(k)
    BY <1>1 DEF IsSums
<1>3. Def(g)
    BY <1>2
<1>4. IsSums(f, g, S)
  <2> HIDE DEF g
  <2> QED BY <1>3 DEF IsSums
<1>5. SumFunctionOnSet(f, S) = g[S]
    BY SumIsChosen
<1>6. S \in SUBSET (S \cap T)
    OBVIOUS
<1> HIDE DEF g
<1> QED BY <1>4, <1>5, <1>6, SumsUnique

-----------------------------------------------------------------------------
(* Sums.                                                                   *)

\* Nothing adds up to zero.
LEMMA SumEmpty ==
    ASSUME NEW f
    PROVE  SumFunctionOnSet(f, {}) = 0
<1>1. PICK h : IsSums(f, h, {})
    BY SumsExist, FS_EmptySet
<1>2. h[{}] = 0
    BY <1>1 DEF IsSums
<1> QED BY <1>1, <1>2, SumIs, FS_EmptySet

\* A sum of integers is an integer.
LEMMA SumInt ==
    ASSUME NEW S, IsFiniteSet(S), NEW f, \A x \in S : f[x] \in Int
    PROVE  SumFunctionOnSet(f, S) \in Int
<1> DEFINE Good == {T \in SUBSET S : SumFunctionOnSet(f, T) \in Int}
<1>1. PICK h : IsSums(f, h, S)
    BY SumsExist
<1>2. ASSUME NEW T \in SUBSET S PROVE SumFunctionOnSet(f, T) = h[T]
    BY <1>1, SumIs, FS_Subset
<1>3. ASSUME NEW T \in SUBSET S, \A x \in T : T \ {x} \in Good
      PROVE  T \in Good
  <2>1. CASE T = {}
      BY <2>1, SumEmpty
  <2>2. CASE T # {}
    <3>1. ChosenOf(T) \in T
        BY <2>2 DEF ChosenOf
    <3>2. h[T] = f[ChosenOf(T)] + h[T \ {ChosenOf(T)}]
        BY <1>1, <2>2 DEF IsSums
    <3>3. h[T \ {ChosenOf(T)}] \in Int
        BY <1>2, <1>3, <3>1
    <3> QED BY <1>2, <3>1, <3>2, <3>3
  <2> QED BY <2>1, <2>2
<1>4. S \in Good
  <2> HIDE DEF Good
  <2> QED BY <1>3, FiniteInduction
<1> QED BY <1>4

\* Any element may be taken out of a sum.
LEMMA SumStep ==
    ASSUME NEW S, IsFiniteSet(S), NEW f, \A x \in S : f[x] \in Int, NEW x \in S
    PROVE  SumFunctionOnSet(f, S) = f[x] + SumFunctionOnSet(f, S \ {x})
<1> DEFINE Sum(U) == SumFunctionOnSet(f, U)
           Good == {T \in SUBSET S : \A y \in T : Sum(T) = f[y] + Sum(T \ {y})}
<1>1. PICK h : IsSums(f, h, S)
    BY SumsExist
<1>2. ASSUME NEW T \in SUBSET S PROVE Sum(T) = h[T]
    BY <1>1, SumIs, FS_Subset
<1>3. ASSUME NEW T \in SUBSET S, \A y \in T : T \ {y} \in Good
      PROVE  T \in Good
  <2> SUFFICES ASSUME NEW y \in T PROVE Sum(T) = f[y] + Sum(T \ {y})
      OBVIOUS
  <2> DEFINE c == ChosenOf(T)
  <2>1. c \in T
      BY DEF ChosenOf
  <2>2. Sum(T) = f[c] + Sum(T \ {c})
    <3>1. h[T] = f[c] + h[T \ {c}]
        BY <1>1 DEF IsSums
    <3> QED BY <1>2, <3>1
  <2>3. CASE y = c
      BY <2>2, <2>3
  <2>4. CASE y # c
    <3> DEFINE rest == (T \ {c}) \ {y}
    <3>1. Sum(T \ {c}) = f[y] + Sum(rest)
        BY <1>3, <2>1, <2>4
    <3>2. Sum(T \ {y}) = f[c] + Sum(rest)
      <4>1. (T \ {y}) \ {c} = rest
          OBVIOUS
      <4>2. Sum(T \ {y}) = f[c] + Sum((T \ {y}) \ {c})
          BY <1>3, <2>1, <2>4
      <4> QED BY <4>1, <4>2
    <3>3. PICK r : r = Sum(rest)
        OBVIOUS
    <3>4. r \in Int /\ f[c] \in Int /\ f[y] \in Int
        BY <2>1, <3>3, SumInt, FS_Subset
    <3>5. Sum(T) = f[c] + (f[y] + r) /\ Sum(T \ {y}) = f[c] + r
        BY <2>2, <3>1, <3>2, <3>3
    <3>6. f[c] + (f[y] + r) = f[y] + (f[c] + r)
      <4> HIDE DEF c, rest, Sum
      <4> QED BY <3>4
    <3> QED BY <3>5, <3>6
  <2> QED BY <2>3, <2>4
<1>4. S \in Good
  <2> HIDE DEF Good
  <2> QED BY <1>3, FiniteInduction
<1> QED BY <1>4

\* A sum of natural numbers is one.
LEMMA SumNat ==
    ASSUME NEW S, IsFiniteSet(S), NEW f, \A x \in S : f[x] \in Nat
    PROVE  SumFunctionOnSet(f, S) \in Nat
<1> DEFINE Good == {T \in SUBSET S : SumFunctionOnSet(f, T) \in Nat}
<1>1. ASSUME NEW T \in SUBSET S, \A x \in T : T \ {x} \in Good
      PROVE  T \in Good
  <2>1. CASE T = {}
      BY <2>1, SumEmpty
  <2>2. ASSUME NEW x \in T PROVE SumFunctionOnSet(f, T) \in Nat
    <3>0. IsFiniteSet(T) /\ \A y \in T : f[y] \in Int
        BY FS_Subset
    <3>1. SumFunctionOnSet(f, T) = f[x] + SumFunctionOnSet(f, T \ {x})
        BY <3>0, SumStep
    <3> QED BY <1>1, <3>1
  <2> QED BY <2>1, <2>2
<1>2. S \in Good
  <2> HIDE DEF Good
  <2> QED BY <1>1, FiniteInduction
<1> QED BY <1>2

\* A sum takes what it is given, whatever function names it.
LEMMA SumSame ==
    ASSUME NEW S, IsFiniteSet(S), NEW f, NEW g, \A x \in S : f[x] \in Int /\ f[x] = g[x]
    PROVE  SumFunctionOnSet(f, S) = SumFunctionOnSet(g, S)
<1> DEFINE Good == {T \in SUBSET S : SumFunctionOnSet(f, T) = SumFunctionOnSet(g, T)}
<1>1. ASSUME NEW T \in SUBSET S, \A x \in T : T \ {x} \in Good
      PROVE  T \in Good
  <2>1. CASE T = {}
      BY <2>1, SumEmpty
  <2>2. ASSUME NEW x \in T PROVE SumFunctionOnSet(f, T) = SumFunctionOnSet(g, T)
    <3>1. SumFunctionOnSet(f, T) = f[x] + SumFunctionOnSet(f, T \ {x})
        BY SumStep, FS_Subset
    <3>2. SumFunctionOnSet(g, T) = g[x] + SumFunctionOnSet(g, T \ {x})
        BY SumStep, FS_Subset
    <3> QED BY <1>1, <3>1, <3>2
  <2> QED BY <2>1, <2>2
<1>2. S \in Good
  <2> HIDE DEF Good
  <2> QED BY <1>1, FiniteInduction
<1> QED BY <1>2

\* What is added to a set is added to its sum.
LEMMA SumInsert ==
    ASSUME NEW S, IsFiniteSet(S), NEW f, NEW a, a \notin S, f[a] \in Int, \A x \in S : f[x] \in Int
    PROVE  SumFunctionOnSet(f, S \cup {a}) = SumFunctionOnSet(f, S) + f[a]
<1>1. IsFiniteSet(S \cup {a}) /\ \A x \in S \cup {a} : f[x] \in Int
    BY FS_AddElement
<1>2. (S \cup {a}) \ {a} = S
    OBVIOUS
<1>3. SumFunctionOnSet(f, S \cup {a}) = f[a] + SumFunctionOnSet(f, (S \cup {a}) \ {a})
    BY <1>1, SumStep
<1>4. SumFunctionOnSet(f, (S \cup {a}) \ {a}) = SumFunctionOnSet(f, S)
    BY <1>2, Zenon
<1>5. SumFunctionOnSet(f, S) \in Int
    BY SumInt
<1> QED BY <1>3, <1>4, <1>5

\* The sum over two sets that share nothing is the sum of their sums.
LEMMA SumUnion ==
    ASSUME NEW S, IsFiniteSet(S), NEW R, IsFiniteSet(R), S \cap R = {},
           NEW f, \A x \in S \cup R : f[x] \in Int
    PROVE  SumFunctionOnSet(f, S \cup R) = SumFunctionOnSet(f, S) + SumFunctionOnSet(f, R)
<1> DEFINE Sum(T) == SumFunctionOnSet(f, T)
           Good == {T \in SUBSET R : Sum(S \cup T) = Sum(S) + Sum(T)}
<1>1. ASSUME NEW T \in SUBSET R, \A x \in T : T \ {x} \in Good
      PROVE  T \in Good
  <2>1. CASE T = {}
    <3>1. S \cup T = S
        BY <2>1
    <3>2. Sum(S \cup T) = Sum(S)
        BY <3>1, Zenon
    <3>3. Sum(T) = 0 /\ Sum(S) \in Int
        BY <2>1, SumEmpty, SumInt
    <3> QED BY <3>2, <3>3
  <2>2. ASSUME NEW x \in T PROVE Sum(S \cup T) = Sum(S) + Sum(T)
    <3>1. IsFiniteSet(T) /\ IsFiniteSet(T \ {x}) /\ IsFiniteSet(S \cup T)
        BY FS_Subset, FS_Union
    <3>2. Sum(S \cup T) = f[x] + Sum((S \cup T) \ {x})
        BY <3>1, SumStep
    <3>3. (S \cup T) \ {x} = S \cup (T \ {x})
        OBVIOUS
    <3>4. Sum(S \cup (T \ {x})) = Sum(S) + Sum(T \ {x})
        BY <1>1
    <3>5. Sum(T) = f[x] + Sum(T \ {x})
        BY <3>1, SumStep
    <3>6. PICK a, b : a = Sum(S) /\ b = Sum(T \ {x})
        OBVIOUS
    <3>7. a \in Int /\ b \in Int /\ f[x] \in Int
        BY <3>1, <3>6, SumInt
    <3>8. Sum(S \cup T) = f[x] + (a + b) /\ Sum(S) + Sum(T) = a + (f[x] + b)
        BY <3>2, <3>3, <3>4, <3>5, <3>6
    <3>9. f[x] + (a + b) = a + (f[x] + b)
        BY <3>7
    <3> QED BY <3>8, <3>9
  <2> QED BY <2>1, <2>2
<1>2. R \in Good
  <2> HIDE DEF Good
  <2> QED BY <1>1, FiniteInduction
<1> QED BY <1>2

\* More natural numbers add up to no less.
LEMMA SumSubset ==
    ASSUME NEW S, IsFiniteSet(S), NEW T \in SUBSET S, NEW f, \A x \in S : f[x] \in Nat
    PROVE  SumFunctionOnSet(f, T) <= SumFunctionOnSet(f, S)
<1>1. IsFiniteSet(T) /\ IsFiniteSet(S \ T) /\ T \cap (S \ T) = {} /\ S = T \cup (S \ T)
    BY FS_Subset
<1>2. \A x \in T \cup (S \ T) : f[x] \in Int
    OBVIOUS
<1>3. SumFunctionOnSet(f, T \cup (S \ T)) = SumFunctionOnSet(f, T) + SumFunctionOnSet(f, S \ T)
    BY <1>1, <1>2, SumUnion
<1>4. SumFunctionOnSet(f, T) \in Nat /\ SumFunctionOnSet(f, S \ T) \in Nat
    BY <1>1, SumNat
<1>5. SumFunctionOnSet(f, T \cup (S \ T)) = SumFunctionOnSet(f, S)
    BY <1>1, Zenon
<1> QED BY <1>3, <1>4, <1>5

\* A sum may be taken over other names of the same things.
LEMMA SumRenamed ==
    ASSUME NEW S, IsFiniteSet(S), NEW h, NEW f, NEW g,
           \A x \in S : f[x] \in Int /\ g[h[x]] = f[x],
           \A x, y \in S : h[x] = h[y] => x = y
    PROVE  SumFunctionOnSet(g, {h[x] : x \in S}) = SumFunctionOnSet(f, S)
<1> DEFINE Image(T) == {h[x] : x \in T}
           Good == {T \in SUBSET S : SumFunctionOnSet(g, Image(T)) = SumFunctionOnSet(f, T)}
<1>1. ASSUME NEW T \in SUBSET S, \A x \in T : T \ {x} \in Good
      PROVE  T \in Good
  <2>1. CASE T = {}
    <3>1. Image(T) = {}
        BY <2>1
    <3> QED BY <2>1, <3>1, SumEmpty
  <2>2. ASSUME NEW x \in T PROVE SumFunctionOnSet(g, Image(T)) = SumFunctionOnSet(f, T)
    <3>1. IsFiniteSet(T) /\ IsFiniteSet(T \ {x})
        BY FS_Subset
    <3>2. IsFiniteSet(Image(T \ {x}))
        BY <3>1, FiniteImage
    <3>3. /\ Image(T) = Image(T \ {x}) \cup {h[x]}
          /\ h[x] \notin Image(T \ {x})
      <4>1. Image(T) = Image(T \ {x}) \cup {h[x]}
          OBVIOUS
      <4>2. h[x] \notin Image(T \ {x})
          OBVIOUS
      <4> QED BY <4>1, <4>2
    <3>4. g[h[x]] \in Int /\ \A y \in Image(T \ {x}) : g[y] \in Int
        OBVIOUS
    <3>5. SumFunctionOnSet(g, Image(T \ {x}) \cup {h[x]}) = SumFunctionOnSet(g, Image(T \ {x})) + g[h[x]]
      <4>1. PICK old, a : old = Image(T \ {x}) /\ a = h[x]
          OBVIOUS
      <4>2. IsFiniteSet(old) /\ a \notin old /\ g[a] \in Int /\ \A y \in old : g[y] \in Int
          BY <3>2, <3>3, <3>4, <4>1, Zenon
      <4>3. SumFunctionOnSet(g, old \cup {a}) = SumFunctionOnSet(g, old) + g[a]
          BY <4>2, SumInsert
      <4> QED BY <4>1, <4>3, Zenon
    <3>6. SumFunctionOnSet(f, T) = f[x] + SumFunctionOnSet(f, T \ {x})
        BY <3>1, SumStep
    <3>7. SumFunctionOnSet(g, Image(T \ {x})) = SumFunctionOnSet(f, T \ {x})
        BY <1>1
    <3>8. SumFunctionOnSet(f, T \ {x}) \in Int /\ f[x] \in Int /\ g[h[x]] = f[x]
        BY <3>1, SumInt
    <3> HIDE DEF Image
    <3> QED BY <3>3, <3>5, <3>6, <3>7, <3>8
  <2> QED BY <2>1, <2>2
<1>2. S \in Good
  <2> HIDE DEF Good
  <2> QED BY <1>1, FiniteInduction
<1> QED BY <1>2

\* Ones add up to the number of elements.
LEMMA SumOfOnes ==
    ASSUME NEW S, IsFiniteSet(S), NEW f, \A x \in S : f[x] = 1
    PROVE  SumFunctionOnSet(f, S) = Cardinality(S)
<1> DEFINE Good == {T \in SUBSET S : SumFunctionOnSet(f, T) = Cardinality(T)}
<1>1. ASSUME NEW T \in SUBSET S, \A x \in T : T \ {x} \in Good
      PROVE  T \in Good
  <2>1. CASE T = {}
      BY <2>1, SumEmpty, FS_EmptySet
  <2>2. ASSUME NEW x \in T PROVE SumFunctionOnSet(f, T) = Cardinality(T)
    <3>1. IsFiniteSet(T) /\ IsFiniteSet(T \ {x})
        BY FS_Subset
    <3>2. SumFunctionOnSet(f, T) = f[x] + SumFunctionOnSet(f, T \ {x})
        BY <3>1, SumStep
    <3>3. Cardinality(T \ {x}) = Cardinality(T) - 1 /\ Cardinality(T) \in Nat
        BY <3>1, FS_RemoveElement, FS_CardinalityType
    <3> QED BY <1>1, <3>2, <3>3
  <2> QED BY <2>1, <2>2
<1>2. S \in Good
  <2> HIDE DEF Good
  <2> QED BY <1>1, FiniteInduction
<1> QED BY <1>2

\* A sum may be taken group by group.
LEMMA SumByGroup ==
    ASSUME NEW S, IsFiniteSet(S), NEW f, \A x \in S : f[x] \in Int,
           NEW k, NEW D, IsFiniteSet(D),
           NEW P, \A d \in D : P[d] \in SUBSET S /\ \A x \in S : x \in P[d] <=> k[x] = d,
           NEW g, \A d \in D : g[d] = SumFunctionOnSet(f, P[d]),
           NEW U \in SUBSET S, \A x \in S : x \in U <=> k[x] \in D
    PROVE  SumFunctionOnSet(f, U) = SumFunctionOnSet(g, D)
<1> DEFINE In(E) == {x \in S : k[x] \in E}
           Of(d) == P[d]
           Good == {E \in SUBSET D : SumFunctionOnSet(f, In(E)) = SumFunctionOnSet(g, E)}
<1>0. ASSUME NEW d \in D PROVE g[d] \in Int
  <2>1. IsFiniteSet(P[d]) /\ \A x \in P[d] : f[x] \in Int
      BY FS_Subset
  <2>2. SumFunctionOnSet(f, P[d]) \in Int
      BY <2>1, SumInt
  <2> QED BY <2>2
<1>1. ASSUME NEW E \in SUBSET D, \A d \in E : E \ {d} \in Good
      PROVE  E \in Good
  <2>1. CASE E = {}
    <3>1. In(E) = {}
        BY <2>1
    <3> QED BY <2>1, <3>1, SumEmpty
  <2>2. ASSUME NEW d \in E PROVE SumFunctionOnSet(f, In(E)) = SumFunctionOnSet(g, E)
    <3>1. IsFiniteSet(E) /\ IsFiniteSet(E \ {d}) /\ IsFiniteSet(In(E \ {d})) /\ IsFiniteSet(Of(d))
        BY FS_Subset
    <3>2. In(E) = In(E \ {d}) \cup Of(d) /\ In(E \ {d}) \cap Of(d) = {} /\ In(E) \subseteq S
        OBVIOUS
    <3>3. \A x \in In(E \ {d}) \cup Of(d) : f[x] \in Int
        OBVIOUS
    <3>4. SumFunctionOnSet(f, In(E \ {d}) \cup Of(d)) = SumFunctionOnSet(f, In(E \ {d})) + SumFunctionOnSet(f, Of(d))
      <4>1. PICK a, b : a = In(E \ {d}) /\ b = Of(d)
          OBVIOUS
      <4> HIDE DEF In, Of
      <4>2. SumFunctionOnSet(f, a \cup b) = SumFunctionOnSet(f, a) + SumFunctionOnSet(f, b)
        <5>1. IsFiniteSet(a) /\ IsFiniteSet(b) /\ a \cap b = {}
            BY <3>1, <3>2, <4>1, Zenon
        <5>2. \A x \in a \cup b : f[x] \in Int
            BY <3>3, <4>1, Zenon
        <5> QED BY <5>1, <5>2, SumUnion
      <4> QED BY <4>1, <4>2
    <3>5. SumFunctionOnSet(g, E) = g[d] + SumFunctionOnSet(g, E \ {d})
        BY <1>0, <3>1, SumStep
    <3>6. SumFunctionOnSet(f, In(E \ {d})) = SumFunctionOnSet(g, E \ {d})
        BY <1>1
    <3>7. SumFunctionOnSet(f, Of(d)) = g[d] /\ g[d] \in Int
        BY <1>0
    <3>8. SumFunctionOnSet(g, E \ {d}) \in Int
        BY <1>0, <3>1, SumInt
    <3> HIDE DEF In, Of
    <3>9. SumFunctionOnSet(f, In(E)) = SumFunctionOnSet(g, E \ {d}) + g[d]
        BY <3>2, <3>4, <3>6, <3>7, Zenon
    <3> QED BY <3>5, <3>7, <3>8, <3>9
  <2> QED BY <2>1, <2>2
<1>2. D \in Good
  <2> HIDE DEF Good
  <2> QED BY <1>1, FiniteInduction
<1>3. U = In(D)
    OBVIOUS
<1> QED BY <1>2, <1>3

\* Other names of the same things are as many.
LEMMA RenamedCount ==
    ASSUME NEW S, IsFiniteSet(S), NEW h, \A x, y \in S : h[x] = h[y] => x = y
    PROVE  IsFiniteSet({h[x] : x \in S}) /\ Cardinality({h[x] : x \in S}) = Cardinality(S)
<1> DEFINE T == {h[x] : x \in S}
           g == [x \in S |-> h[x]]
<1>1. g \in Surjection(S, T) /\ g \in Injection(S, T)
    BY DEF Surjection, Injection, IsInjective
<1> HIDE DEF T, g
<1>2. IsFiniteSet(T) /\ Cardinality(T) = Cardinality(S)
    BY <1>1, FS_Surjection
<1> QED BY <1>2 DEF T

\* The sizes of parts add up to no less than the size of the whole, and to
\* just that when no two of them overlap.
LEMMA SumOfParts ==
    ASSUME NEW P, IsFiniteSet(P), NEW part, \A p \in P : IsFiniteSet(part[p]),
           NEW f, \A p \in P : f[p] = Cardinality(part[p])
    PROVE  LET U == UNION {part[p] : p \in P}
           IN  /\ IsFiniteSet(U) /\ Cardinality(U) <= SumFunctionOnSet(f, P)
               /\ (\A p, r \in P : p # r => part[p] \cap part[r] = {}) => Cardinality(U) = SumFunctionOnSet(f, P)
<1> DEFINE In(E) == UNION {part[p] : p \in E}
           Apart == \A p, r \in P : p # r => part[p] \cap part[r] = {}
           Good == {E \in SUBSET P : /\ IsFiniteSet(In(E)) /\ Cardinality(In(E)) <= SumFunctionOnSet(f, E)
                                     /\ Apart => Cardinality(In(E)) = SumFunctionOnSet(f, E)}
<1>0. \A p \in P : f[p] \in Nat
    BY FS_CardinalityType
<1>1. ASSUME NEW E \in SUBSET P, \A p \in E : E \ {p} \in Good
      PROVE  E \in Good
  <2>1. CASE E = {}
    <3>1. In(E) = {}
        BY <2>1
    <3>2. IsFiniteSet({}) /\ Cardinality({}) = 0 /\ SumFunctionOnSet(f, E) = 0
        BY <2>1, SumEmpty, FS_EmptySet
    <3> HIDE DEF In
    <3> QED BY <3>1, <3>2
  <2>2. ASSUME NEW p \in E PROVE E \in Good
    <3>1. IsFiniteSet(E) /\ IsFiniteSet(E \ {p}) /\ E \ {p} \in SUBSET P
        BY FS_Subset
    <3>2. PICK A, B : A = In(E \ {p}) /\ B = part[p]
        OBVIOUS
    <3>3. In(E) = A \cup B
        BY <3>2
    <3>4. IsFiniteSet(A) /\ IsFiniteSet(B) /\ Cardinality(A) <= SumFunctionOnSet(f, E \ {p}) /\ f[p] = Cardinality(B)
        BY <1>1, <3>2
    <3>5. Apart => Cardinality(A) = SumFunctionOnSet(f, E \ {p})
        BY <1>1, <3>2
    <3>6. Apart => A \cap B = {}
        BY <3>2
    <3>7. SumFunctionOnSet(f, E) = f[p] + SumFunctionOnSet(f, E \ {p}) /\ SumFunctionOnSet(f, E \ {p}) \in Int
        BY <1>0, <3>1, SumStep, SumInt
    <3> HIDE DEF In, Apart
    <3>8. /\ IsFiniteSet(A \cup B) /\ IsFiniteSet(A \cap B)
          /\ Cardinality(A \cup B) = Cardinality(A) + Cardinality(B) - Cardinality(A \cap B)
        BY <3>4, FS_Union, FS_Subset
    <3>9. Cardinality(A) \in Nat /\ Cardinality(B) \in Nat /\ Cardinality(A \cap B) \in Nat
        BY <3>4, <3>8, FS_CardinalityType
    <3>10. A \cap B = {} => Cardinality(A \cap B) = 0
        BY FS_EmptySet
    <3>11. Cardinality(A \cup B) <= SumFunctionOnSet(f, E)
        BY <3>4, <3>7, <3>8, <3>9
    <3>12. Apart => Cardinality(A \cup B) = SumFunctionOnSet(f, E)
        BY <3>4, <3>5, <3>6, <3>7, <3>8, <3>9, <3>10
    <3> QED BY <3>3, <3>8, <3>11, <3>12
  <2> QED BY <2>1, <2>2
<1>2. P \in Good
  <2> HIDE DEF Good
  <2> QED BY <1>1, FiniteInduction
<1> QED BY <1>2
=============================================================================
