------------------------- MODULE FiniteSums_proofs -------------------------
(***************************************************************************)
(* Facts about SumFunctionOnSet for every finite set: what the ledgers of  *)
(* loans, treasury days and headroom add up.                               *)
(*                                                                         *)
(* The library's induction theorems take a predicate as a parameter, which *)
(* the provers cannot instantiate.  So induction is stated here over sets: *)
(* a set Good that contains T whenever it contains T without any one       *)
(* element contains every finite set.  It follows from a least cardinality *)
(* of what is not Good.                                                    *)
(***************************************************************************)
EXTENDS FiniteSetsExt, FiniteSetTheorems, WellFoundedInduction, TLAPS

-----------------------------------------------------------------------------

(* A set of natural numbers has a least one.                               *)
LEMMA LeastNumber ==
    ASSUME NEW T, T \subseteq Nat, T # {}
    PROVE  \E n \in T : \A m \in T : n <= m
<1> DEFINE Less == {ss \in Nat \X Nat : ss[1] < ss[2]}
<1>1. IsWellFoundedOn(Less, Nat)
  BY NatLessThanWellFounded DEF OpToRel
<1>2. \A m, n \in Nat : m < n => <<m, n>> \in Less
  OBVIOUS
<1> HIDE DEF Less
<1>3. PICK n \in T : \A m \in T : ~(<<m, n>> \in Less)
  BY <1>1, WFMin
<1>4. \A m \in T : ~(m < n)
  BY <1>2, <1>3
<1> QED BY <1>4

(* Induction over the subsets of a finite set.                             *)
LEMMA SubsetInduction ==
    ASSUME NEW S, IsFiniteSet(S), NEW Good,
           \A T \in SUBSET S : (\A x \in T : T \ {x} \in Good) => T \in Good
    PROVE  \A T \in SUBSET S : T \in Good
<1> DEFINE Bad == {T \in SUBSET S : T \notin Good}
           Sizes == {Cardinality(T) : T \in Bad}
<1>1. SUFFICES ASSUME Bad # {} PROVE FALSE
  OBVIOUS
<1>2. \A T \in SUBSET S : IsFiniteSet(T) /\ Cardinality(T) \in Nat
  BY FS_Subset, FS_CardinalityType
<1>3. PICK T \in Bad : \A U \in Bad : Cardinality(T) <= Cardinality(U)
  <2>1. Sizes \subseteq Nat /\ Sizes # {}
    BY <1>1, <1>2
  <2> HIDE DEF Sizes
  <2>2. PICK n \in Sizes : \A m \in Sizes : n <= m
    BY <2>1, LeastNumber
  <2> QED BY <2>2 DEF Sizes
<1>4. ASSUME NEW x \in T PROVE T \ {x} \in Good
  <2>1. T \in SUBSET S /\ IsFiniteSet(T)
    BY <1>2
  <2>2. Cardinality(T \ {x}) = Cardinality(T) - 1
    BY <2>1, FS_RemoveElement
  <2>3. T \ {x} \in SUBSET S
    BY <2>1
  <2>4. ~(Cardinality(T) <= Cardinality(T \ {x}))
    BY <1>2, <2>1, <2>2
  <2> QED BY <1>3, <2>3, <2>4
<1> QED BY <1>4

-----------------------------------------------------------------------------
(* The functions that satisfy the equation of the sum on the subsets of S: *)
(* they exist, agree, and SumFunctionOnSet is the value of one of them.    *)
Picking(T) == CHOOSE x \in T : TRUE

SumStep(f, h, T) == IF T = {} THEN 0 ELSE f[Picking(T)] + h[T \ {Picking(T)}]

SumFunctions(f, S) == {h \in [SUBSET S -> Int] : \A T \in SUBSET S : h[T] = SumStep(f, h, T)}

LEMMA Picked == ASSUME NEW T, T # {} PROVE Picking(T) \in T
BY DEF Picking

(* On what they share, two such functions agree.                           *)
LEMMA SumsAgree ==
    ASSUME NEW A, NEW B, IsFiniteSet(A), NEW f, NEW g \in SumFunctions(f, A), NEW h \in SumFunctions(f, B)
    PROVE  \A T \in SUBSET (A \cap B) : g[T] = h[T]
<1> DEFINE Good == {T \in SUBSET (A \cap B) : g[T] = h[T]}
<1>1. IsFiniteSet(A \cap B)
  BY FS_Subset
<1>2. ASSUME NEW T \in SUBSET (A \cap B), \A x \in T : T \ {x} \in Good
      PROVE  T \in Good
  <2>1. T \in SUBSET A /\ T \in SUBSET B
    OBVIOUS
  <2>2. g[T] = SumStep(f, g, T) /\ h[T] = SumStep(f, h, T)
    BY <2>1 DEF SumFunctions
  <2>3. T # {} => g[T \ {Picking(T)}] = h[T \ {Picking(T)}]
    BY <1>2, Picked
  <2>4. g[T] = h[T]
    BY <2>2, <2>3 DEF SumStep
  <2> QED BY <2>4
<1> HIDE DEF Good
<1>3. \A T \in SUBSET (A \cap B) : T \in Good
  BY <1>1, <1>2, SubsetInduction
<1> QED BY <1>3 DEF Good

LEMMA SumsIntro ==
    ASSUME NEW S, NEW f, NEW h \in [SUBSET S -> Int],
           \A T \in SUBSET S : h[T] = SumStep(f, h, T)
    PROVE  h \in SumFunctions(f, S)
BY DEF SumFunctions

LEMMA SumsRestrict ==
    ASSUME NEW S, NEW f, NEW h \in SumFunctions(f, S), NEW T \in SUBSET S
    PROVE  [U \in SUBSET T |-> h[U]] \in SumFunctions(f, T)
<1> DEFINE k == [U \in SUBSET T |-> h[U]]
<1>1. k \in [SUBSET T -> Int]
  BY DEF SumFunctions
<1>2. ASSUME NEW U \in SUBSET T PROVE k[U] = SumStep(f, k, U)
  <2>1. h[U] = SumStep(f, h, U)
    BY DEF SumFunctions
  <2>2. U \ {Picking(U)} \in SUBSET T
    OBVIOUS
  <2> QED BY <2>1, <2>2 DEF SumStep
<1> HIDE DEF k
<1>3. k \in SumFunctions(f, T)
  BY <1>1, <1>2, SumsIntro
<1> QED BY <1>3 DEF k

SomeSumFunction(f, T) == CHOOSE h \in SumFunctions(f, T) : TRUE
SumValue(f, T) ==
    IF T = {} THEN 0 ELSE f[Picking(T)] + SomeSumFunction(f, T \ {Picking(T)})[T \ {Picking(T)}]

LEMMA SomeIsSums ==
    ASSUME NEW T, NEW f, SumFunctions(f, T) # {}
    PROVE  SomeSumFunction(f, T) \in SumFunctions(f, T)
BY DEF SomeSumFunction

LEMMA SumsValue ==
    ASSUME NEW T, IsFiniteSet(T), NEW f, SumFunctions(f, T) # {}
    PROVE  /\ SomeSumFunction(f, T)[T] \in Int
           /\ SomeSumFunction(f, T)[T] = SumValue(f, T)
<1>1. SomeSumFunction(f, T) \in SumFunctions(f, T)
  BY SomeIsSums
<1>2. SomeSumFunction(f, T)[T] \in Int /\ SomeSumFunction(f, T)[T] = SumStep(f, SomeSumFunction(f, T), T)
  BY <1>1 DEF SumFunctions
<1>3. ASSUME T # {}
      PROVE  SomeSumFunction(f, T)[T \ {Picking(T)}] = SomeSumFunction(f, T \ {Picking(T)})[T \ {Picking(T)}]
  <2> DEFINE U == T \ {Picking(T)}
  <2>1. U \in SUBSET T /\ U \in SUBSET (T \cap U)
    OBVIOUS
  <2> HIDE DEF U
  <2>2. SumFunctions(f, U) # {}
    BY <1>1, <2>1, SumsRestrict
  <2>3. SomeSumFunction(f, U) \in SumFunctions(f, U)
    BY <2>2, SomeIsSums
  <2>4. SomeSumFunction(f, T)[U] = SomeSumFunction(f, U)[U]
    BY <1>1, <2>1, <2>3, SumsAgree
  <2> QED BY <2>4 DEF U
<1> QED BY <1>2, <1>3 DEF SumStep, SumValue

(* There is one for every finite set, built on smaller sets.               *)
LEMMA SumsExist ==
    ASSUME NEW S, IsFiniteSet(S), NEW f, \A x \in S : f[x] \in Int
    PROVE  SumFunctions(f, S) # {}
<1> DEFINE Good == {T \in SUBSET S : SumFunctions(f, T) # {}}
<1>1. ASSUME NEW T \in SUBSET S, \A x \in T : T \ {x} \in Good
      PROVE  T \in Good
  <2> DEFINE h == [U \in SUBSET T |-> SumValue(f, U)]
  <2>1. ASSUME NEW U \in SUBSET T, U # T
        PROVE  SomeSumFunction(f, U)[U] \in Int /\ SomeSumFunction(f, U)[U] = SumValue(f, U)
    <3>1. PICK x \in T : x \notin U
      BY <2>1
    <3>2. SumFunctions(f, T \ {x}) # {} /\ U \in SUBSET (T \ {x})
      BY <1>1, <3>1
    <3>3. SumFunctions(f, U) # {}
      BY <3>2, SumsRestrict
    <3>4. IsFiniteSet(U)
      BY FS_Subset
    <3> QED BY <3>3, <3>4, SumsValue
  <2>2. ASSUME NEW U \in SUBSET T, U # {}
        PROVE  /\ f[Picking(U)] \in Int
               /\ U \ {Picking(U)} \in SUBSET T /\ U \ {Picking(U)} # T
               /\ SomeSumFunction(f, U \ {Picking(U)})[U \ {Picking(U)}] \in Int
               /\ SumValue(f, U) = f[Picking(U)] + h[U \ {Picking(U)}]
    <3> DEFINE V == U \ {Picking(U)}
    <3>1. Picking(U) \in U
      BY <2>2, Picked
    <3>2. f[Picking(U)] \in Int /\ V \in SUBSET T /\ V # T
      BY <3>1
    <3> HIDE DEF V
    <3>3. SomeSumFunction(f, V)[V] \in Int /\ SomeSumFunction(f, V)[V] = h[V]
      BY <2>1, <3>2
    <3>4. SumValue(f, U) = f[Picking(U)] + SomeSumFunction(f, V)[V]
      BY <2>2 DEF SumValue, V
    <3> HIDE DEF h
    <3> QED BY <3>2, <3>3, <3>4 DEF V
  <2>3. h \in [SUBSET T -> Int]
    <3>1. ASSUME NEW U \in SUBSET T PROVE SumValue(f, U) \in Int
      <4>1. CASE U = {}
        BY <4>1 DEF SumValue
      <4>2. CASE U # {}
        <5> DEFINE V == U \ {Picking(U)}
                   p == f[Picking(U)]
                   q == SomeSumFunction(f, V)[V]
        <5>1. p \in Int /\ q \in Int
          BY <2>2, <4>2
        <5>2. SumValue(f, U) = p + q
          BY <4>2 DEF SumValue
        <5> HIDE DEF p, q
        <5> QED BY <5>1, <5>2
      <4> QED BY <4>1, <4>2
    <3> QED BY <3>1
  <2>4. ASSUME NEW U \in SUBSET T PROVE h[U] = SumStep(f, h, U)
    <3>1. h[U] = SumValue(f, U)
      OBVIOUS
    <3> HIDE DEF h
    <3>2. CASE U = {}
      BY <3>1, <3>2 DEF SumValue, SumStep
    <3>3. CASE U # {}
      BY <2>2, <3>1, <3>3 DEF SumStep
    <3> QED BY <3>2, <3>3
  <2> HIDE DEF h
  <2> QED BY <2>3, <2>4, SumsIntro
<1>2. Good \subseteq SUBSET S
  OBVIOUS
<1> HIDE DEF Good
<1>3. \A T \in SUBSET S : T \in Good
  BY <1>1, SubsetInduction
<1>4. S \in Good
  BY <1>3
<1> QED BY <1>4 DEF Good

(* The fold that defines SumFunctionOnSet chooses such a function.         *)
LEMMA SumIsOneOfSums ==
    ASSUME NEW S, IsFiniteSet(S), NEW f, \A x \in S : f[x] \in Int
    PROVE  \E h \in SumFunctions(f, S) : SumFunctionOnSet(f, S) = h[S]
<1> DEFINE IsIter(g) == g = [T \in SUBSET S |-> SumStep(f, g, T)]
           iter == CHOOSE g : IsIter(g)
<1>1. PICK h \in SumFunctions(f, S) : TRUE
  BY SumsExist
<1>2. IsIter(h)
  BY <1>1 DEF SumFunctions
<1>3. IsIter(iter)
  BY <1>2
<1>4. SumFunctionOnSet(f, S) = iter[S]
  BY DEF SumFunctionOnSet, FoldFunctionOnSet, MapThenFoldSet, SumStep, Picking
<1> HIDE DEF iter
<1>5. \A T \in SUBSET S : iter[T] = SumStep(f, iter, T)
  BY <1>3
<1>6. iter \in [SUBSET S -> Int]
  <2> DEFINE Good == {T \in SUBSET S : iter[T] \in Int}
  <2>1. ASSUME NEW T \in SUBSET S, \A x \in T : T \ {x} \in Good PROVE T \in Good
    <3>1. CASE T = {}
      <4>1. iter[T] = 0
        BY <1>5, <3>1 DEF SumStep
      <4> HIDE DEF IsIter
      <4> QED BY <4>1
    <3>2. CASE T # {}
      <4>1. f[Picking(T)] \in Int /\ iter[T \ {Picking(T)}] \in Int
        BY <2>1, <3>2, Picked
      <4>2. iter[T] = f[Picking(T)] + iter[T \ {Picking(T)}]
        BY <1>5, <3>2 DEF SumStep
      <4> HIDE DEF IsIter
      <4>3. iter[T] \in Int
        BY <4>1, <4>2
      <4> QED BY <4>3
    <3>3. iter[T] \in Int
      BY <3>1, <3>2
    <3> HIDE DEF IsIter
    <3> QED BY <3>3
  <2> HIDE DEF Good
  <2>2. \A T \in SUBSET S : T \in Good
    BY <2>1, SubsetInduction
  <2> QED BY <1>3, <2>2 DEF Good
<1>7. iter \in SumFunctions(f, S)
  BY <1>5, <1>6 DEF SumFunctions
<1> QED BY <1>4, <1>7

-----------------------------------------------------------------------------
(* The facts the other modules use.                                        *)
IntValued(f, S) == \A x \in S : f[x] \in Int

LEMMA SumEquation ==
    ASSUME NEW S, IsFiniteSet(S), NEW f, IntValued(f, S), S # {}
    PROVE  /\ Picking(S) \in S
           /\ SumFunctionOnSet(f, S)
                 = f[Picking(S)] + SumFunctionOnSet(f, S \ {Picking(S)})
           /\ SumFunctionOnSet(f, S) \in Int
           /\ SumFunctionOnSet(f, S \ {Picking(S)}) \in Int
<1> DEFINE T == S \ {Picking(S)}
<1>1. PICK h \in SumFunctions(f, S) : SumFunctionOnSet(f, S) = h[S]
  BY SumIsOneOfSums DEF IntValued
<1>2. IsFiniteSet(T) /\ T \subseteq S
  BY FS_Subset
<1> HIDE DEF T
<1>3. PICK k \in SumFunctions(f, T) : SumFunctionOnSet(f, T) = k[T]
  BY <1>2, SumIsOneOfSums DEF IntValued
<1>4. h[T] = k[T]
  <2>1. T \in SUBSET (S \cap T)
    BY <1>2
  <2> QED BY <2>1, SumsAgree
<1>5. h[S] = SumStep(f, h, S) /\ h[S] \in Int /\ h[T] \in Int
  BY <1>2 DEF SumFunctions
<1>6. h[S] = f[Picking(S)] + h[T]
  BY <1>5 DEF SumStep, T
<1> QED BY <1>1, <1>3, <1>4, <1>5, <1>6, Picked DEF T

LEMMA SumEmpty == ASSUME NEW f PROVE SumFunctionOnSet(f, {}) = 0
<1>1. PICK h \in SumFunctions(f, {}) : SumFunctionOnSet(f, {}) = h[{}]
  BY SumIsOneOfSums, FS_EmptySet
<1>2. h[{}] = SumStep(f, h, {})
  BY DEF SumFunctions
<1> QED BY <1>1, <1>2 DEF SumStep

LEMMA SumInt ==
    ASSUME NEW S, IsFiniteSet(S), NEW f, \A x \in S : f[x] \in Int
    PROVE  SumFunctionOnSet(f, S) \in Int
<1>1. CASE S = {}
  <2>1. SumFunctionOnSet(f, S) = 0
    BY <1>1, SumEmpty
  <2> QED BY <2>1
<1>2. CASE S # {}
  BY <1>2, SumEquation DEF IntValued
<1> QED BY <1>1, <1>2

(* Any element may be taken out: the order of summation does not matter.   *)
LEMMA SumTakesOut ==
    ASSUME NEW S, IsFiniteSet(S), NEW f, \A x \in S : f[x] \in Int, NEW e \in S
    PROVE  SumFunctionOnSet(f, S) = f[e] + SumFunctionOnSet(f, S \ {e})
<1> DEFINE sum(T) == SumFunctionOnSet(f, T)
           Good == {T \in SUBSET S : \A x \in T : sum(T) = f[x] + sum(T \ {x})}
<1>0. \A T \in SUBSET S : IsFiniteSet(T) /\ IntValued(f, T) /\ sum(T) \in Int
  BY FS_Subset, SumInt DEF IntValued
<1>1. ASSUME NEW T \in SUBSET S, \A x \in T : T \ {x} \in Good
      PROVE  T \in Good
  <2> SUFFICES ASSUME NEW x \in T PROVE sum(T) = f[x] + sum(T \ {x})
    OBVIOUS
  <2> DEFINE p == Picking(T)
  <2>1. p \in T /\ sum(T) = f[p] + sum(T \ {p})
    BY <1>0, SumEquation
  <2> HIDE DEF p
  <2>2. CASE p = x
    BY <2>1, <2>2
  <2>3. CASE p # x
    <3>1. sum(T \ {p}) = f[x] + sum((T \ {p}) \ {x})
      BY <1>1, <2>1, <2>3
    <3>2. sum(T \ {x}) = f[p] + sum((T \ {x}) \ {p})
      BY <1>1, <2>1, <2>3
    <3>3. (T \ {p}) \ {x} = (T \ {x}) \ {p}
      OBVIOUS
    <3>4. f[x] \in Int /\ f[p] \in Int /\ sum((T \ {x}) \ {p}) \in Int
      BY <1>0, <2>1
    <3> DEFINE rest == sum((T \ {x}) \ {p})
    <3>5. sum(T) = f[p] + (f[x] + rest) /\ sum(T \ {x}) = f[p] + rest
      BY <2>1, <3>1, <3>2, <3>3
    <3> HIDE DEF sum, rest
    <3>6. rest \in Int
      BY <3>4 DEF rest
    <3> QED BY <3>4, <3>5, <3>6
  <2> QED BY <2>2, <2>3
<1> HIDE DEF Good
<1>2. \A T \in SUBSET S : T \in Good
  BY <1>1, SubsetInduction
<1>3. S \in Good
  BY <1>2
<1> QED BY <1>3 DEF Good

(* The sum depends on the values over the set only.                        *)
LEMMA SumSame ==
    ASSUME NEW S, IsFiniteSet(S), NEW f, NEW g,
           \A x \in S : f[x] \in Int /\ f[x] = g[x]
    PROVE  SumFunctionOnSet(f, S) = SumFunctionOnSet(g, S)
<1> DEFINE Good == {T \in SUBSET S : SumFunctionOnSet(f, T) = SumFunctionOnSet(g, T)}
<1>1. ASSUME NEW T \in SUBSET S, \A x \in T : T \ {x} \in Good
      PROVE  T \in Good
  <2>1. IsFiniteSet(T) /\ IntValued(f, T) /\ IntValued(g, T)
    BY FS_Subset DEF IntValued
  <2>2. CASE T = {}
    BY <2>2, SumEmpty
  <2>3. CASE T # {}
    BY <1>1, <2>1, <2>3, SumEquation
  <2> QED BY <2>2, <2>3
<1> HIDE DEF Good
<1>2. \A T \in SUBSET S : T \in Good
  BY <1>1, SubsetInduction
<1> QED BY <1>2 DEF Good

(* Sums of two functions.                                                  *)
LEMMA SumPlus ==
    ASSUME NEW S, IsFiniteSet(S), NEW f, NEW g, NEW h,
           \A x \in S : f[x] \in Int /\ g[x] \in Int /\ h[x] = f[x] + g[x]
    PROVE  SumFunctionOnSet(h, S) = SumFunctionOnSet(f, S) + SumFunctionOnSet(g, S)
<1> DEFINE a(T) == SumFunctionOnSet(f, T)
           b(T) == SumFunctionOnSet(g, T)
           c(T) == SumFunctionOnSet(h, T)
           Good == {T \in SUBSET S : c(T) = a(T) + b(T)}
<1>0. \A T \in SUBSET S : /\ IsFiniteSet(T) /\ IntValued(f, T) /\ IntValued(g, T) /\ IntValued(h, T)
                          /\ a(T) \in Int /\ b(T) \in Int /\ c(T) \in Int
  <2> TAKE T \in SUBSET S
  <2>1. IsFiniteSet(T) /\ IntValued(f, T) /\ IntValued(g, T) /\ IntValued(h, T)
    BY FS_Subset DEF IntValued
  <2> QED BY <2>1, SumInt DEF IntValued
<1>1. ASSUME NEW T \in SUBSET S, \A x \in T : T \ {x} \in Good
      PROVE  T \in Good
  <2>1. CASE T = {}
    BY <2>1, SumEmpty
  <2>2. CASE T # {}
    <3> DEFINE p == Picking(T)
               U == T \ {p}
    <3>1. /\ p \in T
          /\ a(T) = f[p] + a(U) /\ b(T) = g[p] + b(U) /\ c(T) = h[p] + c(U)
      BY <1>0, <2>2, SumEquation
    <3>2. c(U) = a(U) + b(U) /\ U \in SUBSET S
      BY <1>1, <3>1
    <3> HIDE DEF U, p
    <3>3. a(U) \in Int /\ b(U) \in Int
      BY <1>0, <3>2
    <3>4. f[p] \in Int /\ g[p] \in Int /\ h[p] = f[p] + g[p]
      BY <3>1
    <3> HIDE DEF a, b, c
    <3>5. c(T) = a(T) + b(T)
      BY <3>1, <3>2, <3>3, <3>4
    <3> QED BY <3>5
  <2> QED BY <2>1, <2>2
<1> HIDE DEF Good
<1>2. \A T \in SUBSET S : T \in Good
  BY <1>1, SubsetInduction
<1> QED BY <1>2 DEF Good

(* A sum is monotone in its values.                                        *)
LEMMA SumLeq ==
    ASSUME NEW S, IsFiniteSet(S), NEW f, NEW g,
           \A x \in S : f[x] \in Int /\ g[x] \in Int /\ f[x] <= g[x]
    PROVE  SumFunctionOnSet(f, S) <= SumFunctionOnSet(g, S)
<1> DEFINE a(T) == SumFunctionOnSet(f, T)
           b(T) == SumFunctionOnSet(g, T)
           Good == {T \in SUBSET S : a(T) <= b(T)}
<1>0. \A T \in SUBSET S : /\ IsFiniteSet(T) /\ IntValued(f, T) /\ IntValued(g, T)
                          /\ a(T) \in Int /\ b(T) \in Int
  <2> TAKE T \in SUBSET S
  <2>1. IsFiniteSet(T) /\ IntValued(f, T) /\ IntValued(g, T)
    BY FS_Subset DEF IntValued
  <2> QED BY <2>1, SumInt DEF IntValued
<1>1. ASSUME NEW T \in SUBSET S, \A x \in T : T \ {x} \in Good
      PROVE  T \in Good
  <2>1. CASE T = {}
    BY <2>1, SumEmpty
  <2>2. CASE T # {}
    <3> DEFINE p == Picking(T)
               U == T \ {p}
    <3>1. /\ p \in T
          /\ a(T) = f[p] + a(U) /\ b(T) = g[p] + b(U)
      BY <1>0, <2>2, SumEquation
    <3>2. a(U) <= b(U) /\ U \in SUBSET S
      BY <1>1, <3>1
    <3> HIDE DEF U, p
    <3>3. a(U) \in Int /\ b(U) \in Int
      BY <1>0, <3>2
    <3>4. f[p] \in Int /\ g[p] \in Int /\ f[p] <= g[p]
      BY <3>1
    <3> HIDE DEF a, b
    <3>5. a(T) <= b(T)
      BY <3>1, <3>2, <3>3, <3>4
    <3> QED BY <3>5
  <2> QED BY <2>1, <2>2
<1> HIDE DEF Good
<1>2. \A T \in SUBSET S : T \in Good
  BY <1>1, SubsetInduction
<1> QED BY <1>2 DEF Good

LEMMA SumZero ==
    ASSUME NEW S, IsFiniteSet(S), NEW f, \A x \in S : f[x] = 0
    PROVE  SumFunctionOnSet(f, S) = 0
<1> DEFINE Good == {T \in SUBSET S : SumFunctionOnSet(f, T) = 0}
<1>1. ASSUME NEW T \in SUBSET S, \A x \in T : T \ {x} \in Good
      PROVE  T \in Good
  <2>1. IsFiniteSet(T) /\ IntValued(f, T)
    BY FS_Subset DEF IntValued
  <2>2. CASE T = {}
    BY <2>2, SumEmpty
  <2>3. CASE T # {}
    <3>1. Picking(T) \in T /\ SumFunctionOnSet(f, T \ {Picking(T)}) = 0 /\ f[Picking(T)] = 0
      BY <1>1, <2>1, <2>3, SumEquation
    <3>2. SumFunctionOnSet(f, T) = 0 + 0
      BY <2>1, <2>3, <3>1, SumEquation
    <3> QED BY <3>2
  <2> QED BY <2>2, <2>3
<1> HIDE DEF Good
<1>2. \A T \in SUBSET S : T \in Good
  BY <1>1, SubsetInduction
<1> QED BY <1>2 DEF Good

LEMMA SumNat ==
    ASSUME NEW S, IsFiniteSet(S), NEW f, \A x \in S : f[x] \in Nat
    PROVE  SumFunctionOnSet(f, S) \in Nat
<1> DEFINE zero == [x \in S |-> 0]
<1>1. SumFunctionOnSet(zero, S) = 0
  BY SumZero
<1>2. SumFunctionOnSet(zero, S) <= SumFunctionOnSet(f, S)
  BY SumLeq
<1>3. SumFunctionOnSet(f, S) \in Int
  BY SumInt
<1> QED BY <1>1, <1>2, <1>3

(* One value changes.                                                      *)
LEMMA SumChanges ==
    ASSUME NEW S, IsFiniteSet(S), NEW f, NEW g, NEW e \in S,
           \A x \in S : f[x] \in Int /\ g[x] \in Int,
           \A x \in S \ {e} : g[x] = f[x]
    PROVE  SumFunctionOnSet(g, S) = SumFunctionOnSet(f, S) + (g[e] - f[e])
<1> DEFINE a == SumFunctionOnSet(f, S \ {e})
           b == SumFunctionOnSet(g, S \ {e})
<1>1. IsFiniteSet(S \ {e})
  BY FS_Subset
<1>2. a = b /\ a \in Int
  BY <1>1, SumSame, SumInt
<1>3. SumFunctionOnSet(f, S) = f[e] + a /\ SumFunctionOnSet(g, S) = g[e] + b
  BY SumTakesOut
<1>4. f[e] \in Int /\ g[e] \in Int
  OBVIOUS
<1> HIDE DEF a, b
<1> QED BY <1>2, <1>3, <1>4

(* An element joins.                                                       *)
LEMMA SumJoins ==
    ASSUME NEW S, IsFiniteSet(S), NEW f, NEW e, e \notin S,
           \A x \in S \cup {e} : f[x] \in Int
    PROVE  SumFunctionOnSet(f, S \cup {e}) = SumFunctionOnSet(f, S) + f[e]
<1>1. IsFiniteSet(S \cup {e})
  BY FS_AddElement
<1>2. (S \cup {e}) \ {e} = S
  OBVIOUS
<1>3. SumFunctionOnSet(f, S \cup {e}) = f[e] + SumFunctionOnSet(f, S)
  BY <1>1, <1>2, SumTakesOut
<1>4. SumFunctionOnSet(f, S) \in Int /\ f[e] \in Int
  BY SumInt
<1> QED BY <1>3, <1>4

(* Elements outside D count nothing.                                       *)
LEMMA SumOnPart ==
    ASSUME NEW S, IsFiniteSet(S), NEW f, NEW D, D \subseteq S,
           \A x \in S : f[x] \in Int, \A x \in S \ D : f[x] = 0
    PROVE  SumFunctionOnSet(f, S) = SumFunctionOnSet(f, D)
<1> DEFINE Good == {T \in SUBSET S : SumFunctionOnSet(f, T) = SumFunctionOnSet(f, T \cap D)}
<1>1. ASSUME NEW T \in SUBSET S, \A x \in T : T \ {x} \in Good
      PROVE  T \in Good
  <2>1. /\ IsFiniteSet(T) /\ \A x \in T : f[x] \in Int
        /\ IsFiniteSet(T \cap D) /\ \A x \in T \cap D : f[x] \in Int
    BY FS_Subset
  <2>2. CASE T = {}
    <3>1. T \cap D = T
      BY <2>2
    <3> QED BY <3>1
  <2>3. ASSUME NEW e \in T PROVE T \in Good
    <3> DEFINE U == T \ {e}
               sum(V) == SumFunctionOnSet(f, V)
    <3>1. sum(T) = f[e] + sum(U) /\ sum(U) = sum(U \cap D)
      BY <1>1, <2>1, SumTakesOut
    <3>2. f[e] \in Int /\ sum(U \cap D) \in Int
      <4>1. IsFiniteSet(U \cap D)
        BY <2>1, FS_Subset
      <4> QED BY <4>1, <2>1, SumInt
    <3>3. CASE e \in D
      <4>1. (T \cap D) \ {e} = U \cap D
        OBVIOUS
      <4>2. sum(T \cap D) = f[e] + sum((T \cap D) \ {e})
        BY <2>1, <3>3, SumTakesOut
      <4>3. sum(T) = sum(T \cap D)
        BY <3>1, <4>1, <4>2
      <4> QED BY <4>3
    <3>4. CASE e \notin D
      <4>1. T \cap D = U \cap D /\ f[e] = 0
        BY <3>4
      <4>2. sum(T) = 0 + sum(T \cap D) /\ sum(T \cap D) \in Int
        BY <3>1, <3>2, <4>1
      <4>3. sum(T) = sum(T \cap D)
        <5> HIDE DEF sum
        <5> QED BY <4>2
      <4> QED BY <4>3
    <3> QED BY <3>3, <3>4
  <2> QED BY <2>2, <2>3
<1> HIDE DEF Good
<1>2. \A T \in SUBSET S : T \in Good
  BY <1>1, SubsetInduction
<1>3. S \cap D = D
  OBVIOUS
<1> QED BY <1>2, <1>3 DEF Good

(* Disjoint parts.                                                         *)
LEMMA SumParts ==
    ASSUME NEW A, NEW B, IsFiniteSet(A), IsFiniteSet(B), A \cap B = {}, NEW f,
           \A x \in A \cup B : f[x] \in Int
    PROVE  SumFunctionOnSet(f, A \cup B) = SumFunctionOnSet(f, A) + SumFunctionOnSet(f, B)
<1> DEFINE S == A \cup B
           g == [x \in S |-> IF x \in A THEN f[x] ELSE 0]
           h == [x \in S |-> IF x \in B THEN f[x] ELSE 0]
<1>1. IsFiniteSet(S)
  BY FS_Union
<1>2. \A x \in S : g[x] \in Int /\ h[x] \in Int /\ f[x] \in Int /\ f[x] = g[x] + h[x]
  OBVIOUS
<1>3. SumFunctionOnSet(f, S) = SumFunctionOnSet(g, S) + SumFunctionOnSet(h, S)
  <2> HIDE DEF g, h, S
  <2> QED BY <1>1, <1>2, SumPlus
<1>4. SumFunctionOnSet(g, S) = SumFunctionOnSet(g, A)
  <2>1. A \subseteq S /\ \A x \in S \ A : g[x] = 0
    OBVIOUS
  <2> HIDE DEF g, h, S
  <2> QED BY <1>1, <1>2, <2>1, SumOnPart
<1>5. SumFunctionOnSet(h, S) = SumFunctionOnSet(h, B)
  <2>1. B \subseteq S /\ \A x \in S \ B : h[x] = 0
    OBVIOUS
  <2> HIDE DEF g, h, S
  <2> QED BY <1>1, <1>2, <2>1, SumOnPart
<1>6. SumFunctionOnSet(g, A) = SumFunctionOnSet(f, A)
  <2>1. \A x \in A : g[x] \in Int /\ g[x] = f[x]
    OBVIOUS
  <2> HIDE DEF g
  <2> QED BY <2>1, SumSame
<1>7. SumFunctionOnSet(h, B) = SumFunctionOnSet(f, B)
  <2>1. \A x \in B : h[x] \in Int /\ h[x] = f[x]
    OBVIOUS
  <2> HIDE DEF h
  <2> QED BY <2>1, SumSame
<1> QED BY <1>3, <1>4, <1>5, <1>6, <1>7
====
