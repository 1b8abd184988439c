----------------------------- MODULE SumTheorems -----------------------------
(***************************************************************************)
(* Theorems about SumOver.  MapThenSumSet is a recursion on sets that      *)
(* takes out a chosen element each time: that it has a solution, that the  *)
(* solution is unique and that the order does not matter is shown here,    *)
(* from the well-foundedness of < on Nat.  Inductions are about a set (of  *)
(* numbers, or of subsets of a finite set) that turns out to hold them     *)
(* all.                                                                    *)
(***************************************************************************)
EXTENDS Sums, WellFoundedInduction, FiniteSetTheorems, TLAPS

\* A set of numbers that is not empty has a least element.
LEMMA LeastNumber ==
    ASSUME NEW T \in SUBSET Nat, T # {}
    PROVE  \E n \in T : \A m \in T : n <= m
<1> DEFINE R == OpToRel(<, Nat)
<1>1. IsWellFoundedOn(R, Nat) BY NatLessThanWellFounded
<1>2. \A x, y \in Nat : <<y, x>> \in R <=> y < x BY DEF R, OpToRel
<1> HIDE DEF R
<1>3. PICK n \in T : \A m \in T : ~(<<m, n>> \in R) BY <1>1, WFMin
<1>4. ASSUME NEW m \in T PROVE n <= m
  <2>1. n \in Nat /\ m \in Nat OBVIOUS
  <2>2. ~(m < n) BY <1>2, <1>3, <2>1
  <2> QED BY <2>1, <2>2
<1> QED BY <1>4

\* Induction on the subsets of a finite set, one element at a time.
LEMMA SubsetInduction ==
    ASSUME NEW S, IsFiniteSet(S), NEW F \in SUBSET SUBSET S,
           {} \in F, \A T \in F : \A x \in S \ T : T \cup {x} \in F
    PROVE  S \in F
<1> DEFINE N == {Cardinality(S \ T) : T \in F}
<1>1. \A T \in F : IsFiniteSet(S \ T) /\ Cardinality(S \ T) \in Nat
  BY FS_Difference, FS_CardinalityType
<1>2. PICK n \in N : \A m \in N : n <= m
  <2>1. N \in SUBSET Nat /\ N # {} BY <1>1
  <2> QED BY <2>1, LeastNumber
<1>3. PICK T \in F : n = Cardinality(S \ T) BY <1>2
<1>4. SUFFICES ASSUME NEW x \in S \ T PROVE FALSE
  BY <1>3
<1>5. T \cup {x} \in F OBVIOUS
<1>6. S \ (T \cup {x}) = (S \ T) \ {x} OBVIOUS
<1>7. Cardinality((S \ T) \ {x}) = Cardinality(S \ T) - 1
  BY <1>1, FS_RemoveElement
<1>8. Cardinality((S \ T) \ {x}) \in N BY <1>5, <1>6
<1>9. n <= n - 1 /\ n \in Nat BY <1>1, <1>2, <1>3, <1>7, <1>8
<1> QED BY <1>9

\* A family of finite sets that is not empty has a minimal one.
LEMMA MinimalSet ==
    ASSUME NEW S, IsFiniteSet(S), NEW B \in SUBSET SUBSET S, B # {}
    PROVE  \E s \in B : \A x \in s : s \ {x} \notin B
<1> DEFINE N == {Cardinality(s) : s \in B}
<1>1. \A s \in B : IsFiniteSet(s) /\ Cardinality(s) \in Nat
  BY FS_Subset, FS_CardinalityType
<1>2. PICK n \in N : \A m \in N : n <= m
  <2>1. N \in SUBSET Nat /\ N # {} BY <1>1
  <2> QED BY <2>1, LeastNumber
<1>3. PICK s \in B : n = Cardinality(s) BY <1>2
<1>4. ASSUME NEW x \in s, s \ {x} \in B PROVE FALSE
  <2>1. Cardinality(s \ {x}) = n - 1 BY <1>1, <1>3, FS_RemoveElement
  <2>2. n <= n - 1 /\ n \in Nat BY <1>1, <1>2, <1>3, <1>4, <2>1
  <2> QED BY <2>2
<1> QED BY <1>4

\* The same for the natural numbers.
LEMMA NumberInduction ==
    ASSUME NEW S \in SUBSET Nat, 0 \in S, \A n \in S : n + 1 \in S
    PROVE  S = Nat
<1> SUFFICES ASSUME Nat \ S # {} PROVE FALSE
  OBVIOUS
<1>1. PICK n \in Nat \ S : \A m \in Nat \ S : n <= m
  BY LeastNumber
<1>2. n # 0 /\ n - 1 \in Nat BY <1>1
<1>3. n - 1 \in S BY <1>1, <1>2
<1> QED BY <1>1, <1>2, <1>3

-----------------------------------------------------------------------------
(* The recursion behind SumOver.                                           *)

\* The element that MapThenFoldSet takes next.
Chosen(s) == CHOOSE x \in s : TRUE

\* g adds up f over the sets of D, one chosen element at a time.
AddsUp(g, f, D) ==
    g = [s \in D |-> IF s = {} THEN 0 ELSE f[Chosen(s)] + g[s \ {Chosen(s)}]]

\* An element is chosen when there is one.
LEMMA ChosenIsIn == \A s : s # {} => Chosen(s) \in s
BY DEF Chosen

\* The recursion has a solution: one for the sets of up to n elements gives one for
\* the sets of up to n + 1.
LEMMA SumExists ==
    ASSUME NEW f, NEW S, IsFiniteSet(S)
    PROVE  \E g : AddsUp(g, f, SUBSET S)
<1> DEFINE D(n) == {s \in SUBSET S : Cardinality(s) <= n}
           N == {n \in Nat : \E g : AddsUp(g, f, D(n))}
<1>1. \A s \in SUBSET S : IsFiniteSet(s) /\ Cardinality(s) \in Nat
  BY FS_Subset, FS_CardinalityType
<1>2. 0 \in N
  <2>1. D(0) = {{}} BY <1>1, FS_EmptySet
  <2>2. AddsUp([s \in D(0) |-> 0], f, D(0)) BY <2>1 DEF AddsUp
  <2> QED BY <2>2
<1>3. ASSUME NEW n \in N PROVE n + 1 \in N
  <2>1. PICK g : AddsUp(g, f, D(n)) OBVIOUS
  <2> DEFINE h == [s \in D(n + 1) |->
                     IF s = {} THEN 0 ELSE f[Chosen(s)] + g[s \ {Chosen(s)}]]
  <2>2. ASSUME NEW s \in D(n + 1), s # {} PROVE s \ {Chosen(s)} \in D(n)
    <3>1. Chosen(s) \in s BY <2>2, ChosenIsIn
    <3>2. Cardinality(s \ {Chosen(s)}) = Cardinality(s) - 1
      BY <1>1, <3>1, FS_RemoveElement
    <3> QED BY <1>1, <3>2
  <2>3. \A s \in D(n) : s \in D(n + 1) /\ h[s] = g[s]
    <3>1. \A s \in D(n) : s \in D(n + 1) BY <1>1
    <3> QED BY <3>1, <2>1 DEF AddsUp
  <2>4. AddsUp(h, f, D(n + 1)) BY <2>2, <2>3 DEF AddsUp
  <2>5. \E x : AddsUp(x, f, D(n + 1)) BY <2>4
  <2> HIDE DEF D
  <2> QED BY <2>5
<1>4. N = Nat
  <2>1. N \in SUBSET Nat OBVIOUS
  <2> HIDE DEF N
  <2> QED BY <1>2, <1>3, <2>1, NumberInduction
<1>5. Cardinality(S) \in N /\ D(Cardinality(S)) = SUBSET S
  BY <1>1, <1>4, FS_Subset
<1> QED BY <1>5

\* SumOver(f, S) is the value of a solution.
LEMMA SumIsSolution ==
    ASSUME NEW f, NEW S, IsFiniteSet(S)
    PROVE  \E g : AddsUp(g, f, SUBSET S) /\ SumOver(f, S) = g[S]
<1> DEFINE g == CHOOSE g : AddsUp(g, f, SUBSET S)
<1>1. AddsUp(g, f, SUBSET S) BY SumExists
<1>2. SumOver(f, S) = g[S]
  BY DEF SumOver, MapThenSumSet, MapThenFoldSet, AddsUp, Chosen
<1> QED BY <1>1, <1>2

\* All solutions agree where their functions do, whatever sets they were made for.
LEMMA SumsAgree ==
    ASSUME NEW f, NEW S, NEW g, AddsUp(g, f, SUBSET S),
           NEW T \in SUBSET S, IsFiniteSet(T), NEW d, \A x \in T : f[x] = d[x]
    PROVE  SumOver(d, T) = g[T]
<1>0. PICK h : AddsUp(h, d, SUBSET T) /\ SumOver(d, T) = h[T] BY SumIsSolution
<1> DEFINE B == {s \in SUBSET T : g[s] # h[s]}
<1>1. SUFFICES ASSUME B # {} PROVE FALSE
  BY <1>0
<1>2. PICK s \in B : \A x \in s : s \ {x} \notin B BY <1>1, MinimalSet
<1>3. s # {} BY <1>0, <1>2 DEF AddsUp
<1>4. Chosen(s) \in s /\ Chosen(s) \in T BY <1>3, ChosenIsIn
<1>5. g[s \ {Chosen(s)}] = h[s \ {Chosen(s)}] BY <1>2, <1>4
<1>6. g[s] = f[Chosen(s)] + g[s \ {Chosen(s)}] BY <1>3 DEF AddsUp
<1>7. h[s] = d[Chosen(s)] + h[s \ {Chosen(s)}] BY <1>0, <1>3 DEF AddsUp
<1> QED BY <1>4, <1>5, <1>6, <1>7

\* It does not matter which element is taken out first.
LEMMA AnyElement ==
    ASSUME NEW f, NEW S, IsFiniteSet(S), NEW g, AddsUp(g, f, SUBSET S),
           \A x \in S : f[x] \in Int
    PROVE  /\ g[S] \in Int
           /\ \A x \in S : g[S] = f[x] + g[S \ {x}] /\ g[S \ {x}] \in Int
<1> DEFINE Good(s) == /\ g[s] \in Int
                      /\ \A x \in s : g[s] = f[x] + g[s \ {x}] /\ g[s \ {x}] \in Int
           B == {s \in SUBSET S : ~Good(s)}
<1>1. B = {}
  <2>1. SUFFICES ASSUME B # {} PROVE FALSE
    OBVIOUS
  <2>2. PICK s \in B : \A x \in s : s \ {x} \notin B BY <2>1, MinimalSet
  <2>3. \A x \in s : Good(s \ {x}) BY <2>2
  <2>4. s # {} BY <2>2 DEF AddsUp
  <2> DEFINE y == Chosen(s)
  <2>5. y \in s BY <2>4, ChosenIsIn
  <2>6. g[s] = f[y] + g[s \ {y}] BY <2>4 DEF AddsUp
  <2> HIDE DEF y
  <2>7. \A x \in s : f[x] \in Int /\ g[s \ {x}] \in Int BY <2>3
  <2>8. ASSUME NEW x \in s, x # y PROVE g[s] = f[x] + g[s \ {x}]
    <3> DEFINE r == g[(s \ {y}) \ {x}]
    <3>1. g[s \ {y}] = f[x] + r /\ r \in Int BY <2>3, <2>5, <2>8
    <3>2. (s \ {y}) \ {x} = (s \ {x}) \ {y} OBVIOUS
    <3>3. g[s \ {x}] = f[y] + r BY <2>3, <2>5, <2>8, <3>2
    <3> HIDE DEF r
    <3>4. \A a, b, c \in Int : a + (b + c) = b + (a + c) OBVIOUS
    <3> QED BY <2>5, <2>6, <2>7, <3>1, <3>3, <3>4
  <2>9. g[s] \in Int
    <3>1. \A a, b \in Int : a + b \in Int OBVIOUS
    <3> QED BY <2>5, <2>6, <2>7, <3>1, Zenon
  <2> QED BY <2>2, <2>6, <2>7, <2>8, <2>9, Zenon
<1>2. Good(S) BY <1>1
<1> QED BY <1>2

-----------------------------------------------------------------------------
(* What sums are used for.                                                 *)

\* No elements add up to nothing.
LEMMA SumOfNothing == ASSUME NEW f PROVE SumOver(f, {}) = 0
<1>1. IsFiniteSet({}) BY FS_EmptySet
<1>2. PICK g : AddsUp(g, f, SUBSET {}) /\ SumOver(f, {}) = g[{}]
  BY <1>1, SumIsSolution
<1>3. {} \in SUBSET {} OBVIOUS
<1> QED BY <1>2, <1>3 DEF AddsUp

\* Sums depend only on the values on their set.
LEMMA SumOfEqual ==
    ASSUME NEW S, IsFiniteSet(S), NEW f, NEW g, \A x \in S : f[x] = g[x]
    PROVE  SumOver(f, S) = SumOver(g, S)
<1>1. PICK a : AddsUp(a, f, SUBSET S) /\ SumOver(f, S) = a[S] BY SumIsSolution
<1>2. S \in SUBSET S OBVIOUS
<1>3. SumOver(g, S) = a[S] BY <1>1, <1>2, SumsAgree
<1> QED BY <1>1, <1>3

\* One element taken out.
LEMMA SumWithout ==
    ASSUME NEW S, IsFiniteSet(S), NEW f, \A x \in S : f[x] \in Int, NEW x \in S
    PROVE  /\ SumOver(f, S) \in Int
           /\ SumOver(f, S \ {x}) \in Int
           /\ SumOver(f, S) = f[x] + SumOver(f, S \ {x})
<1>1. IsFiniteSet(S \ {x}) BY FS_Difference
<1>2. PICK g : AddsUp(g, f, SUBSET S) /\ SumOver(f, S) = g[S] BY SumIsSolution
<1>3. SumOver(f, S \ {x}) = g[S \ {x}]
  <2>1. S \ {x} \in SUBSET S OBVIOUS
  <2>2. \A y \in S \ {x} : f[y] = f[y] OBVIOUS
  <2> QED BY <1>1, <1>2, <2>1, <2>2, SumsAgree
<1> QED BY <1>2, <1>3, AnyElement

\* Whole numbers add up to a whole number.
LEMMA SumIsInt ==
    ASSUME NEW S, IsFiniteSet(S), NEW f, \A x \in S : f[x] \in Int
    PROVE  SumOver(f, S) \in Int
<1>1. CASE S = {} BY <1>1, SumOfNothing
<1>2. CASE S # {}
  <2>1. PICK x \in S : TRUE BY <1>2
  <2> QED BY <2>1, SumWithout
<1> QED BY <1>1, <1>2

\* One element put in.
LEMMA SumWith ==
    ASSUME NEW S, IsFiniteSet(S), NEW x, x \notin S,
           NEW f, \A y \in S \cup {x} : f[y] \in Int
    PROVE  SumOver(f, S \cup {x}) = f[x] + SumOver(f, S)
<1>1. IsFiniteSet(S \cup {x}) BY FS_AddElement
<1>2. (S \cup {x}) \ {x} = S OBVIOUS
<1> QED BY <1>1, <1>2, SumWithout

\* A single element.
LEMMA SumOfOne ==
    ASSUME NEW f, NEW x, f[x] \in Int
    PROVE  SumOver(f, {x}) = f[x]
<1>1. SumOver(f, {} \cup {x}) = f[x] + SumOver(f, {}) BY SumWith, FS_EmptySet
<1>2. {} \cup {x} = {x} OBVIOUS
<1> QED BY <1>1, <1>2, SumOfNothing

\* The values of one element replaced.
LEMMA SumReplaced ==
    ASSUME NEW S, IsFiniteSet(S), NEW x \in S, NEW f, NEW g,
           \A y \in S : f[y] \in Int /\ g[y] \in Int,
           \A y \in S \ {x} : f[y] = g[y]
    PROVE  SumOver(g, S) = SumOver(f, S) - f[x] + g[x]
<1>1. IsFiniteSet(S \ {x}) BY FS_Difference
<1>2. SumOver(f, S \ {x}) = SumOver(g, S \ {x}) BY <1>1, SumOfEqual
<1>3. SumOver(f, S) = f[x] + SumOver(f, S \ {x}) /\ SumOver(f, S \ {x}) \in Int
  BY SumWithout
<1>4. SumOver(g, S) = g[x] + SumOver(g, S \ {x}) BY SumWithout
<1>5. f[x] \in Int /\ g[x] \in Int OBVIOUS
<1> QED BY <1>2, <1>3, <1>4, <1>5

\* A set in two parts.
LEMMA SumOfParts ==
    ASSUME NEW S, NEW T, IsFiniteSet(S), IsFiniteSet(T), S \cap T = {},
           NEW f, \A x \in S \cup T : f[x] \in Int
    PROVE  SumOver(f, S \cup T) = SumOver(f, S) + SumOver(f, T)
<1> DEFINE F == {U \in SUBSET T : SumOver(f, S \cup U) = SumOver(f, S) + SumOver(f, U)}
<1>1. SumOver(f, S) \in Int BY SumIsInt
<1>2. {} \in F
  <2>1. S \cup {} = S OBVIOUS
  <2> QED BY <1>1, <2>1, SumOfNothing
<1>3. ASSUME NEW U \in F, NEW x \in T \ U PROVE U \cup {x} \in F
  <2>1. IsFiniteSet(U) /\ IsFiniteSet(S \cup U) BY FS_Subset, FS_Union
  <2>2. SumOver(f, U \cup {x}) = f[x] + SumOver(f, U) BY <2>1, SumWith
  <2>3. SumOver(f, (S \cup U) \cup {x}) = f[x] + SumOver(f, S \cup U)
    BY <2>1, SumWith
  <2>4. (S \cup U) \cup {x} = S \cup (U \cup {x}) OBVIOUS
  <2>5. SumOver(f, U) \in Int /\ f[x] \in Int BY <2>1, SumIsInt
  <2>6. SumOver(f, S \cup (U \cup {x})) = SumOver(f, S) + SumOver(f, U \cup {x})
    <3>1. SumOver(f, S \cup U) = SumOver(f, S) + SumOver(f, U) OBVIOUS
    <3>2. \A a, b, c \in Int : a + (b + c) = b + (a + c) OBVIOUS
    <3>3. SumOver(f, S \cup (U \cup {x})) = f[x] + (SumOver(f, S) + SumOver(f, U))
      BY <2>3, <2>4, <3>1, Zenon
    <3>4. @ = SumOver(f, S) + (f[x] + SumOver(f, U))
      BY <1>1, <2>5, <3>2, Zenon
    <3> QED BY <2>2, <3>3, <3>4, Zenon
  <2> QED BY <2>6
<1>4. T \in F
  <2>1. F \in SUBSET SUBSET T OBVIOUS
  <2> HIDE DEF F
  <2> QED BY <1>2, <1>3, <2>1, SubsetInduction
<1> QED BY <1>4

\* Larger values have the larger sum.
LEMMA SumIsMonotone ==
    ASSUME NEW S, IsFiniteSet(S), NEW f, NEW g,
           \A x \in S : f[x] \in Int /\ g[x] \in Int /\ f[x] <= g[x]
    PROVE  SumOver(f, S) <= SumOver(g, S)
<1> DEFINE F == {U \in SUBSET S : SumOver(f, U) <= SumOver(g, U)}
<1>1. {} \in F BY SumOfNothing
<1>2. ASSUME NEW U \in F, NEW x \in S \ U PROVE U \cup {x} \in F
  <2>1. IsFiniteSet(U) BY FS_Subset
  <2>2. SumOver(f, U \cup {x}) = f[x] + SumOver(f, U) BY <2>1, SumWith
  <2>3. SumOver(g, U \cup {x}) = g[x] + SumOver(g, U) BY <2>1, SumWith
  <2>4. SumOver(f, U) \in Int /\ SumOver(g, U) \in Int BY <2>1, SumIsInt
  <2>5. f[x] \in Int /\ g[x] \in Int /\ f[x] <= g[x] OBVIOUS
  <2>6. SumOver(f, U \cup {x}) <= SumOver(g, U \cup {x})
    BY <2>2, <2>3, <2>4, <2>5
  <2> QED BY <2>6
<1>3. S \in F
  <2>1. F \in SUBSET SUBSET S OBVIOUS
  <2> HIDE DEF F
  <2> QED BY <1>1, <1>2, <2>1, SubsetInduction
<1> QED BY <1>3

\* Zeros add up to nothing.
LEMMA SumOfZeros ==
    ASSUME NEW S, IsFiniteSet(S), NEW f, \A x \in S : f[x] = 0
    PROVE  SumOver(f, S) = 0
<1> DEFINE F == {U \in SUBSET S : SumOver(f, U) = 0}
<1>1. {} \in F BY SumOfNothing
<1>2. ASSUME NEW U \in F, NEW x \in S \ U PROVE U \cup {x} \in F
  <2>1. IsFiniteSet(U) BY FS_Subset
  <2>2. \A y \in U \cup {x} : f[y] \in Int OBVIOUS
  <2>3. SumOver(f, U \cup {x}) = f[x] + SumOver(f, U) BY <2>1, <2>2, SumWith
  <2> QED BY <2>3
<1>3. S \in F
  <2>1. F \in SUBSET SUBSET S OBVIOUS
  <2> HIDE DEF F
  <2> QED BY <1>1, <1>2, <2>1, SubsetInduction
<1> QED BY <1>3

\* What is not negative has a sum that is not.
LEMMA SumIsNat ==
    ASSUME NEW S, IsFiniteSet(S), NEW f, \A x \in S : f[x] \in Nat
    PROVE  SumOver(f, S) \in Nat
<1> DEFINE z == [x \in S |-> 0]
<1>1. SumOver(z, S) = 0 BY SumOfZeros
<1>2. SumOver(z, S) <= SumOver(f, S) BY SumIsMonotone
<1>3. SumOver(f, S) \in Int BY SumIsInt
<1> QED BY <1>1, <1>2, <1>3

\* Sums of two functions.
LEMMA SumOfSums ==
    ASSUME NEW S, IsFiniteSet(S), NEW f, NEW g, NEW h,
           \A x \in S : f[x] \in Int /\ g[x] \in Int /\ h[x] = f[x] + g[x]
    PROVE  SumOver(h, S) = SumOver(f, S) + SumOver(g, S)
<1> DEFINE F == {U \in SUBSET S : SumOver(h, U) = SumOver(f, U) + SumOver(g, U)}
<1>1. {} \in F BY SumOfNothing
<1>2. ASSUME NEW U \in F, NEW x \in S \ U PROVE U \cup {x} \in F
  <2>1. IsFiniteSet(U) BY FS_Subset
  <2>2. \A y \in U \cup {x} : f[y] \in Int /\ g[y] \in Int /\ h[y] \in Int OBVIOUS
  <2>3. SumOver(f, U \cup {x}) = f[x] + SumOver(f, U) BY <2>1, <2>2, SumWith
  <2>4. SumOver(g, U \cup {x}) = g[x] + SumOver(g, U) BY <2>1, <2>2, SumWith
  <2>5. SumOver(h, U \cup {x}) = h[x] + SumOver(h, U) BY <2>1, <2>2, SumWith
  <2>6. SumOver(f, U) \in Int /\ SumOver(g, U) \in Int BY <2>1, <2>2, SumIsInt
  <2>7. f[x] \in Int /\ g[x] \in Int /\ h[x] = f[x] + g[x] OBVIOUS
  <2>8. SumOver(h, U) = SumOver(f, U) + SumOver(g, U) OBVIOUS
  <2>9. SumOver(h, U \cup {x}) = SumOver(f, U \cup {x}) + SumOver(g, U \cup {x})
    <3>1. SumOver(h, U \cup {x}) = (f[x] + g[x]) + (SumOver(f, U) + SumOver(g, U))
      BY <2>5, <2>7, <2>8, Zenon
    <3>2. @ = (f[x] + SumOver(f, U)) + (g[x] + SumOver(g, U))
      BY <2>6, <2>7
    <3> QED BY <2>3, <2>4, <3>1, <3>2, Zenon
  <2> QED BY <2>9
<1>3. S \in F
  <2>1. F \in SUBSET SUBSET S OBVIOUS
  <2> HIDE DEF F
  <2> QED BY <1>1, <1>2, <2>1, SubsetInduction
<1> QED BY <1>3

\* A finite set has finitely many images.
LEMMA FiniteImage ==
    ASSUME NEW S, IsFiniteSet(S), NEW T, NEW f \in [S -> T], \A y \in T : \E x \in S : f[x] = y
    PROVE  IsFiniteSet(T)
<1>1. f \in Surjection(S, T) BY DEF Surjection
<1> QED BY <1>1, FS_Surjection

\* Leaving out what is not negative makes a sum no larger.
LEMMA SumOfSubset ==
    ASSUME NEW S, IsFiniteSet(S), NEW T \in SUBSET S, NEW f,
           \A x \in S : f[x] \in Int, \A x \in S \ T : f[x] \in Nat
    PROVE  SumOver(f, T) <= SumOver(f, S)
<1>1. IsFiniteSet(T) /\ IsFiniteSet(S \ T) BY FS_Subset, FS_Difference
<1>2. SumOver(f, T \cup (S \ T)) = SumOver(f, T) + SumOver(f, S \ T)
  BY <1>1, SumOfParts
<1>3. T \cup (S \ T) = S OBVIOUS
<1>4. SumOver(f, T) \in Int BY <1>1, SumIsInt
<1>5. SumOver(f, S \ T) \in Nat BY <1>1, SumIsNat
<1>6. SumOver(f, S) = SumOver(f, T) + SumOver(f, S \ T) BY <1>2, <1>3
<1> QED BY <1>4, <1>5, <1>6

\* Each element of S has a counterpart of its own in T, with a value as large.
LEMMA SumOfCounterparts ==
    ASSUME NEW S, IsFiniteSet(S), NEW T, IsFiniteSet(T),
           NEW f, \A x \in S : f[x] \in Int, NEW g, \A y \in T : g[y] \in Nat,
           NEW m \in [S -> T], \A x, y \in S : m[x] = m[y] => x = y,
           \A x \in S : f[x] <= g[m[x]]
    PROVE  SumOver(f, S) <= SumOver(g, T)
<1> DEFINE I(U) == {m[x] : x \in U}
           F == {U \in SUBSET S : SumOver(f, U) <= SumOver(g, I(U))}
<1>1. {} \in F
  <2>1. I({}) = {} OBVIOUS
  <2>2. SumOver(f, {}) <= SumOver(g, I({})) BY <2>1, SumOfNothing
  <2> QED BY <2>2
<1>2. ASSUME NEW U \in F, NEW x \in S \ U PROVE U \cup {x} \in F
  <2>1. IsFiniteSet(U) /\ IsFiniteSet(I(U))
    <3>1. I(U) \in SUBSET T OBVIOUS
    <3> QED BY <3>1, FS_Subset
  <2>2. SumOver(f, U \cup {x}) = f[x] + SumOver(f, U) BY <2>1, SumWith
  <2>3. I(U \cup {x}) = I(U) \cup {m[x]} /\ m[x] \notin I(U) OBVIOUS
  <2>4. SumOver(g, I(U) \cup {m[x]}) = g[m[x]] + SumOver(g, I(U))
    <3>1. \A y \in I(U) \cup {m[x]} : g[y] \in Int OBVIOUS
    <3> QED BY <2>1, <2>3, <3>1, SumWith
  <2>5. SumOver(f, U) \in Int /\ SumOver(g, I(U)) \in Int
    BY <2>1, SumIsInt
  <2>6. f[x] \in Int /\ g[m[x]] \in Int /\ f[x] <= g[m[x]] OBVIOUS
  <2>7. SumOver(f, U \cup {x}) <= SumOver(g, I(U \cup {x}))
    <3>1. SumOver(f, U) <= SumOver(g, I(U)) OBVIOUS
    <3>2. SumOver(g, I(U \cup {x})) = g[m[x]] + SumOver(g, I(U)) BY <2>3, <2>4
    <3>3. \A a, b, c, d \in Int : a <= b /\ c <= d => a + c <= b + d OBVIOUS
    <3> HIDE DEF F, I
    <3> QED BY <2>2, <2>5, <2>6, <3>1, <3>2, <3>3
  <2> QED BY <2>7
<1>3. S \in F
  <2>1. F \in SUBSET SUBSET S OBVIOUS
  <2> HIDE DEF F
  <2> QED BY <1>1, <1>2, <2>1, SubsetInduction
<1>4. SumOver(f, S) <= SumOver(g, I(S)) BY <1>3
<1>5. I(S) \in SUBSET T OBVIOUS
<1>6. SumOver(g, I(S)) <= SumOver(g, T)
  <2> HIDE DEF I
  <2> QED BY <1>5, SumOfSubset
<1>7. /\ SumOver(f, S) \in Int /\ SumOver(g, T) \in Int
      /\ SumOver(g, I(S)) \in Int
  <2>1. IsFiniteSet(I(S)) BY <1>5, FS_Subset
  <2> QED BY <1>5, <2>1, SumIsInt
<1> QED BY <1>4, <1>6, <1>7
=============================================================================
