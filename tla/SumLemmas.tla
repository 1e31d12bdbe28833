------------------------------- MODULE SumLemmas -------------------------------
(***************************************************************************)
(* Sums over finite sets, as SumFunction of the community modules defines  *)
(* them: what adding an element does to a sum, and what bounds it.  A sum  *)
(* is a recursive function that CHOOSE names, so the first lemmas show     *)
(* that such a function exists.  Every induction is the least-element      *)
(* principle for a set of naturals (LeastOf), which needs no operator as a *)
(* parameter.                                                              *)
(***************************************************************************)
EXTENDS Integers, FiniteSets, Functions, FiniteSetTheorems, WellFoundedInduction, TLAPS

(* A set of naturals that is not empty has a least element.                *)
LEMMA LeastOf ==
  ASSUME NEW T \in SUBSET Nat, T # {}
  PROVE  \E n \in T : \A m \in T : n <= m
<1> DEFINE Less == {p \in Nat \X Nat : p[1] < p[2]}
<1>1. IsWellFoundedOn(Less, Nat)
  BY NatLessThanWellFounded DEF OpToRel
<1> HIDE DEF Less
<1>2. PICK n \in T : \A m \in T : <<m, n>> \notin Less
  BY <1>1, WFMin
<1>3. \A m \in T : ~(m < n)
  BY <1>2 DEF Less
<1> QED
  BY <1>3

(* ... and nothing below it is in the set.                                 *)
LEMMA NothingBelow ==
  ASSUME NEW T \in SUBSET Nat, NEW n \in T, \A m \in T : n <= m,
         NEW k \in Nat, n = k + 1
  PROVE  k \notin T
OBVIOUS

(* Taking an element out of a finite set.                                  *)
LEMMA OneLess ==
  ASSUME NEW S, IsFiniteSet(S), NEW s \in SUBSET S, NEW x \in s
  PROVE  /\ s \ {x} \in SUBSET S
         /\ IsFiniteSet(s) /\ IsFiniteSet(s \ {x})
         /\ Cardinality(s) \in Nat /\ Cardinality(s \ {x}) \in Nat
         /\ Cardinality(s) = Cardinality(s \ {x}) + 1
<1>1. IsFiniteSet(s)
  BY FS_Subset
<1>2. IsFiniteSet(s \ {x}) /\ Cardinality(s \ {x}) = Cardinality(s) - 1
  BY <1>1, FS_RemoveElement
<1>3. Cardinality(s) \in Nat /\ Cardinality(s \ {x}) \in Nat
  BY <1>1, <1>2, FS_CardinalityType
<1> QED
  BY <1>1, <1>2, <1>3

(* What holds of a set whenever it holds of the sets with one element less *)
(* holds of every finite set.                                              *)
LEMMA FiniteInduction ==
  ASSUME NEW S, IsFiniteSet(S), NEW G,
         \A s \in SUBSET S : (\A x \in s : s \ {x} \in G) => s \in G
  PROVE  S \in G
<1> DEFINE Bad == {n \in Nat : \E s \in SUBSET S :
                                 Cardinality(s) = n /\ s \notin G}
<1>1. Bad = {}
  <2> SUFFICES ASSUME Bad # {} PROVE FALSE
    OBVIOUS
  <2>1. Bad \in SUBSET Nat
    OBVIOUS
  <2>2. PICK n \in Bad : \A m \in Bad : n <= m
    BY <2>1, LeastOf
  <2>3. PICK s \in SUBSET S : Cardinality(s) = n /\ s \notin G
    BY <2>2
  <2>4. \A u \in SUBSET S :
          Cardinality(u) \in Nat /\ Cardinality(u) \notin Bad => u \in G
    OBVIOUS
  <2> HIDE DEF Bad
  <2>5. ASSUME NEW x \in s PROVE s \ {x} \in G
    <3>1. /\ s \ {x} \in SUBSET S
          /\ Cardinality(s \ {x}) \in Nat
          /\ n = Cardinality(s \ {x}) + 1
      BY <2>3, OneLess
    <3>2. Cardinality(s \ {x}) \notin Bad
      BY <2>1, <2>2, <3>1, NothingBelow
    <3> QED
      BY <2>4, <3>1, <3>2
  <2> QED
    BY <2>3, <2>5
<1>2. Cardinality(S) \in Nat
  BY FS_CardinalityType
<1> QED
  BY <1>1, <1>2

-----------------------------------------------------------------------------
(* The element a sum takes first.                                          *)
Pick(s) == CHOOSE x \in s : TRUE

(* h sums f over each of the sets in D.                                    *)
Sums(h, f, D) ==
  h = [s \in D |-> IF s = {} THEN 0 ELSE f[Pick(s)] + h[s \ {Pick(s)}]]

(* h sums f over every subset of S.                                        *)
AllSums(h, f, S) == Sums(h, f, SUBSET S)

(* f and e have the same values on T.                                      *)
Same(f, e, T) == \A x \in T : f[x] = e[x]

(* The subsets of S with n elements at most.                               *)
UpTo(S, n) == {s \in SUBSET S : Cardinality(s) <= n}

(* The element a sum takes next is an element of the set.                  *)
LEMMA PickIn == ASSUME NEW s, s # {} PROVE Pick(s) \in s
BY DEF Pick

(* A function that sums over the small sets extends to the next size.      *)
LEMMA SumsExtend ==
  ASSUME NEW S, IsFiniteSet(S), NEW f, NEW n \in Nat, NEW g,
         Sums(g, f, UpTo(S, n))
  PROVE  \E h : Sums(h, f, UpTo(S, n + 1))
<1> DEFINE h == [s \in UpTo(S, n + 1) |->
                   IF s = {} THEN 0 ELSE f[Pick(s)] + g[s \ {Pick(s)}]]
<1>1. \A s \in UpTo(S, n + 1) : s # {} => s \ {Pick(s)} \in UpTo(S, n)
  <2> TAKE s \in UpTo(S, n + 1)
  <2> HAVE s # {}
  <2>1. Pick(s) \in s /\ s \in SUBSET S /\ Cardinality(s) <= n + 1
    BY PickIn DEF UpTo
  <2>2. /\ s \ {Pick(s)} \in SUBSET S
        /\ Cardinality(s \ {Pick(s)}) \in Nat
        /\ Cardinality(s) = Cardinality(s \ {Pick(s)}) + 1
    BY <2>1, OneLess
  <2> QED
    BY <2>1, <2>2 DEF UpTo
<1>2. \A s \in UpTo(S, n) : s \in UpTo(S, n + 1)
  BY FS_Subset, FS_CardinalityType DEF UpTo
<1>3. \A s \in UpTo(S, n) : h[s] = g[s]
  BY <1>2 DEF Sums
<1>4. h = [s \in UpTo(S, n + 1) |->
             IF s = {} THEN 0 ELSE f[Pick(s)] + h[s \ {Pick(s)}]]
  <2> HIDE DEF h
  <2>1. \A s \in UpTo(S, n + 1) :
          s # {} => g[s \ {Pick(s)}] = h[s \ {Pick(s)}]
    BY <1>1, <1>3
  <2> QED
    BY <2>1 DEF h
<1> QED
  BY <1>4 DEF Sums

(* There is a function that sums f over all subsets of a finite set.       *)
LEMMA SumsExist ==
  ASSUME NEW S, IsFiniteSet(S), NEW f
  PROVE  \E h : AllSums(h, f, S)
<1> DEFINE Without == {n \in Nat : ~ \E h : Sums(h, f, UpTo(S, n))}
<1>1. Without = {}
  <2> SUFFICES ASSUME Without # {} PROVE FALSE
    OBVIOUS
  <2>1. PICK n \in Without : \A m \in Without : n <= m
    BY LeastOf
  <2>2. CASE n = 0
    <3> DEFINE h == [s \in UpTo(S, 0) |-> 0]
    <3>1. \A s \in UpTo(S, 0) : s = {}
      BY FS_Subset, FS_EmptySet, FS_CardinalityType DEF UpTo
    <3>2. h = [s \in UpTo(S, 0) |-> IF s = {} THEN 0 ELSE f[Pick(s)] + h[s \ {Pick(s)}]]
      BY <3>1
    <3> QED
      BY <3>2, <2>2 DEF Sums
  <2>3. CASE n # 0
    <3>1. n - 1 \in Nat /\ n - 1 \notin Without
      BY <2>1, <2>3
    <3>2. PICK g : Sums(g, f, UpTo(S, n - 1))
      BY <3>1
    <3>3. \E h : Sums(h, f, UpTo(S, (n - 1) + 1))
      BY <3>1, <3>2, SumsExtend
    <3> QED
      BY <3>3
  <2> QED
    BY <2>2, <2>3
<1>2. Cardinality(S) \in Nat
  BY FS_CardinalityType
<1>3. UpTo(S, Cardinality(S)) = SUBSET S
  BY FS_Subset DEF UpTo
<1>4. \E h : Sums(h, f, UpTo(S, Cardinality(S)))
  BY <1>1, <1>2
<1> QED
  BY <1>3, <1>4 DEF AllSums

(* Two functions that sum the same values agree on the sets they share.    *)
LEMMA SumsAgree ==
  ASSUME NEW S, IsFiniteSet(S), NEW T \in SUBSET S, NEW f, NEW e,
         Same(f, e, T),
         NEW h, AllSums(h, f, S), NEW g, AllSums(g, e, T)
  PROVE  h[T] = g[T]
<1> DEFINE G == {s \in SUBSET T : h[s] = g[s]}
<1>1. ASSUME NEW s \in SUBSET T, \A x \in s : s \ {x} \in G
      PROVE  s \in G
  <2> DEFINE p == Pick(s)
  <2>1. CASE s = {}
    BY <2>1 DEF AllSums, Sums
  <2>2. CASE s # {}
    <3>1. p \in s
      BY <2>2, PickIn
    <3>2. h[s \ {p}] = g[s \ {p}]
      BY <3>1, <1>1
    <3>3. h[s] = f[p] + h[s \ {p}] /\ g[s] = e[p] + g[s \ {p}]
      BY <2>2, <3>1 DEF AllSums, Sums
    <3> QED
      BY <3>1, <3>2, <3>3 DEF Same
  <2> QED
    BY <2>1, <2>2
<1>2. IsFiniteSet(T)
  BY FS_Subset
<1> HIDE DEF G
<1>3. T \in G
  BY <1>1, <1>2, FiniteInduction
<1> QED
  BY <1>3 DEF G

-----------------------------------------------------------------------------
(* The library's sum is the function chosen to satisfy its recursion.      *)
LEMMA SumIsChosen ==
  ASSUME NEW f, NEW S
  PROVE  SumFunctionOnSet(f, S) = (CHOOSE h : AllSums(h, f, S))[S]
BY DEF SumFunctionOnSet, FoldFunctionOnSet, MapThenFoldSet, AllSums, Sums, Pick

(* Whatever function sums f, its value is the sum.                         *)
LEMMA SumIsAny ==
  ASSUME NEW S, IsFiniteSet(S), NEW T \in SUBSET S, NEW f,
         NEW h, AllSums(h, f, S)
  PROVE  SumFunctionOnSet(f, T) = h[T]
<1> DEFINE g == CHOOSE k : AllSums(k, f, T)
<1>1. IsFiniteSet(T)
  BY FS_Subset
<1>2. AllSums(g, f, T)
  BY <1>1, SumsExist
<1> HIDE DEF g
<1>3. h[T] = g[T]
  <2>1. Same(f, f, T)
    BY DEF Same
  <2> QED
    BY <1>2, <2>1, SumsAgree
<1> QED
  BY <1>3, SumIsChosen DEF g

(* The sum over a set depends on the values there only.                    *)
LEMMA SumSame ==
  ASSUME NEW S, IsFiniteSet(S), NEW f, NEW e, \A x \in S : f[x] = e[x]
  PROVE  SumFunctionOnSet(f, S) = SumFunctionOnSet(e, S)
<1>1. PICK h : AllSums(h, f, S)
  BY SumsExist
<1>2. PICK g : AllSums(g, e, S)
  BY SumsExist
<1>3. h[S] = g[S]
  <2>1. Same(f, e, S)
    BY DEF Same
  <2> QED
    BY <1>1, <1>2, <2>1, SumsAgree
<1>4. S \in SUBSET S
  OBVIOUS
<1> QED
  BY <1>1, <1>2, <1>3, <1>4, SumIsAny

(* The equation by which a sum is computed.                                *)
LEMMA SumFirst ==
  ASSUME NEW S, IsFiniteSet(S), NEW f
  PROVE  /\ SumFunctionOnSet(f, {}) = 0
         /\ S # {} => SumFunctionOnSet(f, S)
                        = f[Pick(S)] + SumFunctionOnSet(f, S \ {Pick(S)})
<1>1. PICK h : AllSums(h, f, S)
  BY SumsExist
<1>2. \A T \in SUBSET S : SumFunctionOnSet(f, T) = h[T]
  BY <1>1, SumIsAny
<1>3. /\ h[{}] = 0
      /\ S # {} => h[S] = f[Pick(S)] + h[S \ {Pick(S)}]
  BY <1>1 DEF AllSums, Sums
<1> QED
  BY <1>2, <1>3

(* A sum of integers is an integer.                                        *)
LEMMA SumInt ==
  ASSUME NEW S, IsFiniteSet(S), NEW f, \A x \in S : f[x] \in Int
  PROVE  SumFunctionOnSet(f, S) \in Int
<1> DEFINE G == {s \in SUBSET S : SumFunctionOnSet(f, s) \in Int}
<1>1. ASSUME NEW s \in SUBSET S, \A x \in s : s \ {x} \in G
      PROVE  s \in G
  <2>1. IsFiniteSet(s)
    BY FS_Subset
  <2>2. CASE s = {}
    BY <2>1, <2>2, SumFirst
  <2>3. CASE s # {}
    <3>1. Pick(s) \in s
      BY <2>3, PickIn
    <3>2. SumFunctionOnSet(f, s \ {Pick(s)}) \in Int
      BY <3>1, <1>1
    <3>3. SumFunctionOnSet(f, s)
            = f[Pick(s)] + SumFunctionOnSet(f, s \ {Pick(s)})
      BY <2>1, <2>3, SumFirst
    <3> QED
      BY <3>1, <3>2, <3>3
  <2> QED
    BY <2>2, <2>3
<1> HIDE DEF G
<1>2. S \in G
  BY <1>1, FiniteInduction
<1> QED
  BY <1>2 DEF G

(* The order of the summands is immaterial: any one may be taken first.    *)
LEMMA SumTake ==
  ASSUME NEW S, IsFiniteSet(S), NEW f, \A x \in S : f[x] \in Int, NEW x \in S
  PROVE  SumFunctionOnSet(f, S) = f[x] + SumFunctionOnSet(f, S \ {x})
<1> DEFINE Sum(s) == SumFunctionOnSet(f, s)
<1> DEFINE G == {s \in SUBSET S : \A y \in s : Sum(s) = f[y] + Sum(s \ {y})}
<1>1. ASSUME NEW s \in SUBSET S, \A z \in s : s \ {z} \in G
      PROVE  s \in G
  <2> SUFFICES ASSUME NEW y \in s PROVE Sum(s) = f[y] + Sum(s \ {y})
    OBVIOUS
  <2> DEFINE p == Pick(s)
  <2>1. IsFiniteSet(s)
    BY FS_Subset
  <2>2. p \in s /\ Sum(s) = f[p] + Sum(s \ {p})
    BY <2>1, SumFirst, PickIn
  <2>3. CASE p = y
    BY <2>2, <2>3
  <2>4. CASE p # y
    <3>1. s \ {p} \in G /\ s \ {y} \in G
      BY <2>2, <1>1
    <3>2. y \in s \ {p} /\ p \in s \ {y}
      BY <2>2, <2>4
    <3>3. Sum(s \ {p}) = f[y] + Sum((s \ {p}) \ {y})
      BY <3>1, <3>2
    <3>4. Sum(s \ {y}) = f[p] + Sum((s \ {y}) \ {p})
      BY <3>1, <3>2
    <3>5. (s \ {p}) \ {y} = (s \ {y}) \ {p}
      OBVIOUS
    <3>6. IsFiniteSet((s \ {p}) \ {y})
      BY <2>1, FS_Subset
    <3>7. Sum((s \ {p}) \ {y}) \in Int /\ f[p] \in Int /\ f[y] \in Int
      BY <2>2, <3>6, SumInt
    <3>8. Sum(s) = f[p] + Sum(s \ {p})
      BY <2>2
    <3> HIDE DEF Sum, p
    <3> DEFINE m == Sum((s \ {p}) \ {y})
    <3>9. /\ Sum(s) = f[p] + (f[y] + m)
          /\ f[y] + Sum(s \ {y}) = f[y] + (f[p] + m)
      BY <3>3, <3>4, <3>5, <3>8
    <3>10. m \in Int
      BY <3>7
    <3> HIDE DEF m
    <3> QED
      BY <3>7, <3>9, <3>10
  <2> QED
    BY <2>3, <2>4
<1> HIDE DEF G
<1>2. S \in G
  BY <1>1, FiniteInduction
<1> QED
  BY <1>2 DEF G

(* What one more element adds to a sum.                                    *)
LEMMA SumAdd ==
  ASSUME NEW S, IsFiniteSet(S), NEW x, x \notin S, NEW f, NEW e,
         \A y \in S : f[y] \in Int /\ e[y] = f[y], e[x] \in Int
  PROVE  SumFunctionOnSet(e, S \cup {x}) = SumFunctionOnSet(f, S) + e[x]
<1>1. IsFiniteSet(S \cup {x}) /\ (S \cup {x}) \ {x} = S
  BY FS_AddElement
<1>2. SumFunctionOnSet(e, S \cup {x}) = e[x] + SumFunctionOnSet(e, S)
  <2>1. \A y \in S \cup {x} : e[y] \in Int
    OBVIOUS
  <2>2. SumFunctionOnSet(e, S \cup {x})
          = e[x] + SumFunctionOnSet(e, (S \cup {x}) \ {x})
    BY <1>1, <2>1, SumTake
  <2> QED
    BY <1>1, <2>2
<1>3. SumFunctionOnSet(e, S) = SumFunctionOnSet(f, S)
  BY SumSame
<1>4. SumFunctionOnSet(f, S) \in Int
  BY SumInt
<1> QED
  BY <1>2, <1>3, <1>4

(* A sum of naturals is at most their number times a bound of theirs.      *)
LEMMA SumBounded ==
  ASSUME NEW S, IsFiniteSet(S), NEW f, NEW b \in Nat,
         \A x \in S : f[x] \in Nat /\ f[x] <= b
  PROVE  /\ SumFunctionOnSet(f, S) \in Nat
         /\ SumFunctionOnSet(f, S) <= b * Cardinality(S)
<1> DEFINE Sum(s) == SumFunctionOnSet(f, s)
<1> DEFINE G == {s \in SUBSET S : Sum(s) \in Nat /\ Sum(s) <= b * Cardinality(s)}
<1>1. ASSUME NEW s \in SUBSET S, \A x \in s : s \ {x} \in G
      PROVE  s \in G
  <2> DEFINE p == Pick(s)
             c == Cardinality(s \ {p})
  <2>1. IsFiniteSet(s)
    BY FS_Subset
  <2>2. CASE s = {}
    BY <2>1, <2>2, SumFirst, FS_EmptySet
  <2>3. CASE s # {}
    <3>1. p \in s
      BY <2>3, PickIn
    <3>2. Sum(s \ {p}) \in Nat /\ Sum(s \ {p}) <= b * c
      BY <3>1, <1>1
    <3>3. Sum(s) = f[p] + Sum(s \ {p})
      BY <2>1, <2>3, SumFirst
    <3>4. c \in Nat /\ Cardinality(s) = c + 1
      BY <3>1, OneLess
    <3>5. f[p] \in Nat /\ f[p] <= b
      BY <3>1
    <3> HIDE DEF Sum, p, c
    <3>6. b * (c + 1) = b * c + b /\ b * c \in Nat
      BY <3>4
    <3>7. Sum(s) \in Nat /\ Sum(s) <= b * Cardinality(s)
      BY <3>2, <3>3, <3>4, <3>5, <3>6
    <3> QED
      BY <3>7
  <2> QED
    BY <2>2, <2>3
<1> HIDE DEF G
<1>2. S \in G
  BY <1>1, FiniteInduction
<1> QED
  BY <1>2 DEF G
=============================================================================
