----------------------------- MODULE FiniteSums -----------------------------
(***************************************************************************)
(* Facts about numbers and finite sets that the proofs share: the least    *)
(* number principle, induction over the natural numbers and over the       *)
(* subsets of a finite set, stated for sets instead of predicates, and     *)
(* sums over finite sets.                                                  *)
(***************************************************************************)
EXTENDS WellFoundedInduction, FiniteSetTheorems, TLAPS

(* There is a well-founded relation that holds of the lesser and the       *)
(* greater of any two natural numbers.                                     *)
LEMMA LessThanRelation ==
  \E R : IsWellFoundedOn(R, Nat) /\ \A j, k \in Nat : j < k => <<j, k>> \in R
<1> DEFINE R == OpToRel(<, Nat)
<1>1. IsWellFoundedOn(R, Nat)
  BY NatLessThanWellFounded DEF R
<1>2. \A j, k \in Nat : j < k => <<j, k>> \in R
  BY DEF OpToRel
<1> HIDE DEF R
<1> QED
  BY <1>1, <1>2

(* A well-founded relation has a minimal element in every set of numbers.  *)
LEMMA MinimalElement ==
  ASSUME NEW R, IsWellFoundedOn(R, Nat), NEW T, T \subseteq Nat, T # {}
  PROVE  \E i \in T : \A j \in T : ~(<<j, i>> \in R)
BY WFMin, Zenon

(* A set of natural numbers that is not empty has a least element. *)
LEMMA LeastElement ==
  ASSUME NEW T, T \subseteq Nat, T # {}
  PROVE  \E i \in T : \A j \in T : i <= j
<1>1. PICK R : IsWellFoundedOn(R, Nat) /\ \A j, k \in Nat : j < k => <<j, k>> \in R
  BY LessThanRelation
<1>2. \E i \in T : \A j \in T : ~(<<j, i>> \in R)
  BY <1>1, MinimalElement
<1>3. PICK i \in T : \A j \in T : ~(<<j, i>> \in R)
  BY <1>2
<1>4. ASSUME NEW j \in T PROVE i <= j
  <2>1. i \in Nat /\ j \in Nat
    OBVIOUS
  <2>2. ~(j < i)
    BY <1>1, <1>3, <2>1
  <2> QED
    BY <2>1, <2>2
<1> QED
  BY <1>4

-----------------------------------------------------------------------------
(* Induction.                                                              *)

(* Induction for a set of natural numbers.                                 *)
LEMMA NatSetInduction ==
  ASSUME NEW T, 0 \in T, \A n \in Nat : n \in T => n + 1 \in T
  PROVE  Nat \subseteq T
<1> DEFINE Rest == Nat \ T
<1>1. SUFFICES ASSUME Rest # {} PROVE FALSE
  OBVIOUS
<1>2. Rest \subseteq Nat
  OBVIOUS
<1>3. PICK i \in Rest : \A j \in Rest : i <= j
  BY <1>1, <1>2, LeastElement
<1>4. i \in Nat /\ i # 0 /\ i - 1 \in Nat
  BY <1>3
<1>5. i - 1 \in T
  BY <1>3, <1>4
<1>6. (i - 1) + 1 = i
  BY <1>4
<1> QED
  BY <1>3, <1>4, <1>5, <1>6

(* Induction for a set of subsets of a finite set.                         *)
LEMMA SubsetInduction ==
  ASSUME NEW S, IsFiniteSet(S), NEW Good,
         {} \in Good,
         \A s \in SUBSET S :
           s # {} /\ (\A x \in s : s \ {x} \in Good) => s \in Good
  PROVE  \A s \in SUBSET S : s \in Good
<1> DEFINE Size == {n \in Nat : \A s \in SUBSET S : Cardinality(s) <= n => s \in Good}
<1>1. \A s \in SUBSET S : IsFiniteSet(s) /\ Cardinality(s) \in Nat
  BY FS_Subset, FS_CardinalityType
<1>2. 0 \in Size
  <2>1. ASSUME NEW s \in SUBSET S, Cardinality(s) <= 0 PROVE s = {}
    BY <1>1, <2>1, FS_EmptySet
  <2> QED
    BY <2>1
<1>3. ASSUME NEW n \in Nat, n \in Size PROVE n + 1 \in Size
  <2>1. ASSUME NEW s \in SUBSET S, Cardinality(s) <= n + 1, s # {}
        PROVE  s \in Good
    <3>1. ASSUME NEW x \in s PROVE s \ {x} \in Good
      <4>1. Cardinality(s \ {x}) = Cardinality(s) - 1
        BY <1>1, FS_RemoveElement
      <4>2. Cardinality(s \ {x}) <= n
        BY <1>1, <2>1, <4>1
      <4> QED
        BY <1>3, <4>2
    <3> QED
      BY <2>1, <3>1
  <2>2. \A s \in SUBSET S : Cardinality(s) <= n + 1 => s \in Good
    BY <2>1
  <2> QED
    BY <2>2
<1>4. Nat \subseteq Size
  <2> HIDE DEF Size
  <2> QED
    BY <1>2, <1>3, NatSetInduction
<1>5. ASSUME NEW s \in SUBSET S PROVE s \in Good
  <2>1. Cardinality(s) \in Size
    BY <1>1, <1>4
  <2> QED
    BY <1>1, <2>1
<1> QED
  BY <1>5

-----------------------------------------------------------------------------
(* Two sets that a function puts into correspondence have the same size.   *)
LEMMA SameSize ==
  ASSUME NEW S, IsFiniteSet(S), NEW T, NEW f \in [S -> T],
         \A x, y \in S : f[x] = f[y] => x = y,
         \A z \in T : \E x \in S : f[x] = z
  PROVE  IsFiniteSet(T) /\ Cardinality(T) = Cardinality(S)
<1>1. f \in Injection(S, T)
  BY DEF Injection, IsInjective
<1>2. f \in Surjection(S, T)
  BY DEF Surjection
<1>3. ExistsBijection(S, T)
  BY <1>1, <1>2 DEF ExistsBijection, Bijection
<1> QED
  BY <1>3, FS_Bijection

(* Numbers that are moved up by one are as many. *)
LEMMA ShiftedSize ==
  ASSUME NEW S \in SUBSET Int, IsFiniteSet(S), NEW T \in SUBSET Int,
         \A i \in Int : i \in S <=> i + 1 \in T
  PROVE  IsFiniteSet(T) /\ Cardinality(T) = Cardinality(S)
<1> DEFINE f == [i \in S |-> i + 1]
<1>1. f \in [S -> T]
  OBVIOUS
<1>2. \A x, y \in S : f[x] = f[y] => x = y
  OBVIOUS
<1>3. ASSUME NEW z \in T PROVE \E x \in S : f[x] = z
  <2>1. z - 1 \in Int /\ (z - 1) + 1 = z
    OBVIOUS
  <2>2. z - 1 \in S
    BY <2>1
  <2> QED
    BY <2>1, <2>2
<1> HIDE DEF f
<1> QED
  BY <1>1, <1>2, <1>3, SameSize

-----------------------------------------------------------------------------
(* Sums.                                                                   *)

Pick(s) == CHOOSE x \in s : TRUE

(* g gives the sum of f over every subset of S. *)
SumsOf(f, S, g) ==
  g = [s \in SUBSET S |-> IF s = {} THEN 0 ELSE f[Pick(s)] + g[s \ {Pick(s)}]]

SumOver(f, S) == (CHOOSE g : SumsOf(f, S, g))[S]

(* There are such sums over a finite set. *)
LEMMA SumsExist ==
  ASSUME NEW S, IsFiniteSet(S), NEW f
  PROVE  \E g : SumsOf(f, S, g)
<1> DEFINE Step(s, g) == IF s = {} THEN 0 ELSE f[Pick(s)] + g[s \ {Pick(s)}]
           Upto(n, g) == \A s \in SUBSET S : Cardinality(s) <= n => g[s] = Step(s, g)
           Size == {n \in Nat : \E g : Upto(n, g)}
<1>1. \A s \in SUBSET S : IsFiniteSet(s) /\ Cardinality(s) \in Nat
  BY FS_Subset, FS_CardinalityType
<1>2. \A s \in SUBSET S : s # {} =>
        /\ s \ {Pick(s)} \in SUBSET S
        /\ Cardinality(s \ {Pick(s)}) = Cardinality(s) - 1
  <2>1. SUFFICES ASSUME NEW s \in SUBSET S, s # {}
                 PROVE  /\ s \ {Pick(s)} \in SUBSET S
                        /\ Cardinality(s \ {Pick(s)}) = Cardinality(s) - 1
    OBVIOUS
  <2>2. Pick(s) \in s
    BY <2>1 DEF Pick
  <2> QED
    BY <1>1, <2>2, FS_RemoveElement
<1>3. 0 \in Size
  <2>1. Upto(0, [s \in SUBSET S |-> 0])
    <3>1. ASSUME NEW s \in SUBSET S, Cardinality(s) <= 0 PROVE s = {}
      BY <1>1, <3>1, FS_EmptySet
    <3> QED
      BY <3>1
  <2> QED
    BY <2>1
<1>4. ASSUME NEW n \in Nat, n \in Size PROVE n + 1 \in Size
  <2>1. PICK g : Upto(n, g)
    BY <1>4
  <2> DEFINE h == [s \in SUBSET S |-> IF Cardinality(s) <= n THEN g[s] ELSE Step(s, g)]
  <2>2. ASSUME NEW s \in SUBSET S, Cardinality(s) <= n + 1, s # {}
        PROVE  h[s] = Step(s, g) /\ h[s \ {Pick(s)}] = g[s \ {Pick(s)}]
    <3>1. s \ {Pick(s)} \in SUBSET S /\ Cardinality(s \ {Pick(s)}) <= n
      BY <1>1, <1>2, <2>2
    <3>2. h[s \ {Pick(s)}] = g[s \ {Pick(s)}]
      BY <3>1
    <3>3. h[s] = Step(s, g)
      BY <2>1
    <3> QED
      BY <3>2, <3>3
  <2>3. h[{}] = 0
    <3>1. {} \in SUBSET S /\ Cardinality({}) = 0
      BY FS_EmptySet
    <3>2. h[{}] = g[{}]
      BY <3>1
    <3> QED
      BY <2>1, <3>1, <3>2
  <2>4. Upto(n + 1, h)
    <3> HIDE DEF h
    <3> QED
      BY <2>2, <2>3
  <2> HIDE DEF h, Upto
  <2> QED
    BY <2>4
<1>5. Cardinality(S) \in Size
  <2> HIDE DEF Size
  <2> QED
    BY <1>1, <1>3, <1>4, NatSetInduction
<1>6. PICK g : Upto(Cardinality(S), g)
  BY <1>5
<1>7. ASSUME NEW s \in SUBSET S PROVE Cardinality(s) <= Cardinality(S)
  BY FS_Subset
<1> DEFINE h == [s \in SUBSET S |-> g[s]]
<1>8. ASSUME NEW s \in SUBSET S PROVE h[s] = Step(s, h)
  <2>1. g[s] = Step(s, g)
    BY <1>6, <1>7
  <2>2. CASE s = {}
    BY <2>1, <2>2
  <2>3. CASE s # {}
    BY <2>1, <2>3, <1>2
  <2> QED
    BY <2>2, <2>3
<1>9. h = [s \in SUBSET S |-> h[s]]
  OBVIOUS
<1> QED
  <2> HIDE DEF h
  <2>1. h = [s \in SUBSET S |-> Step(s, h)]
    BY <1>8, <1>9
  <2> QED
    BY <2>1 DEF SumsOf

(* g satisfies the equation of the sums of f on s. *)
SumEquation(f, g, s) ==
  /\ s = {} => g[s] = 0
  /\ s # {} => Pick(s) \in s /\ g[s] = f[Pick(s)] + g[s \ {Pick(s)}]

(* The equation of the sums, one subset at a time. *)
LEMMA SumsEquation ==
  ASSUME NEW S, NEW f, NEW g, SumsOf(f, S, g)
  PROVE  \A s \in SUBSET S : SumEquation(f, g, s)
<1>1. SUFFICES ASSUME NEW s \in SUBSET S
               PROVE  SumEquation(f, g, s)
  OBVIOUS
<1> DEFINE F == [r \in SUBSET S |-> IF r = {} THEN 0 ELSE f[Pick(r)] + g[r \ {Pick(r)}]]
<1>2. g = F
  BY DEF SumsOf
<1>3. F[s] = IF s = {} THEN 0 ELSE f[Pick(s)] + g[s \ {Pick(s)}]
  OBVIOUS
<1>4. s # {} => Pick(s) \in s
  BY DEF Pick
<1> HIDE DEF F
<1>5. g[s] = F[s]
  BY <1>2
<1> QED
  BY <1>3, <1>4, <1>5 DEF SumEquation

(* Sums of functions that agree on a set agree on it. *)
LEMMA SumsAgree ==
  ASSUME NEW S, NEW T, IsFiniteSet(S), NEW f, NEW g, NEW h, NEW k,
         SumsOf(f, S, h), SumsOf(g, T, k)
  PROVE  \A R \in SUBSET (S \cap T) : (\A x \in R : f[x] = g[x]) => h[R] = k[R]
<1> SUFFICES ASSUME NEW R \in SUBSET (S \cap T), \A x \in R : f[x] = g[x]
             PROVE  h[R] = k[R]
  OBVIOUS
<1> DEFINE Good == {s \in SUBSET R : h[s] = k[s]}
<1>1. IsFiniteSet(R)
  BY FS_Subset
<1>a. \A s \in SUBSET S : SumEquation(f, h, s)
  BY SumsEquation
<1>b. \A s \in SUBSET T : SumEquation(g, k, s)
  BY SumsEquation
<1>2. {} \in Good
  <2>1. h[{}] = 0 /\ k[{}] = 0
    BY <1>a, <1>b DEF SumEquation
  <2> QED
    BY <2>1
<1>3. ASSUME NEW s \in SUBSET R, s # {}, \A x \in s : s \ {x} \in Good
      PROVE  s \in Good
  <2>1. /\ Pick(s) \in s
        /\ h[s] = f[Pick(s)] + h[s \ {Pick(s)}]
    BY <1>3, <1>a DEF SumEquation
  <2>2. k[s] = g[Pick(s)] + k[s \ {Pick(s)}]
    BY <1>3, <1>b DEF SumEquation
  <2>3. h[s \ {Pick(s)}] = k[s \ {Pick(s)}]
    BY <1>3, <2>1
  <2>4. f[Pick(s)] = g[Pick(s)]
    BY <2>1
  <2> QED
    BY <2>1, <2>2, <2>3, <2>4
<1>4. \A s \in SUBSET R : s \in Good
  <2> HIDE DEF Good
  <2> QED
    BY <1>1, <1>2, <1>3, SubsetInduction
<1> QED
  BY <1>4

(* Sums of integers are integers, those of natural numbers natural.        *)
LEMMA SumsType ==
  ASSUME NEW S, IsFiniteSet(S), NEW f, NEW g, SumsOf(f, S, g),
         NEW N \in {Nat, Int}, \A x \in S : f[x] \in N
  PROVE  \A s \in SUBSET S : g[s] \in N
<1> DEFINE Good == {s \in SUBSET S : g[s] \in N}
<1>a. \A s \in SUBSET S : SumEquation(f, g, s)
  BY SumsEquation
<1>1. {} \in Good
  <2>1. g[{}] = 0
    BY <1>a DEF SumEquation
  <2> QED
    BY <2>1
<1>2. ASSUME NEW s \in SUBSET S, s # {}, \A x \in s : s \ {x} \in Good
      PROVE  s \in Good
  <2>1. /\ Pick(s) \in s
        /\ g[s] = f[Pick(s)] + g[s \ {Pick(s)}]
    BY <1>2, <1>a DEF SumEquation
  <2>2. f[Pick(s)] \in N /\ g[s \ {Pick(s)}] \in N
    BY <1>2, <2>1
  <2> QED
    BY <2>1, <2>2
<1>3. \A s \in SUBSET S : s \in Good
  <2> HIDE DEF Good
  <2> QED
    BY <1>1, <1>2, SubsetInduction
<1> QED
  BY <1>3

(* Any element can be taken out of a sum first. *)
LEMMA SumsTakeOut ==
  ASSUME NEW S, IsFiniteSet(S), NEW f, NEW g, SumsOf(f, S, g),
         \A x \in S : f[x] \in Int
  PROVE  \A s \in SUBSET S : \A x \in s : g[s] = f[x] + g[s \ {x}]
<1> DEFINE Good == {s \in SUBSET S : \A x \in s : g[s] = f[x] + g[s \ {x}]}
<1>a. \A s \in SUBSET S : SumEquation(f, g, s)
  BY SumsEquation
<1>1. {} \in Good
  OBVIOUS
<1>2. \A s \in SUBSET S : g[s] \in Int
  BY SumsType
<1>3. ASSUME NEW s \in SUBSET S, s # {}, \A x \in s : s \ {x} \in Good
      PROVE  s \in Good
  <2> DEFINE p == Pick(s)
  <2>1. /\ p \in s
        /\ g[s] = f[p] + g[s \ {p}]
    BY <1>3, <1>a DEF SumEquation
  <2> HIDE DEF p
  <2>2. ASSUME NEW x \in s, x # p PROVE g[s] = f[x] + g[s \ {x}]
    <3>1. g[s \ {p}] = f[x] + g[(s \ {p}) \ {x}]
      BY <1>3, <2>1, <2>2
    <3>2. g[s \ {x}] = f[p] + g[(s \ {x}) \ {p}]
      BY <1>3, <2>1, <2>2
    <3>3. (s \ {x}) \ {p} = (s \ {p}) \ {x}
      OBVIOUS
    <3>4. f[x] \in Int /\ f[p] \in Int /\ g[(s \ {p}) \ {x}] \in Int
      <4>1. (s \ {p}) \ {x} \in SUBSET S /\ x \in S /\ p \in S
        BY <2>1
      <4> QED
        BY <4>1, <1>2
    <3> DEFINE r == g[(s \ {p}) \ {x}]
    <3>5. g[s] = f[p] + (f[x] + r) /\ g[s \ {x}] = f[p] + r /\ r \in Int
      BY <2>1, <3>1, <3>2, <3>3, <3>4
    <3> HIDE DEF r
    <3> QED
      BY <3>4, <3>5
  <2> QED
    BY <2>1, <2>2
<1>4. \A s \in SUBSET S : s \in Good
  <2> HIDE DEF Good
  <2> QED
    BY <1>1, <1>3, SubsetInduction
<1> QED
  BY <1>4

-----------------------------------------------------------------------------
(* The same facts for the sum over one set.                                *)

LEMMA SumOverSums ==
  ASSUME NEW S, IsFiniteSet(S), NEW f
  PROVE  \E g : SumsOf(f, S, g) /\ SumOver(f, S) = g[S]
BY SumsExist DEF SumOver

(* It does not matter which sums one takes. *)
LEMMA SumOverIs ==
  ASSUME NEW S, IsFiniteSet(S), NEW f, NEW g, SumsOf(f, S, g)
  PROVE  SumOver(f, S) = g[S]
<1>1. PICK h : SumsOf(f, S, h) /\ SumOver(f, S) = h[S]
  BY SumOverSums
<1> QED
  BY <1>1, SumsAgree

LEMMA SumEmpty ==
  ASSUME NEW f PROVE SumOver(f, {}) = 0
<1>1. PICK g : SumsOf(f, {}, g) /\ SumOver(f, {}) = g[{}]
  BY SumOverSums, FS_EmptySet
<1>2. SumEquation(f, g, {})
  BY <1>1, SumsEquation
<1> QED
  BY <1>1, <1>2 DEF SumEquation

LEMMA SumSame ==
  ASSUME NEW S, IsFiniteSet(S), NEW f, NEW g, \A x \in S : f[x] = g[x]
  PROVE  SumOver(f, S) = SumOver(g, S)
<1>1. PICK h : SumsOf(f, S, h) /\ SumOver(f, S) = h[S]
  BY SumOverSums
<1>2. PICK k : SumsOf(g, S, k) /\ SumOver(g, S) = k[S]
  BY SumOverSums
<1>3. \A R \in SUBSET (S \cap S) : (\A x \in R : f[x] = g[x]) => h[R] = k[R]
  BY <1>1, <1>2, SumsAgree
<1>4. h[S] = k[S]
  BY <1>3
<1> QED
  BY <1>1, <1>2, <1>4

LEMMA SumInt ==
  ASSUME NEW S, IsFiniteSet(S), NEW f, \A x \in S : f[x] \in Int
  PROVE  SumOver(f, S) \in Int
<1>1. PICK g : SumsOf(f, S, g) /\ SumOver(f, S) = g[S]
  BY SumOverSums
<1>2. \A s \in SUBSET S : g[s] \in Int
  BY <1>1, SumsType
<1> QED
  BY <1>1, <1>2

LEMMA SumNat ==
  ASSUME NEW S, IsFiniteSet(S), NEW f, \A x \in S : f[x] \in Nat
  PROVE  SumOver(f, S) \in Nat
<1>1. PICK g : SumsOf(f, S, g) /\ SumOver(f, S) = g[S]
  BY SumOverSums
<1>2. \A s \in SUBSET S : g[s] \in Nat
  BY <1>1, SumsType
<1> QED
  BY <1>1, <1>2

LEMMA SumTakeOut ==
  ASSUME NEW S, IsFiniteSet(S), NEW f, \A x \in S : f[x] \in Int, NEW x \in S
  PROVE  /\ SumOver(f, S) = f[x] + SumOver(f, S \ {x})
         /\ SumOver(f, S \ {x}) \in Int
<1>1. PICK g : SumsOf(f, S, g) /\ SumOver(f, S) = g[S]
  BY SumOverSums
<1>2. g[S] = f[x] + g[S \ {x}]
  BY <1>1, SumsTakeOut
<1>3. IsFiniteSet(S \ {x})
  BY FS_Subset
<1>4. PICK h : SumsOf(f, S \ {x}, h) /\ SumOver(f, S \ {x}) = h[S \ {x}]
  BY <1>3, SumOverSums
<1>5. g[S \ {x}] = h[S \ {x}]
  BY <1>1, <1>4, SumsAgree
<1>6. SumOver(f, S \ {x}) \in Int
  BY <1>3, SumInt
<1> QED
  BY <1>1, <1>2, <1>4, <1>5, <1>6

LEMMA SumAdd ==
  ASSUME NEW S, IsFiniteSet(S), NEW x, x \notin S, NEW f,
         \A y \in S \cup {x} : f[y] \in Int
  PROVE  SumOver(f, S \cup {x}) = f[x] + SumOver(f, S)
<1>1. IsFiniteSet(S \cup {x})
  BY FS_AddElement
<1>2. (S \cup {x}) \ {x} = S
  OBVIOUS
<1>3. x \in S \cup {x}
  OBVIOUS
<1>4. SumOver(f, S \cup {x}) = f[x] + SumOver(f, (S \cup {x}) \ {x})
  BY <1>1, <1>3, SumTakeOut
<1> QED
  BY <1>2, <1>4

(* One summand changes. *)
LEMMA SumChange ==
  ASSUME NEW S, IsFiniteSet(S), NEW f, NEW g, NEW x \in S,
         \A y \in S : f[y] \in Int /\ g[y] \in Int,
         \A y \in S : y # x => f[y] = g[y]
  PROVE  SumOver(g, S) = SumOver(f, S) + (g[x] - f[x])
<1>1. /\ SumOver(f, S) = f[x] + SumOver(f, S \ {x})
      /\ SumOver(f, S \ {x}) \in Int
  BY SumTakeOut
<1>2. SumOver(g, S) = g[x] + SumOver(g, S \ {x})
  BY SumTakeOut
<1>3. IsFiniteSet(S \ {x})
  BY FS_Subset
<1>4. \A y \in S \ {x} : f[y] = g[y]
  OBVIOUS
<1>5. SumOver(f, S \ {x}) = SumOver(g, S \ {x})
  BY <1>3, <1>4, SumSame
<1>6. f[x] \in Int /\ g[x] \in Int
  OBVIOUS
<1> QED
  BY <1>1, <1>2, <1>5, <1>6

(* A sum of natural numbers is at least each of them. *)
LEMMA SumAtLeast ==
  ASSUME NEW S, IsFiniteSet(S), NEW f, \A y \in S : f[y] \in Nat, NEW x \in S
  PROVE  f[x] <= SumOver(f, S)
<1>1. SumOver(f, S) = f[x] + SumOver(f, S \ {x})
  BY SumTakeOut
<1>2. IsFiniteSet(S \ {x})
  BY FS_Subset
<1>3. SumOver(f, S \ {x}) \in Nat
  BY <1>2, SumNat
<1> QED
  BY <1>1, <1>3

(* The sum of zeros. *)
LEMMA SumZeros ==
  ASSUME NEW S, IsFiniteSet(S), NEW f, \A x \in S : f[x] = 0
  PROVE  SumOver(f, S) = 0
<1> DEFINE Good == {s \in SUBSET S : SumOver(f, s) = 0}
<1>1. {} \in Good
  BY SumEmpty
<1>2. ASSUME NEW s \in SUBSET S, s # {}, \A x \in s : s \ {x} \in Good
      PROVE  s \in Good
  <2>1. PICK x \in s : TRUE
    BY <1>2
  <2>2. IsFiniteSet(s)
    BY FS_Subset
  <2>3. SumOver(f, s) = f[x] + SumOver(f, s \ {x})
    BY <2>2, SumTakeOut
  <2> QED
    BY <1>2, <2>3
<1>3. \A s \in SUBSET S : s \in Good
  <2> HIDE DEF Good
  <2> QED
    BY <1>1, <1>2, SubsetInduction
<1> QED
  BY <1>3

(* Summands that are zero can be left out. *)
LEMMA SumRestrict ==
  ASSUME NEW S, IsFiniteSet(S), NEW f, \A x \in S : f[x] \in Int,
         NEW T, T \subseteq S, \A x \in S \ T : f[x] = 0
  PROVE  SumOver(f, S) = SumOver(f, T)
<1> DEFINE Good == {s \in SUBSET S : SumOver(f, s) = SumOver(f, s \cap T)}
<1>1. {} \in Good
  BY SumEmpty
<1>2. ASSUME NEW s \in SUBSET S, s # {}, \A x \in s : s \ {x} \in Good
      PROVE  s \in Good
  <2>1. PICK x \in s : TRUE
    BY <1>2
  <2>2. IsFiniteSet(s) /\ IsFiniteSet(s \cap T)
    BY FS_Subset
  <2>3. SumOver(f, s) = f[x] + SumOver(f, s \ {x}) /\ SumOver(f, s \ {x}) \in Int
    BY <2>2, SumTakeOut
  <2>4. SumOver(f, s \ {x}) = SumOver(f, (s \ {x}) \cap T)
    BY <1>2, <2>1
  <2>5. CASE x \in T
    <3>1. (s \cap T) \ {x} = (s \ {x}) \cap T /\ x \in s \cap T
      BY <2>5
    <3>2. \A y \in s \cap T : f[y] \in Int
      OBVIOUS
    <3>3. SumOver(f, s \cap T) = f[x] + SumOver(f, (s \cap T) \ {x})
      BY <2>2, <3>1, <3>2, SumTakeOut
    <3>4. SumOver(f, s) = SumOver(f, s \cap T)
      BY <2>3, <2>4, <3>1, <3>3
    <3> QED
      BY <3>4
  <2>6. CASE x \notin T
    <3>1. (s \ {x}) \cap T = s \cap T /\ f[x] = 0
      BY <2>6
    <3>2. SumOver(f, s) = SumOver(f, s \ {x})
      BY <2>3, <3>1
    <3>3. SumOver(f, s) = SumOver(f, s \cap T)
      BY <2>4, <3>1, <3>2
    <3> QED
      BY <3>3
  <2> QED
    BY <2>5, <2>6
<1>3. \A s \in SUBSET S : s \in Good
  <2> HIDE DEF Good
  <2> QED
    BY <1>1, <1>2, SubsetInduction
<1>4. S \cap T = T
  OBVIOUS
<1> QED
  BY <1>3, <1>4

(* The sum over two sets that have nothing in common. *)
LEMMA SumUnion ==
  ASSUME NEW S, IsFiniteSet(S), NEW T, IsFiniteSet(T), S \cap T = {},
         NEW f, \A x \in S \cup T : f[x] \in Int
  PROVE  /\ SumOver(f, S \cup T) = SumOver(f, S) + SumOver(f, T)
         /\ SumOver(f, S) \in Int /\ SumOver(f, T) \in Int
<1> DEFINE Good == {s \in SUBSET T : SumOver(f, S \cup s) = SumOver(f, S) + SumOver(f, s)}
<1>1. SumOver(f, S) \in Int /\ SumOver(f, T) \in Int
  BY SumInt
<1>2. {} \in Good
  <2>1. S \cup {} = S /\ SumOver(f, {}) = 0
    BY SumEmpty
  <2> QED
    BY <1>1, <2>1
<1>3. ASSUME NEW s \in SUBSET T, s # {}, \A x \in s : s \ {x} \in Good
      PROVE  s \in Good
  <2>1. PICK x \in s : TRUE
    BY <1>3
  <2>2. IsFiniteSet(s) /\ IsFiniteSet(S \cup s) /\ x \in S \cup s
    BY FS_Subset, FS_Union
  <2>3. SumOver(f, s) = f[x] + SumOver(f, s \ {x}) /\ SumOver(f, s \ {x}) \in Int
    BY <2>2, SumTakeOut
  <2>4. SumOver(f, S \cup s) = f[x] + SumOver(f, (S \cup s) \ {x})
    <3>1. \A y \in S \cup s : f[y] \in Int
      OBVIOUS
    <3> QED
      BY <2>2, <3>1, SumTakeOut
  <2>5. (S \cup s) \ {x} = S \cup (s \ {x})
    OBVIOUS
  <2>6. SumOver(f, S \cup (s \ {x})) = SumOver(f, S) + SumOver(f, s \ {x})
    BY <1>3, <2>1
  <2>7. f[x] \in Int
    OBVIOUS
  <2>8. \A a, b, c \in Int : a + (b + c) = b + (a + c)
    OBVIOUS
  <2>9. SumOver(f, S \cup s) = f[x] + (SumOver(f, S) + SumOver(f, s \ {x}))
    BY <2>4, <2>5, <2>6
  <2>10. SumOver(f, S \cup s) = SumOver(f, S) + SumOver(f, s)
    BY <1>1, <2>3, <2>7, <2>8, <2>9
  <2> QED
    BY <2>10
<1>4. \A s \in SUBSET T : s \in Good
  <2> HIDE DEF Good
  <2> QED
    BY <1>2, <1>3, SubsetInduction
<1> QED
  BY <1>1, <1>4

(* More natural numbers have a sum that is not less. *)
LEMMA SumMonotone ==
  ASSUME NEW S, IsFiniteSet(S), NEW T, T \subseteq S,
         NEW f, \A x \in S : f[x] \in Nat
  PROVE  /\ SumOver(f, T) <= SumOver(f, S)
         /\ SumOver(f, T) \in Nat /\ SumOver(f, S) \in Nat
<1>1. IsFiniteSet(T) /\ IsFiniteSet(S \ T) /\ T \cup (S \ T) = S
  BY FS_Subset
<1>2. \A x \in T \cup (S \ T) : f[x] \in Int
  OBVIOUS
<1>3. SumOver(f, S) = SumOver(f, T) + SumOver(f, S \ T)
  <2>1. T \cap (S \ T) = {}
    OBVIOUS
  <2>2. SumOver(f, T \cup (S \ T)) = SumOver(f, T) + SumOver(f, S \ T)
    BY <1>1, <1>2, <2>1, SumUnion
  <2> QED
    BY <1>1, <2>2
<1>4. SumOver(f, T) \in Nat /\ SumOver(f, S \ T) \in Nat
  BY <1>1, SumNat
<1> QED
  BY <1>3, <1>4

(* A finite set of integers that is not empty has a greatest element. *)
LEMMA GreatestElement ==
  ASSUME NEW S \in SUBSET Int, IsFiniteSet(S), S # {}
  PROVE  \E x \in S : \A y \in S : x >= y
<1> DEFINE Good == {s \in SUBSET S : s = {} \/ \E x \in s : \A y \in s : x >= y}
<1>1. {} \in Good
  OBVIOUS
<1>2. ASSUME NEW s \in SUBSET S, s # {}, \A x \in s : s \ {x} \in Good
      PROVE  s \in Good
  <2>1. PICK z \in s : TRUE
    BY <1>2
  <2>2. z \in Int /\ s \subseteq Int
    OBVIOUS
  <2>3. CASE s \ {z} = {}
    <3>1. \A y \in s : z >= y
      BY <2>2, <2>3
    <3> QED
      BY <3>1
  <2>4. CASE s \ {z} # {}
    <3>1. PICK x \in s \ {z} : \A y \in s \ {z} : x >= y
      BY <1>2, <2>4
    <3>2. CASE x >= z
      <4>1. \A y \in s : x >= y
        BY <3>1, <3>2
      <4> QED
        BY <4>1
    <3>3. CASE z >= x
      <4>1. \A y \in s : z >= y
        BY <2>2, <3>1, <3>3
      <4> QED
        BY <4>1
    <3> QED
      BY <2>2, <3>2, <3>3
  <2> QED
    BY <2>3, <2>4
<1>3. \A s \in SUBSET S : s \in Good
  <2> HIDE DEF Good
  <2> QED
    BY <1>1, <1>2, SubsetInduction
<1> QED
  BY <1>3

(* A sum of zeros and ones counts the ones. *)
LEMMA SumOfBits ==
  ASSUME NEW S, IsFiniteSet(S), NEW f, \A x \in S : f[x] \in {0, 1}
  PROVE  SumOver(f, S) = Cardinality({x \in S : f[x] = 1})
<1> DEFINE Ones(s) == {x \in s : f[x] = 1}
           Good == {s \in SUBSET S : SumOver(f, s) = Cardinality(Ones(s))}
<1>1. {} \in Good
  <2>1. Ones({}) = {}
    OBVIOUS
  <2> QED
    BY <2>1, SumEmpty, FS_EmptySet
<1>2. ASSUME NEW s \in SUBSET S, s # {}, \A x \in s : s \ {x} \in Good
      PROVE  s \in Good
  <2>1. PICK z \in s : TRUE
    BY <1>2
  <2>2. IsFiniteSet(s) /\ IsFiniteSet(Ones(s)) /\ Cardinality(Ones(s)) \in Nat
    BY FS_Subset, FS_CardinalityType
  <2>3. SumOver(f, s) = f[z] + SumOver(f, s \ {z})
    <3>1. \A x \in s : f[x] \in Int
      OBVIOUS
    <3> QED
      BY <2>2, <3>1, SumTakeOut
  <2>4. SumOver(f, s \ {z}) = Cardinality(Ones(s \ {z}))
    BY <1>2
  <2>5. CASE f[z] = 1
    <3>1. Ones(s \ {z}) = Ones(s) \ {z} /\ z \in Ones(s)
      BY <2>5
    <3>2. Cardinality(Ones(s) \ {z}) = Cardinality(Ones(s)) - 1
      BY <2>2, <3>1, FS_RemoveElement
    <3>3. SumOver(f, s) = 1 + (Cardinality(Ones(s)) - 1)
      BY <2>3, <2>4, <2>5, <3>1, <3>2
    <3>4. SumOver(f, s) = Cardinality(Ones(s))
      BY <2>2, <3>3
    <3> QED
      BY <3>4
  <2>6. CASE f[z] = 0
    <3>1. Ones(s \ {z}) = Ones(s)
      BY <2>6
    <3>2. SumOver(f, s) = 0 + Cardinality(Ones(s))
      BY <2>3, <2>4, <2>6, <3>1
    <3>3. SumOver(f, s) = Cardinality(Ones(s))
      BY <2>2, <3>2
    <3> QED
      BY <3>3
  <2> QED
    BY <2>5, <2>6
<1>3. \A s \in SUBSET S : s \in Good
  <2> HIDE DEF Good
  <2> QED
    BY <1>1, <1>2, SubsetInduction
<1> QED
  BY <1>3

(* A sum is at most a multiple of another when each summand is. *)
LEMMA SumBounded ==
  ASSUME NEW S, IsFiniteSet(S), NEW f, NEW g, NEW m \in Nat,
         \A x \in S : f[x] \in Nat /\ g[x] \in Nat /\ f[x] <= g[x] * m
  PROVE  SumOver(f, S) <= SumOver(g, S) * m
<1> DEFINE Good == {s \in SUBSET S : SumOver(f, s) <= SumOver(g, s) * m}
<1>1. {} \in Good
  <2>1. 0 <= 0 * m
    OBVIOUS
  <2> QED
    BY <2>1, SumEmpty
<1>2. ASSUME NEW s \in SUBSET S, s # {}, \A x \in s : s \ {x} \in Good
      PROVE  s \in Good
  <2>1. PICK z \in s : TRUE
    BY <1>2
  <2>2. IsFiniteSet(s)
    BY FS_Subset
  <2>a. \A x \in s : f[x] \in Int /\ g[x] \in Int
    OBVIOUS
  <2>3. SumOver(f, s) = f[z] + SumOver(f, s \ {z}) /\ SumOver(f, s \ {z}) \in Int
    BY <2>2, <2>a, SumTakeOut
  <2>4. SumOver(g, s) = g[z] + SumOver(g, s \ {z}) /\ SumOver(g, s \ {z}) \in Int
    BY <2>2, <2>a, SumTakeOut
  <2>5. SumOver(f, s \ {z}) <= SumOver(g, s \ {z}) * m
    BY <1>2
  <2>6. f[z] \in Int /\ g[z] \in Int /\ f[z] <= g[z] * m
    BY <2>1, <2>a
  <2>7. \A a, b \in Int : (a + b) * m = a * m + b * m /\ a * m \in Int /\ b * m \in Int
    OBVIOUS
  <2>8. \A a, b, c, d \in Int : a <= c /\ b <= d => a + b <= c + d
    OBVIOUS
  <2>9. f[z] + SumOver(f, s \ {z}) <= g[z] * m + SumOver(g, s \ {z}) * m
    BY <2>3, <2>4, <2>5, <2>6, <2>7, <2>8
  <2>10. SumOver(g, s) * m = g[z] * m + SumOver(g, s \ {z}) * m
    BY <2>4, <2>6, <2>7
  <2>11. SumOver(f, s) <= SumOver(g, s) * m
    BY <2>3, <2>9, <2>10
  <2> QED
    BY <2>11
<1>3. \A s \in SUBSET S : s \in Good
  <2> HIDE DEF Good
  <2> QED
    BY <1>1, <1>2, SubsetInduction
<1> QED
  BY <1>3

(* A sum can be taken group by group. *)
LEMMA SumByGroup ==
  ASSUME NEW S, IsFiniteSet(S), NEW f, \A x \in S : f[x] \in Int,
         NEW K, IsFiniteSet(K), NEW group, \A x \in S : group[x] \in K
  PROVE  SumOver(f, S)
           = SumOver([k \in K |-> SumOver(f, {x \in S : group[x] = k})], K)
<1> DEFINE In(s, k) == {x \in s : group[x] = k}
           by(s) == [k \in K |-> SumOver(f, In(s, k))]
           Good == {s \in SUBSET S : SumOver(f, s) = SumOver(by(s), K)}
<1>a. ASSUME NEW s \in SUBSET S
      PROVE  /\ IsFiniteSet(s) /\ (\A x \in s : f[x] \in Int) /\ SumOver(f, s) \in Int
             /\ \A k \in K : IsFiniteSet(In(s, k)) /\ by(s)[k] \in Int
  <2>1. IsFiniteSet(s) /\ \A x \in s : f[x] \in Int
    BY FS_Subset
  <2>2. \A k \in K : IsFiniteSet(In(s, k)) /\ \A x \in In(s, k) : f[x] \in Int
    BY <2>1, FS_Subset
  <2>3. SumOver(f, s) \in Int
    BY <2>1, SumInt
  <2>4. \A k \in K : SumOver(f, In(s, k)) \in Int
    <3> HIDE DEF In
    <3> QED
      BY <2>2, SumInt
  <2> QED
    BY <2>1, <2>2, <2>3, <2>4
<1>1. {} \in Good
  <2>1. \A k \in K : by({})[k] = 0
    <3>1. \A k : In({}, k) = {}
      OBVIOUS
    <3> HIDE DEF In
    <3> QED
      BY <3>1, SumEmpty
  <2> HIDE DEF by
  <2>2. SumOver(by({}), K) = 0
    BY <2>1, SumZeros
  <2> QED
    BY <2>2, SumEmpty
<1>2. ASSUME NEW s \in SUBSET S, s # {}, \A x \in s : s \ {x} \in Good
      PROVE  s \in Good
  <2>1. PICK z \in s : TRUE
    BY <1>2
  <2> DEFINE r == s \ {z}
             j == group[z]
  <2>2. r \in SUBSET S /\ s \in SUBSET S /\ j \in K
    OBVIOUS
  <2>3. SumOver(f, s) = f[z] + SumOver(f, r)
    BY <1>a, SumTakeOut
  <2>4. SumOver(f, r) = SumOver(by(r), K)
    BY <1>2
  <2>5. \A k \in K : k # j => by(r)[k] = by(s)[k]
    <3>1. \A k \in K : k # j => In(r, k) = In(s, k)
      OBVIOUS
    <3> HIDE DEF In
    <3> QED
      BY <3>1
  <2>6. by(s)[j] = f[z] + by(r)[j]
    <3>1. In(r, j) = In(s, j) \ {z} /\ z \in In(s, j) /\ In(s, j) \subseteq s
      OBVIOUS
    <3>2. IsFiniteSet(In(s, j)) /\ \A x \in In(s, j) : f[x] \in Int
      BY <1>a, <2>2
    <3>3. SumOver(f, In(s, j)) = f[z] + SumOver(f, In(s, j) \ {z})
      <4> HIDE DEF In
      <4> QED
        BY <3>1, <3>2, SumTakeOut
    <3> HIDE DEF In, j, r
    <3> QED
      BY <2>2, <3>1, <3>3
  <2>7. \A k \in K : by(r)[k] \in Int /\ by(s)[k] \in Int
    BY <1>a, <2>2
  <2>8. SumOver(by(s), K) = SumOver(by(r), K) + (by(s)[j] - by(r)[j])
    <3> DEFINE p == by(r)
               q == by(s)
    <3>1. /\ \A k \in K : p[k] \in Int /\ q[k] \in Int
          /\ \A k \in K : k # j => p[k] = q[k]
      BY <2>5, <2>7
    <3> HIDE DEF p, q, j
    <3>2. SumOver(q, K) = SumOver(p, K) + (q[j] - p[j])
      BY <2>2, <3>1, SumChange
    <3> QED
      BY <3>2 DEF p, q
  <2>9. f[z] \in Int /\ SumOver(f, r) \in Int /\ by(r)[j] \in Int
    BY <1>a, <2>2
  <2> HIDE DEF by, r, j
  <2>10. SumOver(f, s) = SumOver(by(s), K)
    BY <2>3, <2>4, <2>6, <2>8, <2>9
  <2> QED
    BY <2>10
<1>3. \A s \in SUBSET S : s \in Good
  <2> HIDE DEF Good
  <2> QED
    BY <1>1, <1>2, SubsetInduction
<1> QED
  BY <1>3

(* The same with the groups and their sums given. *)
LEMMA SumOfGroups ==
  ASSUME NEW S, IsFiniteSet(S), NEW f, \A x \in S : f[x] \in Int,
         NEW K, IsFiniteSet(K), NEW group, \A x \in S : group[x] \in K,
         NEW part, \A k \in K : \A x : x \in part[k] <=> x \in S /\ group[x] = k,
         NEW sums, \A k \in K : sums[k] = SumOver(f, part[k])
  PROVE  SumOver(f, S) = SumOver(sums, K)
<1> DEFINE by == [k \in K |-> SumOver(f, {x \in S : group[x] = k})]
<1>1. SumOver(f, S) = SumOver(by, K)
  BY SumByGroup
<1>2. ASSUME NEW k \in K PROVE sums[k] = by[k]
  <2>1. part[k] = {x \in S : group[x] = k}
    OBVIOUS
  <2> QED
    BY <2>1
<1> HIDE DEF by
<1>3. SumOver(sums, K) = SumOver(by, K)
  BY <1>2, SumSame
<1> QED
  BY <1>1, <1>3

=============================================================================
