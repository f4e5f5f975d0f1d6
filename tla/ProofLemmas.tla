---------------------------- MODULE ProofLemmas ----------------------------
(***************************************************************************)
(* What the proofs about the components rest on: facts about the unsigned, *)
(* truncating arithmetic of the contracts, about finite sets, about sums   *)
(* over them, and about the index of orders that the factories and the     *)
(* receipts keep.                                                          *)
(*                                                                         *)
(* The induction theorems of the library take a predicate as a parameter;  *)
(* here they are stated for a set instead, so that the provers can apply   *)
(* them.  From them follow the equation that defines SumFunctionOnSet and  *)
(* what the proofs need of it.                                             *)
(*                                                                         *)
(* Proofs about components without an index take the module by INSTANCE,   *)
(* with an index of no orders.                                             *)
(***************************************************************************)
EXTENDS OrderIndex, FiniteSets, FiniteSetsExt, Functions, FiniteSetTheorems,
        NaturalsInduction, WellFoundedInduction, TLAPS

-----------------------------------------------------------------------------
(* Arithmetic, sets and sums                                               *)

(* A quotient of naturals is a natural.                                    *)
LEMMA DivNat ==
  ASSUME NEW a \in Nat, NEW d \in Nat \ {0}
  PROVE  a \div d \in Nat /\ (a \div d) * d <= a
  OBVIOUS

(* What it leaves is less than the divisor.                                *)
LEMMA DivRest ==
  ASSUME NEW a \in Nat, NEW d \in Nat \ {0}
  PROVE  a < d * (a \div d) + d
  OBVIOUS

(* A division undoes a product.                                            *)
LEMMA DivOfProduct ==
  ASSUME NEW a \in Nat, NEW d \in Nat \ {0}
  PROVE  (a * d) \div d = a
  OBVIOUS

(* Truncating division is monotone.                                        *)
LEMMA DivMonotone ==
  ASSUME NEW a \in Nat, NEW b \in Nat, a <= b, NEW d \in Nat \ {0}
  PROVE  a \div d <= b \div d
  OBVIOUS

(* So is the product.                                                      *)
LEMMA MulMonotone ==
  ASSUME NEW k \in Nat, NEW a \in Nat, NEW b \in Nat, a <= b
  PROVE  k * a \in Nat /\ k * b \in Nat /\ k * a <= k * b
  OBVIOUS

(* A fee in basis points never exceeds what it is taken from.              *)
LEMMA FeeBound ==
  ASSUME NEW x \in Nat, NEW bps \in Nat, bps <= 10000
  PROVE  (x * bps) \div 10000 \in Nat /\ (x * bps) \div 10000 <= x
<1>1. x * bps \in Nat /\ x * bps <= x * 10000
  BY MulMonotone, 10000 \in Nat
<1>2. (x * bps) \div 10000 \in Nat /\ (x * bps) \div 10000 <= (x * 10000) \div 10000
  <2> DEFINE p == x * bps
             q == x * 10000
  <2>1. p \in Nat /\ q \in Nat /\ p <= q
    BY <1>1
  <2>2. 10000 \in Nat \ {0}
    OBVIOUS
  <2> HIDE DEF p, q
  <2>3. p \div 10000 \in Nat
    BY <2>1, <2>2, DivNat
  <2>4. p \div 10000 <= q \div 10000
    BY <2>1, <2>2, DivMonotone
  <2> QED  BY <2>3, <2>4 DEF p, q
<1>3. (x * 10000) \div 10000 = x
  OBVIOUS
<1> QED  BY <1>2, <1>3

(* The least element of a nonempty set of naturals.                        *)
LEMMA MinOfNaturals ==
  ASSUME NEW S \in SUBSET Nat, S # {}
  PROVE  Min(S) \in S /\ \A x \in S : Min(S) <= x
<1> DEFINE R == OpToRel(<, Nat)
<1>1. PICK x \in S : \A y \in S : ~(<<y, x>> \in R)
  <2>1. IsWellFoundedOn(R, Nat)
    BY NatLessThanWellFounded
  <2> HIDE DEF R
  <2> QED  BY <2>1, WFMin
<1>2. ASSUME NEW y \in S  PROVE x <= y
  <2>1. ~(y < x)
    BY <1>1 DEF OpToRel
  <2> QED  BY <2>1, y \in Nat, x \in Nat
<1> QED  BY <1>2 DEF Min

(* Adding to a finite set elements that are not in it.                     *)
LEMMA CardinalityDisjoint ==
  ASSUME NEW S, IsFiniteSet(S), NEW T, IsFiniteSet(T), S \cap T = {}
  PROVE  Cardinality(S \cup T) = Cardinality(S) + Cardinality(T)
<1>1. Cardinality(S \cup T) = Cardinality(S) + Cardinality(T) - Cardinality(S \cap T)
  BY FS_Union
<1>2. Cardinality(S \cap T) = 0
  BY FS_EmptySet
<1>3. Cardinality(S) \in Nat /\ Cardinality(T) \in Nat
  BY FS_CardinalityType
<1> QED  BY <1>1, <1>2, <1>3

(* Finite sets have finitely many triples and quadruples.                  *)
LEMMA TriplesFinite ==
  ASSUME NEW A, IsFiniteSet(A), NEW B, IsFiniteSet(B), NEW C, IsFiniteSet(C)
  PROVE  IsFiniteSet(A \X B \X C)
<1> DEFINE D == A \X (B \X C)
           f == [z \in D |-> <<z[1], z[2][1], z[2][2]>>]
<1>1. IsFiniteSet(D)
  BY FS_Product
<1>2. f \in [D -> A \X B \X C]
  OBVIOUS
<1>3. ASSUME NEW t \in A \X B \X C  PROVE \E z \in D : f[z] = t
  <2>1. <<t[1], <<t[2], t[3]>>>> \in D
    OBVIOUS
  <2>2. f[<<t[1], <<t[2], t[3]>>>>] = t
    BY <2>1
  <2> QED  BY <2>1, <2>2
<1>4. f \in Surjection(D, A \X B \X C)
  <2> HIDE DEF f
  <2> QED  BY <1>2, <1>3 DEF Surjection
<1> QED  BY <1>1, <1>4, FS_Surjection

LEMMA QuadruplesFinite ==
  ASSUME NEW A, IsFiniteSet(A), NEW B, IsFiniteSet(B), NEW C, IsFiniteSet(C),
         NEW E, IsFiniteSet(E)
  PROVE  IsFiniteSet(A \X B \X C \X E)
<1> DEFINE D == A \X (B \X C \X E)
           f == [z \in D |-> <<z[1], z[2][1], z[2][2], z[2][3]>>]
<1>1. IsFiniteSet(D)
  BY TriplesFinite, FS_Product
<1>2. f \in [D -> A \X B \X C \X E]
  OBVIOUS
<1>3. ASSUME NEW t \in A \X B \X C \X E  PROVE \E z \in D : f[z] = t
  <2>1. <<t[1], <<t[2], t[3], t[4]>>>> \in D
    OBVIOUS
  <2>2. f[<<t[1], <<t[2], t[3], t[4]>>>>] = t
    BY <2>1
  <2> QED  BY <2>1, <2>2
<1>4. f \in Surjection(D, A \X B \X C \X E)
  <2> HIDE DEF f
  <2> QED  BY <1>2, <1>3 DEF Surjection
<1> QED  BY <1>1, <1>4, FS_Surjection

-----------------------------------------------------------------------------
(* Induction over the subsets of a finite set, for a set F of subsets in   *)
(* place of a predicate.                                                   *)
LEMMA SubsetInduction ==
  ASSUME NEW S, IsFiniteSet(S), NEW F,
         \A T \in SUBSET S : (\A U \in SUBSET T : U # T => U \in F) => T \in F
  PROVE  S \in F
<1> DEFINE R == StrictSubsetOrdering(S)
           Bad == {T \in SUBSET S : T \notin F}
<1>1. IsWellFoundedOn(R, FiniteSubsetsOf(S)) /\ FiniteSubsetsOf(S) = SUBSET S
  BY FS_StrictSubsetOrderingWellFounded, FS_FiniteSubsetsOfFinite
<1>2. SUFFICES ASSUME S \notin F PROVE FALSE
  OBVIOUS
<1>3. PICK T \in Bad : \A U \in Bad : ~(<<U, T>> \in R)
  <2>1. Bad # {} /\ Bad \subseteq SUBSET S
    BY <1>2
  <2> HIDE DEF R, Bad
  <2> QED  BY <1>1, <2>1, WFMin
<1>4. ASSUME NEW U \in SUBSET T, U # T  PROVE U \in F
  <2>1. <<U, T>> \in R
    BY <1>4 DEF StrictSubsetOrdering
  <2> QED  BY <1>3, <1>4, <2>1
<1> QED  BY <1>3, <1>4

(* Induction over the naturals, for a set F.                               *)
LEMMA NatSetInduction ==
  ASSUME NEW F, 0 \in F, \A n \in Nat : n \in F => n + 1 \in F
  PROVE  Nat \subseteq F
<1> DEFINE R == OpToRel(<, Nat)
           Bad == {n \in Nat : n \notin F}
<1>1. IsWellFoundedOn(R, Nat)
  BY NatLessThanWellFounded
<1>2. SUFFICES ASSUME Bad # {} PROVE FALSE
  OBVIOUS
<1>3. PICK n \in Bad : \A m \in Bad : ~(<<m, n>> \in R)
  <2>1. Bad \subseteq Nat
    OBVIOUS
  <2> HIDE DEF R, Bad
  <2> QED  BY <1>1, <1>2, <2>1, WFMin
<1>4. n # 0 /\ n - 1 \in Nat
  OBVIOUS
<1>5. n - 1 \in F
  <2>1. <<n - 1, n>> \in R
    BY <1>4 DEF OpToRel
  <2> QED  BY <1>3, <1>4, <2>1
<1> QED  BY <1>4, <1>5

(* The solutions of the recursion behind SumFunctionOnSet: one entry for   *)
(* each subset of S.                                                       *)
Chosen(T) == CHOOSE x \in T : TRUE

IsSumTable(g, f, S) ==
  g = [T \in SUBSET S |-> IF T = {} THEN 0 ELSE f[Chosen(T)] + g[T \ {Chosen(T)}]]

(* The recursion that defines a sum has a solution on a finite set.        *)
LEMMA SumTableExists ==
  ASSUME NEW f, NEW S, IsFiniteSet(S)
  PROVE  \E g : IsSumTable(g, f, S)
<1> DEFINE Small(n) == {T \in SUBSET S : Cardinality(T) <= n}
           Entry(g, T) == IF T = {} THEN 0 ELSE f[Chosen(T)] + g[T \ {Chosen(T)}]
           Table(n) == \E g : \A T \in Small(n) : g[T] = Entry(g, T)
           F == {n \in Nat : Table(n)}
<1>1. ASSUME NEW T \in SUBSET S
      PROVE  /\ IsFiniteSet(T) /\ Cardinality(T) \in Nat
             /\ Cardinality(T) <= Cardinality(S)
  BY FS_Subset, FS_CardinalityType
<1>2. ASSUME NEW T \in SUBSET S, T # {}
      PROVE  /\ Chosen(T) \in T /\ T \ {Chosen(T)} \in SUBSET S
             /\ Cardinality(T \ {Chosen(T)}) = Cardinality(T) - 1
  BY <1>1, <1>2, FS_RemoveElement DEF Chosen
<1>3. 0 \in F
  <2> DEFINE g == [T \in SUBSET S |-> 0]
  <2>1. ASSUME NEW T \in Small(0)  PROVE T = {}
    BY <1>1, FS_EmptySet
  <2>2. \A T \in Small(0) : g[T] = Entry(g, T)
    BY <2>1
  <2> HIDE DEF g
  <2> QED  BY <2>2
<1>4. ASSUME NEW n \in Nat, n \in F  PROVE n + 1 \in F
  <2>1. PICK h : \A T \in Small(n) : h[T] = Entry(h, T)
    BY <1>4
  <2> DEFINE g == [T \in SUBSET S |-> Entry(h, T)]
  <2>2. ASSUME NEW T \in Small(n + 1), T # {}
        PROVE  g[T] = Entry(g, T)
    <3> DEFINE U == T \ {Chosen(T)}
    <3>1. U \in Small(n)
      BY <2>2, <1>1, <1>2
    <3>2. g[U] = h[U]
      BY <3>1, <2>1
    <3> HIDE DEF U
    <3>3. g[T] = f[Chosen(T)] + h[U]
      BY <2>2 DEF U
    <3> QED  BY <2>2, <3>2, <3>3 DEF U
  <2>3. \A T \in Small(n + 1) : g[T] = Entry(g, T)
    <3> TAKE T \in Small(n + 1)
    <3>1. CASE T = {}
      BY <3>1
    <3>2. CASE T # {}
      BY <3>2, <2>2
    <3> QED  BY <3>1, <3>2
  <2> HIDE DEF g
  <2>4. Table(n + 1)
    BY <2>3
  <2> HIDE DEF Table
  <2> QED  BY <2>4
<1>5. Cardinality(S) \in F
  <2>1. Nat \subseteq F
    <3> HIDE DEF F
    <3> QED  BY <1>3, <1>4, NatSetInduction
  <2> QED  BY <2>1, <1>1
<1>6. PICK h : \A T \in Small(Cardinality(S)) : h[T] = Entry(h, T)
  BY <1>5
<1>7. \A T \in SUBSET S : h[T] = Entry(h, T)
  BY <1>6, <1>1
<1> DEFINE g == [T \in SUBSET S |-> Entry(h, T)]
<1>8. ASSUME NEW T \in SUBSET S  PROVE Entry(g, T) = Entry(h, T)
  BY <1>2, <1>7
<1>9. g = [T \in SUBSET S |-> Entry(g, T)]
  BY <1>8
<1> QED  BY <1>9 DEF IsSumTable

(* The sum is the entry of the whole set in such a solution.               *)
LEMMA SumFromTable ==
  ASSUME NEW f, NEW S, IsFiniteSet(S)
  PROVE  \E h : IsSumTable(h, f, S) /\ SumFunctionOnSet(f, S) = h[S]
<1> DEFINE D(h) == h = [T \in SUBSET S |-> IF T = {} THEN 0 ELSE f[Chosen(T)] + h[T \ {Chosen(T)}]]
<1>1. PICK g : D(g)
  <2>1. PICK g : IsSumTable(g, f, S)
    BY SumTableExists
  <2> QED  BY <2>1 DEF IsSumTable
<1>2. D(CHOOSE h : D(h))
  <2> HIDE DEF D
  <2> QED BY <1>1
<1>3. SumFunctionOnSet(f, S) = (CHOOSE h : D(h))[S]
  BY DEF SumFunctionOnSet, FoldFunctionOnSet, MapThenFoldSet, Chosen
<1> QED BY <1>2, <1>3 DEF IsSumTable

(* Two tables agree on a set if the functions do.                          *)
LEMMA SameTable ==
  ASSUME NEW f, NEW g, NEW S, IsFiniteSet(S), NEW A, NEW B, S \subseteq A, S \subseteq B,
         NEW h, IsSumTable(h, f, A), NEW k, IsSumTable(k, g, B),
         \A x \in S : f[x] = g[x]
  PROVE  h[S] = k[S]
<1> DEFINE F == {T \in SUBSET S : h[T] = k[T]}
<1>1. ASSUME NEW T \in SUBSET S, \A U \in SUBSET T : U # T => U \in F
      PROVE  T \in F
  <2>1. CASE T = {}
    <3>1. h[T] = 0 /\ k[T] = 0
      BY <2>1 DEF IsSumTable
    <3> QED BY <3>1
  <2>2. CASE T # {}
    <3> DEFINE c == Chosen(T)
    <3>1. c \in T
      BY <2>2 DEF Chosen
    <3> HIDE DEF c
    <3>2. T \ {c} \in F
      BY <1>1, <3>1
    <3>3. h[T] = f[c] + h[T \ {c}] /\ k[T] = g[c] + k[T \ {c}]
      BY <2>2 DEF IsSumTable, c
    <3> QED BY <3>1, <3>2, <3>3
  <2> QED  BY <2>1, <2>2
<1>2. S \in F
  <2> HIDE DEF F
  <2> QED BY <1>1, SubsetInduction
<1> QED  BY <1>2

(* The sum over nothing.                                                   *)
LEMMA SumEmpty ==
  ASSUME NEW f  PROVE SumFunctionOnSet(f, {}) = 0
<1>1. PICK h : IsSumTable(h, f, {}) /\ SumFunctionOnSet(f, {}) = h[{}]
  BY SumFromTable, FS_EmptySet
<1> QED  BY <1>1 DEF IsSumTable

(* The equation that defines the sum.                                      *)
LEMMA SumChosen ==
  ASSUME NEW f, NEW S, IsFiniteSet(S), S # {}
  PROVE  /\ Chosen(S) \in S
         /\ SumFunctionOnSet(f, S) =
              f[Chosen(S)] + SumFunctionOnSet(f, S \ {Chosen(S)})
<1> DEFINE T == S \ {Chosen(S)}
<1>1. Chosen(S) \in S /\ IsFiniteSet(T)
  BY FS_RemoveElement DEF Chosen
<1>2. PICK h : IsSumTable(h, f, S) /\ SumFunctionOnSet(f, S) = h[S]
  BY SumFromTable
<1>3. PICK k : IsSumTable(k, f, T) /\ SumFunctionOnSet(f, T) = k[T]
  BY <1>1, SumFromTable
<1>4. h[T] = k[T]
  BY <1>1, <1>2, <1>3, SameTable
<1>5. h[S] = f[Chosen(S)] + h[T]
  BY <1>2 DEF IsSumTable
<1> QED  BY <1>1, <1>2, <1>3, <1>4, <1>5

(* The sum depends only on the values on the set.                          *)
LEMMA SumSame ==
  ASSUME NEW f, NEW g, NEW S, IsFiniteSet(S), \A x \in S : f[x] = g[x]
  PROVE  SumFunctionOnSet(f, S) = SumFunctionOnSet(g, S)
<1>1. PICK h : IsSumTable(h, f, S) /\ SumFunctionOnSet(f, S) = h[S]
  BY SumFromTable
<1>2. PICK k : IsSumTable(k, g, S) /\ SumFunctionOnSet(g, S) = k[S]
  BY SumFromTable
<1> QED  BY <1>1, <1>2, SameTable

-----------------------------------------------------------------------------
(* Sums of integers                                                        *)

(* Integers add up to an integer.                                          *)
LEMMA SumInt ==
  ASSUME NEW f, NEW S, IsFiniteSet(S), \A x \in S : f[x] \in Int
  PROVE  SumFunctionOnSet(f, S) \in Int
<1> DEFINE F == {T \in SUBSET S : SumFunctionOnSet(f, T) \in Int}
<1>1. ASSUME NEW T \in SUBSET S, \A U \in SUBSET T : U # T => U \in F
      PROVE  T \in F
  <2>1. IsFiniteSet(T)
    BY FS_Subset
  <2>2. CASE T = {}
    BY <2>2, SumEmpty
  <2>3. CASE T # {}
    <3>1. /\ Chosen(T) \in T
          /\ SumFunctionOnSet(f, T) = f[Chosen(T)] + SumFunctionOnSet(f, T \ {Chosen(T)})
      BY <2>1, <2>3, SumChosen
    <3>2. SumFunctionOnSet(f, T \ {Chosen(T)}) \in Int
      BY <1>1, <3>1
    <3> QED  BY <3>1, <3>2
  <2> QED  BY <2>2, <2>3
<1>2. S \in F
  <2> HIDE DEF F
  <2> QED  BY <1>1, SubsetInduction
<1> QED  BY <1>2

(* Any element can be taken out of a sum.                                  *)
LEMMA SumRemove ==
  ASSUME NEW f, NEW S, IsFiniteSet(S), \A x \in S : f[x] \in Int, NEW e \in S
  PROVE  SumFunctionOnSet(f, S) = f[e] + SumFunctionOnSet(f, S \ {e})
<1> DEFINE Sum(T) == SumFunctionOnSet(f, T)
           Splits(T) == \A x \in T : Sum(T) = f[x] + Sum(T \ {x})
           F == {T \in SUBSET S : Splits(T)}
<1>1. ASSUME NEW T \in SUBSET S, \A U \in SUBSET T : U # T => U \in F, NEW x \in T
      PROVE  Sum(T) = f[x] + Sum(T \ {x})
  <2> DEFINE c == Chosen(T)
  <2>1. IsFiniteSet(T)
    BY FS_Subset
  <2>2. c \in T /\ Sum(T) = f[c] + Sum(T \ {c})
    BY <2>1, SumChosen
  <2>3. CASE x = c
    BY <2>2, <2>3
  <2>4. CASE x # c
    <3> HIDE DEF c
    <3>1. Splits(T \ {c}) /\ Splits(T \ {x})
      BY <1>1, <2>2
    <3> HIDE DEF Sum
    <3>2. Sum(T \ {c}) = f[x] + Sum((T \ {c}) \ {x})
      BY <3>1, <2>4
    <3>3. Sum(T \ {x}) = f[c] + Sum((T \ {x}) \ {c})
      BY <3>1, <2>2, <2>4
    <3>4. (T \ {c}) \ {x} = (T \ {x}) \ {c}
      OBVIOUS
    <3>5. Sum((T \ {x}) \ {c}) \in Int /\ f[x] \in Int /\ f[c] \in Int
      <4>1. IsFiniteSet((T \ {x}) \ {c})
        BY <2>1, FS_RemoveElement
      <4> QED  BY <2>2, <4>1, SumInt DEF Sum
    <3> DEFINE z == Sum((T \ {x}) \ {c})
               a == f[c]
               b == f[x]
    <3>6. Sum(T) = a + (b + z) /\ Sum(T \ {x}) = a + z
      BY <2>2, <3>2, <3>3, <3>4
    <3>7. a \in Int /\ b \in Int /\ z \in Int
      BY <3>5
    <3> HIDE DEF a, b, z
    <3>8. Sum(T) = b + Sum(T \ {x})
      BY <3>6, <3>7
    <3> QED  BY <3>8 DEF b
  <2> QED  BY <2>3, <2>4
<1>2. S \in F
  <2> HIDE DEF Sum
  <2>1. ASSUME NEW T \in SUBSET S, \A U \in SUBSET T : U # T => U \in F
        PROVE  T \in F
    BY <1>1, <2>1
  <2> HIDE DEF F
  <2> QED  BY <2>1, SubsetInduction
<1> QED  BY <1>2

(* An element is added to a sum.                                           *)
LEMMA SumAdd ==
  ASSUME NEW f, NEW S, IsFiniteSet(S), NEW e, e \notin S,
         \A x \in S \cup {e} : f[x] \in Int
  PROVE  SumFunctionOnSet(f, S \cup {e}) = f[e] + SumFunctionOnSet(f, S)
<1>1. IsFiniteSet(S \cup {e}) /\ (S \cup {e}) \ {e} = S
  BY FS_AddElement
<1> QED  BY <1>1, SumRemove, e \in S \cup {e}

(* The sum over one element.                                               *)
LEMMA SumSingleton ==
  ASSUME NEW f, NEW e, f[e] \in Int
  PROVE  SumFunctionOnSet(f, {e}) = f[e]
<1>1. {} \cup {e} = {e} /\ IsFiniteSet({})
  BY FS_EmptySet
<1>2. SumFunctionOnSet(f, {} \cup {e}) = f[e] + SumFunctionOnSet(f, {})
  BY <1>1, SumAdd
<1> QED  BY <1>1, <1>2, SumEmpty

(* Induction over a finite set, one element after another.                 *)
LEMMA ElementInduction ==
  ASSUME NEW S, IsFiniteSet(S), NEW F, {} \in F,
         \A T \in SUBSET S, e \in S : T \in F /\ e \notin T => T \cup {e} \in F
  PROVE  S \in F
<1>1. ASSUME NEW T \in SUBSET S, \A U \in SUBSET T : U # T => U \in F
      PROVE  T \in F
  <2>1. CASE T = {}
    BY <2>1
  <2>2. CASE T # {}
    <3>1. PICK e \in T : TRUE
      BY <2>2
    <3>2. T \ {e} \in F /\ (T \ {e}) \cup {e} = T /\ T \ {e} \in SUBSET S /\ e \notin T \ {e}
      BY <1>1, <3>1
    <3> QED  BY <3>1, <3>2
  <2> QED  BY <2>1, <2>2
<1> QED  BY <1>1, SubsetInduction

(* a times f is at most b times g, for every summand.                      *)
Outweighs(b, g, a, f, S) ==
  \A x \in S : f[x] \in Int /\ g[x] \in Int /\ a * f[x] <= b * g[x]

(* Then it is so for the sums as well.                                     *)
LEMMA SumWeighted ==
  ASSUME NEW f, NEW g, NEW S, IsFiniteSet(S), NEW a \in Int, NEW b \in Int,
         Outweighs(b, g, a, f, S)
  PROVE  a * SumFunctionOnSet(f, S) <= b * SumFunctionOnSet(g, S)
<1> USE DEF Outweighs
<1> DEFINE P(T) == a * SumFunctionOnSet(f, T) <= b * SumFunctionOnSet(g, T)
           F == {T \in SUBSET S : P(T)}
<1>1. {} \in F
  BY SumEmpty
<1>2. ASSUME NEW T \in SUBSET S, NEW e \in S, T \in F, e \notin T
      PROVE  T \cup {e} \in F
  <2> DEFINE p == SumFunctionOnSet(f, T)
             q == SumFunctionOnSet(g, T)
  <2>1. IsFiniteSet(T)
    BY FS_Subset
  <2>2. p \in Int /\ q \in Int /\ a * p <= b * q
    BY <1>2, <2>1, SumInt
  <2>3. SumFunctionOnSet(f, T \cup {e}) = f[e] + p
    BY <1>2, <2>1, SumAdd
  <2>4. SumFunctionOnSet(g, T \cup {e}) = g[e] + q
    BY <1>2, <2>1, SumAdd
  <2> HIDE DEF p, q
  <2>5. a * (f[e] + p) = a * f[e] + a * p /\ b * (g[e] + q) = b * g[e] + b * q
    BY <2>2
  <2>6. a * f[e] \in Int /\ a * p \in Int /\ b * g[e] \in Int /\ b * q \in Int
    BY <2>2
  <2>7. a * (f[e] + p) <= b * (g[e] + q)
    BY <2>2, <2>5, <2>6
  <2>8. P(T \cup {e})
    BY <2>3, <2>4, <2>7
  <2> HIDE DEF P
  <2> QED  BY <2>8
<1>3. S \in F
  <2> HIDE DEF F
  <2> QED  BY <1>1, <1>2, ElementInduction
<1> QED  BY <1>3

(* Larger summands give a larger sum.                                      *)
LEMMA SumMonotone ==
  ASSUME NEW f, NEW g, NEW S, IsFiniteSet(S),
         \A x \in S : f[x] \in Int /\ g[x] \in Int /\ f[x] <= g[x]
  PROVE  SumFunctionOnSet(f, S) <= SumFunctionOnSet(g, S)
<1>1. Outweighs(1, g, 1, f, S)
  BY DEF Outweighs
<1>2. 1 * SumFunctionOnSet(f, S) <= 1 * SumFunctionOnSet(g, S)
  BY <1>1, SumWeighted, 1 \in Int
<1>3. SumFunctionOnSet(f, S) \in Int /\ SumFunctionOnSet(g, S) \in Int
  BY SumInt
<1> QED  BY <1>2, <1>3

(* Nothing adds up to nothing.                                             *)
LEMMA SumZero ==
  ASSUME NEW f, NEW S, IsFiniteSet(S), \A x \in S : f[x] = 0
  PROVE  SumFunctionOnSet(f, S) = 0
<1> DEFINE P(T) == SumFunctionOnSet(f, T) = 0
           F == {T \in SUBSET S : P(T)}
<1>1. {} \in F
  BY SumEmpty
<1>2. ASSUME NEW T \in SUBSET S, NEW e \in S, T \in F, e \notin T
      PROVE  T \cup {e} \in F
  <2>1. IsFiniteSet(T)
    BY FS_Subset
  <2>2. SumFunctionOnSet(f, T \cup {e}) = f[e] + SumFunctionOnSet(f, T)
    BY <1>2, <2>1, SumAdd
  <2> QED  BY <1>2, <2>2
<1>3. S \in F
  <2> HIDE DEF F
  <2> QED  BY <1>1, <1>2, ElementInduction
<1> QED  BY <1>3

(* Naturals add up to a natural.                                           *)
LEMMA SumNat ==
  ASSUME NEW f, NEW S, IsFiniteSet(S), \A x \in S : f[x] \in Nat
  PROVE  SumFunctionOnSet(f, S) \in Nat
<1> DEFINE z == [x \in S |-> 0]
<1>1. SumFunctionOnSet(z, S) = 0
  BY SumZero
<1>2. SumFunctionOnSet(z, S) <= SumFunctionOnSet(f, S)
  BY SumMonotone
<1>3. SumFunctionOnSet(f, S) \in Int
  BY SumInt
<1> QED  BY <1>1, <1>2, <1>3

(* Sums over disjoint sets add up.                                         *)
LEMMA SumDisjoint ==
  ASSUME NEW f, NEW S, IsFiniteSet(S), NEW T, IsFiniteSet(T), S \cap T = {},
         \A x \in S \cup T : f[x] \in Int
  PROVE  SumFunctionOnSet(f, S \cup T) = SumFunctionOnSet(f, S) + SumFunctionOnSet(f, T)
<1> DEFINE P(U) == SumFunctionOnSet(f, S \cup U) = SumFunctionOnSet(f, S) + SumFunctionOnSet(f, U)
           F == {U \in SUBSET T : P(U)}
<1>1. {} \in F
  <2>1. SumFunctionOnSet(f, S) \in Int /\ S \cup {} = S
    BY SumInt
  <2> QED  BY <2>1, SumEmpty
<1>2. ASSUME NEW U \in SUBSET T, NEW e \in T, U \in F, e \notin U
      PROVE  U \cup {e} \in F
  <2>1. IsFiniteSet(U) /\ IsFiniteSet(S \cup U) /\ e \notin S \cup U
    BY <1>2, FS_Subset, FS_Union
  <2>2. SumFunctionOnSet(f, U \cup {e}) = f[e] + SumFunctionOnSet(f, U)
    BY <1>2, <2>1, SumAdd
  <2>3. SumFunctionOnSet(f, (S \cup U) \cup {e}) = f[e] + SumFunctionOnSet(f, S \cup U)
    BY <1>2, <2>1, SumAdd
  <2>4. S \cup (U \cup {e}) = (S \cup U) \cup {e}
    OBVIOUS
  <2>5. f[e] \in Int /\ SumFunctionOnSet(f, U) \in Int /\ SumFunctionOnSet(f, S) \in Int
    BY <2>1, SumInt
  <2>6. P(U)
    BY <1>2
  <2>7. P(U \cup {e})
    <3> DEFINE a == f[e]
               u == SumFunctionOnSet(f, U)
               v == SumFunctionOnSet(f, S)
    <3>1. a \in Int /\ u \in Int /\ v \in Int
      BY <2>5
    <3>2. SumFunctionOnSet(f, (S \cup U) \cup {e}) = a + (v + u)
      BY <2>3, <2>6
    <3>3. SumFunctionOnSet(f, U \cup {e}) = a + u
      BY <2>2
    <3>4. a + (v + u) = v + (a + u)
      <4> HIDE DEF a, u, v
      <4> QED  BY <3>1
    <3> QED  BY <2>4, <3>2, <3>3, <3>4
  <2> HIDE DEF P
  <2> QED  BY <2>7
<1>3. T \in F
  <2> HIDE DEF F
  <2> QED  BY <1>1, <1>2, ElementInduction
<1> QED  BY <1>3

(* A part of a sum of naturals is at most the sum.                         *)
LEMMA SumSubset ==
  ASSUME NEW f, NEW S, IsFiniteSet(S), NEW T, T \subseteq S, \A x \in S : f[x] \in Nat
  PROVE  SumFunctionOnSet(f, T) \in Nat /\ SumFunctionOnSet(f, T) <= SumFunctionOnSet(f, S)
<1>. DEFINE R == S \ T
<1>1. IsFiniteSet(T) /\ IsFiniteSet(R) /\ T \cup R = S /\ T \cap R = {}
  BY FS_Subset
<1>. HIDE DEF R
<1>2. \A x \in T \cup R : f[x] \in Int
  BY <1>1
<1>3. SumFunctionOnSet(f, T \cup R) = SumFunctionOnSet(f, T) + SumFunctionOnSet(f, R)
  BY <1>1, <1>2, SumDisjoint
<1>4. SumFunctionOnSet(f, T) \in Nat /\ SumFunctionOnSet(f, R) \in Nat
  <2>1. (\A x \in T : f[x] \in Nat) /\ (\A x \in R : f[x] \in Nat)
    BY <1>1
  <2> QED  BY <1>1, <2>1, SumNat
<1>5. SumFunctionOnSet(f, S) = SumFunctionOnSet(f, T) + SumFunctionOnSet(f, R)
  BY <1>1, <1>3
<1> QED  BY <1>4, <1>5

(* The sum of the sums of two functions.                                   *)
LEMMA SumPlus ==
  ASSUME NEW f, NEW g, NEW h, NEW S, IsFiniteSet(S),
         \A x \in S : f[x] \in Int /\ g[x] \in Int /\ h[x] = f[x] + g[x]
  PROVE  SumFunctionOnSet(h, S) = SumFunctionOnSet(f, S) + SumFunctionOnSet(g, S)
<1> DEFINE P(T) == SumFunctionOnSet(h, T) = SumFunctionOnSet(f, T) + SumFunctionOnSet(g, T)
           F == {T \in SUBSET S : P(T)}
<1>1. {} \in F
  BY SumEmpty
<1>2. ASSUME NEW T \in SUBSET S, NEW e \in S, T \in F, e \notin T
      PROVE  T \cup {e} \in F
  <2>1. IsFiniteSet(T) /\ \A x \in T \cup {e} : h[x] \in Int
    BY FS_Subset
  <2>2. SumFunctionOnSet(f, T \cup {e}) = f[e] + SumFunctionOnSet(f, T)
    BY <1>2, <2>1, SumAdd
  <2>3. SumFunctionOnSet(g, T \cup {e}) = g[e] + SumFunctionOnSet(g, T)
    BY <1>2, <2>1, SumAdd
  <2>4. SumFunctionOnSet(h, T \cup {e}) = h[e] + SumFunctionOnSet(h, T)
    BY <1>2, <2>1, SumAdd
  <2>5. /\ f[e] \in Int /\ g[e] \in Int
        /\ SumFunctionOnSet(f, T) \in Int /\ SumFunctionOnSet(g, T) \in Int
    BY <2>1, SumInt
  <2>6. P(T)
    BY <1>2
  <2>7. P(T \cup {e})
    BY <2>2, <2>3, <2>4, <2>5, <2>6
  <2> HIDE DEF P
  <2> QED  BY <2>7
<1>3. S \in F
  <2> HIDE DEF F
  <2> QED  BY <1>1, <1>2, ElementInduction
<1> QED  BY <1>3

(* One summand changes by d.                                               *)
LEMMA SumChange ==
  ASSUME NEW f, NEW g, NEW S, IsFiniteSet(S), NEW e \in S, NEW d \in Int,
         \A x \in S : f[x] \in Int, g[e] = f[e] + d,
         \A x \in S \ {e} : g[x] = f[x]
  PROVE  SumFunctionOnSet(g, S) = SumFunctionOnSet(f, S) + d
<1>1. IsFiniteSet(S \ {e}) /\ \A x \in S : g[x] \in Int
  BY FS_RemoveElement
<1>2. SumFunctionOnSet(g, S \ {e}) = SumFunctionOnSet(f, S \ {e})
  BY <1>1, SumSame
<1>3. SumFunctionOnSet(f, S) = f[e] + SumFunctionOnSet(f, S \ {e})
  BY SumRemove
<1>4. SumFunctionOnSet(g, S) = g[e] + SumFunctionOnSet(g, S \ {e})
  BY <1>1, SumRemove
<1>5. f[e] \in Int /\ SumFunctionOnSet(f, S \ {e}) \in Int
  BY <1>1, SumInt
<1> QED  BY <1>2, <1>3, <1>4, <1>5

(* part divides S into groups, one for each element of G.                  *)
Divides(part, G, S) ==
  /\ \A t \in G : part[t] \subseteq S
  /\ \A t, u \in G : t # u => part[t] \cap part[u] = {}
  /\ \A x \in S : \E t \in G : x \in part[t]

(* A sum taken group by group.                                             *)
LEMMA SumGroups ==
  ASSUME NEW f, NEW S, IsFiniteSet(S), \A x \in S : f[x] \in Int,
         NEW G, IsFiniteSet(G), NEW part, Divides(part, G, S),
         NEW s, \A t \in G : s[t] = SumFunctionOnSet(f, part[t])
  PROVE  SumFunctionOnSet(f, S) = SumFunctionOnSet(s, G)
<1> USE DEF Divides
<1> DEFINE In(T) == {x \in S : \E t \in T : x \in part[t]}
           P(T) == SumFunctionOnSet(f, In(T)) = SumFunctionOnSet(s, T)
           F == {T \in SUBSET G : P(T)}
<1>1. ASSUME NEW T  PROVE IsFiniteSet(In(T)) /\ \A x \in In(T) : f[x] \in Int
  BY FS_Subset
<1>2. {} \in F
  <2>1. In({}) = {}
    OBVIOUS
  <2> QED  BY <2>1, SumEmpty
<1>3. \A t \in G : IsFiniteSet(part[t]) /\ s[t] \in Int
  <2> TAKE t \in G
  <2>1. IsFiniteSet(part[t])
    BY FS_Subset
  <2> QED  BY <2>1, SumInt
<1>4. ASSUME NEW T \in SUBSET G, NEW e \in G, T \in F, e \notin T
      PROVE  T \cup {e} \in F
  <2>1. IsFiniteSet(T) /\ IsFiniteSet(part[e]) /\ \A x \in part[e] : f[x] \in Int
    BY <1>3, FS_Subset
  <2>2. In(T \cup {e}) = In(T) \cup part[e] /\ In(T) \cap part[e] = {}
    BY <1>4
  <2>3. SumFunctionOnSet(f, In(T) \cup part[e])
          = SumFunctionOnSet(f, In(T)) + SumFunctionOnSet(f, part[e])
    <3> HIDE DEF In
    <3> QED  BY <1>1, <2>1, <2>2, SumDisjoint
  <2>4. SumFunctionOnSet(s, T \cup {e}) = s[e] + SumFunctionOnSet(s, T)
    BY <1>3, <1>4, <2>1, SumAdd
  <2>5. P(T)
    BY <1>4
  <2>6. s[e] \in Int /\ SumFunctionOnSet(s, T) \in Int
    BY <1>3, <2>1, SumInt
  <2> HIDE DEF In
  <2>7. P(T \cup {e})
    <3>1. SumFunctionOnSet(f, In(T \cup {e})) = SumFunctionOnSet(s, T) + s[e]
      BY <2>2, <2>3, <2>5
    <3>2. SumFunctionOnSet(s, T) + s[e] = s[e] + SumFunctionOnSet(s, T)
      BY <2>6
    <3> QED  BY <2>4, <3>1, <3>2
  <2> HIDE DEF P
  <2> QED  BY <2>7
<1>5. G \in F
  <2> HIDE DEF F
  <2> QED  BY <1>2, <1>4, ElementInduction
<1>6. In(G) = S
  OBVIOUS
<1> QED  BY <1>5, <1>6

(* h gives every element of S a name in R of its own.                      *)
Renames(h, S, R) ==
  /\ \A x, y \in S : h[x] = h[y] => x = y
  /\ \A x \in S : h[x] \in R
  /\ \A r \in R : \E x \in S : h[x] = r

(* A sum taken over other names of the same elements.                      *)
LEMMA SumRenamed ==
  ASSUME NEW f, NEW g, NEW S, IsFiniteSet(S), NEW R, NEW h, Renames(h, S, R),
         \A x \in S : f[x] \in Int /\ g[h[x]] = f[x]
  PROVE  SumFunctionOnSet(g, R) = SumFunctionOnSet(f, S)
<1> USE DEF Renames
<1> DEFINE Image(T) == {r \in R : \E x \in T : h[x] = r}
           P(T) == IsFiniteSet(Image(T)) /\ SumFunctionOnSet(g, Image(T)) = SumFunctionOnSet(f, T)
           F == {T \in SUBSET S : P(T)}
<1>1. {} \in F
  <2>1. Image({}) = {}
    OBVIOUS
  <2> QED  BY <2>1, SumEmpty, FS_EmptySet
<1>2. ASSUME NEW T \in SUBSET S, NEW e \in S, T \in F, e \notin T
      PROVE  T \cup {e} \in F
  <2>1. IsFiniteSet(T) /\ P(T)
    BY <1>2, FS_Subset
  <2>2. Image(T \cup {e}) = Image(T) \cup {h[e]} /\ h[e] \notin Image(T)
    BY <1>2
  <2>3. \A x \in Image(T) \cup {h[e]} : g[x] \in Int
    OBVIOUS
  <2>4. SumFunctionOnSet(f, T \cup {e}) = f[e] + SumFunctionOnSet(f, T)
    BY <1>2, <2>1, SumAdd
  <2> HIDE DEF Image
  <2>5. SumFunctionOnSet(g, Image(T) \cup {h[e]}) = g[h[e]] + SumFunctionOnSet(g, Image(T))
    BY <2>1, <2>2, <2>3, SumAdd
  <2>6. P(T \cup {e})
    <3>1. IsFiniteSet(Image(T) \cup {h[e]})
      BY <2>1, FS_AddElement
    <3>2. g[h[e]] = f[e] /\ SumFunctionOnSet(g, Image(T)) = SumFunctionOnSet(f, T)
      BY <2>1
    <3> QED  BY <2>2, <2>4, <2>5, <3>1, <3>2
  <2> HIDE DEF P
  <2> QED  BY <2>6
<1>3. S \in F
  <2> HIDE DEF F
  <2> QED  BY <1>1, <1>2, ElementInduction
<1>4. Image(S) = R
  OBVIOUS
<1> QED  BY <1>3, <1>4

-----------------------------------------------------------------------------
(* The index of orders: what appending to an exact index and deleting a    *)
(* listed order from it do.                                                *)

(* The empty index is exact and lists nothing.                             *)
LEMMA EmptyExact ==
  EmptyIndex \in Indexes /\ Exact(EmptyIndex) /\ Listed(EmptyIndex) = {}
<1>1. EmptyIndex.count = 0
  BY DEF EmptyIndex
<1>2. EmptyIndex \in Indexes
  BY OrderIndexAssumption DEF EmptyIndex, Indexes, Slots
<1>. QED
  BY <1>1, <1>2 DEF Exact, Listed

(* An order that is not listed is appended once, after the others.         *)
LEMMA EnlistExact ==
  ASSUME NEW x \in Indexes, NEW o \in Orders,
         Exact(x), HasRoom(x), o \notin Listed(x)
  PROVE  /\ Enlist(x, o) \in Indexes
         /\ Exact(Enlist(x, o))
         /\ Listed(Enlist(x, o)) = Listed(x) \cup {o}
<1> DEFINE y == Enlist(x, o)
<1>1. x.count \in Slots /\ x.count \in Nat
  BY OrderIndexAssumption DEF Indexes, HasRoom, Slots
<1>2. /\ x.index \in [Orders \cup {NoOrder} -> Slots \cup {0}]
      /\ x.slot \in [Slots -> Orders \cup {NoOrder}]
  BY DEF Indexes
<1>3. /\ y.count = x.count + 1
      /\ y.index = [x.index EXCEPT ![o] = x.count]
      /\ y.slot = [x.slot EXCEPT ![x.count] = o]
  BY DEF Enlist
<1>4. y \in Indexes
  <2>1. y.count \in 0 .. Capacity
    BY <1>1, <1>3, OrderIndexAssumption DEF HasRoom, Slots
  <2>2. y.index \in [Orders \cup {NoOrder} -> Slots \cup {0}]
    BY <1>1, <1>2, <1>3
  <2>3. y.slot \in [Slots -> Orders \cup {NoOrder}]
    BY <1>1, <1>2, <1>3
  <2>. QED
    BY <2>1, <2>2, <2>3 DEF Enlist, Indexes
<1>5. ASSUME NEW i \in 0 .. x.count - 1
      PROVE  i \in Slots /\ y.slot[i] = x.slot[i] /\ x.slot[i] # o
  <2>1. i \in Slots /\ i # x.count
    BY <1>1, OrderIndexAssumption DEF Slots
  <2>2. x.slot[i] # o
    BY DEF Listed
  <2>. QED
    BY <1>1, <1>2, <1>3, <2>1, <2>2
<1>6. y.slot[x.count] = o /\ y.index[o] = x.count
  BY <1>1, <1>2, <1>3
<1>7. Exact(y)
  <2>. SUFFICES ASSUME NEW i \in 0 .. y.count - 1
                PROVE  y.slot[i] \in Orders /\ y.index[y.slot[i]] = i
    BY DEF Exact
  <2>1. CASE i = x.count
    BY <2>1, <1>6
  <2>2. CASE i # x.count
    <3>1. i \in 0 .. x.count - 1
      BY <2>2, <1>1, <1>3
    <3>2. x.slot[i] \in Orders /\ x.index[x.slot[i]] = i
      BY <3>1 DEF Exact
    <3>. QED
      BY <3>1, <3>2, <1>2, <1>3, <1>5
  <2>. QED
    BY <2>1, <2>2
<1>8. Listed(y) = Listed(x) \cup {o}
  <2>1. ASSUME NEW i \in 0 .. y.count - 1 PROVE y.slot[i] \in Listed(x) \cup {o}
    <3>1. CASE i = x.count
      BY <3>1, <1>6
    <3>2. CASE i # x.count
      <4>1. i \in 0 .. x.count - 1
        BY <3>2, <1>1, <1>3
      <4>. QED
        BY <4>1, <1>5 DEF Listed
    <3>. QED
      BY <3>1, <3>2
  <2>2. ASSUME NEW i \in 0 .. x.count - 1 PROVE x.slot[i] \in Listed(y)
    <3>1. i \in 0 .. y.count - 1
      BY <1>1, <1>3
    <3>. QED
      BY <3>1, <1>5 DEF Listed
  <2>3. o \in Listed(y)
    <3>1. x.count \in 0 .. y.count - 1
      BY <1>1, <1>3
    <3>. QED
      BY <3>1, <1>6 DEF Listed
  <2>. HIDE DEF y
  <2>. QED
    BY <2>1, <2>2, <2>3 DEF Listed
<1>. QED
  BY <1>4, <1>7, <1>8

(* An exact index lists no order twice.                                    *)
LEMMA ListedOnce ==
  ASSUME NEW x, Exact(x), NEW i \in 0 .. x.count - 1, NEW j \in 0 .. x.count - 1,
         x.slot[i] = x.slot[j]
  PROVE  i = j
BY DEF Exact

(* The position of a listed order, and the last position in use.           *)
LEMMA Positions ==
  ASSUME NEW x \in Indexes, NEW o \in Orders, Exact(x), o \in Listed(x)
  PROVE  /\ x.index[o] \in 0 .. x.count - 1
         /\ x.count - 1 \in 0 .. x.count - 1
         /\ 0 .. x.count - 1 \subseteq Slots
         /\ x.count \in Nat /\ x.count - 1 \in Nat
         /\ x.count \in 0 .. Capacity /\ x.count - 1 \in 0 .. Capacity
         /\ x.slot[x.index[o]] = o
         /\ x.slot[x.count - 1] \in Orders
         /\ x.index[x.slot[x.count - 1]] = x.count - 1
<1>1. x.count \in 0 .. Capacity
  BY DEF Indexes
<1>2. PICK n \in 0 .. x.count - 1 : x.slot[n] = o
  BY DEF Listed
<1>3. x.index[o] = n
  BY <1>2 DEF Exact
<1>4. x.count - 1 \in 0 .. x.count - 1
  BY <1>1, <1>2, OrderIndexAssumption
<1>5. 0 .. x.count - 1 \subseteq Slots
  BY <1>1, OrderIndexAssumption DEF Slots
<1>6. x.count \in Nat /\ x.count - 1 \in Nat /\ x.count - 1 \in 0 .. Capacity
  BY <1>1, <1>4, OrderIndexAssumption
<1>. QED
  BY <1>1, <1>2, <1>3, <1>4, <1>5, <1>6 DEF Exact

(* What every deletion achieves once the last order stands in the place of *)
(* the deleted one and is noted there, and no other order has moved: the   *)
(* index is exact, and lists what it listed but the deleted order.         *)
LEMMA SwapExact ==
  ASSUME NEW x \in Indexes, NEW o \in Orders, Exact(x), o \in Listed(x),
         NEW y,
         y.count = x.count - 1,
         \A i \in 0 .. x.count - 2 :
           y.slot[i] = IF i = x.index[o] THEN x.slot[x.count - 1] ELSE x.slot[i],
         x.index[o] # x.count - 1 => y.index[x.slot[x.count - 1]] = x.index[o],
         \A p \in Orders \ {o, x.slot[x.count - 1]} : y.index[p] = x.index[p]
  PROVE  Exact(y) /\ Listed(y) = Listed(x) \ {o}
<1>. DEFINE k == x.index[o]
            last == x.count - 1
            m == x.slot[last]
<1>1. /\ k \in 0 .. last /\ last \in 0 .. last /\ last \in Nat
      /\ x.slot[k] = o /\ m \in Orders /\ x.index[m] = last
  BY Positions
<1>2. y.count = last /\ x.count - 2 = last - 1
  BY <1>1, Positions
<1>3. ASSUME NEW i \in 0 .. last - 1
      PROVE  /\ i \in 0 .. x.count - 1 /\ i # last
             /\ y.slot[i] = IF i = k THEN m ELSE x.slot[i]
  BY <1>1, <1>2
<1>4. ASSUME NEW i \in 0 .. last - 1
      PROVE  /\ y.slot[i] \in Orders
             /\ y.slot[i] # o
             /\ y.index[y.slot[i]] = i
  <2>1. x.slot[i] \in Orders /\ x.index[x.slot[i]] = i
    BY <1>3 DEF Exact
  <2>2. CASE i = k
    <3>1. y.slot[i] = m /\ m # o
      BY <2>2, <1>1, <1>3
    <3>2. y.index[m] = k
      BY <2>2, <1>3
    <3>. QED
      BY <3>1, <3>2, <2>2, <1>1
  <2>3. CASE i # k
    <3>1. y.slot[i] = x.slot[i]
      BY <2>3, <1>3
    <3>2. x.slot[i] # o /\ x.slot[i] # m
      BY <2>1, <2>3, <1>1, <1>3
    <3>. QED
      BY <3>1, <3>2, <2>1
  <2>. QED
    BY <2>2, <2>3
<1>5. Exact(y)
  <2>. HIDE DEF last
  <2>. QED
    BY <1>2, <1>4 DEF Exact
<1>6. Listed(y) = {y.slot[i] : i \in 0 .. last - 1}
  BY <1>2 DEF Listed
<1>7. Listed(x) = {x.slot[i] : i \in 0 .. last}
  BY DEF Listed
<1>8. ASSUME NEW i \in 0 .. last - 1 PROVE y.slot[i] \in Listed(x) \ {o}
  <2>1. i \in 0 .. last
    BY <1>3
  <2>. QED
    BY <2>1, <1>1, <1>3, <1>4, <1>7
<1>9. ASSUME NEW i \in 0 .. last, x.slot[i] # o PROVE x.slot[i] \in Listed(y)
  <2>1. i # k
    BY <1>1, <1>9
  <2>2. CASE i = last
    <3>1. k \in 0 .. last - 1
      BY <2>1, <2>2, <1>1
    <3>2. y.slot[k] = x.slot[i]
      BY <3>1, <2>2, <1>3
    <3>. QED
      BY <3>1, <3>2, <1>6
  <2>3. CASE i # last
    <3>1. i \in 0 .. last - 1
      BY <2>3, <1>1
    <3>2. y.slot[i] = x.slot[i]
      BY <3>1, <2>1, <1>3
    <3>. QED
      BY <3>1, <3>2, <1>6
  <2>. QED
    BY <2>2, <2>3
<1>10. Listed(y) \subseteq Listed(x) \ {o}
  BY <1>6, <1>8
<1>11. Listed(x) \ {o} \subseteq Listed(y)
  BY <1>7, <1>9
<1>. QED
  BY <1>5, <1>10, <1>11

(* A listed order can be deleted, and nothing else leaves the list.        *)
LEMMA DeleteSharedExact ==
  ASSUME NEW x \in Indexes, NEW o \in Orders, Exact(x), o \in Listed(x)
  PROVE  /\ Deletable(x)
         /\ DeleteShared(x, o) \in Indexes
         /\ Exact(DeleteShared(x, o))
         /\ Listed(DeleteShared(x, o)) = Listed(x) \ {o}
<1>. DEFINE y == DeleteShared(x, o)
            k == x.index[o]
            last == x.count - 1
            m == x.slot[last]
<1>1. /\ x.index \in [Orders \cup {NoOrder} -> Slots \cup {0}]
      /\ x.slot \in [Slots -> Orders \cup {NoOrder}]
  BY DEF Indexes
<1>2. /\ k \in Slots /\ last \in Slots /\ last \in 0 .. Capacity
      /\ x.count \in Nat /\ last \in Nat
      /\ 0 .. x.count - 1 \subseteq Slots
      /\ m \in Orders /\ x.index[m] = last /\ x.slot[k] = o
  BY Positions
<1>3. /\ y.count = last
      /\ y.slot = [[x.slot EXCEPT ![k] = m] EXCEPT ![last] = NoOrder]
      /\ y.index = [[x.index EXCEPT ![o] = 0] EXCEPT ![y.slot[k]] = k]
  BY DEF DeleteShared
<1>4. y.slot \in [Slots -> Orders \cup {NoOrder}]
  BY <1>1, <1>2, <1>3
<1>5. y.index \in [Orders \cup {NoOrder} -> Slots \cup {0}]
  BY <1>1, <1>2, <1>3, <1>4
<1>6. /\ k # last => y.index[m] = k
      /\ \A p \in Orders \ {o, m} : y.index[p] = x.index[p]
  <2>1. y.slot[k] = IF k = last THEN NoOrder ELSE m
    BY <1>1, <1>2, <1>3
  <2>. QED
    BY <2>1, <1>1, <1>2, <1>3, OrderIndexAssumption
<1>7. y \in Indexes
  BY <1>1, <1>2, <1>3, <1>4, <1>5 DEF Indexes, DeleteShared
<1>8. ASSUME NEW i \in 0 .. x.count - 2
      PROVE  y.slot[i] = IF i = k THEN m ELSE x.slot[i]
  <2>1. i \in Slots /\ i # last
    BY <1>2
  <2>. QED
    BY <2>1, <1>1, <1>2, <1>3
<1>9. Exact(y) /\ Listed(y) = Listed(x) \ {o}
  <2>1. k # last => y.index[m] = k
    BY <1>6
  <2>2. \A p \in Orders \ {o, m} : y.index[p] = x.index[p]
    BY <1>6
  <2>3. y.count = x.count - 1
    BY <1>3
  <2>4. \A i \in 0 .. x.count - 2 :
          y.slot[i] = IF i = x.index[o] THEN x.slot[x.count - 1] ELSE x.slot[i]
    BY <1>8
  <2>. HIDE DEF y
  <2>. QED
    BY <2>1, <2>2, <2>3, <2>4, SwapExact
<1>10. Deletable(x)
  BY <1>2, Positions DEF Deletable
<1>. QED
  BY <1>7, <1>9, <1>10

(* The same for the lend factory's deletion.                               *)
LEMMA DeleteLendExact ==
  ASSUME NEW x \in Indexes, NEW o \in Orders, Exact(x), o \in Listed(x)
  PROVE  /\ Deletable(x)
         /\ DeleteLend(x, o) \in Indexes
         /\ Exact(DeleteLend(x, o))
         /\ Listed(DeleteLend(x, o)) = Listed(x) \ {o}
<1>. DEFINE y == DeleteLend(x, o)
            k == x.index[o]
            last == x.count - 1
            m == x.slot[last]
<1>1. /\ x.index \in [Orders \cup {NoOrder} -> Slots \cup {0}]
      /\ x.slot \in [Slots -> Orders \cup {NoOrder}]
  BY DEF Indexes
<1>2. /\ k \in Slots /\ last \in Slots /\ last \in 0 .. Capacity
      /\ x.count \in Nat /\ last \in Nat
      /\ 0 .. x.count - 1 \subseteq Slots
      /\ m \in Orders /\ x.index[m] = last /\ x.slot[k] = o
  BY Positions
<1>3. /\ y.count = last
      /\ y.slot = [[x.slot EXCEPT ![k] = m] EXCEPT ![last] = NoOrder]
      /\ y.index = [[x.index EXCEPT ![o] = 0] EXCEPT ![m] = k]
  <2>1. [x.slot EXCEPT ![k] = m][last] = m
    BY <1>1, <1>2
  <2>. QED
    BY <2>1 DEF DeleteLend
<1>4. y.slot \in [Slots -> Orders \cup {NoOrder}]
  BY <1>1, <1>2, <1>3
<1>5. y.index \in [Orders \cup {NoOrder} -> Slots \cup {0}]
  BY <1>1, <1>2, <1>3
<1>6. /\ k # last => y.index[m] = k
      /\ \A p \in Orders \ {o, m} : y.index[p] = x.index[p]
  BY <1>1, <1>2, <1>3
<1>7. y \in Indexes
  BY <1>1, <1>2, <1>3, <1>4, <1>5 DEF Indexes, DeleteLend
<1>8. ASSUME NEW i \in 0 .. x.count - 2
      PROVE  y.slot[i] = IF i = k THEN m ELSE x.slot[i]
  <2>1. i \in Slots /\ i # last
    BY <1>2
  <2>. QED
    BY <2>1, <1>1, <1>2, <1>3
<1>9. Exact(y) /\ Listed(y) = Listed(x) \ {o}
  <2>1. k # last => y.index[m] = k
    BY <1>6
  <2>2. \A p \in Orders \ {o, m} : y.index[p] = x.index[p]
    BY <1>6
  <2>3. y.count = x.count - 1
    BY <1>3
  <2>4. \A i \in 0 .. x.count - 2 :
          y.slot[i] = IF i = x.index[o] THEN x.slot[x.count - 1] ELSE x.slot[i]
    BY <1>8
  <2>. HIDE DEF y
  <2>. QED
    BY <2>1, <2>2, <2>3, <2>4, SwapExact
<1>10. Deletable(x)
  BY <1>2, Positions DEF Deletable
<1>. QED
  BY <1>7, <1>9, <1>10

(* The same for the lists of the managers of veNFT receipts.               *)
LEMMA DeleteManagedExact ==
  ASSUME NEW x \in Indexes, NEW o \in Orders, Exact(x), o \in Listed(x)
  PROVE  /\ Deletable(x)
         /\ DeleteManaged(x, o) \in Indexes
         /\ Exact(DeleteManaged(x, o))
         /\ Listed(DeleteManaged(x, o)) = Listed(x) \ {o}
<1>. DEFINE y == DeleteManaged(x, o)
            k == x.index[o]
            last == x.count - 1
            m == x.slot[last]
<1>1. /\ x.index \in [Orders \cup {NoOrder} -> Slots \cup {0}]
      /\ x.slot \in [Slots -> Orders \cup {NoOrder}]
  BY DEF Indexes
<1>2. /\ k \in Slots /\ last \in Slots /\ last \in 0 .. Capacity
      /\ x.count \in Nat /\ last \in Nat
      /\ 0 .. x.count - 1 \subseteq Slots
      /\ m \in Orders /\ x.index[m] = last /\ x.slot[k] = o
  BY Positions
<1>3. /\ y.count = last
      /\ y.slot = [[x.slot EXCEPT ![k] = m] EXCEPT ![last] = NoOrder]
      /\ y.index = IF k = last THEN x.index ELSE [x.index EXCEPT ![m] = k]
  <2>1. CASE k = last
    <3>1. [x.slot EXCEPT ![k] = m] = x.slot
      BY <2>1, <1>1
    <3>. QED
      BY <3>1, <2>1 DEF DeleteManaged
  <2>2. CASE k # last
    BY <2>2 DEF DeleteManaged
  <2>. QED
    BY <2>1, <2>2
<1>4. y.slot \in [Slots -> Orders \cup {NoOrder}]
  BY <1>1, <1>2, <1>3
<1>5. y.index \in [Orders \cup {NoOrder} -> Slots \cup {0}]
  BY <1>1, <1>2, <1>3
<1>6. /\ k # last => y.index[m] = k
      /\ \A p \in Orders \ {o, m} : y.index[p] = x.index[p]
  BY <1>1, <1>2, <1>3
<1>7. y \in Indexes
  BY <1>1, <1>2, <1>3, <1>4, <1>5 DEF Indexes, DeleteManaged
<1>8. ASSUME NEW i \in 0 .. x.count - 2
      PROVE  y.slot[i] = IF i = k THEN m ELSE x.slot[i]
  <2>1. i \in Slots /\ i # last
    BY <1>2
  <2>. QED
    BY <2>1, <1>1, <1>2, <1>3
<1>9. Exact(y) /\ Listed(y) = Listed(x) \ {o}
  <2>1. k # last => y.index[m] = k
    BY <1>6
  <2>2. \A p \in Orders \ {o, m} : y.index[p] = x.index[p]
    BY <1>6
  <2>3. y.count = x.count - 1
    BY <1>3
  <2>4. \A i \in 0 .. x.count - 2 :
          y.slot[i] = IF i = x.index[o] THEN x.slot[x.count - 1] ELSE x.slot[i]
    BY <1>8
  <2>. HIDE DEF y
  <2>. QED
    BY <2>1, <2>2, <2>3, <2>4, SwapExact
<1>10. Deletable(x)
  BY <1>2, Positions DEF Deletable
<1>. QED
  BY <1>7, <1>9, <1>10

(* Whatever is deleted, an index stays one.                                *)
LEMMA DeleteLendType ==
  ASSUME NEW x \in Indexes, NEW o \in Orders, Deletable(x)
  PROVE  DeleteLend(x, o) \in Indexes
<1>. DEFINE y == DeleteLend(x, o)
            k == x.index[o]
            last == x.count - 1
            moved == [x.slot EXCEPT ![k] = x.slot[last]]
<1>1. /\ x.index \in [Orders \cup {NoOrder} -> Slots \cup {0}]
      /\ x.slot \in [Slots -> Orders \cup {NoOrder}]
      /\ x.count \in 0 .. Capacity
  BY DEF Indexes
<1>2. last \in Slots /\ last \in 0 .. Capacity /\ 0 \in Slots
  BY <1>1, OrderIndexAssumption DEF Deletable, Slots
<1>3. k \in Slots
  BY <1>1, <1>2
<1>4. moved \in [Slots -> Orders \cup {NoOrder}]
  BY <1>1, <1>2, <1>3
<1>5. [moved EXCEPT ![last] = NoOrder] \in [Slots -> Orders \cup {NoOrder}]
  BY <1>4
<1>6. [[x.index EXCEPT ![o] = 0] EXCEPT ![moved[last]] = k]
        \in [Orders \cup {NoOrder} -> Slots \cup {0}]
  BY <1>1, <1>2, <1>3, <1>4
<1>. QED
  BY <1>2, <1>5, <1>6 DEF DeleteLend, Indexes
=============================================================================
