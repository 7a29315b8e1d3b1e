------------------------------ MODULE Counting ------------------------------
(***************************************************************************)
(* Sums over finite sets, as the models compute them with MapThenSumSet,   *)
(* and the ranks of their elements: what the proofs about costs, counters  *)
(* and sorted lists need to know.  The recursion of MapThenSumSet takes    *)
(* the elements in an order of its own; nothing here depends on it.        *)
(* Induction is in the form of a smallest counterexample among the subsets *)
(* of a finite set.                                                        *)
(***************************************************************************)
EXTENDS Integers, FiniteSetsExt, FiniteSetTheorems, TLAPS

\* The sum of f[x] over the elements x of S.
Total(f, S) == MapThenSumSet(LAMBDA x : f[x], S)

\* The element MapThenSumSet takes first.
Chosen(s) == CHOOSE x \in s : TRUE

\* The recursive function of MapThenSumSet.
IsSum(g, f, S) ==
    g = [s \in SUBSET S |-> IF s = {} THEN 0 ELSE f[Chosen(s)] + g[s \ {Chosen(s)}]]

-----------------------------------------------------------------------------

\* A nonempty set of subsets of a finite set has a smallest one.
LEMMA Smallest ==
    ASSUME NEW S, IsFiniteSet(S), NEW T \in SUBSET (SUBSET S), T # {}
    PROVE  \E A \in T : \A B \in T : ~(B \subseteq A /\ B # A)
<1>1. IsWellFoundedOn(StrictSubsetOrdering(S), SUBSET S)
  BY FS_StrictSubsetOrderingWellFounded, FS_FiniteSubsetsOfFinite
<1>2. \E A \in T : \A B \in T : <<B, A>> \notin StrictSubsetOrdering(S)
  BY <1>1, WFMin
<1>. QED  BY <1>2 DEF StrictSubsetOrdering

\* A set that is not empty has an element to take.
LEMMA ChosenIn ==
    ASSUME NEW s, s # {}
    PROVE  Chosen(s) \in s /\ s \ {Chosen(s)} \subseteq s /\ s \ {Chosen(s)} # s
BY DEF Chosen

\* The recursive function is determined by its equation.
LEMMA SumUnique ==
    ASSUME NEW S, IsFiniteSet(S), NEW f, NEW g, NEW h, IsSum(g, f, S), IsSum(h, f, S)
    PROVE  g = h
<1>. DEFINE T == {s \in SUBSET S : g[s] # h[s]}
<1>1. SUFFICES ASSUME T # {} PROVE FALSE
  BY DEF IsSum
<1>2. PICK A \in T : \A B \in T : ~(B \subseteq A /\ B # A)
  <2>1. T \in SUBSET (SUBSET S)
    OBVIOUS
  <2>. HIDE DEF T
  <2>. QED  BY <1>1, <2>1, Smallest
<1>3. A # {}
  BY <1>2 DEF IsSum
<1>4. A \ {Chosen(A)} \in SUBSET S /\ A \ {Chosen(A)} \notin T
  BY <1>2, <1>3, ChosenIn
<1>5. g[A] = f[Chosen(A)] + g[A \ {Chosen(A)}] /\ h[A] = f[Chosen(A)] + h[A \ {Chosen(A)}]
  BY <1>2, <1>3 DEF IsSum
<1>. QED  BY <1>2, <1>4, <1>5

\* It is the same function on a smaller set.
LEMMA SumRestricts ==
    ASSUME NEW S, NEW R \in SUBSET S, NEW f, NEW g, IsSum(g, f, S)
    PROVE  IsSum([s \in SUBSET R |-> g[s]], f, R)
<1>. DEFINE h == [s \in SUBSET R |-> g[s]]
<1>1. ASSUME NEW s \in SUBSET R
      PROVE  h[s] = IF s = {} THEN 0 ELSE f[Chosen(s)] + h[s \ {Chosen(s)}]
  <2>1. s \in SUBSET S /\ s \ {Chosen(s)} \in SUBSET R
    OBVIOUS
  <2>2. g[s] = IF s = {} THEN 0 ELSE f[Chosen(s)] + g[s \ {Chosen(s)}]
    BY <2>1 DEF IsSum
  <2>. QED  BY <2>1, <2>2
<1>2. h = [s \in SUBSET R |-> h[s]]
  OBVIOUS
<1>. HIDE DEF h
<1>3. h = [s \in SUBSET R |-> IF s = {} THEN 0 ELSE f[Chosen(s)] + h[s \ {Chosen(s)}]]
  BY <1>1, <1>2
<1>. QED  BY <1>3 DEF IsSum, h

\* There is one.
LEMMA SumExists ==
    ASSUME NEW S, IsFiniteSet(S), NEW f
    PROVE  \E g : IsSum(g, f, S)
<1>. DEFINE T == {s \in SUBSET S : ~\E g : IsSum(g, f, s)}
<1>1. SUFFICES ASSUME T # {} PROVE FALSE
  OBVIOUS
<1>2. PICK A \in T : \A B \in T : ~(B \subseteq A /\ B # A)
  <2>1. T \in SUBSET (SUBSET S)
    OBVIOUS
  <2>. HIDE DEF T
  <2>. QED  BY <1>1, <2>1, Smallest
<1>. DEFINE G(s) == CHOOSE g : IsSum(g, f, s)
            h == [s \in SUBSET A |->
                    IF s = {} THEN 0
                    ELSE f[Chosen(s)] + G(s \ {Chosen(s)})[s \ {Chosen(s)}]]
<1>3. ASSUME NEW s \in SUBSET A, s # A PROVE IsSum(G(s), f, s)
  BY <1>2, <1>3
<1>4. ASSUME NEW r \in SUBSET A, r # A PROVE h[r] = G(r)[r]
  <2>1. IsSum(G(r), f, r) /\ IsFiniteSet(r)
    BY <1>3, <1>4, FS_Subset
  <2>2. CASE r = {}
    BY <2>1, <2>2 DEF IsSum
  <2>3. CASE r # {}
    <3>. DEFINE q == r \ {Chosen(r)}
    <3>1. q \in SUBSET r /\ q # A /\ q \in SUBSET A /\ IsFiniteSet(q)
      BY <1>4, <2>1, <2>3, ChosenIn, FS_Subset
    <3>2. IsSum(G(q), f, q)
      BY <1>3, <3>1
    <3>3. IsSum([s \in SUBSET q |-> G(r)[s]], f, q)
      <4>. HIDE DEF q, G, h
      <4>. QED  BY <2>1, <3>1, SumRestricts
    <3>4. G(q) = [s \in SUBSET q |-> G(r)[s]]
      BY <3>1, <3>2, <3>3, SumUnique
    <3>5. G(q)[q] = G(r)[q]
      BY <3>4
    <3>6. G(r)[r] = f[Chosen(r)] + G(r)[q]
      BY <2>1, <2>3 DEF IsSum
    <3>7. h[r] = f[Chosen(r)] + G(q)[q]
      BY <2>3, <3>1
    <3>. QED  BY <3>5, <3>6, <3>7
  <2>. QED  BY <2>2, <2>3
<1>5. ASSUME NEW s \in SUBSET A
      PROVE  h[s] = IF s = {} THEN 0 ELSE f[Chosen(s)] + h[s \ {Chosen(s)}]
  <2>1. CASE s = {}
    BY <2>1
  <2>2. CASE s # {}
    <3>1. s \ {Chosen(s)} \in SUBSET A /\ s \ {Chosen(s)} # A
      BY <2>2, ChosenIn
    <3>2. h[s \ {Chosen(s)}] = G(s \ {Chosen(s)})[s \ {Chosen(s)}]
      BY <1>4, <3>1
    <3>3. h[s] = f[Chosen(s)] + G(s \ {Chosen(s)})[s \ {Chosen(s)}]
      BY <2>2
    <3>. QED  BY <2>2, <3>2, <3>3
  <2>. QED  BY <2>1, <2>2
<1>6. h = [s \in SUBSET A |-> h[s]]
  OBVIOUS
<1>. HIDE DEF h
<1>7. h = [s \in SUBSET A |-> IF s = {} THEN 0 ELSE f[Chosen(s)] + h[s \ {Chosen(s)}]]
  BY <1>5, <1>6
<1>8. \E g : IsSum(g, f, A)
  BY <1>7 DEF IsSum
<1>. QED  BY <1>2, <1>8

\* Total is its value.
LEMMA TotalIsSum ==
    ASSUME NEW S, IsFiniteSet(S), NEW f
    PROVE  \E g : IsSum(g, f, S) /\ Total(f, S) = g[S]
<1>1. Total(f, S) = (CHOOSE g : IsSum(g, f, S))[S]
  BY DEF Total, MapThenSumSet, MapThenFoldSet, IsSum, Chosen
<1>2. IsSum(CHOOSE g : IsSum(g, f, S), f, S)
  BY SumExists
<1>. QED  BY <1>1, <1>2

\* The first element taken, and the rest.
LEMMA TotalTakes ==
    ASSUME NEW S, IsFiniteSet(S), NEW f
    PROVE  Total(f, S) = IF S = {} THEN 0
                         ELSE f[Chosen(S)] + Total(f, S \ {Chosen(S)})
<1>1. PICK g : IsSum(g, f, S) /\ Total(f, S) = g[S]
  BY TotalIsSum
<1>2. CASE S = {}
  BY <1>1, <1>2 DEF IsSum
<1>3. CASE S # {}
  <2>. DEFINE R == S \ {Chosen(S)}
  <2>1. R \in SUBSET S /\ IsFiniteSet(R)
    BY FS_Subset
  <2>2. PICK k : IsSum(k, f, R) /\ Total(f, R) = k[R]
    BY <2>1, TotalIsSum
  <2>3. k = [s \in SUBSET R |-> g[s]]
    <3>. HIDE DEF R
    <3>1. IsSum([s \in SUBSET R |-> g[s]], f, R)
      BY <1>1, <2>1, SumRestricts
    <3>. QED  BY <2>1, <2>2, <3>1, SumUnique
  <2>4. k[R] = g[R]
    BY <2>3
  <2>5. g[S] = f[Chosen(S)] + g[R]
    BY <1>1, <1>3 DEF IsSum
  <2>. QED  BY <1>1, <1>3, <2>2, <2>4, <2>5
<1>. QED  BY <1>2, <1>3

-----------------------------------------------------------------------------
(* What sums of numbers are *)

\* The sum over no elements is 0.
LEMMA TotalOfNone == ASSUME NEW f PROVE Total(f, {}) = 0
BY TotalTakes, FS_EmptySet

\* A sum of numbers is a number.
LEMMA TotalType ==
    ASSUME NEW S, IsFiniteSet(S), NEW f, \A x \in S : f[x] \in Nat
    PROVE  Total(f, S) \in Nat
<1>. DEFINE T == {s \in SUBSET S : Total(f, s) \notin Nat}
<1>1. SUFFICES ASSUME T # {} PROVE FALSE
  OBVIOUS
<1>2. PICK A \in T : \A B \in T : ~(B \subseteq A /\ B # A)
  <2>1. T \in SUBSET (SUBSET S)
    OBVIOUS
  <2>. HIDE DEF T
  <2>. QED  BY <1>1, <2>1, Smallest
<1>3. IsFiniteSet(A) /\ A # {}
  <2>1. IsFiniteSet(A)
    BY <1>2, FS_Subset
  <2>2. Total(f, {}) = 0 /\ 0 \in Nat
    BY TotalOfNone
  <2>. QED  BY <1>2, <2>1, <2>2
<1>4. Total(f, A) = f[Chosen(A)] + Total(f, A \ {Chosen(A)})
  BY <1>3, TotalTakes
<1>5. f[Chosen(A)] \in Nat /\ Total(f, A \ {Chosen(A)}) \in Nat
  BY <1>2, <1>3, ChosenIn
<1>. QED  BY <1>2, <1>4, <1>5

\* A sum of integers is an integer.
LEMMA TotalInt ==
    ASSUME NEW S, IsFiniteSet(S), NEW f, \A x \in S : f[x] \in Int
    PROVE  Total(f, S) \in Int
<1>. DEFINE T == {s \in SUBSET S : Total(f, s) \notin Int}
<1>1. SUFFICES ASSUME T # {} PROVE FALSE
  OBVIOUS
<1>2. PICK A \in T : \A B \in T : ~(B \subseteq A /\ B # A)
  <2>1. T \in SUBSET (SUBSET S)
    OBVIOUS
  <2>. HIDE DEF T
  <2>. QED  BY <1>1, <2>1, Smallest
<1>3. IsFiniteSet(A) /\ A # {}
  <2>1. IsFiniteSet(A)
    BY <1>2, FS_Subset
  <2>2. Total(f, {}) = 0 /\ 0 \in Int
    BY TotalOfNone
  <2>. QED  BY <1>2, <2>1, <2>2
<1>4. Total(f, A) = f[Chosen(A)] + Total(f, A \ {Chosen(A)})
  BY <1>3, TotalTakes
<1>5. f[Chosen(A)] \in Int /\ Total(f, A \ {Chosen(A)}) \in Int
  BY <1>2, <1>3, ChosenIn
<1>. QED  BY <1>2, <1>4, <1>5

\* Any element may be taken first.
LEMMA TotalRemove ==
    ASSUME NEW S, IsFiniteSet(S), NEW f, \A x \in S : f[x] \in Nat, NEW x \in S
    PROVE  Total(f, S) = f[x] + Total(f, S \ {x})
<1>. DEFINE T == {s \in SUBSET S : \E y \in s : Total(f, s) # f[y] + Total(f, s \ {y})}
<1>1. SUFFICES ASSUME T # {} PROVE FALSE
  OBVIOUS
<1>2. PICK A \in T : \A B \in T : ~(B \subseteq A /\ B # A)
  <2>1. T \in SUBSET (SUBSET S)
    OBVIOUS
  <2>. HIDE DEF T
  <2>. QED  BY <1>1, <2>1, Smallest
<1>3. PICK y \in A : Total(f, A) # f[y] + Total(f, A \ {y})
  BY <1>2
<1>. DEFINE c == Chosen(A)
            rest == A \ {c, y}
<1>4. A # {} /\ IsFiniteSet(A) /\ A \in SUBSET S /\ c \in A
  BY <1>2, <1>3, ChosenIn, FS_Subset
<1>5. Total(f, A) = f[c] + Total(f, A \ {c})
  BY <1>4, TotalTakes
<1>6. c # y
  BY <1>3, <1>5
<1>7. /\ A \ {c} \in SUBSET S /\ A \ {c} \notin T /\ y \in A \ {c}
      /\ A \ {y} \in SUBSET S /\ A \ {y} \notin T /\ c \in A \ {y}
  BY <1>2, <1>4, <1>6
<1>8. Total(f, A \ {c}) = f[y] + Total(f, rest)
  <2>1. (A \ {c}) \ {y} = rest
    OBVIOUS
  <2>. QED  BY <1>7, <2>1
<1>9. Total(f, A \ {y}) = f[c] + Total(f, rest)
  <2>1. (A \ {y}) \ {c} = rest
    OBVIOUS
  <2>. QED  BY <1>7, <2>1
<1>10. f[c] \in Nat /\ f[y] \in Nat /\ Total(f, rest) \in Nat
  <2>1. IsFiniteSet(rest) /\ rest \in SUBSET S
    BY <1>4, FS_Subset
  <2>. QED  BY <1>4, <2>1, TotalType
<1>. QED  BY <1>3, <1>5, <1>8, <1>9, <1>10

\* Only the values at the elements count.
LEMMA TotalSame ==
    ASSUME NEW S, IsFiniteSet(S), NEW f, NEW h, \A x \in S : f[x] = h[x]
    PROVE  Total(f, S) = Total(h, S)
<1>. DEFINE T == {s \in SUBSET S : Total(f, s) # Total(h, s)}
<1>1. SUFFICES ASSUME T # {} PROVE FALSE
  OBVIOUS
<1>2. PICK A \in T : \A B \in T : ~(B \subseteq A /\ B # A)
  <2>1. T \in SUBSET (SUBSET S)
    OBVIOUS
  <2>. HIDE DEF T
  <2>. QED  BY <1>1, <2>1, Smallest
<1>3. IsFiniteSet(A) /\ A # {}
  <2>1. IsFiniteSet(A)
    BY <1>2, FS_Subset
  <2>2. Total(f, {}) = Total(h, {})
    BY TotalOfNone
  <2>. QED  BY <1>2, <2>1, <2>2
<1>4. /\ Total(f, A) = f[Chosen(A)] + Total(f, A \ {Chosen(A)})
      /\ Total(h, A) = h[Chosen(A)] + Total(h, A \ {Chosen(A)})
  BY <1>3, TotalTakes
<1>5. f[Chosen(A)] = h[Chosen(A)] /\ Total(f, A \ {Chosen(A)}) = Total(h, A \ {Chosen(A)})
  BY <1>2, <1>3, ChosenIn
<1>. QED  BY <1>2, <1>4, <1>5

\* Zeros add up to zero.
LEMMA TotalOfZeros ==
    ASSUME NEW S, IsFiniteSet(S), NEW f, \A x \in S : f[x] = 0
    PROVE  Total(f, S) = 0
<1>. DEFINE T == {s \in SUBSET S : Total(f, s) # 0}
<1>1. SUFFICES ASSUME T # {} PROVE FALSE
  OBVIOUS
<1>2. PICK A \in T : \A B \in T : ~(B \subseteq A /\ B # A)
  <2>1. T \in SUBSET (SUBSET S)
    OBVIOUS
  <2>. HIDE DEF T
  <2>. QED  BY <1>1, <2>1, Smallest
<1>3. IsFiniteSet(A) /\ A # {}
  <2>1. IsFiniteSet(A)
    BY <1>2, FS_Subset
  <2>2. Total(f, {}) = 0
    BY TotalOfNone
  <2>. QED  BY <1>2, <2>1, <2>2
<1>4. Total(f, A) = f[Chosen(A)] + Total(f, A \ {Chosen(A)})
  BY <1>3, TotalTakes
<1>5. f[Chosen(A)] = 0 /\ Total(f, A \ {Chosen(A)}) = 0
  BY <1>2, <1>3, ChosenIn
<1>. QED  BY <1>2, <1>4, <1>5

\* A change of one value changes the sum by as much.
LEMMA TotalChange ==
    ASSUME NEW S, IsFiniteSet(S), NEW f, NEW h, NEW x \in S,
           \A y \in S : f[y] \in Nat /\ h[y] \in Nat,
           \A y \in S \ {x} : h[y] = f[y]
    PROVE  Total(h, S) + f[x] = Total(f, S) + h[x]
<1>1. Total(f, S) = f[x] + Total(f, S \ {x}) /\ Total(h, S) = h[x] + Total(h, S \ {x})
  BY TotalRemove
<1>2. IsFiniteSet(S \ {x})
  BY FS_Subset
<1>3. Total(f, S \ {x}) = Total(h, S \ {x}) /\ Total(f, S \ {x}) \in Nat
  BY <1>2, TotalSame, TotalType
<1>. QED  BY <1>1, <1>3

\* The part of a set whose elements have a key of P.
PartOf(S, key, P) == {a \in S : key[a] \in P}

\* f counts the elements of S with each key of P.
CountsParts(f, S, key, P) == \A p \in P : f[p] = Cardinality(PartOf(S, key, {p}))

\* A finite set is as large as the parts of it with one key each are together.
LEMMA TotalOfParts ==
    ASSUME NEW S, IsFiniteSet(S), NEW key, NEW P, IsFiniteSet(P), NEW f,
           CountsParts(f, S, key, P)
    PROVE  Cardinality(PartOf(S, key, P)) = Total(f, P)
<1>. DEFINE within(Q) == PartOf(S, key, Q)
            part(p) == PartOf(S, key, {p})
            T == {Q \in SUBSET P : Cardinality(within(Q)) # Total(f, Q)}
<1>1. SUFFICES ASSUME T # {} PROVE FALSE
  OBVIOUS
<1>2. PICK A \in T : \A B \in T : ~(B \subseteq A /\ B # A)
  <2>1. T \in SUBSET (SUBSET P)
    OBVIOUS
  <2>. HIDE DEF T
  <2>. QED  BY <1>1, <2>1, Smallest
<1>3. A \in SUBSET P /\ IsFiniteSet(A) /\ Cardinality(within(A)) # Total(f, A)
  <2>1. A \in SUBSET P /\ Cardinality(within(A)) # Total(f, A)
    OBVIOUS
  <2>. QED  BY <2>1, FS_Subset
<1>4. A # {}
  <2>1. within({}) = {} /\ Cardinality({}) = 0
    BY FS_EmptySet DEF PartOf
  <2>. QED  BY <1>3, <2>1, TotalOfNone
<1>5. PICK p \in A : TRUE
  BY <1>4
<1>6. A \ {p} \in SUBSET P /\ A \ {p} \notin T
  BY <1>2, <1>3, <1>5
<1>7. Cardinality(within(A \ {p})) = Total(f, A \ {p})
  BY <1>6
<1>8. /\ IsFiniteSet(within(A \ {p})) /\ IsFiniteSet(part(p))
      /\ \A q \in A : IsFiniteSet(part(q)) /\ f[q] = Cardinality(part(q))
  <2>1. within(A \ {p}) \in SUBSET S
    BY DEF PartOf
  <2>2. \A q : IsFiniteSet(part(q))
    <3>. TAKE q
    <3>1. part(q) \in SUBSET S
      BY DEF PartOf
    <3>. HIDE DEF part
    <3>. QED  BY <3>1, FS_Subset
  <2>. QED  BY <1>3, <2>1, <2>2, FS_Subset DEF CountsParts
<1>9. \A q \in A : f[q] \in Nat
  BY <1>8, FS_CardinalityType
<1>10. Total(f, A) = f[p] + Total(f, A \ {p})
  BY <1>3, <1>9, TotalRemove
<1>11. /\ within(A) = within(A \ {p}) \union part(p)
       /\ within(A \ {p}) \cap part(p) = {}
  BY <1>5 DEF PartOf
<1>. HIDE DEF within, part
<1>12. Cardinality(within(A)) = Cardinality(within(A \ {p})) + Cardinality(part(p))
  <2>1. Cardinality(within(A \ {p}) \cap part(p)) = 0
    BY <1>11, FS_EmptySet
  <2>2. Cardinality(within(A)) = Cardinality(within(A \ {p})) + Cardinality(part(p))
           - Cardinality(within(A \ {p}) \cap part(p))
    BY <1>8, <1>11, FS_Union
  <2>3. Cardinality(within(A \ {p})) \in Nat /\ Cardinality(part(p)) \in Nat
    BY <1>8, FS_CardinalityType
  <2>. QED  BY <2>1, <2>2, <2>3
<1>13. Cardinality(within(A \ {p})) \in Nat /\ Cardinality(part(p)) \in Nat
  BY <1>8, FS_CardinalityType
<1>14. f[p] = Cardinality(part(p))
  BY <1>8
<1>. QED  BY <1>3, <1>7, <1>10, <1>12, <1>13, <1>14

\* Sums whose terms differ by one at most differ by one for each element at most.
LEMMA TotalWithin ==
    ASSUME NEW S, IsFiniteSet(S), NEW f, NEW h,
           \A x \in S : f[x] \in Nat /\ h[x] \in Nat /\ f[x] - h[x] \in {-1, 0, 1}
    PROVE  /\ Total(f, S) <= Total(h, S) + Cardinality(S)
           /\ Total(h, S) <= Total(f, S) + Cardinality(S)
<1>. DEFINE near(Q) == /\ Total(f, Q) <= Total(h, Q) + Cardinality(Q)
                       /\ Total(h, Q) <= Total(f, Q) + Cardinality(Q)
            T == {Q \in SUBSET S : ~near(Q)}
<1>1. SUFFICES ASSUME T # {} PROVE FALSE
  OBVIOUS
<1>2. PICK A \in T : \A B \in T : ~(B \subseteq A /\ B # A)
  <2>1. T \in SUBSET (SUBSET S)
    OBVIOUS
  <2>. HIDE DEF T
  <2>. QED  BY <1>1, <2>1, Smallest
<1>3. A \in SUBSET S /\ IsFiniteSet(A) /\ ~near(A)
  <2>1. A \in SUBSET S /\ ~near(A)
    OBVIOUS
  <2>. QED  BY <2>1, FS_Subset
<1>4. A # {}
  <2>1. Cardinality({}) = 0 /\ Total(f, {}) = 0 /\ Total(h, {}) = 0
    BY FS_EmptySet, TotalOfNone
  <2>2. near({})
    BY <2>1
  <2>. QED  BY <1>3, <2>2
<1>5. PICK x \in A : TRUE
  BY <1>4
<1>6. A \ {x} \in SUBSET S /\ A \ {x} \notin T
  BY <1>2, <1>3, <1>5
<1>7. near(A \ {x})
  BY <1>6
<1>. DEFINE R == A \ {x}
<1>8. IsFiniteSet(R) /\ Cardinality(A) = Cardinality(R) + 1 /\ Cardinality(R) \in Nat
  <2>1. IsFiniteSet(R) /\ A = R \union {x} /\ x \notin R
    BY <1>3, <1>5, FS_Subset
  <2>. HIDE DEF R
  <2>. QED  BY <2>1, FS_AddElement, FS_CardinalityType
<1>9. \A y \in A : f[y] \in Nat /\ h[y] \in Nat
  BY <1>3
<1>10. Total(f, A) = f[x] + Total(f, R)
  BY <1>3, <1>9, TotalRemove
<1>11. Total(h, A) = h[x] + Total(h, R)
  BY <1>3, <1>9, TotalRemove
<1>12. Total(f, R) \in Nat /\ Total(h, R) \in Nat
  <2>1. \A y \in R : f[y] \in Nat /\ h[y] \in Nat
    BY <1>9
  <2>. HIDE DEF R
  <2>. QED  BY <1>8, <2>1, TotalType
<1>13. f[x] \in Nat /\ h[x] \in Nat /\ f[x] <= h[x] + 1 /\ h[x] <= f[x] + 1
  BY <1>3, <1>5
<1>. HIDE DEF R
<1>14. Total(f, R) <= Total(h, R) + Cardinality(R) /\ Total(h, R) <= Total(f, R) + Cardinality(R)
  BY <1>7 DEF R
<1>15. near(A)
  BY <1>8, <1>10, <1>11, <1>12, <1>13, <1>14
<1>. QED  BY <1>3, <1>15

\* The sum over two sets without a common element is that over one and over the other.
LEMMA TotalUnion ==
    ASSUME NEW S, IsFiniteSet(S), NEW f, \A x \in S : f[x] \in Nat,
           NEW A \in SUBSET S, NEW B \in SUBSET S, A \cap B = {}
    PROVE  Total(f, A \union B) = Total(f, A) + Total(f, B)
<1>. DEFINE joined(Q) == Total(f, A \union Q) = Total(f, A) + Total(f, Q)
            T == {Q \in SUBSET B : ~joined(Q)}
<1>1. SUFFICES ASSUME T # {} PROVE FALSE
  OBVIOUS
<1>0. IsFiniteSet(A) /\ IsFiniteSet(B) /\ \A x \in A \union B : f[x] \in Nat
  BY FS_Subset
<1>2. PICK Q \in T : \A R \in T : ~(R \subseteq Q /\ R # Q)
  <2>1. T \in SUBSET (SUBSET B)
    OBVIOUS
  <2>. HIDE DEF T
  <2>. QED  BY <1>0, <1>1, <2>1, Smallest
<1>3. Q \in SUBSET B /\ ~joined(Q) /\ IsFiniteSet(Q)
  <2>1. Q \in SUBSET B /\ ~joined(Q)
    OBVIOUS
  <2>. QED  BY <1>0, <2>1, FS_Subset
<1>4. Q # {}
  <2>1. A \union {} = A /\ Total(f, {}) = 0
    BY TotalOfNone
  <2>2. Total(f, A) \in Nat
    BY <1>0, TotalType
  <2>. QED  BY <1>3, <2>1, <2>2
<1>5. PICK x \in Q : TRUE
  BY <1>4
<1>6. Q \ {x} \in SUBSET B /\ Q \ {x} \notin T
  BY <1>2, <1>3, <1>5
<1>7. joined(Q \ {x})
  BY <1>6
<1>8. Total(f, Q) = f[x] + Total(f, Q \ {x})
  <2>1. \A y \in Q : f[y] \in Nat
    BY <1>0, <1>3
  <2>. QED  BY <1>3, <1>5, <2>1, TotalRemove
<1>9. Total(f, A \union Q) = f[x] + Total(f, A \union (Q \ {x}))
  <2>. DEFINE U == A \union Q
  <2>1. IsFiniteSet(U) /\ x \in U /\ \A y \in U : f[y] \in Nat
    BY <1>0, <1>3, <1>5, FS_Union
  <2>2. U \ {x} = A \union (Q \ {x})
    BY <1>3, <1>5
  <2>. HIDE DEF U
  <2>3. Total(f, U) = f[x] + Total(f, U \ {x})
    BY <2>1, TotalRemove
  <2>. QED  BY <2>2, <2>3 DEF U
<1>10. f[x] \in Nat /\ Total(f, A) \in Nat /\ Total(f, Q \ {x}) \in Nat
  <2>1. IsFiniteSet(Q \ {x}) /\ \A y \in Q \ {x} : f[y] \in Nat
    BY <1>0, <1>3, FS_Subset
  <2>2. Total(f, Q \ {x}) \in Nat
    BY <2>1, TotalType
  <2>. QED  BY <1>0, <1>3, <1>5, <2>2, TotalType
<1>11. joined(Q)
  BY <1>7, <1>8, <1>9, <1>10
<1>. QED  BY <1>3, <1>11

\* f sums w over the elements of S with each key of P.
SumsParts(f, w, S, key, P) == \A p \in P : f[p] = Total(w, PartOf(S, key, {p}))

\* A sum is that of the sums over the parts with one key each.
LEMMA TotalOfSums ==
    ASSUME NEW S, IsFiniteSet(S), NEW key, NEW P, IsFiniteSet(P), NEW f, NEW w,
           \A x \in S : w[x] \in Nat, SumsParts(f, w, S, key, P)
    PROVE  Total(w, PartOf(S, key, P)) = Total(f, P)
<1>. DEFINE within(Q) == PartOf(S, key, Q)
            part(p) == PartOf(S, key, {p})
            T == {Q \in SUBSET P : Total(w, within(Q)) # Total(f, Q)}
<1>1. SUFFICES ASSUME T # {} PROVE FALSE
  OBVIOUS
<1>2. PICK A \in T : \A B \in T : ~(B \subseteq A /\ B # A)
  <2>1. T \in SUBSET (SUBSET P)
    OBVIOUS
  <2>. HIDE DEF T
  <2>. QED  BY <1>1, <2>1, Smallest
<1>3. A \in SUBSET P /\ IsFiniteSet(A) /\ Total(w, within(A)) # Total(f, A)
  <2>1. A \in SUBSET P /\ Total(w, within(A)) # Total(f, A)
    OBVIOUS
  <2>. QED  BY <2>1, FS_Subset
<1>4. A # {}
  <2>1. within({}) = {}
    BY DEF PartOf
  <2>. QED  BY <1>3, <2>1, TotalOfNone
<1>5. PICK p \in A : TRUE
  BY <1>4
<1>6. A \ {p} \in SUBSET P /\ A \ {p} \notin T
  BY <1>2, <1>3, <1>5
<1>7. Total(w, within(A \ {p})) = Total(f, A \ {p})
  BY <1>6
<1>8. \A q : part(q) \in SUBSET S
  BY DEF PartOf
<1>9. \A q \in A : f[q] = Total(w, part(q)) /\ f[q] \in Nat
  <2>. SUFFICES ASSUME NEW q \in A PROVE f[q] = Total(w, part(q)) /\ f[q] \in Nat
    OBVIOUS
  <2>1. f[q] = Total(w, part(q))
    BY <1>3 DEF SumsParts
  <2>2. IsFiniteSet(part(q)) /\ \A x \in part(q) : w[x] \in Nat
    <3>. HIDE DEF part
    <3>. QED  BY <1>8, FS_Subset
  <2>. HIDE DEF part
  <2>. QED  BY <2>1, <2>2, TotalType
<1>10. Total(f, A) = f[p] + Total(f, A \ {p})
  BY <1>3, <1>9, TotalRemove
<1>11. /\ within(A) = within(A \ {p}) \union part(p)
       /\ within(A \ {p}) \cap part(p) = {}
       /\ within(A \ {p}) \in SUBSET S
  BY <1>5 DEF PartOf
<1>. HIDE DEF within, part
<1>12. Total(w, within(A)) = Total(w, within(A \ {p})) + Total(w, part(p))
  <2>1. part(p) \in SUBSET S
    BY <1>8
  <2>. DEFINE X == within(A \ {p})
              Y == part(p)
  <2>2. X \in SUBSET S /\ Y \in SUBSET S /\ X \cap Y = {}
    BY <1>11, <2>1
  <2>. HIDE DEF X, Y
  <2>3. Total(w, X \union Y) = Total(w, X) + Total(w, Y)
    BY <2>2, TotalUnion
  <2>. QED  BY <1>11, <2>3 DEF X, Y
<1>13. Total(w, within(A \ {p})) \in Nat /\ Total(w, part(p)) \in Nat
  <2>1. IsFiniteSet(within(A \ {p})) /\ \A x \in within(A \ {p}) : w[x] \in Nat
    BY <1>11, FS_Subset
  <2>2. IsFiniteSet(part(p)) /\ \A x \in part(p) : w[x] \in Nat
    BY <1>8, FS_Subset
  <2>. QED  BY <2>1, <2>2, TotalType
<1>. QED  BY <1>3, <1>5, <1>7, <1>9, <1>10, <1>12, <1>13

-----------------------------------------------------------------------------
(* Ranks *)

\* R is a strict total order of the elements of S.
Orders(R, S) ==
    /\ \A x \in S : <<x, x>> \notin R
    /\ \A x, y, z \in S : <<x, y>> \in R /\ <<y, z>> \in R => <<x, z>> \in R
    /\ \A x, y \in S : x # y => <<x, y>> \in R \/ <<y, x>> \in R

\* How many elements of S come before x.
Rank(R, S, x) == Cardinality({y \in S : <<y, x>> \in R})

\* Some element has this rank.
Placed(R, S, n) == \E x \in S : Rank(R, S, x) = n

\* Ranks increase along the order, and each place below the size of the set is taken.
LEMMA RanksFill ==
    ASSUME NEW S, IsFiniteSet(S), NEW R, Orders(R, S)
    PROVE  /\ Cardinality(S) \in Nat
           /\ \A x \in S : Rank(R, S, x) \in 0..(Cardinality(S) - 1)
           /\ \A x, y \in S : <<x, y>> \in R => Rank(R, S, x) < Rank(R, S, y)
           /\ \A n \in 0..(Cardinality(S) - 1) : Placed(R, S, n)
<1>. DEFINE below(x) == {y \in S : <<y, x>> \in R}
            n == Cardinality(S)
            rank == [x \in S |-> Rank(R, S, x)]
<1>1. n \in Nat
  BY FS_CardinalityType
<1>2. ASSUME NEW x \in S
      PROVE  /\ IsFiniteSet(below(x)) /\ Cardinality(below(x)) \in Nat
             /\ Cardinality(below(x)) < n
  <2>1. below(x) \in SUBSET S /\ below(x) # S
    BY DEF Orders
  <2>. HIDE DEF below
  <2>2. IsFiniteSet(below(x)) /\ Cardinality(below(x)) <= n /\ Cardinality(below(x)) # n
    BY <2>1, FS_Subset
  <2>. QED  BY <1>1, <2>2, FS_CardinalityType
<1>3. ASSUME NEW x \in S, NEW y \in S, <<x, y>> \in R
      PROVE  Cardinality(below(x)) < Cardinality(below(y))
  <2>1. below(x) \in SUBSET below(y) /\ below(x) # below(y)
    BY <1>3 DEF Orders
  <2>2. IsFiniteSet(below(y)) /\ Cardinality(below(x)) \in Nat /\ Cardinality(below(y)) \in Nat
    BY <1>2
  <2>. HIDE DEF below
  <2>3. Cardinality(below(x)) <= Cardinality(below(y)) /\ Cardinality(below(x)) # Cardinality(below(y))
    BY <2>1, <2>2, FS_Subset
  <2>. QED  BY <2>2, <2>3
<1>4. \A x \in S : Rank(R, S, x) = Cardinality(below(x))
  BY DEF Rank
<1>. HIDE DEF below
<1>5. \A x \in S : Rank(R, S, x) \in 0..(n - 1)
  BY <1>1, <1>2, <1>4
<1>6. \A x, y \in S : <<x, y>> \in R => Rank(R, S, x) < Rank(R, S, y)
  BY <1>3, <1>4
<1>7. rank \in Injection(S, 0..(n - 1))
  <2>1. rank \in [S -> 0..(n - 1)]
    BY <1>5
  <2>2. ASSUME NEW x \in S, NEW y \in S, rank[x] = rank[y] PROVE x = y
    <3>1. Rank(R, S, x) = Rank(R, S, y) /\ Rank(R, S, x) \in Int
      BY <1>1, <1>5, <2>2
    <3>2. ~(Rank(R, S, x) < Rank(R, S, y)) /\ ~(Rank(R, S, y) < Rank(R, S, x))
      BY <3>1
    <3>. QED  BY <1>6, <3>2 DEF Orders
  <2>. QED  BY <2>1, <2>2 DEF Injection, IsInjective
<1>8. IsFiniteSet(0..(n - 1)) /\ Cardinality(0..(n - 1)) = n
  <2>1. 0 \in Int /\ n - 1 \in Int
    BY <1>1
  <2>2. IsFiniteSet(0..(n - 1)) /\ Cardinality(0..(n - 1)) = IF 0 > n - 1 THEN 0 ELSE (n - 1) - 0 + 1
    BY <2>1, FS_Interval
  <2>. QED  BY <1>1, <2>2
<1>9. rank \in Surjection(S, 0..(n - 1))
  <2>. HIDE DEF rank
  <2>. QED  BY <1>7, <1>8, FS_Injection
<1>10. \A m \in 0..(n - 1) : Placed(R, S, m)
  BY <1>9 DEF Surjection, Placed
<1>. QED  BY <1>1, <1>5, <1>6, <1>10

\* The order of a set of numbers by size.
BySize(S) == {pair \in S \X S : pair[1] < pair[2]}

\* Numbers are ordered by size; the rank of one is the number of smaller ones.
LEMMA NumbersOrdered ==
    ASSUME NEW S \in SUBSET Int
    PROVE  /\ Orders(BySize(S), S)
           /\ \A x \in S : Rank(BySize(S), S, x) = Cardinality({y \in S : y < x})
           /\ \A x, y \in S : <<x, y>> \in BySize(S) <=> x < y
<1>1. \A x, y \in S : <<x, y>> \in BySize(S) <=> x < y
  BY DEF BySize
<1>2. Orders(BySize(S), S)
  BY <1>1 DEF Orders
<1>3. ASSUME NEW x \in S PROVE Rank(BySize(S), S, x) = Cardinality({y \in S : y < x})
  <2>1. {y \in S : <<y, x>> \in BySize(S)} = {y \in S : y < x}
    BY <1>1
  <2>. QED  BY <2>1 DEF Rank
<1>. QED  BY <1>1, <1>2, <1>3

-----------------------------------------------------------------------------
(* Combined sums and bounded ones *)

Combines(h, n, f, g, S) ==
    \A x \in S : f[x] \in Nat /\ g[x] \in Nat /\ h[x] = n * f[x] + g[x]

\* A sum of combinations is the combination of the sums.
LEMMA TotalCombines ==
    ASSUME NEW S, IsFiniteSet(S), NEW n \in Nat, NEW f, NEW g, NEW h, Combines(h, n, f, g, S)
    PROVE  Total(h, S) = n * Total(f, S) + Total(g, S)
<1>. DEFINE T == {s \in SUBSET S : Total(h, s) # n * Total(f, s) + Total(g, s)}
<1>1. SUFFICES ASSUME T # {} PROVE FALSE
  OBVIOUS
<1>2. PICK A \in T : \A B \in T : ~(B \subseteq A /\ B # A)
  <2>1. T \in SUBSET (SUBSET S)
    OBVIOUS
  <2>. HIDE DEF T
  <2>. QED  BY <1>1, <2>1, Smallest
<1>3. IsFiniteSet(A) /\ A # {} /\ A \in SUBSET S
  <2>1. IsFiniteSet(A)
    BY <1>2, FS_Subset
  <2>2. Total(f, {}) = 0 /\ Total(g, {}) = 0 /\ Total(h, {}) = 0
    BY TotalOfNone
  <2>3. n * 0 + 0 = 0
    OBVIOUS
  <2>. QED  BY <1>2, <2>1, <2>2, <2>3
<1>. PICK x \in A : x = Chosen(A)
  BY <1>3, ChosenIn
<1>. DEFINE R == A \ {x}
<1>4. /\ Total(f, A) = f[x] + Total(f, R) /\ Total(g, A) = g[x] + Total(g, R)
      /\ Total(h, A) = h[x] + Total(h, R)
  BY <1>3, TotalTakes
<1>5. R \subseteq A /\ R # A /\ R \in SUBSET S /\ IsFiniteSet(R)
  BY <1>3, FS_Subset
<1>6. Total(h, R) = n * Total(f, R) + Total(g, R)
  BY <1>2, <1>5
<1>7. f[x] \in Nat /\ g[x] \in Nat /\ h[x] = n * f[x] + g[x]
  BY <1>3 DEF Combines
<1>8. Total(f, R) \in Nat /\ Total(g, R) \in Nat
  <2>1. \A y \in R : f[y] \in Nat /\ g[y] \in Nat
    BY <1>5 DEF Combines
  <2>. HIDE DEF R
  <2>. QED  BY <1>5, <2>1, TotalType
<1>9. \A a, b \in Nat : n * (a + b) = n * a + n * b /\ n * a \in Nat /\ n * b \in Nat
  OBVIOUS
<1>10. n * Total(f, A) = n * f[x] + n * Total(f, R) /\ n * f[x] \in Nat /\ n * Total(f, R) \in Nat
  BY <1>4, <1>7, <1>8, <1>9
<1>11. Total(h, A) = n * Total(f, A) + Total(g, A)
  BY <1>4, <1>6, <1>7, <1>8, <1>10
<1>. QED  BY <1>2, <1>11

Marks(f, P, S) == \A x \in S : f[x] = IF x \in P THEN 1 ELSE 0

\* The sum of marks is their number.
LEMMA TotalOfMarks ==
    ASSUME NEW S, IsFiniteSet(S), NEW P \in SUBSET S, NEW f, Marks(f, P, S)
    PROVE  Total(f, S) = Cardinality(P)
<1>. DEFINE key == [x \in P |-> x]
<1>1. IsFiniteSet(P)
  BY FS_Subset
<1>2. PartOf(P, key, S) = P
  BY DEF PartOf
<1>3. CountsParts(f, P, key, S)
  <2>. SUFFICES ASSUME NEW x \in S PROVE f[x] = Cardinality({y \in P : key[y] = x})
    BY DEF CountsParts, PartOf
  <2>1. CASE x \in P
    <3>1. {y \in P : key[y] = x} = {x}
      BY <2>1
    <3>. QED  BY <2>1, <3>1, FS_Singleton DEF Marks
  <2>2. CASE x \notin P
    <3>1. {y \in P : key[y] = x} = {}
      BY <2>2
    <3>. QED  BY <2>2, <3>1, FS_EmptySet DEF Marks
  <2>. QED  BY <2>1, <2>2
<1>. HIDE DEF key
<1>. QED  BY <1>1, <1>2, <1>3, TotalOfParts

Bounded(g, n, P, S) ==
    \A x \in S : g[x] \in Nat /\ (IF x \in P THEN g[x] <= n ELSE g[x] = 0)

\* A sum is at most the bound of its terms for each that is not zero.
LEMMA TotalBounded ==
    ASSUME NEW S, IsFiniteSet(S), NEW n \in Nat, NEW g, NEW P \in SUBSET S, Bounded(g, n, P, S)
    PROVE  Total(g, S) <= n * Cardinality(P)
<1>. DEFINE f == [x \in S |-> IF x \in P THEN 1 ELSE 0]
            rest == [x \in S |-> n * f[x] - g[x]]
            h == [x \in S |-> n * f[x] + 0]
            zero == [x \in S |-> 0]
<1>1. \A x \in S : f[x] \in Nat /\ rest[x] \in Nat /\ n * f[x] = g[x] + rest[x] /\ g[x] \in Nat
  <2>. TAKE x \in S
  <2>1. f[x] = (IF x \in P THEN 1 ELSE 0) /\ rest[x] = n * f[x] - g[x]
    OBVIOUS
  <2>2. n * 1 = n /\ n * 0 = 0
    OBVIOUS
  <2>3. g[x] \in Nat /\ (IF x \in P THEN g[x] <= n ELSE g[x] = 0)
    BY DEF Bounded
  <2>. HIDE DEF f, rest
  <2>. QED  BY <2>1, <2>2, <2>3
<1>2. Combines(h, n, f, zero, S)
  BY <1>1 DEF Combines
<1>3. Combines(h, 1, g, rest, S)
  <2>1. \A x \in S : h[x] = n * f[x]
    BY <1>1
  <2>. HIDE DEF h, rest, f
  <2>2. \A a \in Nat : 1 * a = a
    OBVIOUS
  <2>. QED  BY <1>1, <2>1, <2>2 DEF Combines
<1>4. Total(h, S) = n * Total(f, S) + Total(zero, S)
  <2>. HIDE DEF h, f, zero
  <2>. QED  BY <1>2, TotalCombines
<1>5. Total(h, S) = 1 * Total(g, S) + Total(rest, S)
  <2>. HIDE DEF h, f, rest
  <2>. QED  BY <1>3, TotalCombines
<1>6. Total(zero, S) = 0
  <2>1. \A x \in S : zero[x] = 0
    OBVIOUS
  <2>. HIDE DEF zero
  <2>. QED  BY <2>1, TotalOfZeros
<1>7. Total(g, S) \in Nat /\ Total(rest, S) \in Nat /\ Total(f, S) \in Nat
  <2>. HIDE DEF f, rest
  <2>. QED  BY <1>1, TotalType
<1>8. Total(f, S) = Cardinality(P)
  <2>1. Marks(f, P, S)
    BY DEF Marks
  <2>. HIDE DEF f
  <2>. QED  BY <2>1, TotalOfMarks
<1>. HIDE DEF f, rest, h, zero
<1>9. 1 * Total(g, S) = Total(g, S)
  BY <1>7
<1>10. Total(g, S) <= n * Total(f, S)
  <2>1. n * Total(f, S) \in Nat
    BY <1>7
  <2>. QED  BY <1>4, <1>5, <1>6, <1>7, <1>9, <2>1
<1>. QED  BY <1>8, <1>10

-----------------------------------------------------------------------------
(* Sums of sums, scaled, renamed and multiplied ones *)

Adds(h, f, g, S) == \A x \in S : f[x] \in Int /\ g[x] \in Int /\ h[x] = f[x] + g[x]

\* A sum of sums is the sum of both, negative terms included.
LEMMA TotalAdds ==
    ASSUME NEW S, IsFiniteSet(S), NEW f, NEW g, NEW h, Adds(h, f, g, S)
    PROVE  Total(h, S) = Total(f, S) + Total(g, S)
<1>. DEFINE T == {s \in SUBSET S : Total(h, s) # Total(f, s) + Total(g, s)}
<1>1. SUFFICES ASSUME T # {} PROVE FALSE
  OBVIOUS
<1>2. PICK A \in T : \A B \in T : ~(B \subseteq A /\ B # A)
  <2>1. T \in SUBSET (SUBSET S)
    OBVIOUS
  <2>. HIDE DEF T
  <2>. QED  BY <1>1, <2>1, Smallest
<1>3. IsFiniteSet(A) /\ A # {} /\ A \in SUBSET S
  <2>1. IsFiniteSet(A)
    BY <1>2, FS_Subset
  <2>2. Total(f, {}) = 0 /\ Total(g, {}) = 0 /\ Total(h, {}) = 0
    BY TotalOfNone
  <2>3. 0 + 0 = 0
    OBVIOUS
  <2>. QED  BY <1>2, <2>1, <2>2, <2>3
<1>. PICK x \in A : x = Chosen(A)
  BY <1>3, ChosenIn
<1>. DEFINE R == A \ {x}
<1>4. /\ Total(f, A) = f[x] + Total(f, R) /\ Total(g, A) = g[x] + Total(g, R)
      /\ Total(h, A) = h[x] + Total(h, R)
  BY <1>3, TotalTakes
<1>5. R \subseteq A /\ R # A /\ R \in SUBSET S /\ IsFiniteSet(R)
  BY <1>3, FS_Subset
<1>6. Total(h, R) = Total(f, R) + Total(g, R)
  BY <1>2, <1>5
<1>7. f[x] \in Int /\ g[x] \in Int /\ h[x] = f[x] + g[x]
  BY <1>3 DEF Adds
<1>8. Total(f, R) \in Int /\ Total(g, R) \in Int
  <2>1. \A y \in R : f[y] \in Int /\ g[y] \in Int
    BY <1>5 DEF Adds
  <2>. HIDE DEF R
  <2>. QED  BY <1>5, <2>1, TotalInt
<1>11. Total(h, A) = Total(f, A) + Total(g, A)
  BY <1>4, <1>6, <1>7, <1>8
<1>. QED  BY <1>2, <1>11

\* A sum of smaller terms is smaller, and no more than as large only term by term.
LEMMA TotalMonotone ==
    ASSUME NEW S, IsFiniteSet(S), NEW f, NEW g,
           \A x \in S : f[x] \in Nat /\ g[x] \in Nat /\ f[x] <= g[x]
    PROVE  /\ Total(f, S) \in Nat /\ Total(g, S) \in Nat /\ Total(f, S) <= Total(g, S)
           /\ Total(g, S) = 0 <=> \A x \in S : g[x] = 0
<1>. DEFINE d == [x \in S |-> g[x] - f[x]]
<1>1. \A x \in S : d[x] \in Nat /\ g[x] = f[x] + d[x] /\ f[x] \in Nat /\ g[x] \in Nat
  OBVIOUS
<1>. HIDE DEF d
<1>2. Total(f, S) \in Nat /\ Total(g, S) \in Nat /\ Total(d, S) \in Nat
  BY <1>1, TotalType
<1>3. Total(g, S) = Total(f, S) + Total(d, S)
  <2>1. Adds(g, f, d, S)
    BY <1>1 DEF Adds
  <2>. QED  BY <2>1, TotalAdds
<1>4. ASSUME Total(g, S) = 0, NEW x \in S PROVE g[x] = 0
  <2>1. Total(g, S) = g[x] + Total(g, S \ {x})
    BY <1>1, TotalRemove
  <2>2. Total(g, S \ {x}) \in Nat
    <3>. DEFINE R == S \ {x}
    <3>1. IsFiniteSet(R) /\ \A y \in R : g[y] \in Nat
      BY <1>1, FS_Subset
    <3>. HIDE DEF R
    <3>2. Total(g, R) \in Nat
      BY <3>1, TotalType
    <3>. QED  BY <3>2 DEF R
  <2>. QED  BY <1>1, <1>4, <2>1, <2>2
<1>5. (\A x \in S : g[x] = 0) => Total(g, S) = 0
  BY TotalOfZeros
<1>. QED  BY <1>2, <1>3, <1>4, <1>5

\* f gives to each y of P what w gives to the one element back[y] of S.
Carries(f, w, S, P, key, back) ==
    /\ \A x \in S : key[x] \in P /\ back[key[x]] = x /\ w[x] \in Nat
    /\ \A y \in P : back[y] \in S /\ key[back[y]] = y /\ f[y] = w[back[y]]

\* A sum does not depend on what its terms are called.
LEMMA TotalRenamed ==
    ASSUME NEW S, IsFiniteSet(S), NEW P, IsFiniteSet(P), NEW f, NEW w, NEW key, NEW back,
           Carries(f, w, S, P, key, back)
    PROVE  Total(f, P) = Total(w, S)
<1>1. PartOf(S, key, P) = S
  BY DEF PartOf, Carries
<1>2. SumsParts(f, w, S, key, P)
  <2>. SUFFICES ASSUME NEW y \in P PROVE f[y] = Total(w, PartOf(S, key, {y}))
    BY DEF SumsParts
  <2>1. PartOf(S, key, {y}) = {back[y]}
    BY DEF PartOf, Carries
  <2>2. Total(w, {back[y]}) = w[back[y]]
    <3>. DEFINE x == back[y]
                O == {x}
    <3>1. IsFiniteSet(O) /\ x \in O /\ \A z \in O : w[z] \in Nat
      BY FS_Singleton DEF Carries
    <3>2. O \ {x} = {}
      OBVIOUS
    <3>. HIDE DEF O
    <3>3. Total(w, O) = w[x] + Total(w, O \ {x})
      BY <3>1, TotalRemove
    <3>4. Total(w, O) = w[x]
      BY <3>1, <3>2, <3>3, TotalOfNone
    <3>. QED  BY <3>4 DEF O
  <2>. QED  BY <2>1, <2>2 DEF Carries
<1>3. \A x \in S : w[x] \in Nat
  BY DEF Carries
<1>. QED  BY <1>1, <1>2, <1>3, TotalOfSums

Scales(g, n, f, S) == \A x \in S : f[x] \in Nat /\ g[x] = n * f[x]

\* A factor of every term is one of the sum.
LEMMA TotalScaled ==
    ASSUME NEW S, IsFiniteSet(S), NEW n \in Nat, NEW f, NEW g, Scales(g, n, f, S)
    PROVE  Total(g, S) = n * Total(f, S) /\ Total(f, S) \in Nat
<1>. DEFINE zero == [x \in S |-> 0]
<1>1. \A a \in Nat : n * a \in Nat /\ n * a + 0 = n * a
  OBVIOUS
<1>2. Combines(g, n, f, zero, S)
  BY <1>1 DEF Combines, Scales
<1>3. Total(zero, S) = 0
  BY TotalOfZeros
<1>4. Total(f, S) \in Nat
  BY TotalType DEF Scales
<1>. HIDE DEF zero
<1>5. Total(g, S) = n * Total(f, S) + Total(zero, S)
  BY <1>2, TotalCombines
<1>. QED  BY <1>1, <1>3, <1>4, <1>5

Products(h, f, g, S) ==
    /\ \A x \in S : f[x] \in Nat /\ g[x] \in Nat
    /\ \A c \in S \X S : h[c] = f[c[1]] * g[c[2]]

\* The sum of all products is the product of the sums.
LEMMA TotalProduct ==
    ASSUME NEW S, IsFiniteSet(S), NEW f, NEW g, NEW h, Products(h, f, g, S)
    PROVE  Total(h, S \X S) = Total(f, S) * Total(g, S)
<1>. DEFINE C == S \X S
            first == [c \in C |-> c[1]]
            line == [a \in S |-> Total(g, S) * f[a]]
<1>1. IsFiniteSet(C)
  BY FS_Product
<1>2. Total(g, S) \in Nat /\ Total(f, S) \in Nat
  BY TotalType DEF Products
<1>3. PartOf(C, first, S) = C
  BY DEF PartOf
<1>4. \A c \in C : h[c] \in Nat
  <2>1. \A a, b \in Nat : a * b \in Nat
    OBVIOUS
  <2>. QED  BY <2>1 DEF Products
<1>5. SumsParts(line, h, C, first, S)
  <2>. SUFFICES ASSUME NEW a \in S PROVE line[a] = Total(h, PartOf(C, first, {a}))
    BY DEF SumsParts
  <2>. DEFINE row == PartOf(C, first, {a})
              scaled == [b \in S |-> f[a] * g[b]]
              key == [c \in row |-> c[2]]
              back == [b \in S |-> <<a, b>>]
  <2>1. \A c \in row : c \in C /\ c[1] = a /\ c[2] \in S /\ c = <<a, c[2]>>
    BY DEF PartOf
  <2>2. \A b \in S : <<a, b>> \in row
    BY DEF PartOf
  <2>3. IsFiniteSet(row)
    BY <1>1, FS_Subset DEF PartOf
  <2>4. Carries(scaled, h, row, S, key, back)
    <3>1. ASSUME NEW c \in row
          PROVE  key[c] \in S /\ back[key[c]] = c /\ h[c] \in Nat
      BY <1>4, <2>1
    <3>2. ASSUME NEW b \in S
          PROVE  back[b] \in row /\ key[back[b]] = b /\ scaled[b] = h[back[b]]
      <4>1. back[b] = <<a, b>> /\ <<a, b>> \in row /\ <<a, b>> \in C
        BY <2>2
      <4>2. h[<<a, b>>] = f[a] * g[b]
        BY <4>1 DEF Products
      <4>. QED  BY <4>1, <4>2
    <3>. QED  BY <3>1, <3>2 DEF Carries
  <2>. HIDE DEF row, key, back
  <2>5. Total(scaled, S) = Total(h, row)
    BY <2>3, <2>4, TotalRenamed
  <2>6. Total(scaled, S) = f[a] * Total(g, S)
    <3>1. f[a] \in Nat /\ Scales(scaled, f[a], g, S)
      BY DEF Scales, Products
    <3>. QED  BY <3>1, TotalScaled
  <2>7. f[a] * Total(g, S) = Total(g, S) * f[a]
    <3>1. \A x, y \in Nat : x * y = y * x
      OBVIOUS
    <3>2. f[a] \in Nat
      BY DEF Products
    <3>. QED  BY <1>2, <3>1, <3>2
  <2>. QED  BY <2>5, <2>6, <2>7 DEF row
<1>6. Total(h, C) = Total(line, S)
  <2>. HIDE DEF line, first, C
  <2>. QED  BY <1>1, <1>3, <1>4, <1>5, TotalOfSums
<1>7. Total(line, S) = Total(g, S) * Total(f, S)
  <2>1. Scales(line, Total(g, S), f, S)
    BY DEF Scales, Products
  <2>. HIDE DEF line
  <2>. QED  BY <1>2, <2>1, TotalScaled
<1>8. \A x, y \in Nat : x * y = y * x
  OBVIOUS
<1>. QED  BY <1>2, <1>6, <1>7, <1>8

\* The pairs of different elements.
Unlike(S) == {c \in S \X S : c[1] # c[2]}

\* Without the products of an element with itself, the sum is smaller by those.
LEMMA TotalUnlike ==
    ASSUME NEW S, IsFiniteSet(S), NEW f, NEW g, NEW h, NEW o, NEW d, Products(h, f, g, S),
           \A c \in Unlike(S) : o[c] = h[c],
           \A x \in S : d[x] = f[x] * g[x]
    PROVE  /\ Total(o, Unlike(S)) + Total(d, S) = Total(f, S) * Total(g, S)
           /\ Total(o, Unlike(S)) \in Nat /\ Total(d, S) \in Nat
           /\ Total(f, S) \in Nat /\ Total(g, S) \in Nat
<1>. DEFINE C == S \X S
            U == Unlike(S)
            E == {c \in C : c[1] = c[2]}
            key == [c \in E |-> c[1]]
            back == [x \in S |-> <<x, x>>]
<1>1. IsFiniteSet(C) /\ U \in SUBSET C /\ E \in SUBSET C /\ U \cap E = {} /\ U \union E = C
  BY FS_Product DEF Unlike
<1>2. IsFiniteSet(U) /\ IsFiniteSet(E)
  BY <1>1, FS_Subset
<1>3. \A c \in C : h[c] \in Nat
  <2>1. \A a, b \in Nat : a * b \in Nat
    OBVIOUS
  <2>. QED  BY <2>1 DEF Products
<1>4. Total(o, U) = Total(h, U)
  BY <1>2, TotalSame
<1>5. Total(d, S) = Total(h, E)
  <2>1. ASSUME NEW c \in E PROVE key[c] \in S /\ back[key[c]] = c /\ h[c] \in Nat
    BY <1>1, <1>3
  <2>2. ASSUME NEW x \in S PROVE back[x] \in E /\ key[back[x]] = x /\ d[x] = h[back[x]]
    <3>1. back[x] = <<x, x>> /\ <<x, x>> \in E /\ <<x, x>> \in C
      OBVIOUS
    <3>2. h[<<x, x>>] = f[x] * g[x]
      BY <3>1 DEF Products
    <3>. QED  BY <3>1, <3>2
  <2>3. Carries(d, h, E, S, key, back)
    BY <2>1, <2>2 DEF Carries
  <2>. HIDE DEF E, key, back
  <2>. QED  BY <1>2, <2>3, TotalRenamed
<1>. HIDE DEF U, E
<1>6. Total(h, C) = Total(h, U) + Total(h, E)
  <2>. HIDE DEF C
  <2>. QED  BY <1>1, <1>3, TotalUnion
<1>7. Total(h, C) = Total(f, S) * Total(g, S)
  BY TotalProduct
<1>8. Total(h, U) \in Nat /\ Total(h, E) \in Nat
  BY <1>1, <1>2, <1>3, TotalType
<1>9. Total(f, S) \in Nat /\ Total(g, S) \in Nat
  BY TotalType DEF Products
<1>10. Total(o, U) = Total(o, Unlike(S))
  BY DEF U
<1>. QED  BY <1>4, <1>5, <1>6, <1>7, <1>8, <1>9, <1>10
=============================================================================
