----------------------------- MODULE DataLemmas -----------------------------
(***************************************************************************)
(* Facts about the data of the models that the proofs share: sets of       *)
(* natural numbers have a least element, and bounded ones a greatest - the *)
(* form in which the proofs use induction - and what adding to a bag and   *)
(* taking from it does to its set of elements.                             *)
(***************************************************************************)
EXTENDS Integers, Bags, WellFoundedInduction, TLAPS

-----------------------------------------------------------------------------
(* Numbers. *)

\* The least-number principle for a set, from the well-foundedness of <.
LEMMA LeastNatural ==
  ASSUME NEW T \in SUBSET Nat, T # {}
  PROVE  \E x \in T : \A y \in T : x <= y
<1>1. PICK x \in T : \A y \in T : ~(<<y, x>> \in OpToRel(<, Nat))
  <2>. DEFINE R == OpToRel(<, Nat)
  <2>1. IsWellFoundedOn(R, Nat)
    BY NatLessThanWellFounded, Zenon
  <2>. HIDE DEF R
  <2>2. \E x \in T : \A y \in T : ~(<<y, x>> \in R)
    BY <2>1, WFMin
  <2>. QED
    BY <2>2, Zenon DEF R
<1>2. \A y \in T : ~(y < x)
  BY <1>1 DEF OpToRel
<1>. QED
  BY <1>2

\* A set of numbers up to n has a greatest element: n minus the least distance
\* from n.
LEMMA GreatestBelow ==
  ASSUME NEW n \in Nat, NEW T \in SUBSET (1 .. n), T # {}
  PROVE  \E x \in T : \A y \in T : y <= x
<1>. DEFINE U == {i \in Nat : n - i \in T}
<1>1. PICK t \in T : TRUE
  OBVIOUS
<1>2. n - t \in Nat /\ n - (n - t) = t
  OBVIOUS
<1>3. U \in SUBSET Nat /\ U # {}
  BY <1>1, <1>2
<1>4. PICK u \in U : \A v \in U : u <= v
  BY <1>3, LeastNatural
<1>5. \A y \in T : y \in Nat /\ n - y \in U
  OBVIOUS
<1>6. \A y \in T : y <= n - u
  BY <1>4, <1>5
<1>. QED
  BY <1>4, <1>6

\* Induction up to n, for a set.
LEMMA SetInduction ==
  ASSUME NEW n \in Nat, NEW G \in SUBSET (0 .. n), 0 \in G,
         \A i \in 1 .. n : i - 1 \in G => i \in G
  PROVE  G = 0 .. n
<1>. DEFINE T == (0 .. n) \ G
<1>. SUFFICES ASSUME T # {} PROVE FALSE
  OBVIOUS
<1>1. T \in SUBSET Nat
  OBVIOUS
<1>2. PICK i \in T : \A j \in T : i <= j
  BY <1>1, LeastNatural
<1>3. i \in 1 .. n /\ i - 1 \in 0 .. n /\ i - 1 \notin T
  BY <1>2
<1>. QED
  BY <1>2, <1>3

\* f begins with a and goes on step by step within A.
Iterates(f, n, A, a, step) ==
  /\ f \in [0 .. n -> A]
  /\ f[0] = a
  /\ \A i \in 1 .. n : f[i] = step[i][f[i - 1]]

\* A function can be defined by its first value and the step from one to the
\* next; its values stay in the set that the step stays in.
LEMMA Iteration ==
  ASSUME NEW n \in Nat, NEW A, NEW a \in A, NEW step \in [1 .. n -> [A -> A]]
  PROVE  \E f : Iterates(f, n, A, a, step)
<1>. DEFINE Solves(f, k) == Iterates(f, k, A, a, step)
            G == {k \in 0 .. n : \E f : Solves(f, k)}
<1>1. 0 \in G
  <2>1. Solves([i \in 0 .. 0 |-> a], 0)
    BY DEF Iterates
  <2>. HIDE DEF Solves
  <2>. QED
    BY <2>1
<1>2. ASSUME NEW k \in 1 .. n, k - 1 \in G
      PROVE  k \in G
  <2>1. PICK f : Solves(f, k - 1)
    BY <1>2
  <2>. USE DEF Iterates
  <2>. DEFINE g == [i \in 0 .. k |-> IF i = k THEN step[k][f[k - 1]] ELSE f[i]]
  <2>2. f[k - 1] \in A /\ step[k][f[k - 1]] \in A
    BY <2>1
  <2>3. \A i \in 0 .. k - 1 : g[i] = f[i] /\ f[i] \in A
    BY <2>1
  <2>4. g[k] = step[k][f[k - 1]]
    OBVIOUS
  <2>5. g \in [0 .. k -> A]
    <3>1. \A i \in 0 .. k : i = k \/ i \in 0 .. k - 1
      OBVIOUS
    <3>2. \A i \in 0 .. k : (IF i = k THEN step[k][f[k - 1]] ELSE f[i]) \in A
      BY <2>2, <2>3, <3>1
    <3>. QED
      BY <3>2, Zenon
  <2>. HIDE DEF g
  <2>6. g[0] = a
    BY <2>1, <2>3
  <2>7. ASSUME NEW i \in 1 .. k PROVE g[i] = step[i][g[i - 1]]
    <3>1. i - 1 \in 0 .. k - 1 /\ (i # k => i \in 1 .. k - 1)
      OBVIOUS
    <3>2. i # k => f[i] = step[i][f[i - 1]]
      BY <2>1, <3>1
    <3>3. i \in 0 .. k - 1 \/ i = k
      OBVIOUS
    <3>. QED
      BY <2>3, <2>4, <3>1, <3>2, <3>3
  <2>8. Solves(g, k)
    BY <2>5, <2>6, <2>7 DEF Iterates
  <2>. HIDE DEF Solves
  <2>. QED
    BY <2>8
<1>. HIDE DEF Solves
<1>3. G = 0 .. n
  <2>1. G \in SUBSET (0 .. n)
    OBVIOUS
  <2>2. \A i \in 1 .. n : i - 1 \in G => i \in G
    BY <1>2
  <2>. HIDE DEF G
  <2>. QED
    BY <1>1, <2>1, <2>2, SetInduction
<1>4. \E f : Solves(f, n)
  <2>. HIDE DEF G
  <2>1. n \in G
    BY <1>3
  <2>. QED
    BY <2>1, Zenon DEF G
<1>. QED
  BY <1>4, Zenon DEF Solves

-----------------------------------------------------------------------------
(* Bags. *)

\* Adding one of each element of a set.
LEMMA BagAdd ==
  ASSUME NEW b, IsABag(b), NEW S
  PROVE  /\ IsABag(b (+) SetToBag(S))
         /\ BagToSet(b (+) SetToBag(S)) = BagToSet(b) \cup S
  BY DEF IsABag, BagToSet, SetToBag, (+)

\* Taking one x away: no other element is touched.
LEMMA BagTake ==
  ASSUME NEW b, IsABag(b), NEW x
  PROVE  /\ IsABag(b (-) SetToBag({x}))
         /\ BagToSet(b (-) SetToBag({x})) \subseteq BagToSet(b)
         /\ BagToSet(b) \ {x} \subseteq BagToSet(b (-) SetToBag({x}))
  BY DEF IsABag, BagToSet, SetToBag, (-)

\* Keeping all copies of some of the elements.
LEMMA BagKeep ==
  ASSUME NEW b, IsABag(b), NEW S, S \subseteq BagToSet(b)
  PROVE  /\ IsABag([x \in S |-> b[x]])
         /\ BagToSet([x \in S |-> b[x]]) = S
  BY DEF IsABag, BagToSet

\* A bag of one of each element of a set; the empty bag is one.
LEMMA BagOfSet ==
  ASSUME NEW S
  PROVE  /\ IsABag(SetToBag(S))
         /\ BagToSet(SetToBag(S)) = S
         /\ IsABag(EmptyBag) /\ BagToSet(EmptyBag) = {}
  BY DEF IsABag, BagToSet, SetToBag, EmptyBag

\* The empty bag is the one without elements.
LEMMA BagEmpty ==
  ASSUME NEW b, IsABag(b), BagToSet(b) = {}
  PROVE  b = EmptyBag
  BY DEF IsABag, BagToSet, SetToBag, EmptyBag

\* A bag of one element, and the empty bag.
LEMMA BagOfOne ==
  ASSUME NEW x
  PROVE  /\ SetToBag({x}) (-) SetToBag({x}) = EmptyBag
         /\ EmptyBag (+) SetToBag({x}) = SetToBag({x})
         /\ SetToBag({x}) # EmptyBag
<1>1. SetToBag({x}) (-) SetToBag({x}) = EmptyBag
  BY DEF SetToBag, EmptyBag, (-)
<1>2. EmptyBag (+) SetToBag({x}) = SetToBag({x})
  BY DEF SetToBag, EmptyBag, (+)
<1>3. SetToBag({x}) # EmptyBag
  BY BagOfSet
<1>. QED
  BY <1>1, <1>2, <1>3
=============================================================================
