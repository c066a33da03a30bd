------------------------------ MODULE FiniteLemmas ------------------------------
(***************************************************************************)
(* Facts about finite sets of which several proofs make use: the maximum   *)
(* of a bounded set of naturals, and how a count over the values of a      *)
(* function changes when the function changes at one point.                *)
(***************************************************************************)
EXTENDS Integers, FiniteSets, Counting, FiniteSetTheorems, TLAPS

\* A bounded, nonempty set of naturals has a maximum: the intervals above its
\* elements are finite sets, and strict inclusion is well-founded on them.
LEMMA NatMax ==
  ASSUME NEW S \in SUBSET Nat, S # {}, NEW n \in Nat, \A x \in S : x <= n
  PROVE  \E x \in S : \A y \in S : y <= x
<1> DEFINE Above(x) == (x + 1)..n
           T == {Above(x) : x \in S}
<1>1. T \subseteq FiniteSubsetsOf(Nat) /\ T # {}
  <2>1. SUFFICES ASSUME NEW x \in S
                 PROVE  Above(x) \in SUBSET Nat /\ IsFiniteSet(Above(x))
    BY DEF FiniteSubsetsOf
  <2>2. QED
    BY FS_Interval
<1>2. \E s \in T : \A t \in T : <<t, s>> \notin StrictSubsetOrdering(Nat)
  <2> HIDE DEF T
  <2> QED
    BY <1>1, FS_StrictSubsetOrderingWellFounded, WFMin
<1>3. PICK x \in S : \A y \in S : <<Above(y), Above(x)>> \notin StrictSubsetOrdering(Nat)
  BY <1>2
<1>4. ASSUME NEW y \in S, x < y
      PROVE  FALSE
  <2>1. /\ Above(y) \in SUBSET Nat /\ Above(x) \in SUBSET Nat
        /\ Above(y) \subseteq Above(x)
    BY <1>4
  <2>2. y \in Above(x) /\ y \notin Above(y)
    BY <1>4
  <2> HIDE DEF Above
  <2>3. <<Above(y), Above(x)>> \in StrictSubsetOrdering(Nat)
    BY <2>1, <2>2 DEF StrictSubsetOrdering
  <2>4. QED
    BY <1>3, <2>3
<1>5. QED
  BY <1>4

LEMMA CountType ==
  ASSUME NEW W, IsFiniteSet(W), NEW f, NEW P
  PROVE  CountOf(W, f, P) \in 0..Cardinality(W)
<1>1. /\ IsFiniteSet({x \in W : f[x] \in P})
      /\ Cardinality({x \in W : f[x] \in P}) <= Cardinality(W)
  BY FS_Subset
<1>2. QED
  BY <1>1, FS_CardinalityType DEF CountOf

\* A count over one set is at most the count over a larger one.
LEMMA CountMono ==
  ASSUME NEW W, IsFiniteSet(W), NEW f, NEW P, NEW Q, P \subseteq Q
  PROVE  CountOf(W, f, P) <= CountOf(W, f, Q)
<1>1. {x \in W : f[x] \in P} \in SUBSET {x \in W : f[x] \in Q}
  OBVIOUS
<1>2. IsFiniteSet({x \in W : f[x] \in Q})
  BY FS_Subset
<1>3. QED
  BY <1>1, <1>2, FS_Subset DEF CountOf

\* The number of arguments at which a function's value lies in P, after the
\* function has changed at one point.
LEMMA CountExcept ==
  ASSUME NEW W, IsFiniteSet(W), NEW f, DOMAIN f = W, f = [x \in W |-> f[x]],
         NEW w \in W, NEW v, NEW g, g = [f EXCEPT ![w] = v], NEW P
  PROVE  CountOf(W, g, P) = CountOf(W, f, P) + (IF v \in P THEN 1 ELSE 0)
                                             - (IF f[w] \in P THEN 1 ELSE 0)
<1> DEFINE F == {x \in W : f[x] \in P}
           G == {x \in W : g[x] \in P}
           C == F \ {w}
<1>1. IsFiniteSet(F) /\ Cardinality(F) \in Nat
  BY FS_Subset, FS_CardinalityType
<1>2. g[w] = v /\ \A x \in W \ {w} : g[x] = f[x]
  OBVIOUS
<1>3. G = IF v \in P THEN C \cup {w} ELSE C
  <2>1. \A x : x \in G <=> x \in IF v \in P THEN C \cup {w} ELSE C
    BY <1>2
  <2>2. QED
    BY <2>1
<1> HIDE DEF F, G
<1>4. IsFiniteSet(C) /\ Cardinality(C) = Cardinality(F) - (IF w \in F THEN 1 ELSE 0)
  BY <1>1, FS_RemoveElement
<1>5. Cardinality(C \cup {w}) = Cardinality(C) + 1
  BY <1>4, FS_AddElement
<1>6. w \in F <=> f[w] \in P
  BY DEF F
<1>7. Cardinality(G) = Cardinality(F) + (IF v \in P THEN 1 ELSE 0)
                                      - (IF f[w] \in P THEN 1 ELSE 0)
  BY <1>1, <1>3, <1>4, <1>5, <1>6
<1>8. QED
  BY <1>7 DEF F, G, CountOf
=============================================================================
