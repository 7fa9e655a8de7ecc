----------------------------- MODULE FiniteSums -----------------------------
(***************************************************************************)
(* What the proofs need to know about sums over finite sets: SumFunction   *)
(* and SumFunctionOnSet of the community modules.  Induction over a finite *)
(* set S is stated as: a nonempty set of subsets of S has a least member,  *)
(* one of whose strict subsets none is a member.                           *)
(***************************************************************************)
EXTENDS Integers, FiniteSets, Functions, FiniteSetTheorems, TLAPS

LEMMA LeastSubset ==
    ASSUME NEW S, IsFiniteSet(S), NEW B \in SUBSET SUBSET S, B # {}
    PROVE  \E T \in B : IsFiniteSet(T) /\ \A U \in SUBSET T : U # T => U \notin B
  <1>1. IsWellFoundedOn(StrictSubsetOrdering(S), FiniteSubsetsOf(S))
    BY FS_StrictSubsetOrderingWellFounded
  <1>2. FiniteSubsetsOf(S) = SUBSET S
    BY FS_FiniteSubsetsOfFinite
  <1>3. PICK T \in B : \A U \in B : ~(<<U, T>> \in StrictSubsetOrdering(S))
    BY <1>1, <1>2, WFMin, Zenon
  <1>4. IsFiniteSet(T)
    BY FS_Subset
  <1>5. ASSUME NEW U \in SUBSET T, U # T, U \in B
        PROVE  FALSE
    BY <1>3, <1>5 DEF StrictSubsetOrdering
  <1> QED
    BY <1>4, <1>5

-----------------------------------------------------------------------------
(* The recursive function inside a sum exists.                             *)

Element(s) == CHOOSE x \in s : TRUE
Rest(s) == s \ {Element(s)}
SumsFrom(g, f, S) ==
    g = [s \in SUBSET S |-> IF s = {} THEN 0 ELSE f[Element(s)] + g[Rest(s)]]
SomeSums(f, S) == CHOOSE g : SumsFrom(g, f, S)

LEMMA SumsUnfold ==
    ASSUME NEW f, NEW S, NEW g, SumsFrom(g, f, S), NEW s \in SUBSET S
    PROVE  g[s] = IF s = {} THEN 0 ELSE f[Element(s)] + g[Rest(s)]
  BY Zenon DEF SumsFrom

LEMMA ElementOf == ASSUME NEW s, s # {} PROVE Element(s) \in s
  BY DEF Element

LEMMA SumsAgree ==
    ASSUME NEW f, NEW S, NEW T, NEW g, NEW h, SumsFrom(g, f, S), SumsFrom(h, f, T),
           NEW U, U \subseteq S, U \subseteq T, IsFiniteSet(U)
    PROVE  g[U] = h[U]
  <1> DEFINE B == {V \in SUBSET U : g[V] # h[V]}
  <1>1. SUFFICES ASSUME B # {} PROVE FALSE
    OBVIOUS
  <1>2. PICK V \in B : \A W \in SUBSET V : W # V => W \notin B
    <2>1. B \in SUBSET SUBSET U
      OBVIOUS
    <2> HIDE DEF B
    <2> QED
      BY <1>1, <2>1, LeastSubset, Zenon
  <1>3. /\ g[V] = IF V = {} THEN 0 ELSE f[Element(V)] + g[Rest(V)]
        /\ h[V] = IF V = {} THEN 0 ELSE f[Element(V)] + h[Rest(V)]
    <2>1. V \in SUBSET S /\ V \in SUBSET T
      BY <1>2
    <2>2. g[V] = IF V = {} THEN 0 ELSE f[Element(V)] + g[Rest(V)]
      BY <2>1, SumsUnfold
    <2>3. h[V] = IF V = {} THEN 0 ELSE f[Element(V)] + h[Rest(V)]
      BY <2>1, SumsUnfold
    <2> QED
      BY <2>2, <2>3
  <1>4. V # {}
    BY <1>2, <1>3
  <1>5. g[Rest(V)] = h[Rest(V)]
    BY <1>2, <1>4, ElementOf DEF Rest
  <1> QED
    BY <1>2, <1>3, <1>4, <1>5

LEMMA SumsExist ==
    ASSUME NEW f, NEW S, IsFiniteSet(S)
    PROVE  \E g : SumsFrom(g, f, S)
  <1> DEFINE B == {T \in SUBSET S : ~ \E g : SumsFrom(g, f, T)}
  <1>1. SUFFICES ASSUME B # {} PROVE FALSE
    OBVIOUS
  <1>2. PICK T \in B : IsFiniteSet(T) /\ \A U \in SUBSET T : U # T => U \notin B
    <2>1. B \in SUBSET SUBSET S
      OBVIOUS
    <2> HIDE DEF B
    <2> QED
      BY <1>1, <2>1, LeastSubset, Zenon
  <1> DEFINE H(U) == SomeSums(f, U)
             g == [s \in SUBSET T |-> IF s = {} THEN 0 ELSE f[Element(s)] + H(Rest(s))[Rest(s)]]
  <1>3. ASSUME NEW s \in SUBSET T, s # {}
        PROVE  SumsFrom(H(Rest(s)), f, Rest(s)) /\ IsFiniteSet(Rest(s)) /\ Rest(s) \in SUBSET T
    <2>1. Rest(s) \in SUBSET T /\ Rest(s) # T
      BY <1>3, ElementOf DEF Rest
    <2>2. \E h : SumsFrom(h, f, Rest(s))
      BY <1>2, <2>1
    <2>3. IsFiniteSet(Rest(s))
      BY <1>2, <2>1, FS_Subset
    <2> QED
      BY <2>1, <2>2, <2>3, Zenon DEF SomeSums
  <1>4. ASSUME NEW W \in SUBSET T, IsFiniteSet(W), SumsFrom(H(W), f, W)
        PROVE  g[W] = H(W)[W]
    <2>1. g[W] = IF W = {} THEN 0 ELSE f[Element(W)] + H(Rest(W))[Rest(W)]
      BY Zenon
    <2>2. H(W)[W] = IF W = {} THEN 0 ELSE f[Element(W)] + H(W)[Rest(W)]
      BY <1>4, SumsUnfold
    <2>3. ASSUME W # {}
          PROVE  H(Rest(W))[Rest(W)] = H(W)[Rest(W)]
      <3>1. SumsFrom(H(Rest(W)), f, Rest(W)) /\ IsFiniteSet(Rest(W))
        BY <1>3, <2>3, Zenon
      <3>2. Rest(W) \subseteq W /\ Rest(W) \subseteq Rest(W)
        BY DEF Rest
      <3> HIDE DEF H
      <3> QED
        BY <1>4, <3>1, <3>2, SumsAgree
    <2> HIDE DEF g, H
    <2> QED
      BY <2>1, <2>2, <2>3, Zenon
  <1>5. SumsFrom(g, f, T)
    <2> HIDE DEF H
    <2>1. ASSUME NEW s \in SUBSET T
          PROVE  (IF s = {} THEN 0 ELSE f[Element(s)] + H(Rest(s))[Rest(s)])
                     = (IF s = {} THEN 0 ELSE f[Element(s)] + g[Rest(s)])
      <3> HIDE DEF g
      <3> QED
        BY <1>3, <1>4, Zenon
    <2> QED
      BY <2>1, Zenon DEF SumsFrom
  <1> QED
    BY <1>2, <1>5

-----------------------------------------------------------------------------
(* Sums. *)

LEMMA SumUnfold ==
    ASSUME NEW f, NEW S, IsFiniteSet(S)
    PROVE  SumFunctionOnSet(f, S) =
               IF S = {} THEN 0 ELSE f[Element(S)] + SumFunctionOnSet(f, Rest(S))
  <1>1. ASSUME NEW T
        PROVE  SumFunctionOnSet(f, T) = SomeSums(f, T)[T]
    BY Zenon DEF SumFunctionOnSet, FoldFunctionOnSet, MapThenFoldSet, SomeSums, SumsFrom, Element, Rest
  <1>2. IsFiniteSet(Rest(S)) /\ Rest(S) \subseteq S /\ Rest(S) \subseteq Rest(S)
    BY FS_Subset DEF Rest
  <1>3. SumsFrom(SomeSums(f, S), f, S) /\ SumsFrom(SomeSums(f, Rest(S)), f, Rest(S))
    BY <1>2, SumsExist, Zenon DEF SomeSums
  <1>4. SomeSums(f, S)[Rest(S)] = SomeSums(f, Rest(S))[Rest(S)]
    BY <1>2, <1>3, SumsAgree
  <1>5. SomeSums(f, S)[S] = IF S = {} THEN 0 ELSE f[Element(S)] + SomeSums(f, S)[Rest(S)]
    BY <1>3, SumsUnfold
  <1> QED
    BY <1>1, <1>4, <1>5, Zenon

LEMMA SumOfNone == ASSUME NEW f PROVE SumFunctionOnSet(f, {}) = 0
  BY SumUnfold, FS_EmptySet

LEMMA SumIsInt ==
    ASSUME NEW f, NEW S, IsFiniteSet(S), \A s \in S : f[s] \in Int
    PROVE  SumFunctionOnSet(f, S) \in Int
  <1> DEFINE B == {T \in SUBSET S : SumFunctionOnSet(f, T) \notin Int}
  <1>1. SUFFICES ASSUME B # {} PROVE FALSE
    OBVIOUS
  <1>2. PICK T \in B : IsFiniteSet(T) /\ \A U \in SUBSET T : U # T => U \notin B
    <2>1. B \in SUBSET SUBSET S
      OBVIOUS
    <2> HIDE DEF B
    <2> QED
      BY <1>1, <2>1, LeastSubset, Zenon
  <1>3. SumFunctionOnSet(f, T) = IF T = {} THEN 0 ELSE f[Element(T)] + SumFunctionOnSet(f, Rest(T))
    BY <1>2, SumUnfold
  <1>4. T # {}
    BY <1>2, <1>3
  <1>5. Element(T) \in S /\ SumFunctionOnSet(f, Rest(T)) \in Int
    BY <1>2, <1>4, ElementOf DEF Rest
  <1> QED
    BY <1>2, <1>3, <1>4, <1>5

LEMMA SumWithout ==
    ASSUME NEW f, NEW S, IsFiniteSet(S), \A s \in S : f[s] \in Int, NEW x \in S
    PROVE  SumFunctionOnSet(f, S) = f[x] + SumFunctionOnSet(f, S \ {x})
  <1> DEFINE Sum(T) == SumFunctionOnSet(f, T)
             B == {T \in SUBSET S : \E y \in T : Sum(T) # f[y] + Sum(T \ {y})}
  <1>1. SUFFICES ASSUME B # {} PROVE FALSE
    OBVIOUS
  <1>2. PICK T \in B : IsFiniteSet(T) /\ \A U \in SUBSET T : U # T => U \notin B
    <2>1. B \in SUBSET SUBSET S
      OBVIOUS
    <2> HIDE DEF B
    <2> QED
      BY <1>1, <2>1, LeastSubset, Zenon
  <1>3. PICK y \in T : Sum(T) # f[y] + Sum(T \ {y})
    BY <1>2
  <1> DEFINE e == Element(T)
             U == T \ {e, y}
  <1>4. e \in T
    BY ElementOf
  <1>5. /\ IsFiniteSet(T \ {e}) /\ IsFiniteSet(T \ {y}) /\ IsFiniteSet(U)
    BY <1>2, FS_Subset
  <1>6. Sum(T) = f[e] + Sum(T \ {e})
    BY <1>2, <1>4, SumUnfold DEF Rest
  <1>7. e # y
    BY <1>3, <1>6
  <1>8. T \ {e} \notin B /\ T \ {y} \notin B
    BY <1>2, <1>3, <1>4
  <1>9. Sum(T \ {e}) = f[y] + Sum(U) /\ Sum(T \ {y}) = f[e] + Sum(U)
    <2>1. y \in T \ {e} /\ e \in T \ {y} /\ (T \ {e}) \ {y} = U /\ (T \ {y}) \ {e} = U
      BY <1>4, <1>7
    <2> HIDE DEF U, e, Sum
    <2> QED
      BY <1>2, <1>8, <2>1
  <1>10. f[e] \in Int /\ f[y] \in Int /\ Sum(U) \in Int
    <2>1. \A s \in U : f[s] \in Int
      BY <1>2
    <2> QED
      BY <1>2, <1>4, <1>5, <2>1, SumIsInt
  <1> HIDE DEF Sum, U, e
  <1> QED
    BY <1>3, <1>6, <1>9, <1>10

LEMMA SumWith ==
    ASSUME NEW f, NEW S, IsFiniteSet(S), NEW x, x \notin S, \A s \in S \union {x} : f[s] \in Int
    PROVE  SumFunctionOnSet(f, S \union {x}) = f[x] + SumFunctionOnSet(f, S)
  <1>1. IsFiniteSet(S \union {x}) /\ (S \union {x}) \ {x} = S
    BY FS_AddElement
  <1> QED
    BY <1>1, SumWithout

LEMMA SumIsNat ==
    ASSUME NEW f, NEW S, IsFiniteSet(S), \A s \in S : f[s] \in Nat
    PROVE  SumFunctionOnSet(f, S) \in Nat
  <1> DEFINE B == {T \in SUBSET S : SumFunctionOnSet(f, T) \notin Nat}
  <1>1. SUFFICES ASSUME B # {} PROVE FALSE
    OBVIOUS
  <1>2. PICK T \in B : IsFiniteSet(T) /\ \A U \in SUBSET T : U # T => U \notin B
    <2>1. B \in SUBSET SUBSET S
      OBVIOUS
    <2> HIDE DEF B
    <2> QED
      BY <1>1, <2>1, LeastSubset, Zenon
  <1>3. SumFunctionOnSet(f, T) = IF T = {} THEN 0 ELSE f[Element(T)] + SumFunctionOnSet(f, Rest(T))
    BY <1>2, SumUnfold
  <1>4. T # {}
    BY <1>2, <1>3
  <1>5. Element(T) \in S /\ SumFunctionOnSet(f, Rest(T)) \in Nat
    BY <1>2, <1>4, ElementOf DEF Rest
  <1> QED
    BY <1>2, <1>3, <1>4, <1>5

\* A sum depends on the summands alone.
LEMMA SumOfEqual ==
    ASSUME NEW f, NEW g, NEW S, IsFiniteSet(S), \A s \in S : f[s] = g[s]
    PROVE  SumFunctionOnSet(f, S) = SumFunctionOnSet(g, S)
  <1> DEFINE B == {T \in SUBSET S : SumFunctionOnSet(f, T) # SumFunctionOnSet(g, T)}
  <1>1. SUFFICES ASSUME B # {} PROVE FALSE
    OBVIOUS
  <1>2. PICK T \in B : IsFiniteSet(T) /\ \A U \in SUBSET T : U # T => U \notin B
    <2>1. B \in SUBSET SUBSET S
      OBVIOUS
    <2> HIDE DEF B
    <2> QED
      BY <1>1, <2>1, LeastSubset, Zenon
  <1>3. /\ SumFunctionOnSet(f, T) = IF T = {} THEN 0 ELSE f[Element(T)] + SumFunctionOnSet(f, Rest(T))
        /\ SumFunctionOnSet(g, T) = IF T = {} THEN 0 ELSE g[Element(T)] + SumFunctionOnSet(g, Rest(T))
    BY <1>2, SumUnfold
  <1>4. T # {}
    BY <1>2, <1>3
  <1>5. Element(T) \in S /\ SumFunctionOnSet(f, Rest(T)) = SumFunctionOnSet(g, Rest(T))
    BY <1>2, <1>4, ElementOf DEF Rest
  <1> QED
    BY <1>2, <1>3, <1>4, <1>5

\* Summands in a fixed proportion have sums in that proportion.
LEMMA SumInProportion ==
    ASSUME NEW f, NEW g, NEW S, IsFiniteSet(S), NEW c \in Nat, NEW d \in Nat,
           \A s \in S : f[s] \in Int /\ g[s] \in Int /\ f[s] * c <= g[s] * d
    PROVE  SumFunctionOnSet(f, S) * c <= SumFunctionOnSet(g, S) * d
  <1> DEFINE F(T) == SumFunctionOnSet(f, T)
             G(T) == SumFunctionOnSet(g, T)
             B == {T \in SUBSET S : ~(F(T) * c <= G(T) * d)}
  <1>1. SUFFICES ASSUME B # {} PROVE FALSE
    OBVIOUS
  <1>2. PICK T \in B : IsFiniteSet(T) /\ \A U \in SUBSET T : U # T => U \notin B
    <2>1. B \in SUBSET SUBSET S
      OBVIOUS
    <2> HIDE DEF B
    <2> QED
      BY <1>1, <2>1, LeastSubset, Zenon
  <1> DEFINE e == Element(T)
             R == Rest(T)
  <1>3. /\ F(T) = IF T = {} THEN 0 ELSE f[e] + F(R)
        /\ G(T) = IF T = {} THEN 0 ELSE g[e] + G(R)
    BY <1>2, SumUnfold
  <1>4. T # {}
    BY <1>2, <1>3
  <1>5. e \in S /\ F(R) * c <= G(R) * d
    BY <1>2, <1>4, ElementOf DEF Rest
  <1>6. F(R) \in Int /\ G(R) \in Int
    <2>1. IsFiniteSet(R) /\ R \subseteq S
      BY <1>2, FS_Subset DEF Rest
    <2> QED
      BY <2>1, SumIsInt
  <1>7. f[e] \in Int /\ g[e] \in Int /\ f[e] * c <= g[e] * d
    BY <1>5
  <1> HIDE DEF F, G, e, R
  <1>8. (f[e] + F(R)) * c = f[e] * c + F(R) * c /\ (g[e] + G(R)) * d = g[e] * d + G(R) * d
    BY <1>6, <1>7
  <1>9. f[e] * c \in Int /\ F(R) * c \in Int /\ g[e] * d \in Int /\ G(R) * d \in Int
    BY <1>6, <1>7
  <1>10. F(T) * c <= G(T) * d
    BY <1>3, <1>4, <1>5, <1>7, <1>8, <1>9
  <1> QED
    BY <1>2, <1>10

\* With summands that are not negative, more of them are not less.
LEMMA SumOfSubset ==
    ASSUME NEW f, NEW S, IsFiniteSet(S), \A s \in S : f[s] \in Nat, NEW U \in SUBSET S
    PROVE  SumFunctionOnSet(f, U) <= SumFunctionOnSet(f, S)
  <1> DEFINE Sum(T) == SumFunctionOnSet(f, T)
             B == {T \in SUBSET S : U \subseteq T /\ ~(Sum(U) <= Sum(T))}
  <1>1. SUFFICES ASSUME B # {} PROVE FALSE
    OBVIOUS
  <1>2. PICK T \in B : IsFiniteSet(T) /\ \A V \in SUBSET T : V # T => V \notin B
    <2>1. B \in SUBSET SUBSET S
      OBVIOUS
    <2> HIDE DEF B
    <2> QED
      BY <1>1, <2>1, LeastSubset, Zenon
  <1>3. \A V \in SUBSET S : Sum(V) \in Nat
    BY FS_Subset, SumIsNat
  <1>4. T # U
    BY <1>2, <1>3
  <1>5. PICK x \in T : x \notin U
    BY <1>2, <1>4
  <1>6. Sum(T) = f[x] + Sum(T \ {x})
    BY <1>2, SumWithout
  <1>7. Sum(U) <= Sum(T \ {x})
    BY <1>2, <1>5
  <1>8. Sum(T \ {x}) \in Nat /\ Sum(U) \in Nat /\ f[x] \in Nat
    BY <1>2, <1>3
  <1> HIDE DEF Sum
  <1>9. Sum(U) <= Sum(T)
    BY <1>6, <1>7, <1>8
  <1> QED
    BY <1>2, <1>9

-----------------------------------------------------------------------------
(* A function that is changed at one point only, as a step of a            *)
(* specification does.                                                     *)

LEMMA SumExtended ==
    ASSUME NEW f, NEW h, NEW S, IsFiniteSet(S), NEW x, x \notin S, h[x] \in Int,
           \A s \in S : f[s] = h[s] /\ f[s] \in Int
    PROVE  SumFunctionOnSet(h, S \union {x}) = SumFunctionOnSet(f, S) + h[x]
  <1>1. SumFunctionOnSet(h, S \union {x}) = h[x] + SumFunctionOnSet(h, S)
    BY SumWith
  <1>2. SumFunctionOnSet(h, S) = SumFunctionOnSet(f, S)
    BY SumOfEqual
  <1>3. SumFunctionOnSet(f, S) \in Int
    BY SumIsInt
  <1> QED
    BY <1>1, <1>2, <1>3

-----------------------------------------------------------------------------
LEMMA GreatestElement ==
    ASSUME NEW S, IsFiniteSet(S), S # {}, S \subseteq Int
    PROVE  \E x \in S : \A y \in S : x >= y
  <1> DEFINE Greatest(T) == \E x \in T : \A y \in T : x >= y
             B == {T \in SUBSET S : T # {} /\ ~Greatest(T)}
  <1>1. SUFFICES ASSUME B # {} PROVE FALSE
    OBVIOUS
  <1>2. PICK T \in B : IsFiniteSet(T) /\ \A U \in SUBSET T : U # T => U \notin B
    <2>1. B \in SUBSET SUBSET S
      OBVIOUS
    <2> HIDE DEF B
    <2> QED
      BY <1>1, <2>1, LeastSubset, Zenon
  <1>3. PICK t \in T : TRUE
    OBVIOUS
  <1>4. T \subseteq Int /\ T \ {t} \in SUBSET T /\ T \ {t} # T /\ T \ {t} \in SUBSET S
    BY <1>2, <1>3
  <1>5. CASE T = {t}
    BY <1>2, <1>4, <1>5
  <1>6. CASE T # {t}
    <2> HIDE DEF Greatest
    <2>1. Greatest(T \ {t})
      BY <1>2, <1>3, <1>4, <1>6
    <2>2. PICK x \in T \ {t} : \A y \in T \ {t} : x >= y
      BY <2>1 DEF Greatest
    <2>3. CASE x >= t
      BY <1>2, <2>2, <2>3 DEF Greatest
    <2>4. CASE ~(x >= t)
      <3>1. \A y \in T : t >= y
        BY <1>3, <1>4, <2>2, <2>4
      <3> QED
        BY <1>2, <1>3, <3>1 DEF Greatest
    <2> QED
      BY <2>3, <2>4
  <1> QED
    BY <1>5, <1>6

=============================================================================
