------------------------------ MODULE SumFacts ------------------------------
(***************************************************************************)
(* What SumFunctionOnSet(f, S), the sum of f over a finite set S, does     *)
(* when S gains or loses an element and when f changes: the facts that the *)
(* money invariants of the wallet, of a booking's payments and of a group  *)
(* order rest on.  The fold is a recursive function over the subsets of S, *)
(* so each fact is proved by looking at a smallest set where it fails.     *)
(***************************************************************************)
EXTENDS Integers, Functions, FiniteSetTheorems, WellFoundedInduction, TLAPS

(* A family of subsets of a finite set has a minimal member. *)
LEMMA MinimalSubset ==
    ASSUME NEW S, IsFiniteSet(S), NEW B \in SUBSET SUBSET S, B # {}
    PROVE  \E T \in B : \A U \in B : ~(U \subseteq T /\ U # T)
<1>1. IsWellFoundedOn(StrictSubsetOrdering(S), SUBSET S)
  BY FS_StrictSubsetOrderingWellFounded, FS_FiniteSubsetsOfFinite
<1>2. \E T \in B : \A U \in B : ~(<<U, T>> \in StrictSubsetOrdering(S))
  BY <1>1, WFMin
<1>3. \A T, U \in B : U \subseteq T /\ U # T => <<U, T>> \in StrictSubsetOrdering(S)
  BY DEF StrictSubsetOrdering
<1> QED
  BY <1>2, <1>3

(* The element the fold takes out of a set first, and the equation that    *)
(* its partial sums solve.                                                 *)
First(s) == CHOOSE x \in s : TRUE

Solves(h, f, S) ==
    h = [s \in SUBSET S |-> IF s = {} THEN 0 ELSE f[First(s)] + h[s \ {First(s)}]]

LEMMA FirstIn == ASSUME NEW s, s # {} PROVE First(s) \in s
BY DEF First

(* Two solutions agree wherever both are defined. *)
LEMMA SolutionsAgree ==
    ASSUME NEW S, IsFiniteSet(S), NEW T \in SUBSET S, NEW f, NEW h, NEW k,
           Solves(h, f, S), Solves(k, f, T)
    PROVE  \A s \in SUBSET T : h[s] = k[s]
<1> DEFINE B == {s \in SUBSET T : h[s] # k[s]}
<1> SUFFICES ASSUME B # {} PROVE FALSE
  OBVIOUS
<1>1. B \in SUBSET SUBSET S
  OBVIOUS
<1>2. PICK s \in B : \A u \in B : ~(u \subseteq s /\ u # s)
  <2> HIDE DEF B
  <2> QED
    BY <1>1, MinimalSubset
<1>3. /\ h[s] = IF s = {} THEN 0 ELSE f[First(s)] + h[s \ {First(s)}]
      /\ k[s] = IF s = {} THEN 0 ELSE f[First(s)] + k[s \ {First(s)}]
  BY DEF Solves
<1>4. CASE s = {}
  BY <1>3, <1>4
<1>5. CASE s # {}
  <2>1. First(s) \in s
    BY <1>5, FirstIn
  <2>2. h[s \ {First(s)}] = k[s \ {First(s)}]
    BY <1>2, <2>1
  <2> QED
    BY <1>3, <1>5, <2>2
<1> QED
  BY <1>4, <1>5

(* There is a solution. *)
LEMMA SolutionExists ==
    ASSUME NEW S, IsFiniteSet(S), NEW f
    PROVE  \E h : Solves(h, f, S)
<1> DEFINE B == {T \in SUBSET S : ~\E h : Solves(h, f, T)}
<1> SUFFICES ASSUME B # {} PROVE FALSE
  OBVIOUS
<1>1. PICK T \in B : \A U \in B : ~(U \subseteq T /\ U # T)
  <2>1. B \in SUBSET SUBSET S
    OBVIOUS
  <2> HIDE DEF B
  <2> QED
    BY <2>1, MinimalSubset
<1> DEFINE H(u) == CHOOSE h : Solves(h, f, u)
           h == [u \in SUBSET T |-> IF u = {} THEN 0
                                    ELSE f[First(u)] + H(u \ {First(u)})[u \ {First(u)}]]
<1>2. ASSUME NEW u \in SUBSET T, u # T PROVE Solves(H(u), f, u)
  <2>1. \E g : Solves(g, f, u)
    BY <1>1, <1>2
  <2> QED
    BY <2>1
<1>3. ASSUME NEW u \in SUBSET T, u # {}
      PROVE  h[u] = f[First(u)] + h[u \ {First(u)}]
  <2> DEFINE v == u \ {First(u)}
  <2>1. First(u) \in u
    BY <1>3, FirstIn
  <2>2. v \in SUBSET T /\ v # T /\ IsFiniteSet(v) /\ v \in SUBSET v
    BY <2>1, FS_Subset
  <2>3. Solves(H(v), f, v)
    BY <1>2, <2>2
  <2>4. H(v)[v] = h[v]
    <3>1. CASE v = {}
      BY <2>2, <2>3, <3>1 DEF Solves
    <3>2. CASE v # {}
      <4> DEFINE w == v \ {First(v)}
      <4>1. First(v) \in v
        BY <3>2, FirstIn
      <4>2. w \in SUBSET T /\ w # T /\ w \in SUBSET v /\ w \in SUBSET w
        BY <2>2, <4>1
      <4>3. Solves(H(w), f, w)
        BY <1>2, <4>2
      <4>4. H(v)[w] = H(w)[w]
        <5> HIDE DEF H, v, w
        <5> QED
          BY <2>2, <2>3, <4>2, <4>3, SolutionsAgree
      <4>5. H(v)[v] = f[First(v)] + H(v)[w]
        <5> HIDE DEF H
        <5> QED
          BY <2>2, <2>3, <3>2 DEF Solves
      <4>6. h[v] = f[First(v)] + H(w)[w]
        BY <2>2, <3>2
      <4> QED
        BY <4>4, <4>5, <4>6
    <3> QED
      BY <3>1, <3>2
  <2>5. h[u] = f[First(u)] + H(v)[v]
    BY <1>3
  <2> QED
    BY <2>4, <2>5
<1>4. Solves(h, f, T)
  <2>1. h[{}] = 0
    OBVIOUS
  <2>2. h = [u \in SUBSET T |-> h[u]]
    OBVIOUS
  <2> HIDE DEF h
  <2> QED
    BY <1>3, <2>1, <2>2 DEF Solves
<1> QED
  BY <1>1, <1>4

(* The sum is the value of a solution at the whole set. *)
LEMMA SumSolves ==
    ASSUME NEW S, IsFiniteSet(S), NEW f
    PROVE  \E h : Solves(h, f, S) /\ SumFunctionOnSet(f, S) = h[S]
<1> DEFINE g == CHOOSE h : Solves(h, f, S)
<1>1. Solves(g, f, S)
  BY SolutionExists
<1>2. SumFunctionOnSet(f, S) = g[S]
  BY DEF SumFunctionOnSet, FoldFunctionOnSet, MapThenFoldSet, Solves, First
<1> QED
  BY <1>1, <1>2

(* The sum over no element. *)
LEMMA SumEmpty == ASSUME NEW f PROVE SumFunctionOnSet(f, {}) = 0
<1>1. IsFiniteSet({})
  BY FS_EmptySet
<1> QED
  BY <1>1, SumSolves DEF Solves

(* The sum, by its first element. *)
LEMMA SumFirst ==
    ASSUME NEW S, IsFiniteSet(S), S # {}, NEW f
    PROVE  SumFunctionOnSet(f, S) = f[First(S)] + SumFunctionOnSet(f, S \ {First(S)})
<1> DEFINE T == S \ {First(S)}
<1>1. T \in SUBSET S /\ IsFiniteSet(T) /\ T \in SUBSET T /\ S \in SUBSET S
  BY FS_Subset
<1>2. PICK h : Solves(h, f, S) /\ SumFunctionOnSet(f, S) = h[S]
  BY SumSolves
<1>3. PICK k : Solves(k, f, T) /\ SumFunctionOnSet(f, T) = k[T]
  <2> HIDE DEF T
  <2> QED
    BY <1>1, SumSolves
<1>4. h[T] = k[T]
  <2> HIDE DEF T
  <2> QED
    BY <1>1, <1>2, <1>3, SolutionsAgree
<1>5. h[S] = f[First(S)] + h[T]
  BY <1>1, <1>2 DEF Solves
<1> QED
  BY <1>2, <1>3, <1>4, <1>5
-----------------------------------------------------------------------------
(* A sum of integers is an integer. *)
LEMMA SumInt ==
    ASSUME NEW S, IsFiniteSet(S), NEW f, \A x \in S : f[x] \in Int
    PROVE  SumFunctionOnSet(f, S) \in Int
<1> DEFINE B == {T \in SUBSET S : SumFunctionOnSet(f, T) \notin Int}
<1> SUFFICES ASSUME B # {} PROVE FALSE
  OBVIOUS
<1>1. PICK T \in B : \A U \in B : ~(U \subseteq T /\ U # T)
  <2>1. B \in SUBSET SUBSET S
    OBVIOUS
  <2> HIDE DEF B
  <2> QED
    BY <2>1, MinimalSubset
<1>2. T \in SUBSET S /\ IsFiniteSet(T) /\ SumFunctionOnSet(f, T) \notin Int
  BY FS_Subset
<1>3. CASE T = {}
  BY <1>2, <1>3, SumEmpty
<1>4. CASE T # {}
  <2>1. First(T) \in T /\ f[First(T)] \in Int
    BY <1>2, <1>4, FirstIn
  <2>2. SumFunctionOnSet(f, T \ {First(T)}) \in Int
    BY <1>1, <2>1
  <2>3. SumFunctionOnSet(f, T) = f[First(T)] + SumFunctionOnSet(f, T \ {First(T)})
    BY <1>2, <1>4, SumFirst
  <2> QED
    BY <1>2, <2>1, <2>2, <2>3
<1> QED
  BY <1>3, <1>4

(* Any element can be taken out. *)
LEMMA SumRemove ==
    ASSUME NEW S, IsFiniteSet(S), NEW f, \A x \in S : f[x] \in Int, NEW x \in S
    PROVE  SumFunctionOnSet(f, S) = f[x] + SumFunctionOnSet(f, S \ {x})
<1> DEFINE Splits(T, y) == SumFunctionOnSet(f, T) = f[y] + SumFunctionOnSet(f, T \ {y})
           B == {T \in SUBSET S : ~\A y \in T : Splits(T, y)}
<1> SUFFICES ASSUME B # {} PROVE FALSE
  OBVIOUS
<1>1. PICK T \in B : \A U \in B : ~(U \subseteq T /\ U # T)
  <2>1. B \in SUBSET SUBSET S
    OBVIOUS
  <2> HIDE DEF B
  <2> QED
    BY <2>1, MinimalSubset
<1>2. PICK y \in T : ~Splits(T, y)
  OBVIOUS
<1> DEFINE c == First(T)
<1>3. /\ T \in SUBSET S /\ IsFiniteSet(T) /\ c \in T
      /\ SumFunctionOnSet(f, T) = f[c] + SumFunctionOnSet(f, T \ {c})
  BY <1>2, FS_Subset, FirstIn, SumFirst
<1> HIDE DEF c
<1>4. c # y
  BY <1>2, <1>3
<1>5. Splits(T \ {c}, y) /\ Splits(T \ {y}, c)
  BY <1>1, <1>2, <1>3, <1>4
<1> DEFINE W == (T \ {c}) \ {y}
<1>6. W = (T \ {y}) \ {c} /\ IsFiniteSet(W) /\ \A z \in W : f[z] \in Int
  BY <1>3, FS_Subset
<1>7. SumFunctionOnSet(f, W) \in Int
  <2> HIDE DEF W
  <2> QED
    BY <1>6, SumInt
<1>8. f[c] \in Int /\ f[y] \in Int
  BY <1>2, <1>3
<1>9. /\ SumFunctionOnSet(f, T) = f[c] + (f[y] + SumFunctionOnSet(f, W))
      /\ SumFunctionOnSet(f, T \ {y}) = f[c] + SumFunctionOnSet(f, W)
  BY <1>3, <1>5, <1>6
<1>10. SumFunctionOnSet(f, T) # f[y] + (f[c] + SumFunctionOnSet(f, W))
  BY <1>2, <1>9
<1> QED
  BY <1>7, <1>8, <1>9, <1>10

(* One more element. *)
LEMMA SumAdd ==
    ASSUME NEW S, IsFiniteSet(S), NEW f, \A y \in S : f[y] \in Int,
           NEW x, x \notin S, f[x] \in Int
    PROVE  SumFunctionOnSet(f, S \cup {x}) = SumFunctionOnSet(f, S) + f[x]
<1> DEFINE T == S \cup {x}
<1>1. IsFiniteSet(T) /\ x \in T /\ (\A y \in T : f[y] \in Int) /\ T \ {x} = S
  BY FS_AddElement
<1>2. SumFunctionOnSet(f, T) = f[x] + SumFunctionOnSet(f, T \ {x})
  <2> HIDE DEF T
  <2> QED
    BY <1>1, SumRemove
<1>3. SumFunctionOnSet(f, S) \in Int
  BY SumInt
<1>4. SumFunctionOnSet(f, S \cup {x}) = f[x] + SumFunctionOnSet(f, S)
  BY <1>1, <1>2
<1> QED
  BY <1>3, <1>4

(* Only the values on the set count. *)
LEMMA SumSame ==
    ASSUME NEW S, IsFiniteSet(S), NEW f, NEW g, \A x \in S : f[x] = g[x]
    PROVE  SumFunctionOnSet(f, S) = SumFunctionOnSet(g, S)
<1> DEFINE B == {T \in SUBSET S : SumFunctionOnSet(f, T) # SumFunctionOnSet(g, T)}
<1> SUFFICES ASSUME B # {} PROVE FALSE
  OBVIOUS
<1>1. PICK T \in B : \A U \in B : ~(U \subseteq T /\ U # T)
  <2>1. B \in SUBSET SUBSET S
    OBVIOUS
  <2> HIDE DEF B
  <2> QED
    BY <2>1, MinimalSubset
<1>2. T \in SUBSET S /\ IsFiniteSet(T)
  BY FS_Subset
<1>3. CASE T = {}
  BY <1>1, <1>3, SumEmpty
<1>4. CASE T # {}
  <2>1. First(T) \in T
    BY <1>4, FirstIn
  <2>2. SumFunctionOnSet(f, T \ {First(T)}) = SumFunctionOnSet(g, T \ {First(T)})
    BY <1>1, <2>1
  <2>3. f[First(T)] = g[First(T)]
    BY <1>2, <2>1
  <2> QED
    BY <1>1, <1>2, <1>4, <2>2, <2>3, SumFirst
<1> QED
  BY <1>3, <1>4

(* A sum of natural numbers is one, and no less than any of its parts. *)
LEMMA SumNat ==
    ASSUME NEW S, IsFiniteSet(S), NEW f, \A x \in S : f[x] \in Nat
    PROVE  /\ SumFunctionOnSet(f, S) \in Nat
           /\ \A T \in SUBSET S : SumFunctionOnSet(f, T) <= SumFunctionOnSet(f, S)
<1> DEFINE Bound(U) == /\ SumFunctionOnSet(f, U) \in Nat
                       /\ \A T \in SUBSET U : SumFunctionOnSet(f, T) <= SumFunctionOnSet(f, U)
           B == {U \in SUBSET S : ~Bound(U)}
<1> SUFFICES ASSUME B # {} PROVE FALSE
  OBVIOUS
<1>1. PICK U \in B : \A V \in B : ~(V \subseteq U /\ V # U)
  <2>1. B \in SUBSET SUBSET S
    OBVIOUS
  <2> HIDE DEF B
  <2> QED
    BY <2>1, MinimalSubset
<1>2. U \in SUBSET S /\ IsFiniteSet(U) /\ \A x \in U : f[x] \in Nat /\ f[x] \in Int
  BY FS_Subset
<1>3. ASSUME NEW x \in U PROVE /\ Bound(U \ {x})
                               /\ SumFunctionOnSet(f, U) = f[x] + SumFunctionOnSet(f, U \ {x})
  <2>1. Bound(U \ {x})
    BY <1>1, <1>3
  <2> QED
    BY <1>2, <2>1, SumRemove
<1>4. SumFunctionOnSet(f, U) \in Nat
  <2>1. CASE U = {}
    BY <2>1, SumEmpty
  <2>2. CASE U # {}
    <3>1. PICK x \in U : TRUE
      BY <2>2
    <3>2. f[x] \in Nat /\ SumFunctionOnSet(f, U \ {x}) \in Nat
      BY <1>2, <1>3
    <3>3. SumFunctionOnSet(f, U) = f[x] + SumFunctionOnSet(f, U \ {x})
      BY <1>3
    <3> QED
      BY <3>2, <3>3
  <2> QED
    BY <2>1, <2>2
<1>5. ASSUME NEW T \in SUBSET U PROVE SumFunctionOnSet(f, T) <= SumFunctionOnSet(f, U)
  <2>1. CASE T = U
    BY <1>4, <2>1
  <2>2. CASE T # U
    <3>1. PICK x \in U : x \notin T
      BY <2>2
    <3>2. T \in SUBSET (U \ {x})
      BY <3>1
    <3>3. /\ SumFunctionOnSet(f, U \ {x}) \in Nat
          /\ SumFunctionOnSet(f, T) <= SumFunctionOnSet(f, U \ {x})
      BY <1>3, <3>2
    <3>4. SumFunctionOnSet(f, T) \in Int
      <4>1. IsFiniteSet(T) /\ \A y \in T : f[y] \in Int
        BY <1>2, FS_Subset
      <4> QED
        BY <4>1, SumInt
    <3>5. f[x] \in Nat /\ SumFunctionOnSet(f, U) = f[x] + SumFunctionOnSet(f, U \ {x})
      BY <1>2, <1>3
    <3> QED
      BY <3>3, <3>4, <3>5
  <2> QED
    BY <2>1, <2>2
<1> QED
  BY <1>1, <1>4, <1>5

(* Nothing is added up. *)
LEMMA SumZero ==
    ASSUME NEW S, IsFiniteSet(S), NEW f, \A x \in S : f[x] = 0
    PROVE  SumFunctionOnSet(f, S) = 0
<1> DEFINE B == {T \in SUBSET S : SumFunctionOnSet(f, T) # 0}
<1> SUFFICES ASSUME B # {} PROVE FALSE
  OBVIOUS
<1>1. PICK T \in B : \A U \in B : ~(U \subseteq T /\ U # T)
  <2>1. B \in SUBSET SUBSET S
    OBVIOUS
  <2> HIDE DEF B
  <2> QED
    BY <2>1, MinimalSubset
<1>2. T # {} /\ T \in SUBSET S /\ IsFiniteSet(T)
  BY <1>1, SumEmpty, FS_Subset
<1>3. First(T) \in T /\ f[First(T)] = 0
  BY <1>2, FirstIn
<1>4. SumFunctionOnSet(f, T \ {First(T)}) = 0
  BY <1>1, <1>3
<1>5. SumFunctionOnSet(f, T) = f[First(T)] + SumFunctionOnSet(f, T \ {First(T)})
  BY <1>2, SumFirst
<1> QED
  BY <1>1, <1>3, <1>4, <1>5

(* One value changes. *)
LEMMA SumChange ==
    ASSUME NEW S, IsFiniteSet(S), NEW x \in S, NEW f, NEW g,
           \A y \in S : f[y] \in Int /\ g[y] \in Int,
           \A y \in S \ {x} : f[y] = g[y]
    PROVE  SumFunctionOnSet(g, S) = SumFunctionOnSet(f, S) - f[x] + g[x]
<1> DEFINE T == S \ {x}
<1>1. IsFiniteSet(T) /\ \A y \in T : f[y] = g[y] /\ f[y] \in Int
  BY FS_Subset
<1>2. SumFunctionOnSet(f, T) = SumFunctionOnSet(g, T) /\ SumFunctionOnSet(f, T) \in Int
  <2> HIDE DEF T
  <2> QED
    BY <1>1, SumSame, SumInt
<1>3. /\ SumFunctionOnSet(f, S) = f[x] + SumFunctionOnSet(f, T)
      /\ SumFunctionOnSet(g, S) = g[x] + SumFunctionOnSet(g, T)
  BY SumRemove
<1> QED
  BY <1>2, <1>3

(* Two disjoint parts. *)
LEMMA SumUnion ==
    ASSUME NEW S, IsFiniteSet(S), NEW f, \A x \in S : f[x] \in Int, NEW T \in SUBSET S
    PROVE  SumFunctionOnSet(f, S) = SumFunctionOnSet(f, T) + SumFunctionOnSet(f, S \ T)
<1> DEFINE B == {U \in SUBSET S : SumFunctionOnSet(f, U)
                     # SumFunctionOnSet(f, U \cap T) + SumFunctionOnSet(f, U \ T)}
<1>1. SUFFICES ASSUME B # {} PROVE FALSE
  <2>1. B = {} /\ S \in SUBSET S => /\ SumFunctionOnSet(f, S)
                     = SumFunctionOnSet(f, S \cap T) + SumFunctionOnSet(f, S \ T)
    OBVIOUS
  <2>2. S \cap T = T
    OBVIOUS
  <2> QED
    BY <2>1, <2>2
<1>2. PICK U \in B : \A V \in B : ~(V \subseteq U /\ V # U)
  <2>1. B \in SUBSET SUBSET S
    OBVIOUS
  <2> HIDE DEF B
  <2> QED
    BY <1>1, <2>1, MinimalSubset
<1>3. /\ U \in SUBSET S /\ IsFiniteSet(U) /\ IsFiniteSet(U \cap T) /\ IsFiniteSet(U \ T)
      /\ \A x \in U : f[x] \in Int
      /\ \A x \in U \cap T : f[x] \in Int
      /\ \A x \in U \ T : f[x] \in Int
  <2>1. U \in SUBSET S /\ U \cap T \in SUBSET S /\ U \ T \in SUBSET S
    OBVIOUS
  <2>2. IsFiniteSet(U) /\ IsFiniteSet(U \cap T) /\ IsFiniteSet(U \ T)
    BY <2>1, FS_Subset
  <2> QED
    BY <2>1, <2>2
<1>4. /\ SumFunctionOnSet(f, U \cap T) \in Int /\ SumFunctionOnSet(f, U \ T) \in Int
  BY <1>3, SumInt
<1>5. CASE U = {}
  <2>1. U \cap T = {} /\ U \ T = {}
    BY <1>5
  <2> QED
    BY <1>2, <1>5, <2>1, SumEmpty
<1>6. CASE U # {}
  <2>1. PICK x \in U : TRUE
    BY <1>6
  <2> DEFINE V == U \ {x}
  <2>2. /\ SumFunctionOnSet(f, V) = SumFunctionOnSet(f, V \cap T) + SumFunctionOnSet(f, V \ T)
        /\ IsFiniteSet(V) /\ \A y \in V : f[y] \in Int
    BY <1>2, <1>3, <2>1, FS_Subset
  <2>3. SumFunctionOnSet(f, U) = f[x] + SumFunctionOnSet(f, V)
    BY <1>3, SumRemove
  <2>4. /\ IsFiniteSet(V \cap T) /\ IsFiniteSet(V \ T)
        /\ SumFunctionOnSet(f, V \cap T) \in Int /\ SumFunctionOnSet(f, V \ T) \in Int
    <3>1. IsFiniteSet(V \cap T) /\ IsFiniteSet(V \ T)
      BY <2>2, FS_Subset
    <3>2. (\A y \in V \cap T : f[y] \in Int) /\ (\A y \in V \ T : f[y] \in Int)
      BY <2>2
    <3> QED
      BY <3>1, <3>2, SumInt
  <2>5. f[x] \in Int
    BY <1>3, <2>1
  <2> HIDE DEF V
  <2>6. CASE x \in T
    <3>1. (U \cap T) \ {x} = V \cap T /\ U \ T = V \ T /\ x \in U \cap T
      BY <2>6 DEF V
    <3>2. SumFunctionOnSet(f, U \cap T) = f[x] + SumFunctionOnSet(f, V \cap T)
      BY <1>3, <3>1, SumRemove
    <3>3. SumFunctionOnSet(f, U)
              # (f[x] + SumFunctionOnSet(f, V \cap T)) + SumFunctionOnSet(f, V \ T)
      BY <1>2, <3>1, <3>2
    <3> QED
      BY <2>2, <2>3, <2>4, <2>5, <3>3
  <2>7. CASE x \notin T
    <3>1. (U \ T) \ {x} = V \ T /\ U \cap T = V \cap T /\ x \in U \ T
      BY <2>7 DEF V
    <3>2. SumFunctionOnSet(f, U \ T) = f[x] + SumFunctionOnSet(f, V \ T)
      BY <1>3, <3>1, SumRemove
    <3>3. SumFunctionOnSet(f, U)
              # SumFunctionOnSet(f, V \cap T) + (f[x] + SumFunctionOnSet(f, V \ T))
      BY <1>2, <3>1, <3>2
    <3> QED
      BY <2>2, <2>3, <2>4, <2>5, <3>3
  <2> QED
    BY <2>6, <2>7
<1> QED
  BY <1>5, <1>6
=============================================================================
