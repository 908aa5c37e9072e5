---------------------------- MODULE SumTheorems ----------------------------
(***************************************************************************)
(* Facts about SumFunctionOnSet and SumFunction of the community modules,  *)
(* in which the ledgers are stated: a balance is the sum of the entries    *)
(* of the movements, a stock the sum of what its purchases and sales left. *)
(*                                                                         *)
(* The library states the induction over finite sets with an operator for  *)
(* the predicate, which the provers here cannot instantiate.  The proofs   *)
(* below use a minimal counterexample instead: inclusion is well founded   *)
(* on the subsets of a finite set, so a nonempty set of subsets on which a *)
(* fact fails would have a minimal member.                                 *)
(***************************************************************************)
EXTENDS Integers, FiniteSets, Functions, FiniteSetTheorems, TLAPS

(* The element a fold takes out of a set, and one step of the recursion    *)
(* that the sum of f makes over the subsets of S.                          *)
Taken(s) == CHOOSE x \in s : TRUE

Unfold(f, g, s) == IF s = {} THEN 0 ELSE f[Taken(s)] + g[s \ {Taken(s)}]

Sums(f, S, g) == g = [s \in SUBSET S |-> Unfold(f, g, s)]

(* A nonempty set of subsets of a finite set has a minimal member.         *)
LEMMA MinimalSubset ==
  ASSUME NEW S, IsFiniteSet(S), NEW T, T \subseteq SUBSET S, T # {}
  PROVE  \E x \in T : \A y \in T : y \subseteq x => y = x
<1>1. IsWellFoundedOn(StrictSubsetOrdering(S), SUBSET S)
  BY FS_StrictSubsetOrderingWellFounded, FS_FiniteSubsetsOfFinite
<1>2. PICK x \in T : \A y \in T : ~ (<<y, x>> \in StrictSubsetOrdering(S))
  BY <1>1, WFMin
<1>3. QED BY <1>2 DEF StrictSubsetOrdering

LEMMA TakenIsIn == \A s : s # {} => Taken(s) \in s
BY DEF Taken

(* The recursion has at most one value on a set, whatever set it started   *)
(* from.                                                                   *)
LEMMA SumsAgree ==
  ASSUME NEW f, NEW S, NEW T, IsFiniteSet(S), NEW g, NEW h,
         Sums(f, S, g), Sums(f, T, h)
  PROVE  \A u \in SUBSET (S \cap T) : g[u] = h[u]
<1> DEFINE Bad == {u \in SUBSET (S \cap T) : g[u] # h[u]}
<1>1. SUFFICES ASSUME Bad # {} PROVE FALSE
  OBVIOUS
<1>2. PICK u \in Bad : \A v \in Bad : v \subseteq u => v = u
  <2>1. Bad \subseteq SUBSET S
    OBVIOUS
  <2> HIDE DEF Bad
  <2>2. QED BY <1>1, <2>1, MinimalSubset
<1>3. /\ u \in SUBSET S
      /\ u \in SUBSET T
  OBVIOUS
<1>4. /\ g[u] = Unfold(f, g, u)
      /\ h[u] = Unfold(f, h, u)
  BY <1>3 DEF Sums
<1>5. u # {}
  BY <1>4 DEF Unfold
<1>6. Taken(u) \in u
  BY <1>5, TakenIsIn
<1>7. g[u \ {Taken(u)}] = h[u \ {Taken(u)}]
  BY <1>2, <1>6
<1>8. QED BY <1>4, <1>5, <1>7 DEF Unfold

(* The recursion has a value on every finite set.                          *)
LEMMA SumsExist ==
  ASSUME NEW f, NEW S, IsFiniteSet(S)
  PROVE  \E g : Sums(f, S, g)
<1> DEFINE Bad == {u \in SUBSET S : ~ \E g : Sums(f, u, g)}
<1>1. SUFFICES ASSUME Bad # {} PROVE FALSE
  OBVIOUS
<1>2. PICK u \in Bad : \A v \in Bad : v \subseteq u => v = u
  <2>1. Bad \subseteq SUBSET S
    OBVIOUS
  <2> HIDE DEF Bad
  <2>2. QED BY <1>1, <2>1, MinimalSubset
<1> DEFINE G(v) == CHOOSE g : Sums(f, v, g)
           Val(v) == G(v)[v]
           k == [v \in SUBSET u |->
                   IF v = {} THEN 0 ELSE f[Taken(v)] + Val(v \ {Taken(v)})]
<1>3. \A v \in SUBSET u : v # u => Sums(f, v, G(v))
  BY <1>2
<1>4. \A v \in SUBSET u : v # u => Val(v) = k[v]
  <2>1. SUFFICES ASSUME NEW v \in SUBSET u, v # u PROVE Val(v) = k[v]
    OBVIOUS
  <2>2. Val(v) = Unfold(f, G(v), v)
    <3>1. Sums(f, v, G(v))
      BY <1>3, <2>1
    <3> HIDE DEF G
    <3>2. QED BY <3>1 DEF Sums
  <2>3. CASE v = {}
    BY <2>2, <2>3 DEF Unfold
  <2>4. CASE v # {}
    <3> DEFINE w == v \ {Taken(v)}
    <3>1. /\ w \in SUBSET u
          /\ w # u
          /\ w \in SUBSET (v \cap w)
          /\ IsFiniteSet(v)
      BY <2>1, FS_Subset
    <3>2. /\ Sums(f, v, G(v))
          /\ Sums(f, w, G(w))
      BY <1>3, <2>1, <3>1
    <3> HIDE DEF G, w
    <3>3. G(v)[w] = G(w)[w]
      BY <3>1, <3>2, SumsAgree
    <3>4. QED BY <2>2, <2>4, <3>3 DEF Unfold, w
  <2>5. QED BY <2>3, <2>4
<1>5. Sums(f, u, k)
  <2>1. \A v \in SUBSET u : k[v] = Unfold(f, k, v)
    <3>1. SUFFICES ASSUME NEW v \in SUBSET u, v # {} PROVE k[v] = Unfold(f, k, v)
      BY DEF Unfold
    <3>2. /\ Taken(v) \in v
          /\ v \ {Taken(v)} \in SUBSET u
          /\ v \ {Taken(v)} # u
      BY <3>1, TakenIsIn
    <3>3. Val(v \ {Taken(v)}) = k[v \ {Taken(v)}]
      BY <1>4, <3>2
    <3> HIDE DEF Val
    <3>4. k[v] = f[Taken(v)] + Val(v \ {Taken(v)})
      BY <3>1
    <3> HIDE DEF k
    <3>5. QED BY <3>1, <3>3, <3>4 DEF Unfold
  <2>2. k = [v \in SUBSET u |-> k[v]]
    OBVIOUS
  <2> HIDE DEF k
  <2>3. k = [v \in SUBSET u |-> Unfold(f, k, v)]
    BY <2>1, <2>2, Zenon
  <2>4. QED BY <2>3 DEF Sums
<1>6. QED BY <1>2, <1>5

(* What the folds of the community modules compute is that recursion.      *)
LEMMA SumIsRecursion ==
  ASSUME NEW f, NEW S, IsFiniteSet(S)
  PROVE  \E g : Sums(f, S, g) /\ SumFunctionOnSet(f, S) = g[S]
<1>1. PICK h : h = [s \in SUBSET S |-> Unfold(f, h, s)]
  BY SumsExist DEF Sums
<1>2. QED
  BY <1>1 DEF SumFunctionOnSet, FoldFunctionOnSet, MapThenFoldSet, Taken, Unfold, Sums

(* The sum over the empty set is zero.                                     *)
LEMMA SumEmpty ==
  ASSUME NEW f
  PROVE  SumFunctionOnSet(f, {}) = 0
<1>1. IsFiniteSet({})
  BY FS_EmptySet
<1>2. PICK g : Sums(f, {}, g) /\ SumFunctionOnSet(f, {}) = g[{}]
  BY <1>1, SumIsRecursion
<1>3. QED BY <1>2 DEF Sums, Unfold

(* The sum over a nonempty set is the value of the element the fold takes  *)
(* plus the sum over the others.                                           *)
LEMMA SumTakesOne ==
  ASSUME NEW f, NEW S, IsFiniteSet(S), S # {}
  PROVE  SumFunctionOnSet(f, S)
           = f[Taken(S)] + SumFunctionOnSet(f, S \ {Taken(S)})
<1> DEFINE R == S \ {Taken(S)}
<1>1. IsFiniteSet(R) /\ R \in SUBSET S /\ R \in SUBSET (S \cap R)
  BY FS_Subset
<1>2. PICK g : Sums(f, S, g) /\ SumFunctionOnSet(f, S) = g[S]
  BY SumIsRecursion
<1>3. PICK h : Sums(f, R, h) /\ SumFunctionOnSet(f, R) = h[R]
  <2> HIDE DEF R
  <2> QED BY <1>1, SumIsRecursion
<1>4. g[R] = h[R]
  <2> HIDE DEF R
  <2> QED BY <1>1, <1>2, <1>3, SumsAgree
<1>5. g[S] = Unfold(f, g, S)
  BY <1>2 DEF Sums
<1>6. QED BY <1>2, <1>3, <1>4, <1>5 DEF Unfold

(* A sum of integers is an integer.                                        *)
LEMMA SumIsInt ==
  ASSUME NEW f, NEW S, IsFiniteSet(S), \A x \in S : f[x] \in Int
  PROVE  SumFunctionOnSet(f, S) \in Int
<1> DEFINE Bad == {u \in SUBSET S : SumFunctionOnSet(f, u) \notin Int}
<1>1. SUFFICES ASSUME Bad # {} PROVE FALSE
  OBVIOUS
<1>2. PICK u \in Bad : \A v \in Bad : v \subseteq u => v = u
  <2>1. Bad \subseteq SUBSET S
    OBVIOUS
  <2> HIDE DEF Bad
  <2>2. QED BY <1>1, <2>1, MinimalSubset
<1>3. u # {}
  BY SumEmpty
<1>4. /\ IsFiniteSet(u)
      /\ Taken(u) \in u
  BY <1>3, TakenIsIn, FS_Subset
<1>5. SumFunctionOnSet(f, u \ {Taken(u)}) \in Int
  BY <1>2, <1>4
<1>6. SumFunctionOnSet(f, u) = f[Taken(u)] + SumFunctionOnSet(f, u \ {Taken(u)})
  BY <1>3, <1>4, SumTakesOne
<1>7. QED BY <1>4, <1>5, <1>6

(* Any element may be taken out first.                                     *)
LEMMA SumTakesAny ==
  ASSUME NEW f, NEW S, IsFiniteSet(S), \A x \in S : f[x] \in Int, NEW x \in S
  PROVE  SumFunctionOnSet(f, S) = f[x] + SumFunctionOnSet(f, S \ {x})
<1> DEFINE Bad == {u \in SUBSET S :
                     \E z \in u : SumFunctionOnSet(f, u)
                                    # f[z] + SumFunctionOnSet(f, u \ {z})}
<1>1. SUFFICES ASSUME Bad # {} PROVE FALSE
  OBVIOUS
<1>2. PICK u \in Bad : \A v \in Bad : v \subseteq u => v = u
  <2>1. Bad \subseteq SUBSET S
    OBVIOUS
  <2> HIDE DEF Bad
  <2>2. QED BY <1>1, <2>1, MinimalSubset
<1>3. PICK z \in u : SumFunctionOnSet(f, u) # f[z] + SumFunctionOnSet(f, u \ {z})
  OBVIOUS
<1> DEFINE t == Taken(u)
<1>4. /\ u # {}
      /\ u \in SUBSET S
      /\ IsFiniteSet(u)
      /\ t \in u
  BY <1>3, TakenIsIn, FS_Subset
<1>5. SumFunctionOnSet(f, u) = f[t] + SumFunctionOnSet(f, u \ {t})
  BY <1>4, SumTakesOne
<1> HIDE DEF t
<1>6. t # z
  BY <1>3, <1>5
<1>a. \A y \in u : u \ {y} \in SUBSET S /\ u \ {y} \subseteq u /\ u \ {y} # u
  BY <1>4
<1>b. \A y \in u : u \ {y} \notin Bad
  <2> HIDE DEF Bad
  <2> QED BY <1>2, <1>a
<1>c. \A y \in u : \A w \in u \ {y} :
        SumFunctionOnSet(f, u \ {y}) = f[w] + SumFunctionOnSet(f, (u \ {y}) \ {w})
  BY <1>a, <1>b
<1>7. SumFunctionOnSet(f, u \ {t})
        = f[z] + SumFunctionOnSet(f, (u \ {t}) \ {z})
  BY <1>c, <1>4, <1>6
<1>8. SumFunctionOnSet(f, u \ {z})
        = f[t] + SumFunctionOnSet(f, (u \ {z}) \ {t})
  BY <1>c, <1>4, <1>6
<1>9. (u \ {t}) \ {z} = (u \ {z}) \ {t}
  OBVIOUS
<1>10. SumFunctionOnSet(f, (u \ {t}) \ {z}) \in Int
  <2>1. /\ IsFiniteSet((u \ {t}) \ {z})
        /\ \A y \in (u \ {t}) \ {z} : f[y] \in Int
    BY <1>4, FS_Subset, (u \ {t}) \ {z} \subseteq u
  <2>2. QED BY <2>1, SumIsInt
<1>11. f[t] \in Int /\ f[z] \in Int
  BY <1>3, <1>4
<1> DEFINE r == SumFunctionOnSet(f, (u \ {t}) \ {z})
<1>12. /\ SumFunctionOnSet(f, u) = f[t] + (f[z] + r)
       /\ f[z] + SumFunctionOnSet(f, u \ {z}) = f[z] + (f[t] + r)
  BY <1>5, <1>7, <1>8, <1>9
<1>13. r \in Int
  BY <1>10
<1> HIDE DEF r
<1>14. f[t] + (f[z] + r) = f[z] + (f[t] + r)
  BY <1>11, <1>13
<1>15. QED BY <1>3, <1>12, <1>14

(* Functions that agree on a set have the same sum over it.                *)
LEMMA SumCongruence ==
  ASSUME NEW f, NEW h, NEW S, IsFiniteSet(S), \A x \in S : f[x] = h[x]
  PROVE  SumFunctionOnSet(f, S) = SumFunctionOnSet(h, S)
<1> DEFINE Bad == {u \in SUBSET S : SumFunctionOnSet(f, u) # SumFunctionOnSet(h, u)}
<1>1. SUFFICES ASSUME Bad # {} PROVE FALSE
  OBVIOUS
<1>2. PICK u \in Bad : \A v \in Bad : v \subseteq u => v = u
  <2>1. Bad \subseteq SUBSET S
    OBVIOUS
  <2> HIDE DEF Bad
  <2>2. QED BY <1>1, <2>1, MinimalSubset
<1>3. u # {}
  BY SumEmpty
<1>4. /\ IsFiniteSet(u)
      /\ Taken(u) \in u
  BY <1>3, TakenIsIn, FS_Subset
<1>5. SumFunctionOnSet(f, u \ {Taken(u)}) = SumFunctionOnSet(h, u \ {Taken(u)})
  BY <1>2, <1>4
<1>6. /\ SumFunctionOnSet(f, u) = f[Taken(u)] + SumFunctionOnSet(f, u \ {Taken(u)})
      /\ SumFunctionOnSet(h, u) = h[Taken(u)] + SumFunctionOnSet(h, u \ {Taken(u)})
  BY <1>3, <1>4, SumTakesOne
<1>7. f[Taken(u)] = h[Taken(u)]
  BY <1>4
<1>8. QED BY <1>5, <1>6, <1>7

(* A function that differs at one element has the sum that differs by as   *)
(* much.                                                                   *)
LEMMA SumUpdate ==
  ASSUME NEW f, NEW h, NEW S, IsFiniteSet(S), NEW x \in S,
         \A y \in S : f[y] \in Int /\ h[y] \in Int,
         \A y \in S \ {x} : h[y] = f[y]
  PROVE  SumFunctionOnSet(h, S) = SumFunctionOnSet(f, S) + h[x] - f[x]
<1> DEFINE R == S \ {x}
<1>1. IsFiniteSet(R) /\ \A y \in R : f[y] \in Int /\ h[y] = f[y]
  BY FS_Subset, R \subseteq S
<1>2. SumFunctionOnSet(f, R) \in Int
  <2> HIDE DEF R
  <2> QED BY <1>1, SumIsInt
<1>3. SumFunctionOnSet(f, R) = SumFunctionOnSet(h, R)
  <2>1. \A y \in R : f[y] = h[y]
    BY <1>1
  <2> HIDE DEF R
  <2>2. QED BY <1>1, <2>1, SumCongruence
<1>4. SumFunctionOnSet(f, S) = f[x] + SumFunctionOnSet(f, R)
  BY SumTakesAny
<1>5. SumFunctionOnSet(h, S) = h[x] + SumFunctionOnSet(h, R)
  BY SumTakesAny
<1> HIDE DEF R
<1>6. f[x] \in Int /\ h[x] \in Int
  OBVIOUS
<1>7. QED BY <1>2, <1>3, <1>4, <1>5, <1>6

(* A sum of zeros is zero.                                                 *)
LEMMA SumOfZeros ==
  ASSUME NEW f, NEW S, IsFiniteSet(S), \A x \in S : f[x] = 0
  PROVE  SumFunctionOnSet(f, S) = 0
<1> DEFINE Bad == {u \in SUBSET S : SumFunctionOnSet(f, u) # 0}
<1>1. SUFFICES ASSUME Bad # {} PROVE FALSE
  OBVIOUS
<1>2. PICK u \in Bad : \A v \in Bad : v \subseteq u => v = u
  <2>1. Bad \subseteq SUBSET S
    OBVIOUS
  <2> HIDE DEF Bad
  <2>2. QED BY <1>1, <2>1, MinimalSubset
<1>3. u # {}
  BY SumEmpty
<1>4. /\ IsFiniteSet(u)
      /\ Taken(u) \in u
  BY <1>3, TakenIsIn, FS_Subset
<1>5. SumFunctionOnSet(f, u \ {Taken(u)}) = 0
  BY <1>2, <1>4
<1>6. SumFunctionOnSet(f, u) = f[Taken(u)] + SumFunctionOnSet(f, u \ {Taken(u)})
  BY <1>3, <1>4, SumTakesOne
<1>7. f[Taken(u)] = 0
  BY <1>4
<1>8. QED BY <1>5, <1>6, <1>7

(* A sum over a whole function: one value changed, and all zero.           *)
LEMMA SumFunctionUpdate ==
  ASSUME NEW S, IsFiniteSet(S), NEW f \in [S -> Int], NEW h \in [S -> Int], NEW x \in S,
         \A y \in S \ {x} : h[y] = f[y]
  PROVE  SumFunction(h) = SumFunction(f) + h[x] - f[x]
<1>1. SumFunctionOnSet(h, S) = SumFunctionOnSet(f, S) + h[x] - f[x]
  BY SumUpdate
<1>2. DOMAIN h = S /\ DOMAIN f = S
  OBVIOUS
<1>3. QED BY <1>1, <1>2 DEF SumFunction

LEMMA SumFunctionOfZeros ==
  ASSUME NEW S, IsFiniteSet(S)
  PROVE  SumFunction([x \in S |-> 0]) = 0
<1>1. SumFunctionOnSet([x \in S |-> 0], S) = 0
  BY SumOfZeros
<1>2. QED BY <1>1 DEF SumFunction

LEMMA SumFunctionType ==
  ASSUME NEW S, IsFiniteSet(S), NEW f \in [S -> Int]
  PROVE  SumFunction(f) \in Int
<1>1. SumFunctionOnSet(f, S) \in Int
  BY SumIsInt
<1>2. QED BY <1>1 DEF SumFunction

(* An element of value zero can be left out of a set, or added to it.      *)
LEMMA SumWithoutZero ==
  ASSUME NEW f, NEW S, IsFiniteSet(S), \A y \in S : f[y] \in Int, NEW x, f[x] = 0
  PROVE  SumFunctionOnSet(f, S) = SumFunctionOnSet(f, S \ {x})
<1>1. CASE x \notin S
  <2>1. S \ {x} = S
    BY <1>1
  <2>2. QED BY <2>1
<1>2. CASE x \in S
  <2> DEFINE R == S \ {x}
  <2>1. SumFunctionOnSet(f, S) = f[x] + SumFunctionOnSet(f, R)
    BY <1>2, SumTakesAny
  <2>2. IsFiniteSet(R) /\ \A y \in R : f[y] \in Int
    BY FS_Subset, R \subseteq S
  <2> HIDE DEF R
  <2>3. SumFunctionOnSet(f, R) \in Int
    BY <2>2, SumIsInt
  <2>4. SumFunctionOnSet(f, S) = SumFunctionOnSet(f, R)
    BY <2>1, <2>3
  <2>5. QED BY <2>4 DEF R
<1>3. QED BY <1>1, <1>2
=============================================================================
