---------------------------- MODULE DataTheorems ----------------------------
(***************************************************************************)
(* Lemmas about the operators on data that several modules share.          *)
(*                                                                         *)
(* Sums over finite sets: what SumFunctionOnSet computes. It is defined by *)
(* a recursion over subsets that takes an arbitrary element out each time; *)
(* the lemmas say that the recursion defines something, that the order of  *)
(* the elements does not matter, and how a sum changes with the function   *)
(* and with the set.                                                       *)
(*                                                                         *)
(* Subsequences: what Filter keeps of a sequence that is extended, joined  *)
(* or shortened.                                                           *)
(*                                                                         *)
(* Inductions are on minimal counterexamples, with the strict inclusion of *)
(* finite sets, or the order of the naturals, as the well-founded order.   *)
(***************************************************************************)
EXTENDS Subsequences, FiniteSetsExt, FiniteSetTheorems, SequenceTheorems, TLAPS

-----------------------------------------------------------------------------
(* Sums                                                                    *)

\* Any element of s.
Pick(s) == CHOOSE x \in s : TRUE

\* The recursion equation, for the subsets of S.
Sums(g, f, S) ==
    g = [s \in SUBSET S |-> IF s = {} THEN 0 ELSE f[Pick(s)] + g[s \ {Pick(s)}]]

\* The sum is a value of some function that satisfies it.
LEMMA SumUnfold ==
    ASSUME NEW f, NEW S
    PROVE  SumFunctionOnSet(f, S) = (CHOOSE g : Sums(g, f, S))[S]
    BY DEF SumFunctionOnSet, FoldFunctionOnSet, MapThenFoldSet, Sums, Pick

\* Every non-empty set of subsets of a finite set has a smallest element.
LEMMA MinimalSubset ==
    ASSUME NEW S, IsFiniteSet(S), NEW T, T \subseteq SUBSET S, T # {}
    PROVE  \E s \in T : \A t \in T : t \subseteq s => t = s
<1>1. IsWellFoundedOn(StrictSubsetOrdering(S), FiniteSubsetsOf(S))
    BY FS_StrictSubsetOrderingWellFounded
<1>2. T \subseteq FiniteSubsetsOf(S)
    BY FS_Subset DEF FiniteSubsetsOf
<1>3. PICK s \in T : \A t \in T : ~(<<t, s>> \in StrictSubsetOrdering(S))
    BY <1>1, <1>2, WFMin
<1> QED
    BY <1>3 DEF StrictSubsetOrdering

\* A set of naturals that is not empty has a smallest element.
LEMMA SmallestExists ==
    ASSUME NEW B, B \subseteq Nat, B # {}
    PROVE  \E n \in B : \A m \in B : n <= m
<1>1. PICK k \in B : TRUE
    OBVIOUS
<1> DEFINE S == 0 .. k
           T == {0 .. n : n \in B \cap (0 .. k)}
<1>2. IsFiniteSet(S)
    BY FS_Interval
<1>3. T \subseteq SUBSET S /\ T # {}
    <2>1. k \in B \cap (0 .. k)
        BY <1>1
    <2>2. \A n \in 0 .. k : 0 .. n \subseteq 0 .. k
        BY <1>1
    <2> QED
        BY <2>1, <2>2
<1> HIDE DEF S, T
<1>4. PICK s \in T : \A t \in T : t \subseteq s => t = s
    BY <1>2, <1>3, MinimalSubset
<1>5. PICK n \in B \cap (0 .. k) : s = 0 .. n
    BY <1>4 DEF T
<1>6. ASSUME NEW m \in B, m < n PROVE FALSE
    <2>1. m \in 0 .. k /\ n \in Nat /\ m \in Nat
        BY <1>1, <1>5, <1>6
    <2>2. 0 .. m \in T
        BY <2>1, <1>6 DEF T
    <2>3. 0 .. m \subseteq 0 .. n
        BY <1>6, <2>1
    <2>4. 0 .. m = 0 .. n
        BY <1>4, <1>5, <2>2, <2>3
    <2>5. n \in 0 .. n
        BY <2>1
    <2>6. n \in 0 .. m
        BY <2>4, <2>5
    <2> QED
        BY <1>6, <2>1, <2>6
<1> QED
    BY <1>5, <1>6

\* A function that satisfies the equation for S satisfies it, cut down to the
\* subsets of T, for T.
LEMMA SumsRestrict ==
    ASSUME NEW f, NEW S, NEW T \in SUBSET S, NEW g, Sums(g, f, S),
           NEW h, h = [s \in SUBSET T |-> g[s]]
    PROVE  Sums(h, f, T)
<1>1. ASSUME NEW s \in SUBSET T
      PROVE  h[s] = IF s = {} THEN 0 ELSE f[Pick(s)] + h[s \ {Pick(s)}]
    <2>1. s \in SUBSET S /\ s \ {Pick(s)} \in SUBSET T
        OBVIOUS
    <2>2. g[s] = IF s = {} THEN 0 ELSE f[Pick(s)] + g[s \ {Pick(s)}]
        BY <2>1 DEF Sums
    <2> QED
        BY <2>1, <2>2
<1>2. h = [s \in SUBSET T |-> h[s]]
    OBVIOUS
<1>3. [s \in SUBSET T |-> h[s]]
        = [s \in SUBSET T |-> IF s = {} THEN 0 ELSE f[Pick(s)] + h[s \ {Pick(s)}]]
    BY <1>1
<1> QED
    BY <1>2, <1>3 DEF Sums

\* The equation has at most one solution.
LEMMA SumsUnique ==
    ASSUME NEW f, NEW S, IsFiniteSet(S), NEW g, NEW h, Sums(g, f, S), Sums(h, f, S)
    PROVE  g = h
<1> DEFINE T == {s \in SUBSET S : g[s] # h[s]}
<1>1. ASSUME T # {} PROVE FALSE
    <2>0. T \subseteq SUBSET S
        OBVIOUS
    <2>1. PICK s \in T : \A t \in T : t \subseteq s => t = s
        <3> HIDE DEF T
        <3> QED
            BY <1>1, <2>0, MinimalSubset
    <2>2. /\ g[s] = IF s = {} THEN 0 ELSE f[Pick(s)] + g[s \ {Pick(s)}]
          /\ h[s] = IF s = {} THEN 0 ELSE f[Pick(s)] + h[s \ {Pick(s)}]
        BY DEF Sums
    <2>3. s # {}
        BY <2>2
    <2>4. Pick(s) \in s
        BY <2>3 DEF Pick
    <2>5. s \ {Pick(s)} \in SUBSET S /\ s \ {Pick(s)} \subseteq s /\ s \ {Pick(s)} # s
        BY <2>4
    <2>6. s \ {Pick(s)} \notin T
        BY <2>1, <2>5
    <2>7. g[s \ {Pick(s)}] = h[s \ {Pick(s)}]
        BY <2>5, <2>6
    <2> QED
        BY <2>2, <2>7
<1>2. \A s \in SUBSET S : g[s] = h[s]
    BY <1>1
<1>3. g = [s \in SUBSET S |-> g[s]] /\ h = [s \in SUBSET S |-> h[s]]
    BY DEF Sums
<1>4. [s \in SUBSET S |-> g[s]] = [s \in SUBSET S |-> h[s]]
    BY <1>2
<1> QED
    BY <1>3, <1>4, Zenon

\* It has a solution, on a finite set.
LEMMA SumsExist ==
    ASSUME NEW f, NEW S, IsFiniteSet(S)
    PROVE  \E g : Sums(g, f, S)
<1> DEFINE T == {s \in SUBSET S : ~\E g : Sums(g, f, s)}
<1>1. ASSUME T # {} PROVE FALSE
    <2>0. T \subseteq SUBSET S
        OBVIOUS
    <2>1. PICK s \in T : \A t \in T : t \subseteq s => t = s
        <3> HIDE DEF T
        <3> QED
            BY <1>1, <2>0, MinimalSubset
    <2> DEFINE Of(t) == CHOOSE g : Sums(g, f, t)
    <2>2. ASSUME NEW t \in SUBSET s, t # s PROVE Sums(Of(t), f, t)
        <3>1. t \in SUBSET S /\ t \notin T
            BY <2>1, <2>2
        <3>2. \E g : Sums(g, f, t)
            BY <3>1
        <3> QED
            BY <3>2, Zenon
    <2> HIDE DEF Of
    <2>3. ASSUME NEW t \in SUBSET s, t # s, t # {}
          PROVE  Of(t)[t] = f[Pick(t)] + Of(t \ {Pick(t)})[t \ {Pick(t)}]
        <3> DEFINE u == t \ {Pick(t)}
        <3>1. Pick(t) \in t
            BY <2>3 DEF Pick
        <3>2. u \in SUBSET t /\ u \in SUBSET s /\ u # s /\ t \in SUBSET t
            BY <3>1, <2>3
        <3>3. Sums(Of(t), f, t)
            BY <2>2, <2>3
        <3>9. Of(t)[t] = f[Pick(t)] + Of(t)[u]
            BY <3>3, <2>3, <3>2 DEF Sums
        <3> DEFINE w == [v \in SUBSET u |-> Of(t)[v]]
        <3>4. Sums(w, f, u)
            <4>1. w = [v \in SUBSET u |-> Of(t)[v]]
                OBVIOUS
            <4> HIDE DEF w, u
            <4> QED
                BY <3>2, <3>3, <4>1, SumsRestrict
        <3>5. Sums(Of(u), f, u)
            BY <2>2, <3>2
        <3>6. IsFiniteSet(u)
            BY <3>2, FS_Subset
        <3>7. Of(u) = w
            BY <3>4, <3>5, <3>6, SumsUnique
        <3>8. Of(u)[u] = Of(t)[u]
            BY <3>7
        <3> QED
            BY <3>9, <3>8
    <2> DEFINE h == [t \in SUBSET s |->
                       IF t = {} THEN 0 ELSE f[Pick(t)] + Of(t \ {Pick(t)})[t \ {Pick(t)}]]
    <2>4. ASSUME NEW t \in SUBSET s
          PROVE  h[t] = IF t = {} THEN 0 ELSE f[Pick(t)] + h[t \ {Pick(t)}]
        <3> DEFINE u == t \ {Pick(t)}
        <3>1. CASE t = {}
            BY <3>1
        <3>2. CASE t # {}
            <4>1. Pick(t) \in t
                BY <3>2 DEF Pick
            <4>2. u \in SUBSET s /\ u # s
                BY <4>1
            <4>3. h[t] = f[Pick(t)] + Of(u)[u]
                BY <3>2
            <4>4. h[u] = Of(u)[u]
                <5>1. CASE u = {}
                    <6>1. Sums(Of(u), f, u) /\ u \in SUBSET u
                        BY <2>2, <4>2
                    <6>2. Of(u)[u] = 0
                        BY <5>1, <6>1 DEF Sums
                    <6> QED
                        BY <4>2, <5>1, <6>2
                <5>2. CASE u # {}
                    BY <2>3, <4>2, <5>2
                <5> QED
                    BY <5>1, <5>2
            <4> QED
                BY <3>2, <4>3, <4>4
        <3> QED
            BY <3>1, <3>2
    <2>5. h = [t \in SUBSET s |-> h[t]]
        OBVIOUS
    <2> HIDE DEF h
    <2>6. Sums(h, f, s)
        BY <2>4, <2>5 DEF Sums
    <2> QED
        BY <2>1, <2>6
<1>2. S \in SUBSET S
    OBVIOUS
<1> QED
    BY <1>1, <1>2

-----------------------------------------------------------------------------
(* What a sum is                                                           *)

\* The sum over the empty set, and over any other finite set.
LEMMA SumRecursion ==
    ASSUME NEW f, NEW S, IsFiniteSet(S)
    PROVE  SumFunctionOnSet(f, S) =
             IF S = {} THEN 0
             ELSE f[Pick(S)] + SumFunctionOnSet(f, S \ {Pick(S)})
<1> DEFINE Of(t) == CHOOSE g : Sums(g, f, t)
           u == S \ {Pick(S)}
<1>1. ASSUME NEW t, IsFiniteSet(t) PROVE Sums(Of(t), f, t)
    <2>1. \E g : Sums(g, f, t)
        BY <1>1, SumsExist
    <2> QED
        BY <2>1, Zenon
<1>2. \A t : SumFunctionOnSet(f, t) = Of(t)[t]
    BY SumUnfold
<1> HIDE DEF Of
<1>3. u \in SUBSET S /\ S \in SUBSET S /\ IsFiniteSet(u)
    BY FS_Subset
<1>4. Of(S)[S] = IF S = {} THEN 0 ELSE f[Pick(S)] + Of(S)[u]
    <2>1. Sums(Of(S), f, S)
        BY <1>1
    <2> QED
        BY <1>3, <2>1 DEF Sums
<1>5. Of(S)[u] = Of(u)[u]
    <2> DEFINE w == [v \in SUBSET u |-> Of(S)[v]]
    <2>1. Sums(Of(S), f, S) /\ Sums(Of(u), f, u)
        BY <1>1, <1>3
    <2>2. Sums(w, f, u)
        <3>1. w = [v \in SUBSET u |-> Of(S)[v]]
            OBVIOUS
        <3> HIDE DEF w, u
        <3> QED
            BY <1>3, <2>1, <3>1, SumsRestrict
    <2>3. Of(u) = w
        <3> HIDE DEF w, u
        <3> QED
            BY <1>3, <2>1, <2>2, SumsUnique
    <2> QED
        BY <2>3
<1> QED
    BY <1>2, <1>4, <1>5

\* A sum of integers is an integer.
LEMMA SumInt ==
    ASSUME NEW f, NEW S, IsFiniteSet(S), \A x \in S : f[x] \in Int
    PROVE  SumFunctionOnSet(f, S) \in Int
<1> DEFINE T == {s \in SUBSET S : SumFunctionOnSet(f, s) \notin Int}
<1>1. ASSUME T # {} PROVE FALSE
    <2>0. T \subseteq SUBSET S
        OBVIOUS
    <2>1. PICK s \in T : \A t \in T : t \subseteq s => t = s
        <3> HIDE DEF T
        <3> QED
            BY <1>1, <2>0, MinimalSubset
    <2>2. SumFunctionOnSet(f, s) =
             IF s = {} THEN 0 ELSE f[Pick(s)] + SumFunctionOnSet(f, s \ {Pick(s)})
        BY SumRecursion, FS_Subset
    <2>3. s # {}
        BY <2>2
    <2>4. Pick(s) \in s
        BY <2>3 DEF Pick
    <2>5. s \ {Pick(s)} \notin T
        BY <2>1, <2>4
    <2>6. SumFunctionOnSet(f, s \ {Pick(s)}) \in Int /\ f[Pick(s)] \in Int
        BY <2>4, <2>5
    <2> QED
        BY <2>2, <2>3, <2>6
<1> QED
    BY <1>1

\* A sum of natural numbers is a natural number.
LEMMA SumNat ==
    ASSUME NEW f, NEW S, IsFiniteSet(S), \A x \in S : f[x] \in Nat
    PROVE  SumFunctionOnSet(f, S) \in Nat
<1> DEFINE T == {s \in SUBSET S : SumFunctionOnSet(f, s) \notin Nat}
<1>1. ASSUME T # {} PROVE FALSE
    <2>0. T \subseteq SUBSET S
        OBVIOUS
    <2>1. PICK s \in T : \A t \in T : t \subseteq s => t = s
        <3> HIDE DEF T
        <3> QED
            BY <1>1, <2>0, MinimalSubset
    <2>2. SumFunctionOnSet(f, s) =
             IF s = {} THEN 0 ELSE f[Pick(s)] + SumFunctionOnSet(f, s \ {Pick(s)})
        BY SumRecursion, FS_Subset
    <2>3. s # {}
        BY <2>2
    <2>4. Pick(s) \in s
        BY <2>3 DEF Pick
    <2>5. s \ {Pick(s)} \notin T
        BY <2>1, <2>4
    <2>6. SumFunctionOnSet(f, s \ {Pick(s)}) \in Nat /\ f[Pick(s)] \in Nat
        BY <2>4, <2>5
    <2> QED
        BY <2>2, <2>3, <2>6
<1> QED
    BY <1>1

\* Any element may be taken out first.
LEMMA SumRemove ==
    ASSUME NEW f, NEW S, IsFiniteSet(S), \A x \in S : f[x] \in Int, NEW x \in S
    PROVE  SumFunctionOnSet(f, S) = f[x] + SumFunctionOnSet(f, S \ {x})
<1> DEFINE F(s) == SumFunctionOnSet(f, s)
           T == {s \in SUBSET S : \E y \in s : F(s) # f[y] + F(s \ {y})}
<1>1. ASSUME T # {} PROVE FALSE
    <2>0. T \subseteq SUBSET S
        OBVIOUS
    <2>1. PICK s \in T : \A t \in T : t \subseteq s => t = s
        <3> HIDE DEF T
        <3> QED
            BY <1>1, <2>0, MinimalSubset
    <2>2. PICK y \in s : F(s) # f[y] + F(s \ {y})
        OBVIOUS
    <2> DEFINE z == Pick(s)
    <2>3. z \in s
        BY <2>2 DEF Pick
    <2>4. F(s) = f[z] + F(s \ {z})
        BY <2>2, SumRecursion, FS_Subset
    <2>5. y # z
        BY <2>2, <2>4
    <2> HIDE DEF z
    <2>6. s \ {y} \notin T /\ s \ {z} \notin T
        BY <2>1, <2>3
    <2> DEFINE r == s \ {y, z}
    <2>7. (s \ {z}) \ {y} = r /\ (s \ {y}) \ {z} = r
        OBVIOUS
    <2>8. F(s \ {z}) = f[y] + F(r)
        <3>1. \A v \in s \ {z} : F(s \ {z}) = f[v] + F((s \ {z}) \ {v})
            BY <2>6
        <3> QED
            BY <2>5, <2>7, <3>1
    <2>9. F(s \ {y}) = f[z] + F(r)
        <3>1. \A v \in s \ {y} : F(s \ {y}) = f[v] + F((s \ {y}) \ {v})
            BY <2>6
        <3> QED
            BY <2>3, <2>5, <2>7, <3>1
    <2>10. F(r) \in Int /\ f[y] \in Int /\ f[z] \in Int
        <3>1. IsFiniteSet(r) /\ r \subseteq S
            BY FS_Subset
        <3> QED
            BY <2>3, <3>1, SumInt
    <2> HIDE DEF F, r
    <2> QED
        BY <2>2, <2>4, <2>8, <2>9, <2>10
<1>2. S \notin T
    BY <1>1
<1> QED
    BY <1>2

\* A sum depends only on the values it adds.
LEMMA SumCong ==
    ASSUME NEW f, NEW g, NEW S, IsFiniteSet(S), \A x \in S : f[x] = g[x]
    PROVE  SumFunctionOnSet(f, S) = SumFunctionOnSet(g, S)
<1> DEFINE T == {s \in SUBSET S : SumFunctionOnSet(f, s) # SumFunctionOnSet(g, s)}
<1>1. ASSUME T # {} PROVE FALSE
    <2>0. T \subseteq SUBSET S
        OBVIOUS
    <2>1. PICK s \in T : \A t \in T : t \subseteq s => t = s
        <3> HIDE DEF T
        <3> QED
            BY <1>1, <2>0, MinimalSubset
    <2>2. /\ SumFunctionOnSet(f, s) =
               IF s = {} THEN 0 ELSE f[Pick(s)] + SumFunctionOnSet(f, s \ {Pick(s)})
          /\ SumFunctionOnSet(g, s) =
               IF s = {} THEN 0 ELSE g[Pick(s)] + SumFunctionOnSet(g, s \ {Pick(s)})
        BY SumRecursion, FS_Subset
    <2>3. s # {}
        BY <2>2
    <2>4. Pick(s) \in s
        BY <2>3 DEF Pick
    <2>5. s \ {Pick(s)} \notin T
        BY <2>1, <2>4
    <2>6. /\ SumFunctionOnSet(f, s \ {Pick(s)}) = SumFunctionOnSet(g, s \ {Pick(s)})
          /\ f[Pick(s)] = g[Pick(s)]
        BY <2>4, <2>5
    <2> QED
        BY <2>2, <2>3, <2>6
<1> QED
    BY <1>1

\* A sum of equal terms.
LEMMA SumConst ==
    ASSUME NEW f, NEW S, IsFiniteSet(S), NEW c \in Int, \A x \in S : f[x] = c
    PROVE  SumFunctionOnSet(f, S) = c * Cardinality(S)
<1> DEFINE T == {s \in SUBSET S : SumFunctionOnSet(f, s) # c * Cardinality(s)}
<1>1. ASSUME T # {} PROVE FALSE
    <2>0. T \subseteq SUBSET S
        OBVIOUS
    <2>1. PICK s \in T : \A t \in T : t \subseteq s => t = s
        <3> HIDE DEF T
        <3> QED
            BY <1>1, <2>0, MinimalSubset
    <2>2. IsFiniteSet(s)
        BY FS_Subset
    <2>3. SumFunctionOnSet(f, s) =
             IF s = {} THEN 0 ELSE f[Pick(s)] + SumFunctionOnSet(f, s \ {Pick(s)})
        BY <2>2, SumRecursion
    <2>4. s # {}
        <3>1. Cardinality({}) = 0
            BY FS_EmptySet
        <3>2. s = {} => SumFunctionOnSet(f, s) = c * Cardinality(s)
            BY <2>3, <3>1
        <3> QED
            BY <3>2
    <2>5. Pick(s) \in s
        BY <2>4 DEF Pick
    <2>6. s \ {Pick(s)} \notin T
        BY <2>1, <2>5
    <2>7. SumFunctionOnSet(f, s \ {Pick(s)}) = c * Cardinality(s \ {Pick(s)}) /\ f[Pick(s)] = c
        BY <2>5, <2>6
    <2>8. Cardinality(s) \in Nat /\ Cardinality(s \ {Pick(s)}) = Cardinality(s) - 1
        BY <2>2, <2>5, FS_CardinalityType, FS_RemoveElement
    <2>9. SumFunctionOnSet(f, s) = c * Cardinality(s)
        <3> DEFINE n == Cardinality(s)
        <3>1. SumFunctionOnSet(f, s) = c + c * (n - 1) /\ n \in Int
            BY <2>3, <2>4, <2>7, <2>8
        <3>2. c + c * (n - 1) = c * n
            <4> HIDE DEF n
            <4> QED
                BY <3>1
        <3> QED
            BY <3>1, <3>2
    <2> QED
        BY <2>9
<1> QED
    BY <1>1

-----------------------------------------------------------------------------
(* How a sum changes                                                       *)

\* One more element.
LEMMA SumAdd ==
    ASSUME NEW f, NEW S, IsFiniteSet(S), NEW x, x \notin S,
           \A y \in S \cup {x} : f[y] \in Int
    PROVE  SumFunctionOnSet(f, S \cup {x}) = f[x] + SumFunctionOnSet(f, S)
<1>1. IsFiniteSet(S \cup {x})
    BY FS_AddElement
<1>2. (S \cup {x}) \ {x} = S
    OBVIOUS
<1> QED
    BY <1>1, <1>2, SumRemove

\* One value changes.
LEMMA SumChange ==
    ASSUME NEW f, NEW g, NEW S, IsFiniteSet(S), NEW x \in S,
           \A y \in S : f[y] \in Int /\ g[y] \in Int,
           \A y \in S : y # x => g[y] = f[y]
    PROVE  SumFunctionOnSet(g, S) = SumFunctionOnSet(f, S) + (g[x] - f[x])
<1>1. IsFiniteSet(S \ {x})
    BY FS_Subset
<1>2. SumFunctionOnSet(f, S) = f[x] + SumFunctionOnSet(f, S \ {x})
    BY SumRemove
<1>3. SumFunctionOnSet(g, S) = g[x] + SumFunctionOnSet(g, S \ {x})
    BY SumRemove
<1>4. SumFunctionOnSet(f, S \ {x}) = SumFunctionOnSet(g, S \ {x})
    BY <1>1, SumCong
<1>5. SumFunctionOnSet(f, S \ {x}) \in Int /\ f[x] \in Int /\ g[x] \in Int
    BY <1>1, SumInt
<1> QED
    BY <1>2, <1>3, <1>4, <1>5

\* A term is at most a sum of natural numbers.
LEMMA SumBounds ==
    ASSUME NEW f, NEW S, IsFiniteSet(S), \A y \in S : f[y] \in Nat, NEW x \in S
    PROVE  f[x] <= SumFunctionOnSet(f, S)
<1>1. IsFiniteSet(S \ {x})
    BY FS_Subset
<1>2. SumFunctionOnSet(f, S) = f[x] + SumFunctionOnSet(f, S \ {x})
    BY SumRemove
<1>3. SumFunctionOnSet(f, S \ {x}) \in Nat /\ f[x] \in Nat
    BY <1>1, SumNat
<1> QED
    BY <1>2, <1>3

\* A sum of natural numbers grows with the set.
LEMMA SumSubset ==
    ASSUME NEW f, NEW S, IsFiniteSet(S), \A y \in S : f[y] \in Nat, NEW R \in SUBSET S
    PROVE  SumFunctionOnSet(f, R) <= SumFunctionOnSet(f, S)
<1> DEFINE F(s) == SumFunctionOnSet(f, s)
           T == {s \in SUBSET S : R \subseteq s /\ ~(F(R) <= F(s))}
<1>1. ASSUME T # {} PROVE FALSE
    <2>1. T \subseteq SUBSET S
        OBVIOUS
    <2>2. PICK s \in T : \A t \in T : t \subseteq s => t = s
        <3> HIDE DEF T
        <3> QED
            BY <1>1, <2>1, MinimalSubset
    <2>3. IsFiniteSet(s) /\ IsFiniteSet(R)
        BY FS_Subset
    <2>4. F(s) \in Nat /\ F(R) \in Nat
        BY <2>3, SumNat
    <2>5. PICK x \in s : x \notin R
        <3>1. s # R
            BY <2>4
        <3> QED
            BY <3>1
    <2>6. s \ {x} \notin T
        BY <2>2
    <2>7. F(R) <= F(s \ {x})
        BY <2>5, <2>6
    <2>8. F(s) = f[x] + F(s \ {x})
        BY <2>3, SumRemove
    <2>9. F(s \ {x}) \in Nat /\ f[x] \in Nat
        <3>1. IsFiniteSet(s \ {x})
            BY <2>3, FS_Subset
        <3> QED
            BY <3>1, SumNat
    <2> HIDE DEF F
    <2>10. ~(F(R) <= F(s))
        BY DEF F
    <2> QED
        BY <2>4, <2>7, <2>8, <2>9, <2>10
<1>2. S \notin T
    BY <1>1
<1> QED
    BY <1>2

\* A sum can be taken group by group.
LEMMA SumGroups ==
    ASSUME NEW f, NEW S, IsFiniteSet(S), \A x \in S : f[x] \in Int,
           NEW T, IsFiniteSet(T), NEW g, \A x \in S : g[x] \in T
    PROVE  SumFunctionOnSet(f, S)
             = SumFunctionOnSet([t \in T |-> SumFunctionOnSet(f, {x \in S : g[x] = t})], T)
<1> DEFINE F(s) == SumFunctionOnSet(f, s)
           Group(s, t) == {x \in s : g[x] = t}
           G(s) == [t \in T |-> F(Group(s, t))]
           H(s) == SumFunctionOnSet(G(s), T)
           B == {s \in SUBSET S : F(s) # H(s)}
<1>1. ASSUME NEW s \in SUBSET S
      PROVE  /\ IsFiniteSet(s) /\ F(s) \in Int
             /\ \A t \in T : G(s)[t] = F(Group(s, t)) /\ G(s)[t] \in Int
    <2>1. IsFiniteSet(s) /\ F(s) \in Int
        BY SumInt, FS_Subset
    <2>2. ASSUME NEW t \in T PROVE G(s)[t] = F(Group(s, t)) /\ G(s)[t] \in Int
        <3>1. Group(s, t) \subseteq s
            OBVIOUS
        <3>2. IsFiniteSet(Group(s, t)) /\ \A x \in Group(s, t) : f[x] \in Int
            BY <2>1, <3>1, FS_Subset
        <3> HIDE DEF Group
        <3>3. F(Group(s, t)) \in Int
            BY <3>2, SumInt
        <3> QED
            BY <3>3
    <2> QED
        BY <2>1, <2>2
<1>2. ASSUME B # {} PROVE FALSE
    <2>1. PICK s \in B : \A t \in B : t \subseteq s => t = s
        <3>1. B \subseteq SUBSET S
            OBVIOUS
        <3> HIDE DEF B
        <3> QED
            BY <1>2, <3>1, MinimalSubset
    <2>2. s \in SUBSET S /\ F(s) # H(s)
        OBVIOUS
    <2>3. CASE s = {}
        <3>1. F({}) = 0
            BY SumRecursion, FS_EmptySet
        <3>2. \A t \in T : Group(s, t) = {}
            BY <2>3
        <3>3. \A t \in T : G(s)[t] = 0
            BY <1>1, <2>2, <3>1, <3>2
        <3> HIDE DEF G
        <3>4. H(s) = 0 * Cardinality(T)
            BY <3>3, SumConst
        <3>5. Cardinality(T) \in Nat
            BY FS_CardinalityType
        <3> QED
            BY <2>2, <2>3, <3>1, <3>4, <3>5
    <2>4. CASE s # {}
        <3>1. PICK x \in s : TRUE
            BY <2>4
        <3> DEFINE r == s \ {x}
        <3>2. r \in SUBSET S /\ r \subseteq s /\ r # s /\ x \in S
            BY <2>2, <3>1
        <3>3. F(r) = H(r)
            BY <2>1, <3>2
        <3>4. F(s) = f[x] + F(r)
            BY <1>1, <2>2, SumRemove
        <3>5. \A t \in T : t # g[x] => Group(r, t) = Group(s, t)
            OBVIOUS
        <3>6. Group(r, g[x]) = Group(s, g[x]) \ {x} /\ x \in Group(s, g[x]) /\ g[x] \in T
            BY <2>2
        <3>7. G(s)[g[x]] = f[x] + G(r)[g[x]]
            <4> DEFINE q == Group(s, g[x])
            <4>1. q \subseteq s /\ q \subseteq S
                BY <2>2
            <4>2. IsFiniteSet(q) /\ \A y \in q : f[y] \in Int
                BY <4>1, FS_Subset
            <4>3. x \in q /\ Group(r, g[x]) = q \ {x}
                BY <3>6
            <4> HIDE DEF q
            <4>4. F(q) = f[x] + F(q \ {x})
                BY <4>2, <4>3, SumRemove
            <4>5. G(s)[g[x]] = F(q) /\ G(r)[g[x]] = F(Group(r, g[x]))
                BY <3>6 DEF q
            <4> QED
                BY <4>3, <4>4, <4>5
        <3>8. \A t \in T : t # g[x] => G(s)[t] = G(r)[t]
            BY <3>5
        <3>9. \A t \in T : G(s)[t] \in Int /\ G(r)[t] \in Int
            BY <1>1, <2>2, <3>2
        <3>10. F(r) \in Int /\ f[x] \in Int
            BY <1>1, <3>2
        <3> HIDE DEF G, r
        <3>11. H(s) = H(r) + (G(s)[g[x]] - G(r)[g[x]])
            BY <3>6, <3>8, <3>9, SumChange
        <3>12. G(s)[g[x]] - G(r)[g[x]] = f[x]
            BY <3>6, <3>7, <3>9, <3>10
        <3> HIDE DEF H, F
        <3>13. H(s) = F(s)
            BY <3>3, <3>4, <3>10, <3>11, <3>12
        <3> QED
            BY <2>2, <3>13
    <2> QED
        BY <2>3, <2>4
<1> QED
    BY <1>2

\* A sum over a set that is numbered, or named, in another way.
LEMMA SumImage ==
    ASSUME NEW f, NEW S, IsFiniteSet(S), NEW g, NEW T, NEW h,
           \A x \in S : h[x] \in T /\ f[x] = g[h[x]] /\ f[x] \in Int,
           \A x, y \in S : h[x] = h[y] => x = y,
           \A t \in T : \E x \in S : h[x] = t
    PROVE  SumFunctionOnSet(f, S) = SumFunctionOnSet(g, T)
<1> DEFINE Group(t) == {x \in S : h[x] = t}
           G == [t \in T |-> SumFunctionOnSet(f, Group(t))]
<1>1. IsFiniteSet(T)
    <2>1. T = {h[x] : x \in S}
        OBVIOUS
    <2>2. IsFiniteSet({h[x] : x \in S})
        <3> DEFINE e == [x \in S |-> h[x]]
        <3>1. e \in Surjection(S, T)
            BY DEF Surjection
        <3>2. IsFiniteSet(T)
            BY <3>1, FS_Surjection
        <3> QED
            BY <2>1, <3>2
    <2> QED
        BY <2>1, <2>2
<1>2. SumFunctionOnSet(f, S) = SumFunctionOnSet(G, T)
    BY <1>1, SumGroups
<1>3. ASSUME NEW t \in T PROVE G[t] = g[t]
    <2>1. PICK x \in S : h[x] = t
        OBVIOUS
    <2>2. Group(t) = {x}
        BY <2>1
    <2>3. IsFiniteSet({x}) /\ f[x] \in Int /\ {x} \ {x} = {}
        BY <2>1, FS_Singleton
    <2>4. SumFunctionOnSet(f, {x}) = f[x] + SumFunctionOnSet(f, {})
        <3>1. SumFunctionOnSet(f, {x}) = f[x] + SumFunctionOnSet(f, {x} \ {x})
            BY <2>3, SumRemove
        <3> QED
            BY <2>3, <3>1
    <2>5. SumFunctionOnSet(f, {}) = 0
        BY SumRecursion, FS_EmptySet
    <2>6. SumFunctionOnSet(f, {x}) = f[x]
        BY <2>3, <2>4, <2>5
    <2> QED
        BY <2>1, <2>2, <2>6
<1> HIDE DEF G
<1>4. SumFunctionOnSet(G, T) = SumFunctionOnSet(g, T)
    BY <1>1, <1>3, SumCong
<1> QED
    BY <1>2, <1>4

-----------------------------------------------------------------------------
(* Subsequences                                                            *)

\* g[i] is what is left of the first i elements of s, for i up to n.
Filters(g, s, S, n) ==
    g = [i \in 0 .. n |-> IF i = 0 THEN << >> ELSE g[i - 1] \o One(s[i], S)]

\* The sequences s and t have the same first n elements.
SameStart(s, t, n) == \A i \in 1 .. n : s[i] = t[i]

\* Filter is the end of such a function.
LEMMA FilterUnfold ==
    ASSUME NEW s, NEW S
    PROVE  Filter(s, S) = (CHOOSE g : Filters(g, s, S, Len(s)))[Len(s)]
    BY DEF Filter, Filters

\* One exists for every length.
LEMMA FiltersExist ==
    ASSUME NEW s, NEW S, NEW n \in Nat
    PROVE  \E g : Filters(g, s, S, n)
<1> DEFINE B == {k \in Nat : ~\E g : Filters(g, s, S, k)}
<1>1. ASSUME B # {} PROVE FALSE
    <2>1. B \subseteq Nat
        OBVIOUS
    <2>2. PICK b \in B : \A k \in B : b <= k
        <3> HIDE DEF B
        <3> QED
            BY <1>1, <2>1, SmallestExists
    <2>3. CASE b = 0
        <3> DEFINE g == [i \in 0 .. 0 |-> << >>]
        <3>1. g = [i \in 0 .. 0 |-> IF i = 0 THEN << >> ELSE g[i - 1] \o One(s[i], S)]
            <4>1. \A i \in 0 .. 0 : i = 0
                OBVIOUS
            <4> QED
                BY <4>1
        <3>2. Filters(g, s, S, 0)
            BY <3>1 DEF Filters
        <3> QED
            BY <2>2, <2>3, <3>2
    <2>4. CASE b # 0
        <3>1. b \in Nat /\ b - 1 \in Nat /\ b - 1 \notin B
            BY <2>2, <2>4
        <3>2. PICK g : Filters(g, s, S, b - 1)
            BY <3>1
        <3> DEFINE e == g[b - 1] \o One(s[b], S)
                   h == [i \in 0 .. b |-> IF i < b THEN g[i] ELSE e]
                   r == [i \in 0 .. b |-> IF i = 0 THEN << >> ELSE h[i - 1] \o One(s[i], S)]
        <3>3. ASSUME NEW i \in 0 .. b PROVE h[i] = r[i]
            <4>1. CASE i = 0
                <5>1. h[i] = g[0] /\ 0 \in 0 .. (b - 1)
                    BY <2>4, <3>1, <4>1
                <5>2. g[0] = << >>
                    BY <3>2, <5>1 DEF Filters
                <5> QED
                    BY <4>1, <5>1, <5>2
            <4>2. CASE i # 0 /\ i < b
                <5>1. i \in 0 .. (b - 1) /\ i - 1 \in 0 .. b /\ i - 1 < b
                    BY <3>1, <4>2
                <5>2. g[i] = g[i - 1] \o One(s[i], S)
                    BY <3>2, <4>2, <5>1 DEF Filters
                <5>3. h[i - 1] = g[i - 1] /\ h[i] = g[i]
                    BY <4>2, <5>1
                <5>4. r[i] = h[i - 1] \o One(s[i], S)
                    BY <4>2
                <5> HIDE DEF h, r
                <5> QED
                    BY <5>2, <5>3, <5>4
            <4>3. CASE i = b
                <5>1. b - 1 \in 0 .. b /\ b - 1 < b /\ ~(b < b)
                    BY <2>4, <3>1
                <5>2. h[b - 1] = g[b - 1] /\ h[b] = g[b - 1] \o One(s[b], S)
                    BY <4>3, <5>1
                <5>3. r[b] = h[b - 1] \o One(s[b], S)
                    BY <2>4, <4>3
                <5> HIDE DEF h, r
                <5> QED
                    BY <4>3, <5>2, <5>3
            <4> QED
                BY <3>1, <4>1, <4>2, <4>3
        <3>4. h = r
            BY <3>3
        <3>5. Filters(h, s, S, b)
            BY <3>4 DEF Filters
        <3> QED
            BY <2>2, <3>5
    <2> QED
        BY <2>3, <2>4
<1> QED
    BY <1>1

\* Two of them agree as far as their sequences do.
LEMMA FiltersAgree ==
    ASSUME NEW s, NEW t, NEW S, NEW n \in Nat, NEW m \in Nat, NEW g, NEW h,
           Filters(g, s, S, n), Filters(h, t, S, m), n <= m, SameStart(s, t, n)
    PROVE  g[n] = h[n]
<1> DEFINE B == {i \in 0 .. n : g[i] # h[i]}
<1>1. ASSUME B # {} PROVE FALSE
    <2>1. B \subseteq Nat
        OBVIOUS
    <2>2. PICK b \in B : \A i \in B : b <= i
        <3> HIDE DEF B
        <3> QED
            BY <1>1, <2>1, SmallestExists
    <2>3. b \in 0 .. n /\ b \in 0 .. m /\ g[b] # h[b]
        BY <2>2
    <2>4. CASE b = 0
        BY <2>3, <2>4 DEF Filters
    <2>5. CASE b # 0
        <3>1. b \in 1 .. n /\ b - 1 \in 0 .. n /\ b - 1 < b
            BY <2>3, <2>5
        <3>2. b - 1 \notin B
            BY <2>2, <3>1
        <3>3. g[b - 1] = h[b - 1] /\ s[b] = t[b]
            BY <3>1, <3>2 DEF SameStart
        <3>4. g[b] = g[b - 1] \o One(s[b], S) /\ h[b] = h[b - 1] \o One(t[b], S)
            BY <2>3, <2>5 DEF Filters
        <3> QED
            BY <2>3, <3>3, <3>4
    <2> QED
        BY <2>4, <2>5
<1>2. n \in 0 .. n
    OBVIOUS
<1> QED
    BY <1>1, <1>2

\* Nothing is left of nothing, and an element at the end is left when it is in S.
LEMMA FilterSteps ==
    ASSUME NEW S
    PROVE  /\ Filter(<< >>, S) = << >>
           /\ \A T : \A s \in Seq(T), x \in T :
                 Filter(Append(s, x), S) = Filter(s, S) \o One(x, S)
<1> DEFINE f(s) == CHOOSE g : Filters(g, s, S, Len(s))
<1>1. ASSUME NEW s, Len(s) \in Nat
      PROVE  Filters(f(s), s, S, Len(s)) /\ Filter(s, S) = f(s)[Len(s)]
    BY <1>1, FiltersExist, FilterUnfold
<1> HIDE DEF f
<1>2. Filter(<< >>, S) = << >>
    <2>1. Len(<< >>) = 0 /\ 0 \in 0 .. 0
        OBVIOUS
    <2>2. Filters(f(<< >>), << >>, S, 0) /\ Filter(<< >>, S) = f(<< >>)[0]
        BY <1>1, <2>1, Zenon
    <2>3. f(<< >>)[0] = << >>
        BY <2>1, <2>2 DEF Filters
    <2> QED
        BY <2>2, <2>3
<1>3. ASSUME NEW T, NEW s \in Seq(T), NEW x \in T
      PROVE  Filter(Append(s, x), S) = Filter(s, S) \o One(x, S)
    <2> PICK t : t = Append(s, x)
        OBVIOUS
    <2>1. /\ Len(s) \in Nat /\ Len(t) \in Nat /\ Len(t) = Len(s) + 1 /\ Len(s) <= Len(t)
          /\ \A i \in 1 .. Len(s) : s[i] = t[i]
          /\ t[Len(t)] = x
        BY AppendProperties
    <2>8. PICK n \in Nat, m \in Nat : n = Len(s) /\ m = Len(t)
        BY <2>1
    <2>2. PICK g : Filters(g, s, S, n) /\ Filter(s, S) = g[n]
        BY <1>1, <2>1, <2>8
    <2>3. PICK h : Filters(h, t, S, m) /\ Filter(t, S) = h[m]
        BY <1>1, <2>1, <2>8
    <2>4. g[n] = h[n]
        <3>1. n <= m /\ SameStart(s, t, n)
            BY <2>1, <2>8 DEF SameStart
        <3> QED
            BY <2>2, <2>3, <2>8, <3>1, FiltersAgree
    <2>5. m \in 0 .. m /\ m # 0 /\ m - 1 = n
        BY <2>1, <2>8
    <2>6. h[m] = h[m - 1] \o One(t[m], S)
        BY <2>3, <2>5 DEF Filters
    <2>7. Filter(t, S) = Filter(s, S) \o One(x, S)
        BY <2>1, <2>2, <2>3, <2>4, <2>5, <2>6, <2>8
    <2> QED
        BY <2>7
<1> QED
    BY <1>2, <1>3

\* A sequence of some things is a sequence of more things.
LEMMA SeqMonotone ==
    ASSUME NEW A, NEW B, A \subseteq B, NEW s \in Seq(A)
    PROVE  s \in Seq(B)
<1>1. Len(s) \in Nat /\ s = [i \in 1 .. Len(s) |-> s[i]] /\ \A i \in 1 .. Len(s) : s[i] \in A
    BY LenProperties, ElementOfSeq
<1>2. \A i \in 1 .. Len(s) : s[i] \in B
    BY <1>1
<1> QED
    BY <1>1, <1>2, IsASeq

\* A sequence is empty, or has a last element.
LEMMA FrontAndLast ==
    ASSUME NEW T, NEW s \in Seq(T), s # << >>
    PROVE  \E t \in Seq(T), x \in T : s = Append(t, x) /\ Len(t) = Len(s) - 1 /\ Len(t) \in Nat
<1>1. Len(s) \in Nat /\ Len(s) # 0
    BY EmptySeq, LenProperties
<1> DEFINE t == SubSeq(s, 1, Len(s) - 1)
<1>2. /\ t \in Seq(T) /\ Len(t) = Len(s) - 1
      /\ \A i \in 1 .. Len(s) - 1 : t[i] = s[i]
    <2>1. 1 .. Len(s) - 1 \subseteq 1 .. Len(s) /\ Len(s) - 1 \in Nat
        BY <1>1
    <2>2. \A i \in 1 .. Len(s) : s[i] \in T
        BY ElementOfSeq
    <2>3. /\ t \in Seq(T)
          /\ Len(t) = IF 1 <= Len(s) - 1 THEN (Len(s) - 1) - 1 + 1 ELSE 0
          /\ \A i \in 1 .. (Len(s) - 1) - 1 + 1 : t[i] = s[1 + i - 1]
        BY <2>1, <2>2, SubSeqProperties
    <2> HIDE DEF t
    <2>4. Len(t) = Len(s) - 1
        <3>1. CASE 1 <= Len(s) - 1
            <4>1. Len(t) = (Len(s) - 1) - 1 + 1
                BY <2>3, <3>1
            <4> QED
                BY <1>1, <4>1
        <3>2. CASE ~(1 <= Len(s) - 1)
            <4>1. Len(t) = 0
                BY <2>3, <3>2
            <4> QED
                BY <1>1, <3>2, <4>1
        <3> QED
            BY <3>1, <3>2
    <2>5. ASSUME NEW i \in 1 .. Len(s) - 1 PROVE t[i] = s[i]
        <3>1. i \in 1 .. (Len(s) - 1) - 1 + 1 /\ 1 + i - 1 = i
            BY <1>1
        <3> QED
            BY <2>3, <3>1
    <2> QED
        BY <2>3, <2>4, <2>5
<1>3. s[Len(s)] \in T
    BY <1>1, ElementOfSeq
<1>4. s = Append(t, s[Len(s)])
    <2> HIDE DEF t
    <2>1. /\ Append(t, s[Len(s)]) \in Seq(T)
          /\ Len(Append(t, s[Len(s)])) = Len(s)
          /\ \A i \in 1 .. Len(s) : Append(t, s[Len(s)])[i] = s[i]
        BY <1>1, <1>2, <1>3, AppendProperties
    <2> QED
        BY <2>1, SeqEqual
<1> HIDE DEF t
<1>5. Len(t) = Len(s) - 1 /\ Len(t) \in Nat
    BY <1>1, <1>2
<1> QED
    BY <1>2, <1>3, <1>4, <1>5, Zenon

\* What is left is a sequence.
LEMMA FilterType ==
    ASSUME NEW S, NEW T, NEW s \in Seq(T)
    PROVE  Filter(s, S) \in Seq(T \cap S)
<1> DEFINE B == {n \in Nat : \E t \in Seq(T) : Len(t) = n /\ Filter(t, S) \notin Seq(T \cap S)}
<1>1. ASSUME B # {} PROVE FALSE
    <2>1. B \subseteq Nat
        OBVIOUS
    <2>2. PICK b \in B : \A k \in B : b <= k
        <3> HIDE DEF B
        <3> QED
            BY <1>1, <2>1, SmallestExists
    <2>3. PICK t \in Seq(T) : Len(t) = b /\ Filter(t, S) \notin Seq(T \cap S)
        BY <2>2
    <2>4. t # << >>
        BY <2>3, FilterSteps
    <2>5. PICK u \in Seq(T), x \in T : t = Append(u, x) /\ Len(u) = Len(t) - 1 /\ Len(u) \in Nat
        BY <2>4, FrontAndLast
    <2>6. Len(u) \notin B
        BY <2>2, <2>3, <2>5
    <2>7. Filter(u, S) \in Seq(T \cap S)
        BY <2>5, <2>6
    <2>8. One(x, S) \in Seq(T \cap S)
        BY DEF One
    <2>9. Filter(t, S) = Filter(u, S) \o One(x, S)
        BY <2>5, FilterSteps
    <2>10. Filter(u, S) \o One(x, S) \in Seq(T \cap S)
        BY <2>7, <2>8, ConcatProperties
    <2> QED
        BY <2>3, <2>9, <2>10
<1>2. Len(s) \in Nat
    BY LenProperties
<1> QED
    BY <1>1, <1>2

\* Concatenations regrouped.
LEMMA Regroup ==
    ASSUME NEW T, NEW a \in Seq(T), NEW c \in Seq(T), NEW d \in Seq(T), NEW r, r = a \o c,
           NEW q, q = r \o d
    PROVE  q = a \o (c \o d)
    BY ConcatAssociative

\* Sequences may be joined before or after.
LEMMA FilterConcat ==
    ASSUME NEW S, NEW T, NEW s \in Seq(T), NEW t \in Seq(T)
    PROVE  Filter(s \o t, S) = Filter(s, S) \o Filter(t, S)
<1> DEFINE B == {n \in Nat : \E u \in Seq(T) :
                    Len(u) = n /\ Filter(s \o u, S) # Filter(s, S) \o Filter(u, S)}
<1>1. ASSUME B # {} PROVE FALSE
    <2>1. B \subseteq Nat
        OBVIOUS
    <2>2. PICK b \in B : \A k \in B : b <= k
        <3> HIDE DEF B
        <3> QED
            BY <1>1, <2>1, SmallestExists
    <2>3. PICK u \in Seq(T) : Len(u) = b /\ Filter(s \o u, S) # Filter(s, S) \o Filter(u, S)
        BY <2>2
    <2>4. Filter(s, S) \in Seq(T)
        <3>1. Filter(s, S) \in Seq(T \cap S) /\ T \cap S \subseteq T
            BY FilterType
        <3> QED
            BY <3>1, SeqMonotone
    <2>5. u # << >>
        <3>1. s \o << >> = s /\ Filter(s, S) \o << >> = Filter(s, S) /\ Filter(<< >>, S) = << >>
            BY <2>4, FilterSteps, ConcatEmptySeq
        <3> QED
            BY <2>3, <3>1
    <2>6. PICK v \in Seq(T), x \in T : u = Append(v, x) /\ Len(v) = Len(u) - 1 /\ Len(v) \in Nat
        BY <2>5, FrontAndLast
    <2>7. Len(v) \notin B
        BY <2>2, <2>3, <2>6
    <2>8. Filter(s \o v, S) = Filter(s, S) \o Filter(v, S)
        BY <2>6, <2>7
    <2>9. s \o u = Append(s \o v, x) /\ s \o v \in Seq(T)
        BY <2>6
    <2>10. Filter(u, S) = Filter(v, S) \o One(x, S)
        BY <2>6, FilterSteps
    <2>11. Filter(s \o u, S) = Filter(s \o v, S) \o One(x, S)
        <3> PICK w : w = s \o v
            OBVIOUS
        <3>1. w \in Seq(T) /\ s \o u = Append(w, x)
            BY <2>9
        <3>2. Filter(Append(w, x), S) = Filter(w, S) \o One(x, S)
            BY <3>1, FilterSteps
        <3> QED
            BY <3>1, <3>2
    <2>12. Filter(v, S) \in Seq(T) /\ One(x, S) \in Seq(T)
        <3>1. Filter(v, S) \in Seq(T \cap S) /\ T \cap S \subseteq T
            BY <2>6, FilterType
        <3>2. Filter(v, S) \in Seq(T)
            BY <3>1, SeqMonotone
        <3> QED
            BY <2>6, <3>2 DEF One
    <2>13. PICK a, c, d, r, q : /\ a = Filter(s, S) /\ c = Filter(v, S) /\ d = One(x, S)
                                /\ r = Filter(s \o v, S) /\ q = Filter(s \o u, S)
        OBVIOUS
    <2>14. a \in Seq(T) /\ c \in Seq(T) /\ d \in Seq(T) /\ r = a \o c /\ q = r \o d
        BY <2>4, <2>8, <2>11, <2>12, <2>13
    <2> HIDE DEF B
    <2>15. q = a \o (c \o d)
        BY <2>14, Regroup
    <2> QED
        BY <2>3, <2>10, <2>13, <2>15 DEF B
<1>2. Len(t) \in Nat
    BY LenProperties
<1> QED
    BY <1>1, <1>2

\* What is left of one element, and of a sequence that starts with one.
LEMMA FilterFirst ==
    ASSUME NEW S, NEW T
    PROVE  /\ \A x \in T : Filter(<<x>>, S) = One(x, S)
           /\ \A s \in Seq(T) : s # << >> => Filter(s, S) = One(Head(s), S) \o Filter(Tail(s), S)
<1>1. ASSUME NEW x \in T PROVE Filter(<<x>>, S) = One(x, S)
    <2>1. << >> \in Seq(T) /\ Append(<< >>, x) = <<x>> /\ One(x, S) \in Seq(T)
        BY DEF One
    <2>2. Filter(Append(<< >>, x), S) = Filter(<< >>, S) \o One(x, S)
        BY <2>1, FilterSteps
    <2>3. Filter(<< >>, S) \o One(x, S) = One(x, S)
        BY <2>1, FilterSteps, ConcatEmptySeq
    <2> QED
        BY <2>1, <2>2, <2>3
<1>2. ASSUME NEW s \in Seq(T), s # << >>
      PROVE  Filter(s, S) = One(Head(s), S) \o Filter(Tail(s), S)
    <2>1. Head(s) \in T /\ Tail(s) \in Seq(T) /\ s = <<Head(s)>> \o Tail(s)
        BY <1>2, HeadTailProperties
    <2> PICK x, t : x = Head(s) /\ t = Tail(s)
        OBVIOUS
    <2>2. x \in T /\ t \in Seq(T) /\ <<x>> \in Seq(T) /\ s = <<x>> \o t
        BY <2>1
    <2>3. Filter(<<x>> \o t, S) = Filter(<<x>>, S) \o Filter(t, S)
        BY <2>2, FilterConcat
    <2>4. Filter(s, S) = One(x, S) \o Filter(t, S)
        BY <1>1, <2>2, <2>3
    <2> QED
        BY <2>4
<1> QED
    BY <1>1, <1>2

\* Only which elements of s are in the set matters.
LEMMA FilterCong ==
    ASSUME NEW T, NEW s \in Seq(T), NEW S, NEW R, \A i \in DOMAIN s : s[i] \in S <=> s[i] \in R
    PROVE  Filter(s, S) = Filter(s, R)
<1> PICK n \in Nat : n = Len(s)
    BY LenProperties
<1>1. ASSUME NEW V PROVE \E f : Filters(f, s, V, n) /\ Filter(s, V) = f[n]
    <2> PICK f : f = CHOOSE g : Filters(g, s, V, n)
        OBVIOUS
    <2> QED
        BY FiltersExist, FilterUnfold
<1>2. PICK f : Filters(f, s, S, n) /\ Filter(s, S) = f[n]
    BY <1>1
<1>3. PICK g : Filters(g, s, R, n) /\ Filter(s, R) = g[n]
    BY <1>1
<1>4. Filters(f, s, R, n)
    <2>1. \A i \in 0 .. n : i # 0 => One(s[i], S) = One(s[i], R)
        BY LenProperties DEF One
    <2> DEFINE v(i, V) == IF i = 0 THEN << >> ELSE f[i - 1] \o One(s[i], V)
    <2>2. \A i \in 0 .. n : v(i, S) = v(i, R)
        BY <2>1
    <2>3. f = [i \in 0 .. n |-> v(i, S)]
        BY <1>2 DEF Filters
    <2>4. f = [i \in 0 .. n |-> v(i, R)]
        <3> HIDE DEF v
        <3> QED
            BY <2>2, <2>3
    <2> QED
        BY <2>4 DEF Filters
<1>5. f[n] = g[n]
    <2>1. n <= n /\ SameStart(s, s, n)
        BY DEF SameStart
    <2> QED
        BY <1>3, <1>4, <2>1, FiltersAgree
<1> QED
    BY <1>2, <1>3, <1>5

\* What is left of s is in s and in S.
LEMMA FilterRange ==
    ASSUME NEW T, NEW s \in Seq(T), NEW S
    PROVE  /\ Filter(s, S) \in Seq(T)
           /\ \A i \in DOMAIN Filter(s, S) :
                 Filter(s, S)[i] \in S /\ \E j \in DOMAIN s : s[j] = Filter(s, S)[i]
<1> DEFINE U == {s[j] : j \in DOMAIN s}
<1>1. s \in Seq(U) /\ U \subseteq T
    <2>1. U \subseteq T
        BY ElementOfSeq, LenProperties
    <2>2. s \in [1 .. Len(s) -> U] /\ Len(s) \in Nat
        BY LenProperties
    <2> QED
        BY <2>1, <2>2
<1> PICK f : f = Filter(s, S)
    OBVIOUS
<1>2. f \in Seq(U \cap S)
    BY <1>1, FilterType
<1>3. \A i \in DOMAIN f : f[i] \in U \cap S
    BY <1>2, ElementOfSeq, LenProperties
<1>4. f \in Seq(T)
    BY <1>1, <1>2, SeqMonotone
<1> QED
    BY <1>3, <1>4

\* Nothing is left when nothing is in S.
LEMMA FilterNone ==
    ASSUME NEW T, NEW s \in Seq(T), NEW S, \A i \in DOMAIN s : s[i] \notin S
    PROVE  Filter(s, S) = << >>
<1> PICK f : f = Filter(s, S)
    OBVIOUS
<1>1. f \in Seq(T) /\ \A i \in DOMAIN f : f[i] \in S /\ \E j \in DOMAIN s : s[j] = f[i]
    BY FilterRange
<1>2. DOMAIN f = {}
    BY <1>1
<1> QED
    BY <1>1, <1>2, LenProperties, EmptySeq

\* The sequence s is a and then b, and a has length k.
IsCut(s, k, a, b) ==
    /\ s = a \o b /\ Len(a) = k /\ Len(b) = Len(s) - k
    /\ \A i \in 1 .. k : a[i] = s[i]
    /\ \A i \in 1 .. Len(s) - k : b[i] = s[k + i]

\* A sequence can be cut anywhere.
LEMMA Cut ==
    ASSUME NEW T, NEW s \in Seq(T), NEW k \in 0 .. Len(s)
    PROVE  \E a, b \in Seq(T) : IsCut(s, k, a, b)
<1>1. Len(s) \in Nat /\ k \in Nat /\ k <= Len(s) /\ Len(s) - k \in Nat
    BY LenProperties
<1> DEFINE a == [i \in 1 .. k |-> s[i]]
           b == [i \in 1 .. Len(s) - k |-> s[k + i]]
<1>2. a \in Seq(T) /\ Len(a) = k
    <2>1. \A i \in 1 .. k : s[i] \in T
        BY <1>1, ElementOfSeq
    <2> QED
        BY <1>1, <2>1
<1>3. b \in Seq(T) /\ Len(b) = Len(s) - k
    <2>1. \A i \in 1 .. Len(s) - k : k + i \in 1 .. Len(s)
        BY <1>1
    <2>2. \A i \in 1 .. Len(s) - k : s[k + i] \in T
        BY <2>1, ElementOfSeq
    <2>3. b \in [1 .. Len(s) - k -> T]
        BY <2>2
    <2> QED
        BY <1>1, <2>3
<1>4. (\A i \in 1 .. k : a[i] = s[i]) /\ (\A i \in 1 .. Len(s) - k : b[i] = s[k + i])
    OBVIOUS
<1> HIDE DEF a, b
<1>5. s = a \o b
    <2> DEFINE w == a \o b
    <2>1. /\ w \in Seq(T) /\ Len(w) = Len(s)
          /\ \A i \in 1 .. Len(s) : w[i] = IF i <= k THEN a[i] ELSE b[i - k]
        BY <1>1, <1>2, <1>3, ConcatProperties
    <2> HIDE DEF w
    <2>2. ASSUME NEW i \in 1 .. Len(s) PROVE w[i] = s[i]
        <3>1. CASE i <= k
            BY <1>1, <1>4, <2>1, <3>1
        <3>2. CASE ~(i <= k)
            <4>1. i - k \in 1 .. Len(s) - k /\ k + (i - k) = i
                BY <1>1, <3>2
            <4> QED
                BY <1>1, <1>4, <2>1, <3>2, <4>1
        <3> QED
            BY <3>1, <3>2
    <2>3. w = s
        BY <2>1, <2>2, SeqEqual
    <2> QED
        BY <2>3 DEF w
<1>6. IsCut(s, k, a, b)
    BY <1>2, <1>3, <1>4, <1>5 DEF IsCut
<1> QED
    BY <1>2, <1>3, <1>6

\* The sequence s is a, its element n, and b.
IsCutAround(s, n, a, b) ==
    /\ s = a \o (<<s[n]>> \o b) /\ Len(a) = n - 1 /\ Len(b) = Len(s) - n
    /\ \A i \in 1 .. n - 1 : a[i] = s[i]
    /\ \A i \in 1 .. Len(s) - n : b[i] = s[n + i]

\* What is left of s is then what is left of the three.
FilterAround(s, n, a, b, S) == Filter(s, S) = Filter(a, S) \o (One(s[n], S) \o Filter(b, S))

\* A sequence can be cut around any of its elements.
LEMMA CutAround ==
    ASSUME NEW T, NEW s \in Seq(T), NEW n \in 1 .. Len(s)
    PROVE  \E a, b \in Seq(T) : IsCutAround(s, n, a, b) /\ \A S : FilterAround(s, n, a, b, S)
<1>1. Len(s) \in Nat /\ n \in Nat \ {0} /\ n <= Len(s) /\ n - 1 \in 0 .. Len(s) /\ s[n] \in T
    BY LenProperties, ElementOfSeq
<1>0. PICK a \in Seq(T), c \in Seq(T) : IsCut(s, n - 1, a, c)
    BY <1>1, Cut
<1>2. /\ s = a \o c /\ Len(a) = n - 1 /\ Len(c) = Len(s) - (n - 1)
      /\ \A i \in 1 .. n - 1 : a[i] = s[i]
      /\ \A i \in 1 .. Len(s) - (n - 1) : c[i] = s[(n - 1) + i]
    BY <1>0 DEF IsCut
<1>3. 1 \in 0 .. Len(c) /\ 1 \in 1 .. Len(c) /\ Len(c) \in Nat
    BY <1>1, <1>2
<1>11. PICK d \in Seq(T), b \in Seq(T) : IsCut(c, 1, d, b)
    BY <1>3, Cut
<1>4. /\ c = d \o b /\ Len(d) = 1 /\ Len(b) = Len(c) - 1
      /\ \A i \in 1 .. 1 : d[i] = c[i]
      /\ \A i \in 1 .. Len(c) - 1 : b[i] = c[1 + i]
    BY <1>11 DEF IsCut
<1>5. d = <<s[n]>>
    <2>1. d[1] = c[1] /\ c[1] = s[(n - 1) + 1] /\ (n - 1) + 1 = n
        BY <1>1, <1>2, <1>3, <1>4
    <2>2. d = <<d[1]>>
        BY <1>4
    <2> QED
        BY <2>1, <2>2
<1>6. \A i \in 1 .. Len(s) - n : b[i] = s[n + i]
    <2> TAKE i \in 1 .. Len(s) - n
    <2>1. i \in 1 .. Len(c) - 1 /\ 1 + i \in 1 .. Len(s) - (n - 1) /\ (n - 1) + (1 + i) = n + i
        BY <1>1, <1>2
    <2> QED
        BY <1>2, <1>4, <2>1
<1>7. Len(b) = Len(s) - n
    BY <1>1, <1>2, <1>4
<1>8. ASSUME NEW S PROVE FilterAround(s, n, a, b, S)
    <2>1. Filter(s, S) = Filter(a, S) \o Filter(c, S)
        BY <1>2, FilterConcat
    <2>2. Filter(c, S) = Filter(d, S) \o Filter(b, S)
        BY <1>4, FilterConcat
    <2>3. Filter(d, S) = One(s[n], S)
        BY <1>1, <1>5, FilterFirst
    <2> QED
        BY <2>1, <2>2, <2>3 DEF FilterAround
<1>9. IsCutAround(s, n, a, b)
    BY <1>2, <1>4, <1>5, <1>6, <1>7 DEF IsCutAround
<1> QED
    BY <1>8, <1>9

\* Exactly the elements of s that are in S are left.
LEMMA FilterElements ==
    ASSUME NEW T, NEW s \in Seq(T), NEW S
    PROVE  {Filter(s, S)[i] : i \in DOMAIN Filter(s, S)} = {s[i] : i \in DOMAIN s} \cap S
<1>1. ASSUME NEW n \in DOMAIN s, s[n] \in S
      PROVE  \E i \in DOMAIN Filter(s, S) : Filter(s, S)[i] = s[n]
    <2>1. n \in 1 .. Len(s) /\ s[n] \in T
        BY LenProperties, ElementOfSeq
    <2>9. PICK a \in Seq(T), b \in Seq(T) : FilterAround(s, n, a, b, S)
        BY <2>1, CutAround
    <2>2. Filter(s, S) = Filter(a, S) \o (One(s[n], S) \o Filter(b, S))
        BY <2>9 DEF FilterAround
    <2> PICK x \in T, p \in Seq(T), q \in Seq(T), f \in Seq(T) :
              x = s[n] /\ p = Filter(a, S) /\ q = Filter(b, S) /\ f = Filter(s, S)
        BY <2>1, FilterRange
    <2>3. f = p \o (<<x>> \o q)
        BY <1>1, <2>2 DEF One
    <2>4. <<x>> \o q \in Seq(T) /\ Len(<<x>> \o q) = Len(q) + 1 /\ (<<x>> \o q)[1] = x /\ Len(q) \in Nat
        OBVIOUS
    <2>5. f \in Seq(T) /\ Len(f) = Len(p) + (Len(q) + 1) /\ Len(p) \in Nat
        BY <2>3, <2>4, ConcatProperties, LenProperties
    <2>6. Len(p) + 1 \in 1 .. Len(p) + Len(<<x>> \o q) /\ ~(Len(p) + 1 <= Len(p)) /\ Len(p) + 1 - Len(p) = 1
        BY <2>4, <2>5
    <2>7. f[Len(p) + 1] = (<<x>> \o q)[1]
        BY <2>3, <2>4, <2>5, <2>6, ConcatProperties
    <2>8. Len(p) + 1 \in DOMAIN f
        BY <2>5, <2>4, LenProperties
    <2> QED
        BY <2>4, <2>7, <2>8
<1>2. \A i \in DOMAIN Filter(s, S) :
         Filter(s, S)[i] \in S /\ \E j \in DOMAIN s : s[j] = Filter(s, S)[i]
    BY FilterRange
<1> QED
    BY <1>1, <1>2
=============================================================================
