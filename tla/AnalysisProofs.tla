--------------------------- MODULE AnalysisProofs ---------------------------
(***************************************************************************)
(* The analysis of the matrix, for every matrix and every set of run       *)
(* directories (WholeMatrixOnly and FairResults of Analysis), and the      *)
(* backend calls behind a group size, for every set of calls               *)
(* (CallsRebuilt of OuterCalls); first, what they take of sums.            *)
(***************************************************************************)
EXTENDS MCAnalysis, FiniteSetTheorems, SequenceTheorems, WellFoundedInduction,
        TLAPS

-----------------------------------------------------------------------------
(* Induction over the subsets of a finite set, of which P are those with a *)
(* property.                                                               *)
LEMMA SubsetInduction ==
    ASSUME NEW S, IsFiniteSet(S), NEW P,
           \A s \in SUBSET S :
               (\A t \in SUBSET s : t # s => t \in P) => s \in P
    PROVE  S \in P
<1> DEFINE T == (SUBSET S) \ P
<1> SUFFICES ASSUME S \notin P
             PROVE  FALSE
  OBVIOUS
<1>1. T \subseteq FiniteSubsetsOf(S) /\ T # {}
  BY FS_Subset DEF FiniteSubsetsOf
<1>2. PICK x \in T : \A y \in T : <<y, x>> \notin StrictSubsetOrdering(S)
  <2> HIDE DEF T
  <2> QED
    BY <1>1, FS_StrictSubsetOrderingWellFounded, WFMin
<1>3. \A t \in SUBSET x : t # x => t \in P
  BY <1>2 DEF StrictSubsetOrdering
<1> QED
  BY <1>2, <1>3

Pick(s) == CHOOSE x \in s : TRUE

(* The function by which SumFunctionOnSet is defined, if there is one.     *)
Adds(f, S, g) ==
    g = [s \in SUBSET S |->
            IF s = {} THEN 0 ELSE f[Pick(s)] + g[s \ {Pick(s)}]]

Adder(f, S) == CHOOSE g : Adds(f, S, g)

LEMMA SumIsAdded ==
    ASSUME NEW f, NEW S
    PROVE  SumFunctionOnSet(f, S) = Adder(f, S)[S]
BY DEF SumFunctionOnSet, FoldFunctionOnSet, MapThenFoldSet, Adder, Adds, Pick

(* There is at most one such function, ...                                 *)
LEMMA AdderUnique ==
    ASSUME NEW f, NEW S, NEW T, IsFiniteSet(S), S \subseteq T,
           NEW g, Adds(f, S, g), NEW h, Adds(f, T, h)
    PROVE  g[S] = h[S]
<1> DEFINE P == {s \in SUBSET S : g[s] = h[s]}
<1>1. ASSUME NEW s \in SUBSET S, \A t \in SUBSET s : t # s => t \in P
      PROVE  s \in P
  <2>1. CASE s = {}
    BY <2>1 DEF Adds
  <2>2. CASE s # {}
    <3> DEFINE t == s \ {Pick(s)}
    <3>1. t \in SUBSET s /\ t # s
      BY <2>2 DEF Pick
    <3>2. g[t] = h[t]
      BY <1>1, <3>1
    <3>3. g[s] = f[Pick(s)] + g[t]
      BY <2>2 DEF Adds
    <3>4. h[s] = f[Pick(s)] + h[t]
      BY <2>2 DEF Adds
    <3> HIDE DEF t
    <3> QED
      BY <3>2, <3>3, <3>4
  <2> QED
    BY <2>1, <2>2
<1> HIDE DEF P
<1>2. S \in P
  BY <1>1, SubsetInduction
<1> QED
  BY <1>2 DEF P

(* ... and there is one.                                                   *)
LEMMA AdderExists ==
    ASSUME NEW f, NEW S, IsFiniteSet(S)
    PROVE  Adds(f, S, Adder(f, S))
<1> DEFINE P == {s \in SUBSET S : \E g : Adds(f, s, g)}
<1>1. ASSUME NEW x \in SUBSET S, \A t \in SUBSET x : t # x => t \in P
      PROVE  x \in P
  <2> DEFINE Less(s) == s \ {Pick(s)}
             Rest(s) == Adder(f, Less(s))[Less(s)]
             g == [s \in SUBSET x |->
                      IF s = {} THEN 0 ELSE f[Pick(s)] + Rest(s)]
  <2>1. \A s \in SUBSET x : s # {} => Less(s) \in SUBSET x /\ Less(s) # x
    BY DEF Pick
  <2>2. \A t \in SUBSET x : t # x => Adds(f, t, Adder(f, t))
    BY <1>1 DEF Adder
  <2>3. ASSUME NEW s \in SUBSET x, s # {}
        PROVE  g[Less(s)] = Rest(s)
    <3> DEFINE t == Less(s)
    <3>1. Adds(f, t, Adder(f, t)) /\ t \in SUBSET x
      BY <2>1, <2>2, <2>3
    <3>2. CASE t = {}
      BY <3>1, <3>2 DEF Adds
    <3>3. CASE t # {}
      <4>1. Adds(f, Less(t), Adder(f, Less(t))) /\ IsFiniteSet(Less(t))
        BY <2>1, <2>2, <3>1, <3>3, FS_Subset
      <4>2. Adder(f, t)[Less(t)] = Rest(t)
        BY <3>1, <4>1, AdderUnique
      <4>3. Adder(f, t)[t] = f[Pick(t)] + Adder(f, t)[Less(t)]
        BY <3>1, <3>3 DEF Adds
      <4> QED
        BY <3>1, <3>3, <4>2, <4>3
    <3> QED
      BY <3>2, <3>3
  <2> HIDE DEF Less, Rest
  <2>4. g = [s \in SUBSET x |->
                IF s = {} THEN 0 ELSE f[Pick(s)] + g[Less(s)]]
    BY <2>3
  <2> HIDE DEF g
  <2>5. Adds(f, x, g)
    BY <2>4 DEF Adds, Less
  <2> QED
    BY <2>5
<1> HIDE DEF P
<1>2. S \in P
  BY <1>1, SubsetInduction
<1> QED
  BY <1>2 DEF P, Adder

-----------------------------------------------------------------------------
(* Sums of whole numbers                                                   *)

(* The sum of nothing is 0, ...                                            *)
LEMMA SumEmpty ==
    ASSUME NEW f
    PROVE  SumFunctionOnSet(f, {}) = 0
<1>1. Adds(f, {}, Adder(f, {}))
  BY AdderExists, FS_EmptySet
<1> QED
  BY <1>1, SumIsAdded DEF Adds

(* ... one element is added to the sum of the others, ...                  *)
LEMMA SumPick ==
    ASSUME NEW f, NEW S, IsFiniteSet(S), S # {}
    PROVE  SumFunctionOnSet(f, S)
               = f[Pick(S)] + SumFunctionOnSet(f, S \ {Pick(S)})
<1> DEFINE T == S \ {Pick(S)}
<1>1. Adds(f, S, Adder(f, S))
  BY AdderExists
<1>2. IsFiniteSet(T) /\ T \subseteq S
  BY FS_Subset
<1>3. Adds(f, T, Adder(f, T))
  BY <1>2, AdderExists
<1>4. Adder(f, T)[T] = Adder(f, S)[T]
  BY <1>1, <1>2, <1>3, AdderUnique
<1>5. Adder(f, S)[S] = f[Pick(S)] + Adder(f, S)[T]
  BY <1>1 DEF Adds
<1>6. SumFunctionOnSet(f, T) = Adder(f, T)[T]
  BY SumIsAdded
<1>7. SumFunctionOnSet(f, S) = Adder(f, S)[S]
  BY SumIsAdded
<1> HIDE DEF T
<1>8. SumFunctionOnSet(f, S) = f[Pick(S)] + SumFunctionOnSet(f, T)
  BY <1>4, <1>5, <1>6, <1>7
<1> QED
  BY <1>8 DEF T

(* ... the sum is a whole number ...                                       *)
LEMMA SumInt ==
    ASSUME NEW f, NEW S, IsFiniteSet(S), \A x \in S : f[x] \in Int
    PROVE  SumFunctionOnSet(f, S) \in Int
<1> DEFINE P == {s \in SUBSET S : SumFunctionOnSet(f, s) \in Int}
<1>1. ASSUME NEW s \in SUBSET S, \A t \in SUBSET s : t # s => t \in P
      PROVE  s \in P
  <2>1. CASE s = {}
    BY <2>1, SumEmpty
  <2>2. CASE s # {}
    <3> DEFINE t == s \ {Pick(s)}
    <3>1. t \in SUBSET s /\ t # s /\ Pick(s) \in S /\ IsFiniteSet(s)
      BY <2>2, FS_Subset DEF Pick
    <3>2. SumFunctionOnSet(f, t) \in Int
      BY <1>1, <3>1
    <3>3. SumFunctionOnSet(f, s) = f[Pick(s)] + SumFunctionOnSet(f, t)
      BY <2>2, <3>1, SumPick
    <3> HIDE DEF t
    <3> QED
      BY <3>1, <3>2, <3>3
  <2> QED
    BY <2>1, <2>2
<1> HIDE DEF P
<1>2. S \in P
  BY <1>1, SubsetInduction
<1> QED
  BY <1>2 DEF P

(* ... and any element will do.                                            *)
LEMMA SumAny ==
    ASSUME NEW f, NEW S, IsFiniteSet(S), \A x \in S : f[x] \in Int
    PROVE  \A x \in S :
               SumFunctionOnSet(f, S) = f[x] + SumFunctionOnSet(f, S \ {x})
<1> DEFINE P == {s \in SUBSET S : \A x \in s :
                SumFunctionOnSet(f, s) = f[x] + SumFunctionOnSet(f, s \ {x})}
<1>1. ASSUME NEW s \in SUBSET S, \A t \in SUBSET s : t # s => t \in P
      PROVE  s \in P
  <2> SUFFICES ASSUME NEW x \in s
               PROVE  SumFunctionOnSet(f, s)
                          = f[x] + SumFunctionOnSet(f, s \ {x})
    OBVIOUS
  <2> DEFINE c == Pick(s)
             rest == s \ {c, x}
  <2>1. c \in s /\ IsFiniteSet(s) /\ IsFiniteSet(rest)
        /\ f[c] \in Int /\ f[x] \in Int
    BY FS_Subset DEF Pick
  <2>2. SumFunctionOnSet(f, s) = f[c] + SumFunctionOnSet(f, s \ {c})
    BY <2>1, SumPick
  <2>3. CASE x = c
    BY <2>2, <2>3
  <2>4. CASE x # c
    <3>1. (s \ {c}) \in P /\ (s \ {x}) \in P
          /\ (s \ {c}) \ {x} = rest /\ (s \ {x}) \ {c} = rest
          /\ x \in s \ {c} /\ c \in s \ {x}
      BY <1>1, <2>1, <2>4
    <3>2. SumFunctionOnSet(f, s \ {c}) = f[x] + SumFunctionOnSet(f, rest)
      BY <3>1
    <3>3. SumFunctionOnSet(f, s \ {x}) = f[c] + SumFunctionOnSet(f, rest)
      BY <3>1
    <3>4. SumFunctionOnSet(f, rest) \in Int
      BY <2>1, SumInt
    <3> HIDE DEF rest, c, P
    <3> QED
      BY <2>1, <2>2, <3>2, <3>3, <3>4
  <2> QED
    BY <2>3, <2>4
<1> HIDE DEF P
<1>2. S \in P
  BY <1>1, SubsetInduction
<1> QED
  BY <1>2 DEF P

(* Equal terms have equal sums.                                            *)
LEMMA SumSame ==
    ASSUME NEW f, NEW g, NEW S, IsFiniteSet(S), \A x \in S : f[x] = g[x]
    PROVE  SumFunctionOnSet(f, S) = SumFunctionOnSet(g, S)
<1> DEFINE P == {s \in SUBSET S :
                     SumFunctionOnSet(f, s) = SumFunctionOnSet(g, s)}
<1>1. ASSUME NEW s \in SUBSET S, \A t \in SUBSET s : t # s => t \in P
      PROVE  s \in P
  <2>1. CASE s = {}
    BY <2>1, SumEmpty
  <2>2. CASE s # {}
    <3> DEFINE t == s \ {Pick(s)}
    <3>1. t \in P /\ f[Pick(s)] = g[Pick(s)] /\ IsFiniteSet(s)
      BY <1>1, <2>2, FS_Subset DEF Pick
    <3>2. SumFunctionOnSet(f, s) = f[Pick(s)] + SumFunctionOnSet(f, t)
      BY <2>2, <3>1, SumPick
    <3>3. SumFunctionOnSet(g, s) = g[Pick(s)] + SumFunctionOnSet(g, t)
      BY <2>2, <3>1, SumPick
    <3>4. SumFunctionOnSet(f, t) = SumFunctionOnSet(g, t)
      BY <3>1
    <3> HIDE DEF t
    <3> QED
      BY <3>1, <3>2, <3>3, <3>4
  <2> QED
    BY <2>1, <2>2
<1> HIDE DEF P
<1>2. S \in P
  BY <1>1, SubsetInduction
<1> QED
  BY <1>2 DEF P

(* Nothing comes of zeros.                                                 *)
LEMMA SumOfZeros ==
    ASSUME NEW f, NEW S, IsFiniteSet(S), \A x \in S : f[x] = 0
    PROVE  SumFunctionOnSet(f, S) = 0
<1> DEFINE P == {s \in SUBSET S : SumFunctionOnSet(f, s) = 0}
<1>1. ASSUME NEW s \in SUBSET S, \A t \in SUBSET s : t # s => t \in P
      PROVE  s \in P
  <2>1. CASE s = {}
    BY <2>1, SumEmpty
  <2>2. CASE s # {}
    <3> DEFINE t == s \ {Pick(s)}
    <3>1. t \in P /\ f[Pick(s)] = 0 /\ IsFiniteSet(s)
      BY <1>1, <2>2, FS_Subset DEF Pick
    <3>2. SumFunctionOnSet(f, s) = f[Pick(s)] + SumFunctionOnSet(f, t)
      BY <2>2, <3>1, SumPick
    <3> QED
      BY <3>1, <3>2
  <2> QED
    BY <2>1, <2>2
<1> HIDE DEF P
<1>2. S \in P
  BY <1>1, SubsetInduction
<1> QED
  BY <1>2 DEF P

(* A number of ones                                                        *)
LEMMA SumOfOnes ==
    ASSUME NEW f, NEW S, IsFiniteSet(S), \A x \in S : f[x] = 1
    PROVE  SumFunctionOnSet(f, S) = Cardinality(S)
<1> DEFINE P == {s \in SUBSET S : SumFunctionOnSet(f, s) = Cardinality(s)}
<1>1. ASSUME NEW s \in SUBSET S, \A t \in SUBSET s : t # s => t \in P
      PROVE  s \in P
  <2>1. CASE s = {}
    BY <2>1, SumEmpty, FS_EmptySet
  <2>2. CASE s # {}
    <3> DEFINE t == s \ {Pick(s)}
    <3>1. /\ t \in P /\ f[Pick(s)] = 1 /\ Pick(s) \in s /\ IsFiniteSet(s)
      BY <1>1, <2>2, FS_Subset DEF Pick
    <3>2. SumFunctionOnSet(f, s) = f[Pick(s)] + SumFunctionOnSet(f, t)
      BY <2>2, <3>1, SumPick
    <3>3. Cardinality(t) = Cardinality(s) - 1 /\ Cardinality(s) \in Nat
      BY <3>1, FS_RemoveElement, FS_CardinalityType
    <3>4. SumFunctionOnSet(f, t) = Cardinality(t)
      BY <3>1
    <3> HIDE DEF t
    <3> QED
      BY <3>1, <3>2, <3>3, <3>4
  <2> QED
    BY <2>1, <2>2
<1> HIDE DEF P
<1>2. S \in P
  BY <1>1, SubsetInduction
<1> QED
  BY <1>2 DEF P

(* A sum of differences                                                    *)
LEMMA SumMinus ==
    ASSUME NEW f, NEW g, NEW d, NEW S, IsFiniteSet(S),
           \A x \in S : f[x] \in Int /\ g[x] \in Int /\ d[x] = f[x] - g[x]
    PROVE  SumFunctionOnSet(d, S)
               = SumFunctionOnSet(f, S) - SumFunctionOnSet(g, S)
<1> DEFINE Minus(s) == SumFunctionOnSet(d, s)
                           = SumFunctionOnSet(f, s) - SumFunctionOnSet(g, s)
           P == {s \in SUBSET S : Minus(s)}
<1>1. ASSUME NEW s \in SUBSET S, \A t \in SUBSET s : t # s => t \in P
      PROVE  s \in P
  <2>1. CASE s = {}
    BY <2>1, SumEmpty
  <2>2. CASE s # {}
    <3> DEFINE c == Pick(s)
               t == s \ {c}
    <3>1. /\ c \in S /\ f[c] \in Int /\ g[c] \in Int /\ d[c] = f[c] - g[c]
          /\ t \in SUBSET s /\ t # s /\ IsFiniteSet(s) /\ IsFiniteSet(t)
      BY <2>2, FS_Subset DEF Pick
    <3>2. Minus(t)
      BY <1>1, <3>1
    <3>3. /\ SumFunctionOnSet(f, s) = f[c] + SumFunctionOnSet(f, t)
          /\ SumFunctionOnSet(g, s) = g[c] + SumFunctionOnSet(g, t)
          /\ SumFunctionOnSet(d, s) = d[c] + SumFunctionOnSet(d, t)
      BY <2>2, <3>1, SumPick
    <3>4. /\ SumFunctionOnSet(f, t) \in Int
          /\ SumFunctionOnSet(g, t) \in Int
      BY <3>1, SumInt
    <3> HIDE DEF t, c
    <3>5. Minus(s)
      BY <3>1, <3>2, <3>3, <3>4
    <3> QED
      BY <3>5
  <2> QED
    BY <2>1, <2>2
<1> HIDE DEF P
<1>2. S \in P
  BY <1>1, SubsetInduction
<1> QED
  BY <1>2 DEF P

(* What is added group by group is the sum of all: p tells the group.      *)
LEMMA SumByGroup ==
    ASSUME NEW f, NEW S, IsFiniteSet(S), \A x \in S : f[x] \in Int,
           NEW p, NEW K, IsFiniteSet(K), \A x \in S : p[x] \in K
    PROVE  SumFunctionOnSet(
               [k \in K |-> SumFunctionOnSet(f, {x \in S : p[x] = k})], K)
               = SumFunctionOnSet(f, S)
<1> DEFINE Group(s, k) == {x \in s : p[x] = k}
           h(s) == [k \in K |-> SumFunctionOnSet(f, Group(s, k))]
           P == {s \in SUBSET S :
                    SumFunctionOnSet(h(s), K) = SumFunctionOnSet(f, s)}
<1>1. ASSUME NEW s \in SUBSET S, \A t \in SUBSET s : t # s => t \in P
      PROVE  s \in P
  <2>0. \A t \in SUBSET S : \A k \in K : h(t)[k] \in Int
    <3>1. \A t \in SUBSET S : \A k \in K : Group(t, k) \subseteq S
      OBVIOUS
    <3> HIDE DEF Group
    <3>2. ASSUME NEW t \in SUBSET S, NEW k \in K
          PROVE  h(t)[k] \in Int
      <4>1. Group(t, k) \subseteq S /\ IsFiniteSet(Group(t, k))
        BY <3>1, FS_Subset
      <4>2. SumFunctionOnSet(f, Group(t, k)) \in Int
        BY <4>1, SumInt
      <4> QED
        BY <4>2
    <3> QED
      BY <3>2
  <2>1. CASE s = {}
    <3>1. \A k \in K : h(s)[k] = 0
      BY <2>1, SumEmpty
    <3> HIDE DEF h
    <3>2. SumFunctionOnSet(h(s), K) = 0
      BY <3>1, SumOfZeros
    <3> QED
      BY <2>1, <3>2, SumEmpty
  <2>2. CASE s # {}
    <3> DEFINE c == Pick(s)
               t == s \ {c}
               k0 == p[c]
    <3>1. /\ c \in s /\ c \in S /\ k0 \in K /\ f[c] \in Int
          /\ t \in SUBSET s /\ t # s /\ t \in P
          /\ IsFiniteSet(s) /\ IsFiniteSet(t)
      BY <1>1, <2>2, FS_Subset DEF Pick
    <3>2. \A k \in K \ {k0} : Group(s, k) = Group(t, k)
      OBVIOUS
    <3>3. h(s)[k0] = f[c] + h(t)[k0]
      <4>1. Group(s, k0) \ {c} = Group(t, k0) /\ c \in Group(s, k0)
        BY <3>1
      <4>2. IsFiniteSet(Group(s, k0)) /\ \A x \in Group(s, k0) : f[x] \in Int
        BY <3>1, FS_Subset
      <4> HIDE DEF Group
      <4>3. SumFunctionOnSet(f, Group(s, k0))
                = f[c] + SumFunctionOnSet(f, Group(t, k0))
        BY <4>1, <4>2, SumAny
      <4> QED
        BY <3>1, <4>3
    <3>4. SumFunctionOnSet(h(s), K \ {k0}) = SumFunctionOnSet(h(t), K \ {k0})
      <4>1. \A k \in K \ {k0} : h(s)[k] = h(t)[k]
        BY <3>2
      <4>2. IsFiniteSet(K \ {k0})
        BY FS_Subset
      <4> HIDE DEF h
      <4> QED
        BY <4>1, <4>2, SumSame, SMTT(30)
    <3> DEFINE hs == h(s)
               ht == h(t)
    <3>5. /\ \A k \in K : hs[k] \in Int /\ ht[k] \in Int
          /\ hs[k0] = f[c] + ht[k0] /\ k0 \in K /\ f[c] \in Int
          /\ SumFunctionOnSet(hs, K \ {k0}) = SumFunctionOnSet(ht, K \ {k0})
      BY <2>0, <3>1, <3>3, <3>4
    <3>6. SumFunctionOnSet(ht, K) = SumFunctionOnSet(f, t)
      BY <3>1
    <3>7. SumFunctionOnSet(f, s) = f[c] + SumFunctionOnSet(f, t)
      BY <2>2, <3>1, SumPick
    <3> HIDE DEF hs, ht, t, c, k0
    <3>8. /\ SumFunctionOnSet(hs, K) = hs[k0] + SumFunctionOnSet(hs, K \ {k0})
          /\ SumFunctionOnSet(ht, K) = ht[k0] + SumFunctionOnSet(ht, K \ {k0})
      BY <3>5, SumAny
    <3>9. SumFunctionOnSet(ht, K \ {k0}) \in Int
      BY <3>5, SumInt, FS_Subset
    <3>10. SumFunctionOnSet(hs, K) = SumFunctionOnSet(f, s)
      BY <3>5, <3>6, <3>7, <3>8, <3>9
    <3> QED
      BY <3>10 DEF hs
  <2> QED
    BY <2>1, <2>2
<1> HIDE DEF P
<1>2. S \in P
  BY <1>1, SubsetInduction
<1> QED
  BY <1>2 DEF P

(* A sum does not depend on the names of its terms: b renames them.        *)
LEMMA SumRenamed ==
    ASSUME NEW f, NEW S, IsFiniteSet(S), NEW g, NEW T, IsFiniteSet(T), NEW b,
           \A x \in S : b[x] \in T /\ f[x] = g[b[x]],
           \A y \in T : g[y] \in Int,
           \A y \in T : \E x \in S : b[x] = y,
           \A x, z \in S : b[x] = b[z] => x = z
    PROVE  SumFunctionOnSet(f, S) = SumFunctionOnSet(g, T)
<1> DEFINE h == [y \in T |-> SumFunctionOnSet(f, {x \in S : b[x] = y})]
<1>1. SumFunctionOnSet(h, T) = SumFunctionOnSet(f, S)
  BY SumByGroup
<1>2. ASSUME NEW y \in T
      PROVE  h[y] = g[y]
  <2>1. PICK x \in S : b[x] = y
    OBVIOUS
  <2>2. {z \in S : b[z] = y} = {x}
    BY <2>1
  <2>3. SumFunctionOnSet(f, {x}) = f[x]
    <3> DEFINE U == {x}
    <3>1. IsFiniteSet(U) /\ x \in U /\ U \ {x} = {}
      BY FS_Singleton
    <3>2. f[x] \in Int /\ \A z \in U : f[z] \in Int
      BY <2>1
    <3> HIDE DEF U
    <3>3. SumFunctionOnSet(f, U) = f[x] + SumFunctionOnSet(f, U \ {x})
      BY <3>1, <3>2, SumAny
    <3> DEFINE rest == U \ {x}
    <3>4. SumFunctionOnSet(f, rest) = 0
      BY <3>1, SumEmpty
    <3>5. SumFunctionOnSet(f, U) = f[x] + SumFunctionOnSet(f, rest)
      BY <3>3
    <3> HIDE DEF rest
    <3>6. SumFunctionOnSet(f, U) = f[x]
      BY <3>2, <3>4, <3>5
    <3> QED
      BY <3>6 DEF U
  <2>4. h[y] = SumFunctionOnSet(f, {x})
    BY <2>2
  <2> QED
    BY <2>1, <2>3, <2>4
<1> HIDE DEF h
<1> QED
  BY <1>1, <1>2, SumSame

-----------------------------------------------------------------------------
(* The matrix                                                              *)

Read == disk \ unread
Completed(manifests) == {m \in manifests : m.fate.status = "complete"}

(* One manifest of each condition, and no other manifest.                  *)
OneEach ==
    \A c \in Cells : \E m \in disk :
        m.cell = c /\ \A k \in disk : k.cell = c => k = m

Known ==
    \A m \in disk :
        /\ m.cell \in Cells
        /\ \/ m.fate.status = "invalid_harness"
           \/ m.fate.status = "complete" /\ m.fate.whole

Fitted ==
    \E m \in disk :
        /\ m.fate.status = "complete" /\ m.fate.timed
        /\ m.cell[1] \in Batching

(* What the loop has gathered of the manifests that it has read            *)
Gathered ==
    /\ observed = {m.cell : m \in Read}
    /\ \A m, k \in Read : m.cell = k.cell => m = k
    /\ \A m \in Read :
        \/ m.fate.status = "invalid_harness"
        \/ m.fate.status = "complete" /\ m.fate.whole
    /\ runs = Completed(Read)
    /\ excluded = {m.cell : m \in Read \ runs}

Report ==
    [rows |-> [x \in Modes \X Rates |-> Row(x[1], x[2])],
     effects |-> [x \in Comparisons \X Rates |->
                    Effect(x[1][1], x[1][2], x[2])]]

(* A refusal has its reason, in the matrix itself.                         *)
LoadInv ==
    /\ disk \in Disks /\ unread \subseteq disk
    /\ pc \in {"load", "write", "done", "failed"}
    /\ pc # "failed" => Gathered
    /\ pc \in {"write", "done"} => unread = {} /\ observed = Cells
    /\ pc = "done" => Fits /\ report = Report
    /\ pc = "failed" => ~(OneEach /\ Known /\ Fitted)

(* Nothing has been read at first, ...                                     *)
LEMMA LoadInit == Init => LoadInv
BY DEF Init, LoadInv, Gathered, Read, Completed

(* ... then one manifest after another, ...                                *)
LEMMA ReadStep ==
    ASSUME LoadInv, ReadManifest
    PROVE  LoadInv'
<1> DEFINE m == NextManifest
<1>1. /\ pc = "load" /\ m \in unread /\ unread' = unread \ {m}
      /\ UNCHANGED <<disk, report>>
  BY DEF ReadManifest, NextManifest
<1>2. Gathered /\ m \in disk /\ disk \in Disks /\ unread \subseteq disk
  BY <1>1 DEF LoadInv
<1>3. IF Refused(m)
      THEN pc' = "failed"
      ELSE /\ observed' = observed \cup {m.cell}
           /\ IF m.fate.status = "complete"
              THEN runs' = runs \cup {m} /\ excluded' = excluded
              ELSE excluded' = excluded \cup {m.cell} /\ runs' = runs
           /\ pc' = pc
  BY DEF ReadManifest
<1>4. Read' = Read \cup {m} /\ m \notin Read
  BY <1>1, <1>2 DEF Read
<1> HIDE DEF m
<1>5. CASE Refused(m)
  <2>1. CASE Duplicate(m)
    <3>1. PICK k \in Read : k.cell = m.cell
      BY <1>2, <2>1 DEF Duplicate, Gathered
    <3>2. k # m /\ k \in disk
      BY <1>4 DEF Read
    <3>3. ~OneEach \/ ~Known
      BY <1>2, <3>1, <3>2 DEF OneEach, Known
    <3> QED
      BY <1>1, <1>2, <1>3, <1>5, <3>3 DEF LoadInv, OneEach, Known, Fitted
  <2>2. CASE ~Duplicate(m)
    <3>1. ~Known
      BY <1>2, <1>5, <2>2 DEF Refused, Known
    <3> QED
      BY <1>1, <1>2, <1>3, <1>5, <3>1 DEF LoadInv, OneEach, Known, Fitted
  <2> QED
    BY <2>1, <2>2
<1>6. CASE ~Refused(m)
  <2>1. /\ m.cell \notin observed
        /\ m.fate.status \in {"complete", "invalid_harness"}
        /\ m.fate.status = "complete" => m.fate.whole
    BY <1>6 DEF Refused, Duplicate
  <2>2. Gathered'
    <3>1. observed' = {k.cell : k \in Read'}
      BY <1>2, <1>3, <1>4, <1>6 DEF Gathered
    <3>2. \A k, j \in Read' : k.cell = j.cell => k = j
      BY <1>2, <1>4, <2>1 DEF Gathered
    <3>3. \A k \in Read' :
              \/ k.fate.status = "invalid_harness"
              \/ k.fate.status = "complete" /\ k.fate.whole
      BY <1>2, <1>4, <2>1 DEF Gathered
    <3>4. runs' = Completed(Read')
      BY <1>2, <1>3, <1>4, <1>6 DEF Gathered, Completed
    <3>5. excluded' = {k.cell : k \in Read' \ runs'}
      <4>1. runs \subseteq Read
        BY <1>2 DEF Gathered, Completed
      <4>2. CASE m.fate.status = "complete"
        <5>1. Read' \ runs' = Read \ runs
          BY <1>3, <1>4, <1>6, <4>2
        <5> QED
          BY <1>2, <1>3, <1>6, <4>2, <5>1 DEF Gathered
      <4>3. CASE m.fate.status # "complete"
        <5>1. Read' \ runs' = (Read \ runs) \cup {m}
          BY <1>3, <1>4, <1>6, <4>1, <4>3
        <5> QED
          BY <1>2, <1>3, <1>6, <4>3, <5>1 DEF Gathered
      <4> QED
        BY <4>2, <4>3
    <3> QED
      BY <3>1, <3>2, <3>3, <3>4, <3>5 DEF Gathered
  <2> QED
    BY <1>1, <1>2, <1>3, <1>6, <2>2 DEF LoadInv
<1> QED
  BY <1>5, <1>6

(* ... and the conditions that were seen are those of the matrix, or it is *)
(* not whole.                                                              *)
LEMMA CheckStep ==
    ASSUME LoadInv, CheckMatrix
    PROVE  LoadInv'
<1>1. /\ pc = "load" /\ unread = {} /\ Gathered /\ Read = disk
      /\ UNCHANGED <<disk, unread, observed, runs, excluded, report>>
      /\ pc' = IF observed = Cells THEN "write" ELSE "failed"
  BY DEF LoadInv, CheckMatrix, Complete, Read
<1>2. Gathered'
  BY <1>1 DEF Gathered, Read, Completed
<1>3. CASE observed = Cells
  BY <1>1, <1>2, <1>3 DEF LoadInv
<1>4. CASE observed # Cells
  <2>1. observed = {m.cell : m \in disk}
    BY <1>1 DEF Gathered
  <2>2. ~OneEach \/ ~Known
    BY <1>4, <2>1 DEF OneEach, Known
  <2> QED
    BY <1>1, <1>4, <2>2 DEF LoadInv, OneEach, Known, Fitted
<1> QED
  BY <1>3, <1>4

(* What is written is of the runs that were read.                          *)
LEMMA WriteStep ==
    ASSUME LoadInv, Write
    PROVE  LoadInv'
<1>1. /\ pc = "write" /\ unread = {} /\ observed = Cells /\ Gathered
      /\ Read = disk /\ disk \in Disks
      /\ UNCHANGED <<disk, unread, observed, runs, excluded>>
  BY DEF LoadInv, Write, Read
<1>2. Gathered'
  BY <1>1 DEF Gathered, Read, Completed
<1>3. CASE Fits
  <2>1. pc' = "done" /\ report' = Report
    BY <1>3 DEF Write, Report
  <2>2. Fits' /\ Report' = Report
    BY <1>1, <1>3 DEF Fits, Report, Row, Effect, Pairs, RunOf, Measured
  <2> QED
    BY <1>1, <1>2, <2>1, <2>2 DEF LoadInv
<1>4. CASE ~Fits
  <2>1. pc' = "failed"
    BY <1>4 DEF Write
  <2>2. ~Fitted
    BY <1>1, <1>4 DEF Fits, Fitted, Gathered, Completed
  <2> QED
    BY <1>1, <2>1, <2>2 DEF LoadInv, OneEach, Known, Fitted
<1> QED
  BY <1>3, <1>4

LEMMA LoadStep == LoadInv /\ [Next]_vars => LoadInv'
<1> SUFFICES ASSUME LoadInv, UNCHANGED vars
             PROVE  LoadInv'
  BY ReadStep, CheckStep, WriteStep DEF Next
<1>1. UNCHANGED <<disk, unread, observed, runs, excluded, pc, report>>
  BY DEF vars
<1>2. Gathered' = Gathered /\ Fits' = Fits /\ Report' = Report
  BY <1>1 DEF Gathered, Read, Completed, Fits, Report, Row, Effect, Pairs,
              RunOf, Measured
<1>3. /\ OneEach' = OneEach /\ Known' = Known /\ Fitted' = Fitted
  BY <1>1 DEF OneEach, Known, Fitted
<1> QED
  BY <1>1, <1>2, <1>3 DEF LoadInv

LEMMA LoadInvariant == Spec => []LoadInv
BY LoadInit, LoadStep, PTL DEF Spec

(* A report is written exactly when the matrix is whole: every condition   *)
(* has one terminal manifest, nothing else lies beneath the input, and one *)
(* batching run was timed (load_terminal_matrix, occupancy_fit_summary).   *)
THEOREM WholeOrRefused == Spec => []WholeMatrixOnly
<1>1. LoadInv => WholeMatrixOnly
  <2> SUFFICES ASSUME LoadInv, pc \in {"done", "failed"}
               PROVE  pc = "done" <=>
                          /\ \A c \in Cells :
                                Cardinality({m \in disk : m.cell = c}) = 1
                          /\ Known /\ Fitted
    BY DEF WholeMatrixOnly, Written, Known, Fitted
  <2>1. ASSUME NEW c \in Cells
        PROVE  Cardinality({m \in disk : m.cell = c}) = 1 <=>
                   \E m \in disk :
                       m.cell = c /\ \A k \in disk : k.cell = c => k = m
    <3> DEFINE S == {m \in disk : m.cell = c}
    <3>1. IsFiniteSet(S)
      BY AnalysisAssumption, FS_Subset DEF LoadInv
    <3>2. Cardinality(S) = 1 <=> \E x : S = {x}
      BY <3>1, FS_Singleton
    <3>3. (\E x : S = {x}) <=>
              \E m \in disk :
                  m.cell = c /\ \A k \in disk : k.cell = c => k = m
      OBVIOUS
    <3> QED
      BY <3>2, <3>3
  <2>2. pc = "done" => OneEach /\ Known /\ Fitted
    <3> SUFFICES ASSUME pc = "done"
                 PROVE  OneEach /\ Known /\ Fitted
      OBVIOUS
    <3>1. Gathered /\ Read = disk /\ observed = Cells /\ Fits
      BY DEF LoadInv, Read
    <3>2. OneEach
      BY <3>1 DEF Gathered, OneEach
    <3>3. Known
      BY <3>1 DEF Gathered, Known
    <3>4. Fitted
      BY <3>1 DEF Gathered, Fits, Fitted, Completed
    <3> QED
      BY <3>2, <3>3, <3>4
  <2> QED
    BY <2>1, <2>2 DEF LoadInv, OneEach
<1> QED
  BY <1>1, LoadInvariant, PTL

-----------------------------------------------------------------------------
(* The report                                                              *)

(* The completed runs that have a value, and those of one row              *)
Valued == Measured(runs)
InRow(mode, rate) == {r \in Valued : r.cell[1] = mode /\ r.cell[2] = rate}

Metric == [r \in Valued |-> r.fate.metric]
Ones == [r \in Valued |-> 1]
RowOf == [r \in Valued |-> <<r.cell[1], r.cell[2]>>]

(* What a report is made from                                              *)
Sources ==
    /\ IsFiniteSet(Valued) /\ Gathered /\ Read = disk
    /\ \A r \in Valued : r.cell \in Cells /\ Metric[r] \in Int
    /\ \A r, s \in Valued : r.cell = s.cell => r = s
    /\ report = Report

(* Once it is written, it is made from that.                               *)
LEMMA SourcesWhole ==
    ASSUME LoadInv, pc = "done"
    PROVE  Sources
<1>1. /\ Gathered /\ Read = disk /\ observed = Cells /\ disk \in Disks
      /\ report = Report /\ runs \subseteq disk
  BY DEF LoadInv, Read, Gathered, Completed
<1>2. IsFiniteSet(Valued)
  BY <1>1, AnalysisAssumption, FS_Subset DEF Valued, Measured
<1>3. \A r \in Valued : r.cell \in Cells /\ Metric[r] \in Int
  BY <1>1, AnalysisAssumption DEF Valued, Measured, Metric, Gathered
<1>4. \A r, s \in Valued : r.cell = s.cell => r = s
  BY <1>1 DEF Gathered, Valued, Measured
<1> QED
  BY <1>1, <1>2, <1>3, <1>4 DEF Sources

(* A sum over a function is one over its domain.                           *)
LEMMA SumOverDomain ==
    ASSUME NEW f
    PROVE  SumFunction(f) = SumFunctionOnSet(f, DOMAIN f)
BY DEF SumFunction

(* A row counts and adds the runs in it.                                   *)
LEMMA RowIs ==
    ASSUME Sources, NEW mode \in Modes, NEW rate \in Rates
    PROVE  /\ Row(mode, rate).n = SumFunctionOnSet(Ones, InRow(mode, rate))
           /\ Row(mode, rate).sum
                = SumFunctionOnSet(Metric, InRow(mode, rate))
<1> DEFINE S == InRow(mode, rate)
           f == [r \in S |-> r.fate.metric]
<1>1. Measured({r \in runs : r.cell[1] = mode /\ r.cell[2] = rate}) = S
  BY DEF InRow, Valued, Measured
<1>2. IsFiniteSet(S) /\ S \subseteq Valued
  BY FS_Subset DEF InRow, Sources
<1>3. Row(mode, rate) = Stat(f)
  BY <1>1 DEF Row
<1>4. DOMAIN f = S /\ \A r \in S : f[r] = Metric[r]
  BY <1>2 DEF Metric
<1> HIDE DEF f, S
<1>5. Row(mode, rate).n = Cardinality(S)
      /\ Row(mode, rate).sum = SumFunctionOnSet(f, S)
  BY <1>3, <1>4, SumOverDomain DEF Stat
<1>6. SumFunctionOnSet(f, S) = SumFunctionOnSet(Metric, S)
  BY <1>2, <1>4, SumSame
<1>7. SumFunctionOnSet(Ones, S) = Cardinality(S)
  BY <1>2, SumOfOnes DEF Ones
<1> QED
  BY <1>5, <1>6, <1>7 DEF S

(* The sum of all rows is the sum of all runs.                             *)
LEMMA RowsAddUp ==
    ASSUME Sources, NEW f, \A r \in Valued : f[r] \in Int,
           NEW h, DOMAIN h = Modes \X Rates,
           \A x \in Modes \X Rates :
               h[x] = SumFunctionOnSet(f, InRow(x[1], x[2]))
    PROVE  SumFunction(h) = SumFunctionOnSet(f, Valued)
<1> DEFINE K == Modes \X Rates
           g == [k \in K |->
                    SumFunctionOnSet(f, {r \in Valued : RowOf[r] = k})]
<1>1. IsFiniteSet(K) /\ IsFiniteSet(Valued)
  BY AnalysisAssumption, FS_Product DEF Sources
<1>2. \A r \in Valued : RowOf[r] \in K
  BY DEF Sources, RowOf, Cells
<1>3. SumFunctionOnSet(g, K) = SumFunctionOnSet(f, Valued)
  <2> HIDE DEF K
  <2> QED
    BY <1>1, <1>2, SumByGroup
<1>4. ASSUME NEW x \in K
      PROVE  h[x] = g[x]
  <2>1. {r \in Valued : RowOf[r] = x} = InRow(x[1], x[2])
    BY DEF InRow, RowOf
  <2> QED
    BY <2>1
<1>5. SumFunction(h) = SumFunctionOnSet(h, K)
  BY SumOverDomain
<1> HIDE DEF g, K
<1>6. SumFunctionOnSet(h, K) = SumFunctionOnSet(g, K)
  BY <1>1, <1>4, SumSame
<1> QED
  BY <1>3, <1>5, <1>6

(* Therefore every run weighs once.                                        *)
LEMMA WeighOnce ==
    ASSUME Sources
    PROVE  RunsWeighOnce
<1> DEFINE good == Measured({m \in disk : m.fate.status = "complete"})
           ns == [x \in Modes \X Rates |-> report.rows[x].n]
           sums == [x \in Modes \X Rates |-> report.rows[x].sum]
<1>1. good = Valued
  BY DEF Sources, Gathered, Completed, Valued
<1>2. ASSUME NEW x \in Modes \X Rates
      PROVE  /\ ns[x] = SumFunctionOnSet(Ones, InRow(x[1], x[2]))
             /\ sums[x] = SumFunctionOnSet(Metric, InRow(x[1], x[2]))
  <2>1. report.rows[x] = Row(x[1], x[2])
    BY DEF Sources, Report
  <2> QED
    BY <2>1, RowIs
<1>3. /\ DOMAIN ns = Modes \X Rates /\ DOMAIN sums = Modes \X Rates
      /\ \A r \in Valued : Ones[r] \in Int /\ Metric[r] \in Int
      /\ IsFiniteSet(Valued)
  BY DEF Ones, Sources
<1>4. [m \in good |-> m.fate.metric] = Metric /\ DOMAIN Metric = Valued
  BY <1>1 DEF Metric
<1>5. excluded = {m.cell : m \in disk} \ {m.cell : m \in runs}
  BY DEF Sources, Gathered, Completed
<1> HIDE DEF ns, sums, good
<1>6. SumFunction(ns) = SumFunctionOnSet(Ones, Valued)
  BY <1>2, <1>3, RowsAddUp
<1>7. SumFunction(sums) = SumFunctionOnSet(Metric, Valued)
  BY <1>2, <1>3, RowsAddUp
<1>8. SumFunctionOnSet(Ones, Valued) = Cardinality(good)
  BY <1>1, <1>3, SumOfOnes DEF Ones
<1>9. SumFunction(Metric) = SumFunctionOnSet(Metric, Valued)
  BY <1>4, SumOverDomain
<1> QED
  BY <1>4, <1>5, <1>6, <1>7, <1>8, <1>9 DEF RunsWeighOnce, ns, sums, good

-----------------------------------------------------------------------------
(* The repetitions of a row                                                *)
Repeated(mode, rate) == {i \in Repetitions : RunOf(mode, rate, i) # {}}

(* A pair is of two runs of one repetition, ...                            *)
LEMMA PairIs ==
    ASSUME Sources, NEW t \in Modes, NEW b \in Modes, NEW q \in Rates
    PROVE  /\ IsFiniteSet(Pairs(t, b, q))
           /\ \A p \in Pairs(t, b, q) :
                /\ p = <<p[1], p[2]>>
                /\ p[1] \in InRow(t, q) /\ p[2] \in InRow(b, q)
                /\ p[1].cell[3] \in Repetitions
                /\ p[1].cell = <<t, q, p[1].cell[3]>>
                /\ p[2].cell = <<b, q, p[1].cell[3]>>
           /\ \A r \in InRow(t, q), s \in InRow(b, q) :
                r.cell[3] = s.cell[3] => <<r, s>> \in Pairs(t, b, q)
<1>1. \A mode, i : \A r \in RunOf(mode, q, i) :
          r \in Valued /\ r.cell = <<mode, q, i>>
  BY DEF RunOf, Valued
<1>2. ASSUME NEW p \in Pairs(t, b, q)
      PROVE  /\ p = <<p[1], p[2]>>
             /\ p[1] \in InRow(t, q) /\ p[2] \in InRow(b, q)
             /\ p[1].cell[3] \in Repetitions
             /\ p[1].cell = <<t, q, p[1].cell[3]>>
             /\ p[2].cell = <<b, q, p[1].cell[3]>>
  <2>1. PICK i \in Repetitions : p \in RunOf(t, q, i) \X RunOf(b, q, i)
    BY DEF Pairs
  <2>2. /\ p = <<p[1], p[2]>> /\ p[1] \in RunOf(t, q, i)
        /\ p[2] \in RunOf(b, q, i)
    BY <2>1
  <2>3. /\ p[1] \in Valued /\ p[1].cell = <<t, q, i>>
        /\ p[2] \in Valued /\ p[2].cell = <<b, q, i>>
    BY <1>1, <2>2
  <2> QED
    BY <2>2, <2>3 DEF InRow
<1>3. IsFiniteSet(Pairs(t, b, q))
  <2>1. Pairs(t, b, q) \subseteq Valued \X Valued
    <3>1. \A p \in Pairs(t, b, q) : p \in Valued \X Valued
      <4>1. \A p \in Pairs(t, b, q) :
                p = <<p[1], p[2]>> /\ p[1] \in Valued /\ p[2] \in Valued
        BY <1>2 DEF InRow
      <4> QED
        BY <4>1
    <3> QED
      BY <3>1
  <2> QED
    BY <2>1, FS_Product, FS_Subset DEF Sources
<1>4. ASSUME NEW r \in InRow(t, q), NEW s \in InRow(b, q),
             r.cell[3] = s.cell[3]
      PROVE  <<r, s>> \in Pairs(t, b, q)
  <2> DEFINE i == r.cell[3]
  <2>1. r.cell \in Cells /\ s.cell \in Cells
    BY DEF InRow, Sources
  <2>2. i \in Repetitions /\ r.cell = <<t, q, i>> /\ s.cell = <<b, q, i>>
    BY <1>4, <2>1 DEF InRow, Cells
  <2> HIDE DEF i
  <2>3. r \in RunOf(t, q, i) /\ s \in RunOf(b, q, i)
    BY <2>2 DEF InRow, Valued, RunOf
  <2> QED
    BY <2>2, <2>3 DEF Pairs
<1> QED
  BY <1>2, <1>3, <1>4

(* ... and there is one for each repetition that both rows have.           *)
LEMMA PairsCount ==
    ASSUME Sources, NEW t \in Modes, NEW b \in Modes, NEW q \in Rates
    PROVE  Cardinality(Pairs(t, b, q))
               = Cardinality(Repeated(t, q) \cap Repeated(b, q))
<1> DEFINE S == Pairs(t, b, q)
           T == Repeated(t, q) \cap Repeated(b, q)
           f == [p \in S |-> p[1].cell[3]]
<1>1. ASSUME NEW p \in S
      PROVE  f[p] \in T
  <2> DEFINE i == p[1].cell[3]
  <2>1. /\ p[1] \in InRow(t, q) /\ p[2] \in InRow(b, q) /\ i \in Repetitions
        /\ p[1].cell = <<t, q, i>> /\ p[2].cell = <<b, q, i>>
    BY PairIs
  <2> HIDE DEF i
  <2>2. p[1] \in RunOf(t, q, i) /\ p[2] \in RunOf(b, q, i)
    BY <2>1 DEF InRow, Valued, RunOf
  <2>3. i \in T
    BY <2>1, <2>2 DEF Repeated
  <2> QED
    BY <2>3 DEF i
<1>2. ASSUME NEW p \in S, NEW o \in S, f[p] = f[o]
      PROVE  p = o
  <2>1. /\ p[1].cell = o[1].cell /\ p[2].cell = o[2].cell
        /\ p[1] \in Valued /\ o[1] \in Valued /\ p[2] \in Valued
        /\ o[2] \in Valued /\ p = <<p[1], p[2]>> /\ o = <<o[1], o[2]>>
    <3>1. p[1].cell[3] = o[1].cell[3]
      BY <1>2
    <3> QED
      BY <3>1, PairIs DEF InRow
  <2>2. p[1] = o[1] /\ p[2] = o[2]
    BY <2>1 DEF Sources
  <2> QED
    BY <2>1, <2>2
<1>3. ASSUME NEW i \in T
      PROVE  \E p \in S : f[p] = i
  <2>1. PICK r \in RunOf(t, q, i) : TRUE
    BY DEF Repeated
  <2>2. PICK s \in RunOf(b, q, i) : TRUE
    BY DEF Repeated
  <2>3. r \in InRow(t, q) /\ s \in InRow(b, q)
        /\ r.cell[3] = i /\ s.cell[3] = i
    BY <2>1, <2>2 DEF RunOf, InRow, Valued
  <2>4. <<r, s>> \in S
    BY <2>3, PairIs
  <2> QED
    BY <2>3, <2>4
<1>4. f \in Bijection(S, T)
  <2>1. f \in [S -> T]
    BY <1>1
  <2> HIDE DEF f, S, T
  <2> QED
    BY <1>2, <1>3, <2>1 DEF Bijection, Injection, Surjection, IsInjective
<1>5. IsFiniteSet(S)
  BY PairIs
<1> HIDE DEF S, T
<1> QED
  BY <1>4, <1>5, FS_Bijection DEF ExistsBijection, S, T

(* The terms of one side of the pairs are those of its row, if the other   *)
(* side has the same repetitions.                                          *)
LEMMA SideAddsUp ==
    ASSUME Sources, NEW t \in Modes, NEW b \in Modes, NEW q \in Rates,
           Repeated(t, q) = Repeated(b, q), NEW side \in {1, 2},
           NEW mode, mode = (IF side = 1 THEN t ELSE b),
           NEW f, \A p \in Pairs(t, b, q) : f[p] = Metric[p[side]]
    PROVE  SumFunctionOnSet(f, Pairs(t, b, q))
               = SumFunctionOnSet(Metric, InRow(mode, q))
<1> DEFINE S == Pairs(t, b, q)
           T == InRow(mode, q)
           g == [p \in S |-> p[side]]
<1>1. IsFiniteSet(S) /\ IsFiniteSet(T) /\ \A r \in T : Metric[r] \in Int
  BY PairIs, FS_Subset DEF Sources, InRow
<1>2. \A p \in S : g[p] \in T /\ f[p] = Metric[g[p]]
  BY PairIs
<1>3. ASSUME NEW r \in T
      PROVE  \E p \in S : g[p] = r
  <2> DEFINE i == r.cell[3]
  <2>1. r \in Valued /\ r.cell \in Cells /\ mode \in Modes
    BY DEF InRow, Sources
  <2>2. i \in Repetitions /\ r \in RunOf(mode, q, i)
    BY <2>1 DEF InRow, Cells, RunOf, Valued
  <2>3. i \in Repeated(t, q) /\ i \in Repeated(b, q)
    BY <2>2 DEF Repeated
  <2>4. PICK s \in RunOf(t, q, i) : TRUE
    BY <2>3 DEF Repeated
  <2>5. PICK o \in RunOf(b, q, i) : TRUE
    BY <2>3 DEF Repeated
  <2>6. /\ s \in InRow(t, q) /\ o \in InRow(b, q)
        /\ s.cell[3] = i /\ o.cell[3] = i
    BY <2>4, <2>5 DEF RunOf, InRow, Valued
  <2>7. <<s, o>> \in S
    BY <2>6, PairIs
  <2>8. (IF side = 1 THEN s ELSE o) = r
    BY <2>1, <2>2, <2>4, <2>5 DEF RunOf, Valued, Sources
  <2> QED
    BY <2>7, <2>8
<1>4. ASSUME NEW p \in S, NEW o \in S, g[p] = g[o]
      PROVE  p = o
  <2>1. /\ p[1].cell = <<t, q, p[1].cell[3]>>
        /\ p[2].cell = <<b, q, p[1].cell[3]>>
        /\ o[1].cell = <<t, q, o[1].cell[3]>>
        /\ o[2].cell = <<b, q, o[1].cell[3]>>
        /\ p = <<p[1], p[2]>> /\ o = <<o[1], o[2]>>
        /\ p[1] \in Valued /\ o[1] \in Valued /\ p[2] \in Valued
        /\ o[2] \in Valued
    BY PairIs DEF InRow
  <2>2. p[1].cell[3] = o[1].cell[3]
    BY <1>4, <2>1
  <2>3. p[1] = o[1] /\ p[2] = o[2]
    BY <2>1, <2>2 DEF Sources
  <2> QED
    BY <2>1, <2>3
<1> HIDE DEF g, S, T
<1> QED
  BY <1>1, <1>2, <1>3, <1>4, SumRenamed DEF S, T

(* Therefore an effect compares like with like.                            *)
LEMMA Paired ==
    ASSUME Sources
    PROVE  EffectsArePaired
<1> SUFFICES ASSUME NEW c \in Comparisons, NEW q \in Rates
             PROVE  LET x == report.rows[<<c[1], q>>]
                        y == report.rows[<<c[2], q>>]
                        e == report.effects[<<c, q>>]
                    IN /\ e.absolute.n = Cardinality(
                            Repeated(c[1], q) \cap Repeated(c[2], q))
                       /\ e.relative <= e.absolute.n
                       /\ Repeated(c[1], q) = Repeated(c[2], q) =>
                            e.absolute.sum = x.sum - y.sum
  BY DEF EffectsArePaired, Repeated
<1> DEFINE t == c[1]
           b == c[2]
           S == Pairs(t, b, q)
           d == [p \in S |-> p[1].fate.metric - p[2].fate.metric]
           f == [p \in S |-> Metric[p[1]]]
           g == [p \in S |-> Metric[p[2]]]
<1>1. c \in Modes \X Modes
  BY AnalysisAssumption
<1>2. t \in Modes /\ b \in Modes
  BY <1>1
<1>3. /\ report.rows[<<t, q>>] = Row(t, q)
      /\ report.rows[<<b, q>>] = Row(b, q)
      /\ report.effects[<<c, q>>] = Effect(t, b, q)
  BY <1>2 DEF Sources, Report
<1>4. /\ Effect(t, b, q).absolute = Stat(d)
      /\ Effect(t, b, q).relative
            = Cardinality({p \in S : p[2].fate.metric # 0})
  BY DEF Effect
<1>5. DOMAIN d = S /\ IsFiniteSet(S)
      /\ \A p \in S : /\ f[p] \in Int /\ g[p] \in Int
                      /\ d[p] = f[p] - g[p]
  <2>1. \A p \in S : p[1] \in Valued /\ p[2] \in Valued
    BY <1>2, PairIs DEF InRow
  <2>2. \A r \in Valued : Metric[r] = r.fate.metric /\ Metric[r] \in Int
    BY DEF Metric, Sources
  <2> QED
    BY <1>2, <2>1, <2>2, PairIs
<1>6. \A p \in S : f[p] = Metric[p[1]] /\ g[p] = Metric[p[2]]
  OBVIOUS
<1> HIDE DEF d, f, g
<1>7. Stat(d).n = Cardinality(S) /\ Stat(d).sum = SumFunctionOnSet(d, S)
  BY <1>5, SumOverDomain DEF Stat
<1>8. Cardinality(S) = Cardinality(Repeated(t, q) \cap Repeated(b, q))
  BY <1>2, PairsCount
<1>9. Cardinality({p \in S : p[2].fate.metric # 0}) <= Cardinality(S)
  <2> HIDE DEF S
  <2> QED
    BY <1>5, FS_Subset
<1>10. ASSUME Repeated(t, q) = Repeated(b, q)
       PROVE  Stat(d).sum = Row(t, q).sum - Row(b, q).sum
  <2>1. SumFunctionOnSet(d, S)
            = SumFunctionOnSet(f, S) - SumFunctionOnSet(g, S)
    <3> HIDE DEF S
    <3> QED
      BY <1>5, SumMinus
  <2>2. SumFunctionOnSet(f, S) = SumFunctionOnSet(Metric, InRow(t, q))
    BY <1>2, <1>6, <1>10, SideAddsUp
  <2>3. SumFunctionOnSet(g, S) = SumFunctionOnSet(Metric, InRow(b, q))
    BY <1>2, <1>6, <1>10, SideAddsUp
  <2> QED
    BY <1>2, <1>7, <2>1, <2>2, <2>3, RowIs
<1> HIDE DEF t, b, S
<1> QED
  BY <1>3, <1>4, <1>7, <1>8, <1>9, <1>10 DEF t, b

(* Every completed run with a value weighs once, in one row, and an effect *)
(* is the difference of its rows whenever they have the same repetitions   *)
(* (aggregate_runs, paired_effects).                                       *)
THEOREM ResultsAreFair == Spec => []FairResults
<1>1. LoadInv => FairResults
  <2>1. CASE pc = "done"
    BY <2>1, SourcesWhole, WeighOnce, Paired DEF FairResults
  <2>2. CASE pc # "done"
    BY <2>2 DEF FairResults, RunsWeighOnce, EffectsArePaired, Written
  <2> QED
    BY <2>1, <2>2
<1> QED
  BY <1>1, LoadInvariant, PTL

-----------------------------------------------------------------------------
(* The backend calls                                                       *)

(* The instance counts and adds as this module does.                       *)
LEMMA SameCardinality == \A S : Records!Cardinality(S) = Cardinality(S)
BY DEF Records!Cardinality, Cardinality

LEMMA SameSum == \A f : Records!SumFunction(f) = SumFunction(f)
BY DEF Records!SumFunction, SumFunction, Records!SumFunctionOnSet,
       SumFunctionOnSet, Records!FoldFunctionOnSet, FoldFunctionOnSet,
       Records!MapThenFoldSet, MapThenFoldSet

truth == <<batched, callOf, broken, lost>>

(* The calls that were made, and what became of them                       *)
Truth ==
    /\ batched \in BOOLEAN
    /\ callOf \in [Requests -> Calls \cup {None}]
    /\ broken \subseteq Calls
    /\ lost \subseteq {r \in Requests :
                          callOf[r] # None /\ callOf[r] \notin broken}
    /\ ~batched => \A q, r \in Requests :
                       callOf[q] # None /\ callOf[q] = callOf[r] => q = r

KeyOf(r) == Records!Key(Records!RecordOf(r))
SizeOf(r) == Records!Size(Records!RecordOf(r))

(* The file has a record of each request at most, ...                      *)
Lines ==
    /\ file \in Seq({Records!RecordOf(r) : r \in Requests})
    /\ \A j, k \in 1..Len(file) : file[j].index = file[k].index => j = k
    /\ verdict # "running" =>
        \A r \in Requests : \E k \in 1..Len(file) : file[k].index = r

(* ... of which these have been read, ...                                  *)
Seen == {file[k].index : k \in 1..(next - 1)}

Sharing(r) == {q \in Seen : KeyOf(q) = KeyOf(r)}

(* ... and the groups have what was said in them.                          *)
Grouped ==
    /\ next \in 1..(Len(file) + 1)
    /\ DOMAIN groups = {KeyOf(r) : r \in Seen}
    /\ \A r \in Seen :
        groups[KeyOf(r)] = [size |-> SizeOf(r),
                            count |-> Cardinality(Sharing(r)),
                            ms |-> Records!RecordOf(r).ms]

Judged ==
    /\ verdict \in {"running", "reading", "accepted", "incomplete"}
    /\ verdict = "running" => next = 1
    /\ verdict \in {"accepted", "incomplete"} => next = Len(file) + 1
    /\ verdict = "accepted" => \A k \in DOMAIN groups : Records!Whole(k)
    /\ verdict = "incomplete" => \E k \in DOMAIN groups : ~Records!Whole(k)

CallsInv == Truth /\ Lines /\ Grouped /\ Judged

(* No record at first                                                      *)
LEMMA CallsInit == Records!Init => CallsInv
<1> SUFFICES ASSUME Records!Init
             PROVE  CallsInv
  OBVIOUS
<1>1. Truth
  <2>1. /\ batched \in BOOLEAN /\ callOf \in [Requests -> Calls \cup {None}]
        /\ broken \subseteq Calls
        /\ lost \subseteq {r \in Requests :
                              callOf[r] # None /\ callOf[r] \notin broken}
    BY DEF Records!Init, Records!Made
  <2>2. ASSUME ~batched, NEW q \in Requests, NEW r \in Requests,
               callOf[q] # None, callOf[q] = callOf[r]
        PROVE  q = r
    <3> DEFINE S == Records!Members(callOf[q])
    <3>1. callOf[q] \in Calls
      BY <2>1, <2>2
    <3>2. Cardinality(S) <= 1
      BY <2>2, <3>1, SameCardinality DEF Records!Init
    <3>3. S \subseteq Requests /\ IsFiniteSet(S) /\ q \in S /\ r \in S
      BY <2>2, CallsAssumption, FS_Subset DEF Records!Members
    <3> HIDE DEF S
    <3>4. Cardinality(S) \in Nat /\ Cardinality(S) # 0
      BY <3>3, FS_CardinalityType, FS_EmptySet
    <3>5. Cardinality(S) = 1
      BY <3>2, <3>4
    <3>6. PICK x : S = {x}
      BY <3>3, <3>5, FS_Singleton
    <3> QED
      BY <3>3, <3>6
  <2> QED
    BY <2>1, <2>2 DEF Truth
<1>2. file = <<>> /\ next = 1 /\ groups = <<>> /\ verdict = "running"
  BY DEF Records!Init
<1>3. Seen = {} /\ DOMAIN groups = {}
  BY <1>2 DEF Seen
<1>4. Lines /\ Grouped /\ Judged
  BY <1>2, <1>3 DEF Lines, Grouped, Judged
<1> QED
  BY <1>1, <1>4 DEF CallsInv

(* The truth does not change, nor what a record says of it.                *)
LEMMA TruthStays ==
    ASSUME UNCHANGED truth
    PROVE  /\ Truth' = Truth
           /\ \A r : /\ Records!RecordOf(r)' = Records!RecordOf(r)
                     /\ KeyOf(r)' = KeyOf(r) /\ SizeOf(r)' = SizeOf(r)
BY DEF truth, Truth, KeyOf, SizeOf, Records!RecordOf, Records!Failed,
       Records!Members, Records!Key, Records!Size, Records!Duration

(* What the record of an answered request says                             *)
LEMMA RecordSays ==
    ASSUME Truth, NEW r \in Requests
    PROVE  /\ Records!RecordOf(r).index = r
           /\ Records!Failed(r) =>
                KeyOf(r) = <<"request", r>> /\ SizeOf(r) = 1
           /\ ~Records!Failed(r) =>
                /\ callOf[r] \in Calls
                /\ Records!RecordOf(r).ms = callOf[r]
                /\ SizeOf(r) = Cardinality(Records!Members(callOf[r]))
                /\ batched => KeyOf(r) = <<"batch", callOf[r]>>
                /\ ~batched => KeyOf(r) = <<"request", r>>
           /\ SizeOf(r) \in Nat
<1>1. CASE Records!Failed(r)
  BY <1>1 DEF KeyOf, SizeOf, Records!RecordOf, Records!Key, Records!Size
<1>2. CASE ~Records!Failed(r)
  <2> DEFINE c == callOf[r]
             n == Cardinality(Records!Members(c))
  <2>1. c \in Calls /\ c # None
    BY <1>2, CallsAssumption DEF Truth, Records!Failed
  <2>2. n \in Nat /\ n # None
    BY CallsAssumption, AnalysisAssumption, FS_Subset, FS_CardinalityType
       DEF Records!Members
  <2>3. Records!RecordOf(r) =
            [index |-> r, batch |-> IF batched THEN c ELSE None,
             size |-> n, ms |-> c]
    BY <1>2, SameCardinality DEF Records!RecordOf, Records!Duration
  <2> HIDE DEF c, n
  <2>4. /\ Records!RecordOf(r).index = r /\ Records!RecordOf(r).ms = c
        /\ SizeOf(r) = n
        /\ batched => KeyOf(r) = <<"batch", c>>
        /\ ~batched => KeyOf(r) = <<"request", r>>
    BY <2>1, <2>2, <2>3 DEF KeyOf, SizeOf, Records!Key, Records!Size
  <2> QED
    BY <1>2, <2>1, <2>2, <2>4 DEF c, n
<1> QED
  BY <1>1, <1>2

(* One key means one request, or one call that was answered.               *)
LEMMA SameKey ==
    ASSUME Truth, NEW q \in Requests, NEW r \in Requests, KeyOf(q) = KeyOf(r)
    PROVE  \/ q = r
           \/ /\ ~Records!Failed(q) /\ ~Records!Failed(r) /\ batched
              /\ callOf[q] = callOf[r]
BY RecordSays

(* One more line in the file                                               *)
LEMMA RecordCallStep ==
    ASSUME CallsInv, NEW r \in Requests, Records!Record(r)
    PROVE  CallsInv'
<1> DEFINE S == {Records!RecordOf(q) : q \in Requests}
<1>1. /\ verdict = "running" /\ UNCHANGED <<next, groups, verdict>>
      /\ UNCHANGED truth
      /\ file' = Append(file, Records!RecordOf(r))
      /\ \A k \in DOMAIN file : file[k].index # r
  BY DEF Records!Record, truth
<1>2. Truth' /\ Truth /\ file \in Seq(S) /\ Records!RecordOf(r).index = r
  BY <1>1, TruthStays, RecordSays DEF CallsInv, Lines
<1>3. /\ file' \in Seq(S) /\ Len(file') = Len(file) + 1 /\ Len(file) \in Nat
      /\ file'[Len(file) + 1] = Records!RecordOf(r)
      /\ \A k \in 1..Len(file) : file'[k] = file[k]
      /\ DOMAIN file = 1..Len(file)
  <2>1. Records!RecordOf(r) \in S
    OBVIOUS
  <2> HIDE DEF S
  <2> QED
    BY <1>1, <1>2, <2>1, AppendProperties
<1>4. S' = S
  BY <1>1, TruthStays
<1>5. \A j, k \in 1..Len(file') : file'[j].index = file'[k].index => j = k
  <2>1. \A k \in 1..Len(file) : file'[k].index # r
    BY <1>1, <1>3
  <2>2. file'[Len(file) + 1].index = r
    BY <1>2, <1>3
  <2>3. \A j, k \in 1..Len(file) : file'[j].index = file'[k].index => j = k
    BY <1>3 DEF CallsInv, Lines
  <2> QED
    BY <1>3, <2>1, <2>2, <2>3
<1>6. Lines'
  BY <1>1, <1>3, <1>4, <1>5 DEF Lines
<1>7. Seen = {} /\ Seen' = {} /\ next = 1
  BY <1>1 DEF CallsInv, Judged, Seen
<1>8. Grouped'
  BY <1>1, <1>3, <1>7 DEF CallsInv, Grouped
<1>9. Judged'
  BY <1>1 DEF CallsInv, Judged
<1> QED
  BY <1>2, <1>6, <1>8, <1>9 DEF CallsInv

(* When there are as many lines as requests, each request has one.         *)
LEMMA AnalyzeStep ==
    ASSUME CallsInv, Records!Analyze
    PROVE  CallsInv'
<1>1. /\ verdict = "running" /\ verdict' = "reading"
      /\ Len(file) = Cardinality(Requests)
      /\ UNCHANGED truth /\ UNCHANGED <<file, next, groups>>
  BY SameCardinality DEF Records!Analyze, truth
<1>2. Truth' /\ Truth /\ \A r : KeyOf(r)' = KeyOf(r) /\ SizeOf(r)' = SizeOf(r)
      /\ Records!RecordOf(r)' = Records!RecordOf(r)
  BY <1>1, TruthStays DEF CallsInv
<1>3. \A k \in 1..Len(file) : file[k].index \in Requests
  BY <1>2, RecordSays DEF CallsInv, Lines
<1>4. \A r \in Requests : \E k \in 1..Len(file) : file[k].index = r
  <2> DEFINE n == Len(file)
             f == [k \in 1..n |-> file[k].index]
  <2>1. n \in Nat
    BY DEF CallsInv, Lines
  <2>2. f \in [1..n -> Requests] /\ \A j, k \in 1..n : f[j] = f[k] => j = k
    BY <1>3 DEF CallsInv, Lines
  <2> HIDE DEF f, n
  <2>3. f \in Injection(1..n, Requests)
    BY <2>2 DEF Injection, IsInjective
  <2> DEFINE R == {f[k] : k \in 1..n}
  <2>4. f \in Bijection(1..n, R)
    BY <2>2 DEF Bijection, Injection, Surjection, IsInjective
  <2>5. IsFiniteSet(1..n) /\ Cardinality(1..n) = n
    BY <2>1, FS_Interval
  <2>6. Cardinality(R) = n /\ R \subseteq Requests
    BY <2>2, <2>4, <2>5, FS_Bijection DEF ExistsBijection
  <2>7. R = Requests
    <3> HIDE DEF R
    <3> QED
      BY <1>1, <2>6, CallsAssumption, FS_Subset DEF n
  <2> QED
    BY <2>7 DEF f, n
<1>5. Lines'
  BY <1>1, <1>2, <1>4 DEF CallsInv, Lines
<1>6. Seen' = Seen
  BY <1>1 DEF Seen
<1>7. \A r : Sharing(r)' = Sharing(r)
  BY <1>2, <1>6 DEF Sharing
<1>8. Grouped'
  BY <1>1, <1>2, <1>6, <1>7 DEF CallsInv, Grouped
<1>9. Judged'
  BY <1>1 DEF CallsInv, Judged
<1> QED
  BY <1>2, <1>5, <1>8, <1>9 DEF CallsInv

(* What has been read is of requests, and a line to be read is of another. *)
LEMMA SeenAreRequests ==
    ASSUME CallsInv
    PROVE  Seen \subseteq Requests /\ IsFiniteSet(Seen)
<1>1. \A k \in 1..Len(file) : file[k].index \in Requests
  BY RecordSays DEF CallsInv, Lines
<1>2. Seen \subseteq Requests
  BY <1>1 DEF CallsInv, Lines, Grouped, Seen
<1> QED
  BY <1>2, CallsAssumption, FS_Subset

(* The group a record falls into agrees with it.                           *)
LEMMA GroupAgrees ==
    ASSUME CallsInv, NEW r \in Requests
    PROVE  Records!SoFar(Records!RecordOf(r)) =
               [size |-> SizeOf(r),
                count |-> Cardinality(Sharing(r)),
                ms |-> Records!RecordOf(r).ms]
<1>1. CASE KeyOf(r) \in DOMAIN groups
  <2>1. PICK q \in Seen : KeyOf(q) = KeyOf(r)
    BY <1>1 DEF CallsInv, Grouped
  <2>2. q \in Requests /\ Truth
    BY SeenAreRequests DEF CallsInv
  <2>3. SizeOf(q) = SizeOf(r)
        /\ Records!RecordOf(q).ms = Records!RecordOf(r).ms
    BY <2>1, <2>2, SameKey, RecordSays
  <2>4. Sharing(q) = Sharing(r)
    BY <2>1 DEF Sharing
  <2>5. groups[KeyOf(r)] = [size |-> SizeOf(q),
                            count |-> Cardinality(Sharing(q)),
                            ms |-> Records!RecordOf(q).ms]
    BY <2>1 DEF CallsInv, Grouped
  <2>6. Records!SoFar(Records!RecordOf(r)) = groups[KeyOf(r)]
    BY <1>1 DEF Records!SoFar, KeyOf
  <2> QED
    BY <2>3, <2>4, <2>5, <2>6
<1>2. CASE KeyOf(r) \notin DOMAIN groups
  <2>1. Sharing(r) = {}
    BY <1>2 DEF CallsInv, Grouped, Sharing
  <2>2. Cardinality(Sharing(r)) = 0
    BY <2>1, FS_EmptySet
  <2>3. Records!SoFar(Records!RecordOf(r)) =
            [size |-> SizeOf(r), count |-> 0, ms |-> Records!RecordOf(r).ms]
    BY <1>2 DEF Records!SoFar, KeyOf, SizeOf
  <2> QED
    BY <2>2, <2>3
<1> QED
  BY <1>1, <1>2

(* One line is read: it contradicts no group.                              *)
LEMMA ReadLineStep ==
    ASSUME CallsInv, Records!ReadLine
    PROVE  CallsInv'
<1>1. /\ verdict = "reading" /\ next <= Len(file)
      /\ UNCHANGED truth /\ UNCHANGED file
  BY DEF Records!ReadLine, truth
<1>2. /\ Truth' /\ Truth
      /\ \A r : KeyOf(r)' = KeyOf(r) /\ SizeOf(r)' = SizeOf(r)
                /\ Records!RecordOf(r)' = Records!RecordOf(r)
  BY <1>1, TruthStays DEF CallsInv
<1>3. next \in 1..Len(file) /\ Len(file) \in Nat
  BY <1>1 DEF CallsInv, Lines, Grouped
<1>4. PICK r \in Requests : file[next] = Records!RecordOf(r)
  BY <1>3 DEF CallsInv, Lines
<1>5. file[next].index = r
  BY <1>2, <1>4, RecordSays
<1>6. r \notin Seen
  <2>1. SUFFICES ASSUME NEW k \in 1..(next - 1), file[k].index = r
                 PROVE  FALSE
    BY DEF Seen
  <2>2. k \in 1..Len(file) /\ k # next
    BY <1>3
  <2> QED
    BY <1>3, <1>5, <2>1, <2>2 DEF CallsInv, Lines
<1> DEFINE n == Cardinality(Sharing(r))
           m == Records!RecordOf(r).ms
<1>7. Records!SoFar(Records!RecordOf(r)) =
          [size |-> SizeOf(r), count |-> n, ms |-> m]
  BY GroupAgrees
<1>8. IsFiniteSet(Sharing(r)) /\ n \in Nat
  BY SeenAreRequests, FS_Subset, FS_CardinalityType DEF Sharing
<1> HIDE DEF n, m
<1>9. /\ next' = next + 1 /\ UNCHANGED verdict
      /\ groups' = [k \in DOMAIN groups \cup {KeyOf(r)} |->
            IF k = KeyOf(r)
            THEN [size |-> SizeOf(r), count |-> n + 1, ms |-> m]
            ELSE groups[k]]
  <2>1. ~Records!Inconsistent(Records!SoFar(file[next]), file[next])
    BY <1>4, <1>7 DEF Records!Inconsistent, SizeOf, m
  <2> QED
    BY <1>4, <1>7, <2>1 DEF Records!ReadLine, KeyOf
<1>10. Seen' = Seen \cup {r}
  BY <1>1, <1>3, <1>5, <1>9 DEF Seen
<1>11. Lines'
  BY <1>1, <1>2, <1>9 DEF CallsInv, Lines
<1>12. \A q \in Seen' :
         groups'[KeyOf(q)] = [size |-> SizeOf(q),
                              count |-> Cardinality(Sharing(q)'),
                              ms |-> Records!RecordOf(q).ms]
  <2> SUFFICES ASSUME NEW q \in Seen'
               PROVE  groups'[KeyOf(q)] = [size |-> SizeOf(q),
                              count |-> Cardinality(Sharing(q)'),
                              ms |-> Records!RecordOf(q).ms]
    OBVIOUS
  <2>1. CASE KeyOf(q) = KeyOf(r)
    <3>1. Sharing(q)' = Sharing(r) \cup {r} /\ r \notin Sharing(r)
      BY <1>2, <1>6, <1>10, <2>1 DEF Sharing
    <3>2. Cardinality(Sharing(q)') = n + 1
      BY <1>8, <3>1, FS_AddElement DEF n
    <3>3. q \in Requests
      BY <1>10, SeenAreRequests
    <3>4. SizeOf(q) = SizeOf(r) /\ Records!RecordOf(q).ms = m
      BY <1>2, <2>1, <3>3, SameKey, RecordSays DEF m
    <3> QED
      BY <1>9, <2>1, <3>2, <3>4
  <2>2. CASE KeyOf(q) # KeyOf(r)
    <3>1. q \in Seen /\ Sharing(q)' = Sharing(q)
      BY <1>2, <1>10, <2>2 DEF Sharing
    <3>2. KeyOf(q) \in DOMAIN groups
      BY <3>1 DEF CallsInv, Grouped
    <3>3. groups'[KeyOf(q)] = groups[KeyOf(q)]
      BY <1>9, <2>2, <3>2
    <3> QED
      BY <3>1, <3>3 DEF CallsInv, Grouped
  <2> QED
    BY <2>1, <2>2
<1>13. DOMAIN groups' = {KeyOf(q) : q \in Seen'}
  BY <1>9, <1>10 DEF CallsInv, Grouped
<1>14. next' \in 1..(Len(file') + 1)
  BY <1>1, <1>3, <1>9
<1>15. Grouped'
  BY <1>2, <1>12, <1>13, <1>14 DEF Grouped
<1>16. Judged'
  BY <1>1, <1>9 DEF CallsInv, Judged
<1> QED
  BY <1>2, <1>11, <1>15, <1>16 DEF CallsInv

(* The verdict is that of the groups.                                      *)
LEMMA JudgeStep ==
    ASSUME CallsInv, Records!Judge
    PROVE  CallsInv'
<1>1. /\ verdict = "reading" /\ next > Len(file)
      /\ verdict' = IF \A k \in DOMAIN groups : Records!Whole(k)
                    THEN "accepted" ELSE "incomplete"
      /\ UNCHANGED truth /\ UNCHANGED <<file, next, groups>>
  BY DEF Records!Judge, truth
<1>2. Truth' /\ Truth /\ \A r : KeyOf(r)' = KeyOf(r) /\ SizeOf(r)' = SizeOf(r)
      /\ Records!RecordOf(r)' = Records!RecordOf(r)
  BY <1>1, TruthStays DEF CallsInv
<1>3. Seen' = Seen /\ \A r : Sharing(r)' = Sharing(r)
  BY <1>1, <1>2 DEF Seen, Sharing
<1>4. Lines' /\ Grouped'
  BY <1>1, <1>2, <1>3 DEF CallsInv, Lines, Grouped
<1>5. next = Len(file) + 1
  BY <1>1 DEF CallsInv, Lines, Grouped
<1>6. \A k : Records!Whole(k)' = Records!Whole(k)
  BY <1>1 DEF Records!Whole
<1>7. Judged'
  BY <1>1, <1>5, <1>6 DEF Judged
<1> QED
  BY <1>2, <1>4, <1>7 DEF CallsInv

LEMMA CallsInvariant == Records!Spec => []CallsInv
<1>1. CallsInv /\ UNCHANGED Records!vars => CallsInv'
  <2> SUFFICES ASSUME CallsInv, UNCHANGED Records!vars
               PROVE  CallsInv'
    OBVIOUS
  <2>1. UNCHANGED truth /\ UNCHANGED <<file, next, groups, verdict>>
    BY DEF Records!vars, truth
  <2>2. Truth' /\ \A r : KeyOf(r)' = KeyOf(r) /\ SizeOf(r)' = SizeOf(r)
        /\ Records!RecordOf(r)' = Records!RecordOf(r)
    BY <2>1, TruthStays DEF CallsInv
  <2>3. Seen' = Seen /\ \A r : Sharing(r)' = Sharing(r)
    BY <2>1, <2>2 DEF Seen, Sharing
  <2>4. \A k : Records!Whole(k)' = Records!Whole(k)
    BY <2>1 DEF Records!Whole
  <2>5. Lines' /\ Grouped' /\ Judged'
    BY <2>1, <2>2, <2>3, <2>4 DEF CallsInv, Lines, Grouped, Judged
  <2> QED
    BY <2>2, <2>5 DEF CallsInv
<1>2. CallsInv /\ [Records!Next]_Records!vars => CallsInv'
  BY <1>1, RecordCallStep, AnalyzeStep, ReadLineStep, JudgeStep
     DEF Records!Next
<1> QED
  BY CallsInit, <1>2, PTL DEF Records!Spec

(* When the verdict is given, every record has been read, ...              *)
LEMMA AllSeen ==
    ASSUME CallsInv, verdict \in {"accepted", "incomplete"}
    PROVE  Seen = Requests /\ DOMAIN groups = {KeyOf(r) : r \in Requests}
<1>1. next = Len(file) + 1 /\ verdict # "running" /\ Len(file) \in Nat
  BY DEF CallsInv, Judged, Lines
<1>2. Requests \subseteq Seen
  BY <1>1, SMTT(30) DEF CallsInv, Lines, Seen
<1> QED
  BY <1>2, SeenAreRequests DEF CallsInv, Grouped

LEMMA GroupSays ==
    ASSUME CallsInv, verdict \in {"accepted", "incomplete"},
           NEW r \in Requests
    PROVE  /\ groups[KeyOf(r)].count = Cardinality(Sharing(r))
           /\ groups[KeyOf(r)].size = SizeOf(r)
<1>1. r \in Seen
  BY AllSeen
<1>2. groups[KeyOf(r)] = [size |-> SizeOf(r),
                          count |-> Cardinality(Sharing(r)),
                          ms |-> Records!RecordOf(r).ms]
  BY <1>1 DEF CallsInv, Grouped
<1> QED
  BY <1>2

(* ... a group has the members of its call that were answered, ...         *)
LEMMA GroupOfCall ==
    ASSUME CallsInv, verdict \in {"accepted", "incomplete"},
           NEW r \in Requests, ~Records!Failed(r)
    PROVE  Sharing(r) = IF batched THEN Records!Members(callOf[r]) \ lost
                        ELSE Records!Members(callOf[r])
<1>1. Truth /\ Seen = Requests
  BY AllSeen DEF CallsInv
<1>2. /\ callOf[r] \in Calls /\ callOf[r] # None
      /\ callOf[r] \notin broken /\ r \notin lost
  BY <1>1, RecordSays DEF Records!Failed
<1>3. CASE batched
  <2>1. ASSUME NEW q \in Requests, KeyOf(q) = KeyOf(r)
        PROVE  callOf[q] = callOf[r] /\ q \notin lost
    BY <1>1, <1>2, <2>1, SameKey DEF Records!Failed
  <2>2. ASSUME NEW q \in Requests, callOf[q] = callOf[r], q \notin lost
        PROVE  KeyOf(q) = KeyOf(r)
    <3>1. ~Records!Failed(q)
      BY <1>2, <2>2 DEF Records!Failed
    <3> QED
      BY <1>1, <1>3, <2>2, <3>1, RecordSays
  <2> QED
    BY <1>1, <1>3, <2>1, <2>2 DEF Sharing, Records!Members
<1>4. CASE ~batched
  <2>1. Sharing(r) = {r}
    BY <1>1, <1>4, SameKey DEF Sharing
  <2>2. Records!Members(callOf[r]) = {r}
    BY <1>1, <1>2, <1>4 DEF Truth, Records!Members
  <2> QED
    BY <1>4, <2>1, <2>2
<1> QED
  BY <1>3, <1>4

(* ... and it is whole unless some of them were lost.                      *)
LEMMA WholeUnlessLost ==
    ASSUME CallsInv, verdict \in {"accepted", "incomplete"}, NEW r \in Requests
    PROVE  /\ ~Records!Whole(KeyOf(r)) => batched /\ ~Records!Failed(r)
           /\ batched /\ ~Records!Failed(r) =>
                (Records!Whole(KeyOf(r))
                    <=> Records!Members(callOf[r]) \cap lost = {})
<1>1. Truth
  BY DEF CallsInv
<1>2. KeyOf(r)[1] = IF batched /\ ~Records!Failed(r)
                    THEN "batch" ELSE "request"
  BY <1>1, RecordSays
<1>3. ASSUME batched, ~Records!Failed(r)
      PROVE  Records!Whole(KeyOf(r))
                <=> Records!Members(callOf[r]) \cap lost = {}
  <2> DEFINE M == Records!Members(callOf[r])
             A == M \ lost
  <2>1. IsFiniteSet(M) /\ A \in SUBSET M
    BY CallsAssumption, FS_Subset DEF Records!Members
  <2>2. groups[KeyOf(r)].count = Cardinality(A)
        /\ groups[KeyOf(r)].size = Cardinality(M)
    BY <1>1, <1>3, GroupSays, GroupOfCall, RecordSays
  <2>3. Records!Whole(KeyOf(r)) <=> Cardinality(A) = Cardinality(M)
    BY <1>2, <1>3, <2>2 DEF Records!Whole
  <2>4. Cardinality(A) = Cardinality(M) <=> A = M
    <3> HIDE DEF A, M
    <3> QED
      BY <2>1, FS_Subset
  <2>5. A = M <=> M \cap lost = {}
    OBVIOUS
  <2> QED
    BY <2>3, <2>4, <2>5
<1> QED
  BY <1>2, <1>3 DEF Records!Whole

(* A run is refused for a call that was answered in part, and only so.     *)
LEMMA RefusedForTornCall ==
    ASSUME CallsInv
    PROVE  Records!RefusedOnlyIfTorn
<1> DEFINE Torn(c) == /\ c \notin broken
                      /\ Records!Members(c) \cap lost # {}
                      /\ ~(Records!Members(c) \subseteq lost)
<1>1. Truth /\ verdict # "inconsistent"
  BY DEF CallsInv, Judged
<1>2. ASSUME verdict = "incomplete"
      PROVE  batched /\ \E c \in Records!Made : Torn(c)
  <2>1. PICK r \in Requests : ~Records!Whole(KeyOf(r))
    BY <1>2, AllSeen DEF CallsInv, Judged
  <2>2. /\ batched /\ ~Records!Failed(r)
        /\ Records!Members(callOf[r]) \cap lost # {}
    BY <1>2, <2>1, WholeUnlessLost
  <2>3. callOf[r] \in Calls /\ callOf[r] \notin broken /\ r \notin lost
    BY <1>1, <2>2, RecordSays DEF Records!Failed
  <2>4. r \in Records!Members(callOf[r])
    BY DEF Records!Members
  <2> QED
    BY <2>2, <2>3, <2>4 DEF Records!Made
<1>3. ASSUME verdict = "accepted", batched, NEW c \in Records!Made, Torn(c)
      PROVE  FALSE
  <2>1. PICK r \in Records!Members(c) : r \notin lost
    BY <1>3
  <2>2. r \in Requests /\ callOf[r] = c /\ c # None /\ ~Records!Failed(r)
    BY <1>3, <2>1, CallsAssumption
       DEF Records!Members, Records!Made, Records!Failed
  <2>3. Records!Whole(KeyOf(r))
    BY <1>3, <2>2, AllSeen DEF CallsInv, Judged
  <2> QED
    BY <1>3, <2>2, <2>3, WholeUnlessLost
<1> QED
  BY <1>1, <1>2, <1>3 DEF Records!RefusedOnlyIfTorn

(* In an accepted run a group has the size of what is in it, ...           *)
LEMMA SizeIsCount ==
    ASSUME CallsInv, verdict = "accepted", NEW r \in Requests
    PROVE  Cardinality(Sharing(r)) = SizeOf(r)
<1>1. Truth /\ Seen = Requests
  BY AllSeen DEF CallsInv
<1>2. CASE Records!Failed(r)
  <2>1. Sharing(r) = {r}
    BY <1>1, <1>2, SameKey DEF Sharing
  <2>2. Cardinality({r}) = 1
    BY FS_Singleton
  <2> QED
    BY <1>1, <1>2, <2>1, <2>2, RecordSays
<1>3. CASE ~Records!Failed(r)
  <2>1. batched => Records!Members(callOf[r]) \cap lost = {}
    BY <1>3, AllSeen, WholeUnlessLost DEF CallsInv, Judged
  <2>2. Sharing(r) = Records!Members(callOf[r])
    BY <1>3, <2>1, GroupOfCall
  <2> QED
    BY <1>1, <1>3, <2>2, RecordSays
<1> QED
  BY <1>2, <1>3

(* ... there is a group for each call that was answered and one for each   *)
(* request that failed, ...                                                *)
LEMMA GroupsCounted ==
    ASSUME CallsInv, verdict = "accepted"
    PROVE  /\ IsFiniteSet(DOMAIN groups)
           /\ Cardinality(DOMAIN groups)
                = Cardinality(Records!Answered) + Cardinality(Records!Failures)
<1> DEFINE F == Records!Failures
           A == Requests \ F
           C == Records!Answered
           GF == {KeyOf(r) : r \in F}
           GA == {KeyOf(r) : r \in A}
<1>1. Truth /\ DOMAIN groups = {KeyOf(r) : r \in Requests}
  BY AllSeen DEF CallsInv
<1>2. /\ F \subseteq Requests /\ A \subseteq Requests
      /\ \A r \in F : Records!Failed(r)
      /\ \A r \in A : ~Records!Failed(r)
  BY DEF Records!Failures
<1>3. DOMAIN groups = GF \cup GA
  BY <1>1, <1>2
<1>4. GF \cap GA = {}
  BY <1>1, <1>2, SameKey
<1>5. IsFiniteSet(F) /\ IsFiniteSet(A)
  BY <1>2, CallsAssumption, FS_Subset
<1>6. IsFiniteSet(GF) /\ Cardinality(GF) = Cardinality(F)
  <2> DEFINE f == [r \in F |-> KeyOf(r)]
  <2>1. \A q, r \in F : KeyOf(q) = KeyOf(r) => q = r
    BY <1>1, <1>2, SameKey
  <2>2. f \in Bijection(F, GF)
    BY <2>1 DEF Bijection, Injection, Surjection, IsInjective
  <2> HIDE DEF f, F, GF
  <2> QED
    BY <1>5, <2>2, FS_Bijection DEF ExistsBijection
<1>7. IsFiniteSet(GA) /\ Cardinality(GA) = Cardinality(C)
  <2> DEFINE One(k) == CHOOSE r \in A : KeyOf(r) = k
             f == [k \in GA |-> callOf[One(k)]]
             p == [r \in A |-> KeyOf(r)]
  <2>1. \A q, r \in A : KeyOf(q) = KeyOf(r) <=> callOf[q] = callOf[r]
    <3> SUFFICES ASSUME NEW q \in A, NEW r \in A
                 PROVE  KeyOf(q) = KeyOf(r) <=> callOf[q] = callOf[r]
      OBVIOUS
    <3>1. /\ q \in Requests /\ ~Records!Failed(q)
          /\ r \in Requests /\ ~Records!Failed(r)
      BY <1>2
    <3>2. KeyOf(q) = KeyOf(r) => callOf[q] = callOf[r]
      BY <1>1, <3>1, SameKey
    <3>3. /\ batched => KeyOf(q) = <<"batch", callOf[q]>>
                        /\ KeyOf(r) = <<"batch", callOf[r]>>
          /\ callOf[q] # None
      BY <1>1, <3>1, RecordSays, CallsAssumption
    <3>4. callOf[q] = callOf[r] => KeyOf(q) = KeyOf(r)
      BY <1>1, <3>1, <3>3 DEF Truth
    <3> QED
      BY <3>2, <3>4
  <2>2. \A r \in A : KeyOf(r) \in GA /\ f[KeyOf(r)] = callOf[r]
    <3> SUFFICES ASSUME NEW r \in A
                 PROVE  KeyOf(r) \in GA /\ f[KeyOf(r)] = callOf[r]
      OBVIOUS
    <3>1. One(KeyOf(r)) \in A /\ KeyOf(One(KeyOf(r))) = KeyOf(r)
      OBVIOUS
    <3> QED
      BY <2>1, <3>1
  <2>3. \A k \in GA : \E r \in A : k = KeyOf(r)
    OBVIOUS
  <2>4. C = {callOf[r] : r \in A}
    BY DEF Records!Answered
  <2>5. p \in Surjection(A, GA)
    BY <2>2, <2>3 DEF Surjection
  <2>6. f \in [GA -> C]
    <3>1. \A k \in GA : \E r \in A : f[k] = callOf[r]
      <4> HIDE DEF f
      <4> QED
        BY <2>2, <2>3
    <3>2. \A k \in GA : f[k] \in C
      <4> HIDE DEF f, C, GA, A
      <4> QED
        BY <2>4, <3>1
    <3> QED
      BY <3>2
  <2> HIDE DEF f, p, GA, C, A
  <2>7. IsFiniteSet(GA)
    BY <1>5, <2>5, FS_Surjection
  <2>8. \A j, k \in GA : f[j] = f[k] => j = k
    BY <2>1, <2>2, <2>3
  <2>9. \A c \in C : \E k \in GA : f[k] = c
    BY <2>2, <2>4
  <2>10. f \in Bijection(GA, C)
    BY <2>6, <2>8, <2>9 DEF Bijection, Injection, Surjection, IsInjective
  <2> QED
    BY <2>7, <2>10, FS_Bijection DEF ExistsBijection
<1> HIDE DEF F, A, C, GF, GA
<1>8. /\ IsFiniteSet(GF \cup GA)
      /\ Cardinality(GF \cup GA)
            = Cardinality(GF) + Cardinality(GA) - Cardinality(GF \cap GA)
  BY <1>6, <1>7, FS_Union
<1>9. Cardinality(GF \cap GA) = 0
  BY <1>4, FS_EmptySet
<1>10. Cardinality(GF) \in Nat /\ Cardinality(GA) \in Nat
  BY <1>6, <1>7, FS_CardinalityType
<1> QED
  BY <1>3, <1>6, <1>7, <1>8, <1>9, <1>10 DEF F, C

(* ... whose sizes add up to the requests.                                 *)
LEMMA SizesAddUp ==
    ASSUME CallsInv, verdict = "accepted"
    PROVE  Records!GroupedRequests = Cardinality(Requests)
<1> DEFINE G == DOMAIN groups
           one == [r \in Requests |-> 1]
           p == [r \in Requests |-> KeyOf(r)]
           Part(k) == {r \in Requests : p[r] = k}
           h == [k \in G |-> SumFunctionOnSet(one, Part(k))]
           size == [k \in G |-> groups[k].size]
<1>1. Truth /\ Seen = Requests /\ G = {KeyOf(r) : r \in Requests}
  BY AllSeen DEF CallsInv
<1>2. IsFiniteSet(G)
  BY GroupsCounted
<1>3. SumFunctionOnSet(h, G) = SumFunctionOnSet(one, Requests)
  <2>1. (\A r \in Requests : one[r] \in Int) /\ \A r \in Requests : p[r] \in G
    BY <1>1
  <2> HIDE DEF one, p, G
  <2> QED
    BY <1>2, <2>1, CallsAssumption, SumByGroup
<1>4. SumFunctionOnSet(one, Requests) = Cardinality(Requests)
  BY CallsAssumption, SumOfOnes
<1>5. \A k \in G : h[k] = size[k]
  <2> SUFFICES ASSUME NEW k \in G
               PROVE  h[k] = size[k]
    OBVIOUS
  <2>1. PICK r \in Requests : k = KeyOf(r)
    BY <1>1
  <2>2. Part(k) = Sharing(r)
    BY <1>1, <2>1 DEF Sharing
  <2>3. Part(k) \subseteq Requests /\ IsFiniteSet(Part(k))
    BY CallsAssumption, FS_Subset
  <2>4. SumFunctionOnSet(one, Part(k)) = Cardinality(Part(k))
    <3>1. \A x \in Part(k) : one[x] = 1
      BY <2>3
    <3> HIDE DEF one, Part
    <3> QED
      BY <2>3, <3>1, SumOfOnes
  <2>5. groups[k].size = SizeOf(r)
    BY <2>1, GroupSays
  <2> QED
    BY <2>2, <2>4, <2>5, SizeIsCount
<1>6. SumFunctionOnSet(h, G) = SumFunctionOnSet(size, G)
  <2> HIDE DEF h, size, G
  <2> QED
    BY <1>2, <1>5, SumSame
<1>7. Records!GroupedRequests = SumFunctionOnSet(size, G)
  <2>1. Records!GroupedRequests = SumFunction(size)
    BY SameSum DEF Records!GroupedRequests
  <2> QED
    BY <2>1, SumOverDomain
<1> QED
  BY <1>3, <1>4, <1>6, <1>7

(* In whatever order the records were written, outer_call_metrics accepts  *)
(* a run exactly when no call was answered in part; its mean is then over  *)
(* the calls that were answered and, each as one of size one, the requests *)
(* that failed: over the calls that were made when none failed.            *)
THEOREM CallsAreRebuilt == Records!Spec => []CallsRebuilt
<1>1. CallsInv => CallsRebuilt
  <2> SUFFICES ASSUME CallsInv
               PROVE  CallsRebuilt
    OBVIOUS
  <2>1. ASSUME verdict = "accepted"
        PROVE  /\ Records!Groups = Records!Cardinality(Records!Answered)
                                      + Records!Cardinality(Records!Failures)
               /\ Records!GroupedRequests = Records!Cardinality(Requests)
    BY <2>1, GroupsCounted, SizesAddUp, SameCardinality DEF Records!Groups
  <2>2. ASSUME Records!Failures = {}
        PROVE  Records!Answered = Records!Made
    <3>1. \A r \in Requests : callOf[r] \in Calls
      BY <2>2, RecordSays DEF CallsInv, Records!Failures
    <3> QED
      BY <2>2, <3>1
      DEF Records!Answered, Records!Made, Records!Members
  <2>3. Records!Reconstructs
    BY <2>1, <2>2 DEF Records!Reconstructs
  <2> QED
    BY <2>3, RefusedForTornCall DEF CallsRebuilt, Records!CallsRebuilt
<1> QED
  BY <1>1, CallsInvariant, PTL

=============================================================================
