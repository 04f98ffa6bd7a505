------------------------ MODULE NetAggregatesProofs ------------------------
(***************************************************************************)
(* Proofs about NetAggregates, NetClusters and NetVerify, for every number *)
(* of devices, levels, radii and filter cells, and for any coordinates:    *)
(* the child lists stay sorted and the mass every device carries stays     *)
(* that of the devices under it, also between the steps of a repair;       *)
(* between operations the clusters of a level are a partition of the       *)
(* devices, split into what they held, name the device they stand for      *)
(* alone, and pass the repository's own checker.                           *)
(*                                                                         *)
(* The lemmas come in layers: how a sum over a finite set changes when a   *)
(* device joins or leaves it; how the chain of ancestors of a device is    *)
(* built, and what becomes of it when one device of a forest gets another  *)
(* parent; how lists change; then, for each way in which the actions       *)
(* change the sums, that every subtree still has its mass.  On that rest   *)
(* the clusters: which devices a center represents, what a list adds up    *)
(* to, and what subtree_sums works out afresh.  The hierarchy itself is    *)
(* taken from NetTreeProofs.                                               *)
(***************************************************************************)
EXTENDS NetVerify, NetTreeProofs, FiniteSetTheorems, WellFoundedInduction

-----------------------------------------------------------------------------
(* Sums over sets of devices *)

\* Some subsets of a finite set, if there are any, include one no smaller one is among.
LEMMA SmallestOf ==
    ASSUME NEW S, IsFiniteSet(S), NEW Some, Some \subseteq SUBSET S, Some # {}
    PROVE  \E T \in Some : IsFiniteSet(T) /\ \A U \in SUBSET T : U # T => U \notin Some
<1> DEFINE Sizes == {Cardinality(T) : T \in Some}
<1>1. \A T \in SUBSET S : IsFiniteSet(T) /\ Cardinality(T) \in Nat
  BY FS_Subset, FS_CardinalityType
<1>2. Sizes \subseteq Nat /\ Sizes # {}
  BY <1>1
<1>3. PICK k \in Sizes : \A m \in Sizes : k <= m
  <2> HIDE DEF Sizes
  <2> QED BY <1>2, LeastOf
<1>4. PICK T \in Some : Cardinality(T) = k
  OBVIOUS
<1>5. ASSUME NEW U \in SUBSET T, U # T, U \in Some PROVE FALSE
  <2>1. IsFiniteSet(T) /\ Cardinality(U) \in Nat /\ Cardinality(T) \in Nat
    BY <1>1, <1>4, <1>5
  <2>2. Cardinality(U) < Cardinality(T)
    BY <2>1, <1>5, FS_Subset
  <2>3. k <= Cardinality(U)
    BY <1>3, <1>5
  <2> QED BY <2>1, <2>2, <2>3, <1>4
<1> QED BY <1>1, <1>4, <1>5

\* One device of a set, the one the fold over a set takes.
FirstOf(S) == CHOOSE x \in S : TRUE

\* It is one of the set's.
LEMMA FirstOfIsIn == \A S : S # {} => FirstOf(S) \in S
BY DEF FirstOf

\* g adds up, for each subset of S, where the devices in it are.
Adds(at, S, g) ==
    g = [s \in SUBSET S |-> IF s = {} THEN 0 ELSE at[FirstOf(s)][1] + g[s \ {FirstOf(s)}]]

\* SumX is a way of adding up.
LEMMA SumIs == ASSUME NEW at, NEW S PROVE SumX(at, S) = (CHOOSE g : Adds(at, S, g))[S]
BY DEF SumX, MapThenSumSet, MapThenFoldSet, Adds, FirstOf

\* Two ways of adding up agree on what both add up.
LEMMA AddsAgree ==
    ASSUME NEW at, NEW S, NEW T, NEW g, NEW h, Adds(at, S, g), Adds(at, T, h),
           IsFiniteSet(T), T \subseteq S
    PROVE  h[T] = g[T]
<1> DEFINE Bad == {s \in SUBSET T : h[s] # g[s]}
<1> SUFFICES ASSUME Bad # {} PROVE FALSE
  OBVIOUS
<1>1. PICK s \in Bad : IsFiniteSet(s) /\ \A u \in SUBSET s : u # s => u \notin Bad
  <2>1. Bad \subseteq SUBSET T
    OBVIOUS
  <2> HIDE DEF Bad
  <2> QED BY <2>1, SmallestOf
<1>2. s \in SUBSET T /\ s \in SUBSET S /\ h[s] # g[s]
  OBVIOUS
<1>3. h[s] = IF s = {} THEN 0 ELSE at[FirstOf(s)][1] + h[s \ {FirstOf(s)}]
  BY <1>2 DEF Adds
<1>4. g[s] = IF s = {} THEN 0 ELSE at[FirstOf(s)][1] + g[s \ {FirstOf(s)}]
  BY <1>2 DEF Adds
<1>5. s # {}
  BY <1>2, <1>3, <1>4
<1>6. h[s \ {FirstOf(s)}] = g[s \ {FirstOf(s)}]
  BY <1>1, <1>2, <1>5, FirstOfIsIn
<1> QED BY <1>2, <1>3, <1>4, <1>6

\* There is a way of adding up every finite set.
LEMMA AddsExists ==
    ASSUME NEW at, NEW S, IsFiniteSet(S)
    PROVE  \E g : Adds(at, S, g)
<1> DEFINE Bad == {T \in SUBSET S : ~ \E g : Adds(at, T, g)}
<1> SUFFICES ASSUME Bad # {} PROVE FALSE
  OBVIOUS
<1>1. PICK T \in Bad : IsFiniteSet(T) /\ \A U \in SUBSET T : U # T => U \notin Bad
  <2>1. Bad \subseteq SUBSET S
    OBVIOUS
  <2> HIDE DEF Bad
  <2> QED BY <2>1, SmallestOf
<1>2. T \in SUBSET S /\ ~ (\E g : Adds(at, T, g))
  BY <1>1
<1>3. \A t \in SUBSET T : t # T => \E g : Adds(at, t, g)
  BY <1>1, <1>2
<1> DEFINE total(t) == (CHOOSE g : Adds(at, t, g))[t]
           G == [s \in SUBSET T |-> IF s = {} THEN 0 ELSE at[FirstOf(s)][1] + total(s \ {FirstOf(s)})]
<1>4. \A s \in SUBSET T : s # T => G[s] = total(s)
  <2> SUFFICES ASSUME NEW s \in SUBSET T, s # T PROVE G[s] = total(s)
    OBVIOUS
  <2> DEFINE h == CHOOSE g : Adds(at, s, g)
  <2>1. Adds(at, s, h)
    BY <1>3
  <2>2. h[s] = IF s = {} THEN 0 ELSE at[FirstOf(s)][1] + h[s \ {FirstOf(s)}]
    <3> HIDE DEF h
    <3> QED BY <2>1 DEF Adds
  <2>3. s # {} => h[s \ {FirstOf(s)}] = total(s \ {FirstOf(s)})
    <3> SUFFICES ASSUME s # {} PROVE h[s \ {FirstOf(s)}] = total(s \ {FirstOf(s)})
      OBVIOUS
    <3> DEFINE r == s \ {FirstOf(s)}
               i == CHOOSE g : Adds(at, r, g)
    <3>1. r \in SUBSET T /\ r # T /\ r \subseteq s /\ IsFiniteSet(r)
      BY FirstOfIsIn, <1>1, FS_Subset
    <3>2. Adds(at, r, i)
      BY <1>3, <3>1
    <3>3. i[r] = h[r]
      <4> HIDE DEF i, h, r
      <4> QED BY <2>1, <3>1, <3>2, AddsAgree
    <3> QED BY <3>3
  <2> QED BY <2>2, <2>3
<1>5. Adds(at, T, G)
  <2>1. \A s \in SUBSET T : s # {} => s \ {FirstOf(s)} \in SUBSET T /\ s \ {FirstOf(s)} # T
    BY FirstOfIsIn
  <2>2. \A s \in SUBSET T : s # {} => G[s \ {FirstOf(s)}] = total(s \ {FirstOf(s)})
    <3> HIDE DEF G, total
    <3> QED BY <2>1, <1>4
  <2> HIDE DEF total
  <2>3. \A s \in SUBSET T : (IF s = {} THEN 0 ELSE at[FirstOf(s)][1] + total(s \ {FirstOf(s)}))
                          = (IF s = {} THEN 0 ELSE at[FirstOf(s)][1] + G[s \ {FirstOf(s)}])
    BY <2>2
  <2>4. G = [s \in SUBSET T |-> IF s = {} THEN 0 ELSE at[FirstOf(s)][1] + G[s \ {FirstOf(s)}]]
    BY <2>3
  <2> HIDE DEF G
  <2> QED BY <2>4 DEF Adds
<1> QED BY <1>2, <1>5

\* The first device a sum takes is added to what the others come to.
LEMMA SumAny ==
    ASSUME NEW at, NEW S, IsFiniteSet(S)
    PROVE  SumX(at, S) = IF S = {} THEN 0 ELSE at[FirstOf(S)][1] + SumX(at, S \ {FirstOf(S)})
<1> DEFINE h == CHOOSE i : Adds(at, S, i)
           r == S \ {FirstOf(S)}
           l == CHOOSE i : Adds(at, r, i)
<1>1. Adds(at, S, h) /\ SumX(at, S) = h[S]
  BY AddsExists, SumIs
<1>2. IsFiniteSet(r) /\ r \subseteq S
  BY FS_Subset
<1>3. Adds(at, r, l) /\ SumX(at, r) = l[r]
  BY <1>2, AddsExists, SumIs
<1>4. l[r] = h[r]
  <2> HIDE DEF l, h, r
  <2> QED BY <1>1, <1>2, <1>3, AddsAgree
<1>5. h[S] = IF S = {} THEN 0 ELSE at[FirstOf(S)][1] + h[r]
  <2> HIDE DEF h
  <2> QED BY <1>1 DEF Adds
<1> QED BY <1>1, <1>3, <1>4, <1>5

\* The devices of S are somewhere.
Placeable(at, S) == \A d \in S : at[d][1] \in Int

\* A sum of coordinates is a number.
LEMMA SumType ==
    ASSUME NEW at, NEW S, IsFiniteSet(S), Placeable(at, S)
    PROVE  SumX(at, S) \in Int
<1> DEFINE Bad == {T \in SUBSET S : SumX(at, T) \notin Int}
<1> SUFFICES ASSUME Bad # {} PROVE FALSE
  OBVIOUS
<1>1. PICK T \in Bad : IsFiniteSet(T) /\ \A U \in SUBSET T : U # T => U \notin Bad
  <2>1. Bad \subseteq SUBSET S
    OBVIOUS
  <2> HIDE DEF Bad
  <2> QED BY <2>1, SmallestOf
<1>2. T \in SUBSET S /\ SumX(at, T) \notin Int
  OBVIOUS
<1>3. SumX(at, T) = IF T = {} THEN 0 ELSE at[FirstOf(T)][1] + SumX(at, T \ {FirstOf(T)})
  BY <1>1, SumAny
<1>4. T # {} /\ FirstOf(T) \in T
  BY <1>2, <1>3, FirstOfIsIn
<1>5. SumX(at, T \ {FirstOf(T)}) \in Int
  BY <1>1, <1>2, <1>4
<1>6. at[FirstOf(T)][1] \in Int
  BY <1>2, <1>4 DEF Placeable
<1> QED BY <1>2, <1>3, <1>4, <1>5, <1>6

\* Any device may be taken first.
LEMMA SumStep ==
    ASSUME NEW at, NEW S, IsFiniteSet(S), Placeable(at, S), NEW x \in S
    PROVE  SumX(at, S) = at[x][1] + SumX(at, S \ {x})
<1> DEFINE Split(T) == \A d \in T : SumX(at, T) = at[d][1] + SumX(at, T \ {d})
           Bad == {T \in SUBSET S : ~ Split(T)}
<1> SUFFICES ASSUME Bad # {} PROVE FALSE
  <2>1. Split(S)
    <3> HIDE DEF Split
    <3> QED OBVIOUS
  <2> QED BY <2>1 DEF Split
<1>1. PICK T \in Bad : IsFiniteSet(T) /\ \A U \in SUBSET T : U # T => U \notin Bad
  <2> HIDE DEF Split
  <2> QED BY SmallestOf
<1>2. T \in SUBSET S /\ ~ Split(T) /\ \A e \in T : Split(T \ {e})
  <2> HIDE DEF Split
  <2> QED BY <1>1
<1>3. PICK d \in T : SumX(at, T) # at[d][1] + SumX(at, T \ {d})
  BY <1>2
<1> DEFINE a == FirstOf(T)
<1>4. a \in T /\ SumX(at, T) = at[a][1] + SumX(at, T \ {a})
  BY <1>1, <1>3, SumAny, FirstOfIsIn
<1>5. a # d
  BY <1>3, <1>4
<1> HIDE DEF a
<1>6. SumX(at, T \ {a}) = at[d][1] + SumX(at, (T \ {a}) \ {d})
  BY <1>2, <1>4, <1>5
<1>7. SumX(at, T \ {d}) = at[a][1] + SumX(at, (T \ {a}) \ {d})
  <2>1. (T \ {d}) \ {a} = (T \ {a}) \ {d}
    OBVIOUS
  <2> QED BY <1>2, <1>4, <1>5, <2>1
<1> DEFINE rest == SumX(at, (T \ {a}) \ {d})
<1>8. rest \in Int /\ at[a][1] \in Int /\ at[d][1] \in Int
  <2>1. IsFiniteSet((T \ {a}) \ {d}) /\ (T \ {a}) \ {d} \subseteq S
    BY <1>1, <1>2, FS_Subset
  <2> QED BY <2>1, <1>2, <1>4, SumType DEF Placeable
<1> HIDE DEF rest
<1>9. SumX(at, T) = at[a][1] + (at[d][1] + rest)
  BY <1>4, <1>6 DEF rest
<1>10. at[d][1] + SumX(at, T \ {d}) = at[d][1] + (at[a][1] + rest)
  BY <1>7 DEF rest
<1> QED BY <1>3, <1>8, <1>9, <1>10

\* A sum depends on nothing but where the devices in it are.
LEMMA SumSame ==
    ASSUME NEW at, NEW to, NEW S, IsFiniteSet(S), \A d \in S : at[d] = to[d]
    PROVE  SumX(at, S) = SumX(to, S)
<1> DEFINE Bad == {T \in SUBSET S : SumX(at, T) # SumX(to, T)}
<1> SUFFICES ASSUME Bad # {} PROVE FALSE
  OBVIOUS
<1>1. PICK T \in Bad : IsFiniteSet(T) /\ \A U \in SUBSET T : U # T => U \notin Bad
  <2>1. Bad \subseteq SUBSET S
    OBVIOUS
  <2> HIDE DEF Bad
  <2> QED BY <2>1, SmallestOf
<1>2. T \in SUBSET S /\ SumX(at, T) # SumX(to, T)
  OBVIOUS
<1>3. /\ SumX(at, T) = IF T = {} THEN 0 ELSE at[FirstOf(T)][1] + SumX(at, T \ {FirstOf(T)})
      /\ SumX(to, T) = IF T = {} THEN 0 ELSE to[FirstOf(T)][1] + SumX(to, T \ {FirstOf(T)})
  BY <1>1, SumAny
<1>4. T # {} /\ FirstOf(T) \in T
  BY <1>2, <1>3, FirstOfIsIn
<1>5. SumX(at, T \ {FirstOf(T)}) = SumX(to, T \ {FirstOf(T)})
  BY <1>1, <1>2, <1>4
<1> QED BY <1>2, <1>3, <1>4, <1>5

\* Sums of sets with nothing in common add up.
LEMMA SumUnion ==
    ASSUME NEW at, NEW S, NEW T, IsFiniteSet(S), IsFiniteSet(T), S \intersect T = {},
           Placeable(at, S \union T)
    PROVE  SumX(at, S \union T) = SumX(at, S) + SumX(at, T)
<1> DEFINE Bad == {U \in SUBSET T : SumX(at, S \union U) # SumX(at, S) + SumX(at, U)}
<1> SUFFICES ASSUME Bad # {} PROVE FALSE
  OBVIOUS
<1>1. PICK U \in Bad : IsFiniteSet(U) /\ \A V \in SUBSET U : V # U => V \notin Bad
  <2>1. Bad \subseteq SUBSET T
    OBVIOUS
  <2> HIDE DEF Bad
  <2> QED BY <2>1, SmallestOf
<1>2. U \in SUBSET T /\ SumX(at, S \union U) # SumX(at, S) + SumX(at, U)
  OBVIOUS
<1>3. SumX(at, S) \in Int
  BY SumType DEF Placeable
<1>4. CASE U = {}
  <2>1. SumX(at, U) = 0
    BY <1>1, <1>4, SumAny
  <2>2. S \union U = S
    BY <1>4
  <2> HIDE DEF Bad
  <2> QED BY <1>2, <1>3, <2>1, <2>2
<1>5. CASE U # {}
  <2>1. PICK e \in U : TRUE
    BY <1>5
  <2>2. SumX(at, S \union (U \ {e})) = SumX(at, S) + SumX(at, U \ {e})
    BY <1>1, <1>2
  <2>3. IsFiniteSet(S \union U) /\ IsFiniteSet(U \ {e}) /\ e \in S \union U
    BY <1>1, FS_Union, FS_Subset
  <2>4. SumX(at, S \union U) = at[e][1] + SumX(at, S \union (U \ {e}))
    <3>1. (S \union U) \ {e} = S \union (U \ {e})
      BY <1>2
    <3>2. Placeable(at, S \union U)
      BY <1>2 DEF Placeable
    <3> QED BY <2>3, <3>1, <3>2, SumStep
  <2>5. SumX(at, U) = at[e][1] + SumX(at, U \ {e})
    BY <1>1, <1>2, SumStep DEF Placeable
  <2>6. SumX(at, U \ {e}) \in Int /\ at[e][1] \in Int
    BY <1>2, <2>3, SumType DEF Placeable
  <2> QED BY <1>2, <1>3, <2>2, <2>4, <2>5, <2>6
<1> QED BY <1>4, <1>5

-----------------------------------------------------------------------------
(* Masses *)

\* What a device carries under one key.
Amount == [n : Int, x : Int]

\* An amount is its two numbers.
LEMMA AmountIs ==
    ASSUME NEW a \in Amount
    PROVE  a.n \in Int /\ a.x \in Int /\ a = [n |-> a.n, x |-> a.x]
BY DEF Amount

\* Two numbers are an amount.
LEMMA AmountOf ==
    ASSUME NEW n \in Int, NEW x \in Int
    PROVE  [n |-> n, x |-> x] \in Amount
BY DEF Amount

\* Amounts add up as numbers do.
LEMMA PlusLaws ==
    ASSUME NEW a \in Amount, NEW b \in Amount, NEW c \in Amount
    PROVE  /\ Plus(a, b) \in Amount /\ Times(1, a) = a /\ Times(-1, a) \in Amount
           /\ Zero \in Amount /\ Plus(a, Zero) = a /\ Plus(Zero, a) = a
           /\ Times(1, Zero) = Zero /\ Times(-1, Zero) = Zero
           /\ Plus(a, b) = Plus(b, a)
           /\ Plus(Plus(a, b), c) = Plus(a, Plus(b, c))
           /\ Plus(Plus(a, b), Times(-1, b)) = a
<1>1. /\ a.n \in Int /\ a.x \in Int /\ a = [n |-> a.n, x |-> a.x]
      /\ b.n \in Int /\ b.x \in Int /\ b = [n |-> b.n, x |-> b.x]
      /\ c.n \in Int /\ c.x \in Int
  BY AmountIs
<1>2. /\ Plus(a, b) \in Amount /\ Times(-1, a) \in Amount /\ Zero \in Amount
  BY <1>1, AmountOf DEF Plus, Times, Zero
<1>3. Plus(a, b) = [n |-> a.n + b.n, x |-> a.x + b.x] /\ Plus(b, a) = [n |-> b.n + a.n, x |-> b.x + a.x]
  BY DEF Plus
<1>4. Plus(a, b) = Plus(b, a)
  BY <1>1, <1>3
<1>5. /\ Times(1, a) = a /\ Plus(a, Zero) = a /\ Plus(Zero, a) = a
      /\ Times(1, Zero) = Zero /\ Times(-1, Zero) = Zero
  BY <1>1 DEF Plus, Times, Zero
<1>6. Plus(Plus(a, b), c) = Plus(a, Plus(b, c))
  BY <1>1 DEF Plus
<1>7. Plus(Plus(a, b), Times(-1, b)) = a
  BY <1>1 DEF Plus, Times
<1> QED BY <1>2, <1>4, <1>5, <1>6, <1>7

\* MassOf, with the positions and cells it reads.
Marked(cs, S, k) == {d \in S : k = All \/ k \in cs[d]}
\* The mass of S, by the positions and cells given.
Mass(at, cs, S, k) == [n |-> Cardinality(Marked(cs, S, k)), x |-> SumX(at, Marked(cs, S, k))]

\* What one device adds.
Own(at, cs, d, k) ==
    IF k = All \/ k \in cs[d] THEN [n |-> 1, x |-> at[d][1]] ELSE Zero

\* The mass of the model is that of its positions and cells.
LEMMA MassOfIs == \A S, k : MassOf(S, k) = Mass(pos, cells, S, k)
BY DEF MassOf, Mass, Marked

\* A mass is an amount.
LEMMA MassType ==
    ASSUME NEW at, NEW cs, NEW S, IsFiniteSet(S), Placeable(at, S), NEW k
    PROVE  Mass(at, cs, S, k) \in Amount
<1> DEFINE in == Marked(cs, S, k)
<1>1. IsFiniteSet(in) /\ in \subseteq S
  BY FS_Subset DEF Marked
<1>2. Cardinality(in) \in Int /\ SumX(at, in) \in Int
  BY <1>1, FS_CardinalityType, SumType DEF Placeable
<1> QED BY <1>2, AmountOf DEF Mass

\* What one device adds is an amount.
LEMMA OwnType ==
    ASSUME NEW at, NEW cs, NEW d, at[d][1] \in Int, NEW k
    PROVE  Own(at, cs, d, k) \in Amount
BY AmountOf DEF Own, Zero

\* A mass depends on nothing but its own devices.
LEMMA MassSame ==
    ASSUME NEW at, NEW cs, NEW at2, NEW cs2, NEW S, IsFiniteSet(S), NEW k,
           \A d \in S : at[d] = at2[d] /\ cs[d] = cs2[d]
    PROVE  Mass(at, cs, S, k) = Mass(at2, cs2, S, k)
<1>1. Marked(cs, S, k) = Marked(cs2, S, k)
  BY DEF Marked
<1>2. IsFiniteSet(Marked(cs, S, k)) /\ Marked(cs, S, k) \subseteq S
  BY FS_Subset DEF Marked
<1>3. SumX(at, Marked(cs, S, k)) = SumX(at2, Marked(cs, S, k))
  BY <1>2, SumSame
<1> QED BY <1>1, <1>3 DEF Mass

\* Masses of sets with nothing in common add up.
LEMMA MassUnion ==
    ASSUME NEW at, NEW cs, NEW S, NEW T, IsFiniteSet(S), IsFiniteSet(T),
           S \intersect T = {}, Placeable(at, S \union T), NEW k
    PROVE  Mass(at, cs, S \union T, k) = Plus(Mass(at, cs, S, k), Mass(at, cs, T, k))
<1> DEFINE s == Marked(cs, S, k)
           t == Marked(cs, T, k)
<1>1. /\ Marked(cs, S \union T, k) = s \union t /\ s \intersect t = {}
      /\ s \subseteq S /\ t \subseteq T
  BY DEF Marked
<1>2. IsFiniteSet(s) /\ IsFiniteSet(t)
  BY <1>1, FS_Subset
<1>3. Placeable(at, s \union t)
  BY <1>1 DEF Placeable
<1> HIDE DEF s, t
<1>4. SumX(at, s \union t) = SumX(at, s) + SumX(at, t)
  BY <1>1, <1>2, <1>3, SumUnion
<1>5. Cardinality(s \union t) = Cardinality(s) + Cardinality(t)
  <2>1. Cardinality(s \union t) = Cardinality(s) + Cardinality(t) - Cardinality({})
    BY <1>1, <1>2, FS_Union
  <2>2. Cardinality(s) \in Nat /\ Cardinality(t) \in Nat /\ Cardinality({}) = 0
    BY <1>2, FS_CardinalityType, FS_EmptySet
  <2> QED BY <2>1, <2>2
<1> QED BY <1>1, <1>4, <1>5 DEF Mass, Plus, s, t

\* No devices, no mass; one device, its own.
LEMMA MassOfFew ==
    ASSUME NEW at, NEW cs, NEW k
    PROVE  /\ Mass(at, cs, {}, k) = Zero
           /\ \A d : at[d][1] \in Int => Mass(at, cs, {d}, k) = Own(at, cs, d, k)
<1>1. Cardinality({}) = 0 /\ IsFiniteSet({}) /\ SumX(at, {}) = 0
  BY FS_EmptySet, SumAny
<1>2. Mass(at, cs, {}, k) = Zero
  <2>1. Marked(cs, {}, k) = {}
    BY DEF Marked
  <2> QED BY <1>1, <2>1 DEF Mass, Zero
<1>3. ASSUME NEW d, at[d][1] \in Int PROVE Mass(at, cs, {d}, k) = Own(at, cs, d, k)
  <2>1. CASE k = All \/ k \in cs[d]
    <3>1. Marked(cs, {d}, k) = {d}
      BY <2>1 DEF Marked
    <3>2. Cardinality({d}) = 1 /\ IsFiniteSet({d})
      BY FS_Singleton
    <3>3. {d} \ {d} = {} /\ Placeable(at, {d})
      BY <1>3 DEF Placeable
    <3>4. SumX(at, {d}) = at[d][1] + 0
      <4> DEFINE one == {d}
      <4>1. d \in one /\ one \ {d} = {} /\ IsFiniteSet(one) /\ Placeable(at, one)
        BY <3>2, <3>3
      <4> HIDE DEF one
      <4>2. SumX(at, one) = at[d][1] + SumX(at, one \ {d})
        BY <4>1, SumStep
      <4>3. SumX(at, one) = at[d][1] + 0
        BY <4>1, <4>2, <1>1
      <4> QED BY <4>3 DEF one
    <3>5. SumX(at, {d}) = at[d][1]
      BY <1>3, <3>4
    <3>6. Mass(at, cs, {d}, k) = [n |-> 1, x |-> at[d][1]]
      BY <3>1, <3>2, <3>5 DEF Mass
    <3> QED BY <2>1, <3>6 DEF Own
  <2>2. CASE ~ (k = All \/ k \in cs[d])
    <3>1. Marked(cs, {d}, k) = {}
      BY <2>2 DEF Marked
    <3> QED BY <1>1, <2>2, <3>1 DEF Mass, Own, Zero
  <2> QED BY <2>1, <2>2
<1> QED BY <1>2, <1>3

\* One device more.
LEMMA MassAdd ==
    ASSUME NEW at, NEW cs, NEW S, IsFiniteSet(S), NEW d, d \notin S,
           Placeable(at, S \union {d}), NEW k
    PROVE  Mass(at, cs, S \union {d}, k) = Plus(Mass(at, cs, S, k), Own(at, cs, d, k))
<1>1. at[d][1] \in Int
  BY DEF Placeable
<1>2. IsFiniteSet({d}) /\ S \intersect {d} = {}
  BY FS_Singleton
<1>3. Mass(at, cs, S \union {d}, k) = Plus(Mass(at, cs, S, k), Mass(at, cs, {d}, k))
  BY <1>2, MassUnion
<1>4. Mass(at, cs, {d}, k) = Own(at, cs, d, k)
  BY <1>1, MassOfFew
<1> QED BY <1>3, <1>4

-----------------------------------------------------------------------------
(* Chains of ancestors *)

\* g follows f from d for n steps.
UpTo(f, d, n, g) ==
    g = [i \in 0..n |-> IF i = 0 THEN {d} ELSE g[i - 1] \union {f[e] : e \in g[i - 1] \ {NONE}}]

\* The steps up from d, all of them.
Up(f, d) == CHOOSE g : UpTo(f, d, Leaf + 1, g)

\* A chain is what the steps up end with.
LEMMA ChainIsUp == \A f, d : Chain(f, d) = Up(f, d)[Leaf + 1] \ {NONE}
BY DEF Chain, Up, UpTo

\* Any number of steps up can be taken.
LEMMA UpToExists == \A f, d : \A n \in Nat : \E g : UpTo(f, d, n, g)
<1> SUFFICES ASSUME NEW f, NEW d PROVE \A n \in Nat : \E g : UpTo(f, d, n, g)
  OBVIOUS
<1> DEFINE Bad == {n \in Nat : ~ \E g : UpTo(f, d, n, g)}
<1> SUFFICES ASSUME Bad # {} PROVE FALSE
  OBVIOUS
<1>1. PICK n \in Bad : \A m \in Bad : n <= m
  <2>1. Bad \subseteq Nat
    OBVIOUS
  <2> HIDE DEF Bad
  <2> QED BY <2>1, LeastOf
<1>2. n \in Nat /\ ~ (\E g : UpTo(f, d, n, g))
  BY <1>1
<1>3. CASE n = 0
  <2> DEFINE g == [i \in 0..0 |-> {d}]
  <2>1. UpTo(f, d, 0, g)
    BY DEF UpTo
  <2> QED BY <1>2, <1>3, <2>1
<1>4. CASE n # 0
  <2>1. n - 1 \in Nat /\ n - 1 \notin Bad
    BY <1>1, <1>2, <1>4
  <2>2. PICK g : UpTo(f, d, n - 1, g)
    BY <2>1
  <2> DEFINE next(S) == S \union {f[e] : e \in S \ {NONE}}
             h == [i \in 0..n |-> IF i = n THEN next(g[n - 1]) ELSE g[i]]
  <2> HIDE DEF next
  <2>3. \A i \in 0..(n - 1) : g[i] = IF i = 0 THEN {d} ELSE next(g[i - 1])
    BY <2>2 DEF UpTo, next
  <2>4. \A i \in 0..n : h[i] = IF i = 0 THEN {d} ELSE next(h[i - 1])
    <3> SUFFICES ASSUME NEW i \in 0..n PROVE h[i] = IF i = 0 THEN {d} ELSE next(h[i - 1])
      OBVIOUS
    <3>1. CASE i = n
      <4>1. n - 1 \in 0..n /\ n - 1 # n
        BY <1>2, <1>4
      <4>2. h[n - 1] = g[n - 1]
        BY <4>1
      <4> QED BY <3>1, <4>2, <1>4
    <3>2. CASE i # n /\ i # 0
      <4>1. i - 1 \in 0..n /\ i - 1 # n /\ i \in 0..(n - 1)
        BY <1>2, <3>2
      <4>2. h[i - 1] = g[i - 1] /\ h[i] = g[i]
        BY <3>2, <4>1
      <4> QED BY <3>2, <4>1, <4>2, <2>3
    <3>3. CASE i = 0
      <4>1. h[i] = g[i] /\ i \in 0..(n - 1)
        BY <1>2, <1>4, <3>3
      <4> QED BY <3>3, <4>1, <2>3
    <3> QED BY <3>1, <3>2, <3>3
  <2>5. h = [i \in 0..n |-> h[i]]
    OBVIOUS
  <2>6. UpTo(f, d, n, h)
    <3> HIDE DEF h
    <3> QED BY <2>4, <2>5 DEF UpTo, next
  <2> QED BY <1>2, <2>6
<1> QED BY <1>3, <1>4

\* Each step up adds the parents of what is there.
LEMMA UpSteps ==
    ASSUME NEW f, NEW d
    PROVE  /\ Up(f, d)[0] = {d}
           /\ \A n \in 0..Leaf : Up(f, d)[n + 1] = Up(f, d)[n] \union {f[e] : e \in Up(f, d)[n] \ {NONE}}
<1> DEFINE g == Up(f, d)
<1>1. Leaf \in Nat /\ Leaf + 1 \in Nat
  BY ZoomAssumption DEF Leaf
<1>2. UpTo(f, d, Leaf + 1, g)
  BY <1>1, UpToExists DEF Up
<1> HIDE DEF g
<1>3. \A i \in 0..(Leaf + 1) :
        g[i] = IF i = 0 THEN {d} ELSE g[i - 1] \union {f[e] : e \in g[i - 1] \ {NONE}}
  BY <1>2 DEF UpTo
<1>4. g[0] = {d}
  <2>1. 0 \in 0..(Leaf + 1)
    BY <1>1
  <2> QED BY <1>3, <2>1
<1>5. ASSUME NEW n \in 0..Leaf
      PROVE  g[n + 1] = g[n] \union {f[e] : e \in g[n] \ {NONE}}
  <2>1. n + 1 \in 0..(Leaf + 1) /\ n + 1 # 0 /\ (n + 1) - 1 = n
    BY <1>1
  <2> QED BY <1>3, <2>1
<1> QED BY <1>4, <1>5 DEF g

\* The first step from d is to f[d].
LEMMA UpShift ==
    ASSUME NEW f, NEW d, d # NONE
    PROVE  \A n \in 0..Leaf : Up(f, d)[n + 1] = {d} \union Up(f, f[d])[n]
<1> DEFINE g == Up(f, d)
           h == Up(f, f[d])
           Bad == {n \in 0..Leaf : g[n + 1] # {d} \union h[n]}
<1>1. Leaf \in Nat
  BY ZoomAssumption DEF Leaf
<1>2. /\ g[0] = {d} /\ h[0] = {f[d]}
      /\ \A n \in 0..Leaf : g[n + 1] = g[n] \union {f[e] : e \in g[n] \ {NONE}}
      /\ \A n \in 0..Leaf : h[n + 1] = h[n] \union {f[e] : e \in h[n] \ {NONE}}
  BY UpSteps
<1> HIDE DEF g, h
<1> SUFFICES ASSUME Bad # {} PROVE FALSE
  BY DEF g, h
<1>3. PICK n \in Bad : \A m \in Bad : n <= m
  <2>1. Bad \subseteq Nat
    OBVIOUS
  <2> HIDE DEF Bad
  <2> QED BY <2>1, LeastOf
<1>4. n \in 0..Leaf /\ g[n + 1] # {d} \union h[n]
  OBVIOUS
<1>5. n # 0
  <2> SUFFICES ASSUME n = 0 PROVE FALSE
    OBVIOUS
  <2>1. g[0 + 1] = g[0] \union {f[e] : e \in g[0] \ {NONE}}
    BY <1>1, <1>2
  <2> QED BY <1>2, <1>4, <2>1
<1>6. n - 1 \in 0..Leaf /\ (n - 1) + 1 = n
  BY <1>1, <1>4, <1>5
<1>7. g[n] = {d} \union h[n - 1]
  BY <1>3, <1>6
<1>8. h[n] = h[n - 1] \union {f[e] : e \in h[n - 1] \ {NONE}}
  BY <1>2, <1>6
<1>9. \A m \in 0..n : f[d] \in h[m]
  <2> DEFINE Less == {m \in 0..n : f[d] \notin h[m]}
  <2> SUFFICES ASSUME Less # {} PROVE FALSE
    OBVIOUS
  <2>1. PICK m \in Less : \A k \in Less : m <= k
    <3>1. Less \subseteq Nat
      OBVIOUS
    <3> HIDE DEF Less
    <3> QED BY <3>1, LeastOf
  <2>2. m # 0
    BY <1>2
  <2>3. m - 1 \in 0..n /\ m - 1 \in 0..Leaf /\ (m - 1) + 1 = m /\ m - 1 \notin Less
    BY <1>1, <1>4, <2>1, <2>2
  <2>4. h[m] = h[m - 1] \union {f[e] : e \in h[m - 1] \ {NONE}}
    BY <1>2, <2>3
  <2> QED BY <2>3, <2>4
<1>10. f[d] \in h[n - 1]
  BY <1>4, <1>5, <1>9
<1>11. g[n + 1] = g[n] \union {f[e] : e \in g[n] \ {NONE}}
  BY <1>2, <1>4
<1> QED BY <1>4, <1>7, <1>8, <1>10, <1>11

\* From nowhere the steps lead nowhere.
LEMMA UpNone == \A f : \A n \in 0..(Leaf + 1) : Up(f, NONE)[n] = {NONE}
<1> SUFFICES ASSUME NEW f PROVE \A n \in 0..(Leaf + 1) : Up(f, NONE)[n] = {NONE}
  OBVIOUS
<1> DEFINE g == Up(f, NONE)
           Bad == {n \in 0..(Leaf + 1) : g[n] # {NONE}}
<1>1. Leaf \in Nat
  BY ZoomAssumption DEF Leaf
<1>2. g[0] = {NONE} /\ \A n \in 0..Leaf : g[n + 1] = g[n] \union {f[e] : e \in g[n] \ {NONE}}
  BY UpSteps
<1> HIDE DEF g
<1> SUFFICES ASSUME Bad # {} PROVE FALSE
  BY DEF g
<1>3. PICK n \in Bad : \A m \in Bad : n <= m
  <2>1. Bad \subseteq Nat
    OBVIOUS
  <2> HIDE DEF Bad
  <2> QED BY <2>1, LeastOf
<1>4. n \in 0..(Leaf + 1) /\ g[n] # {NONE}
  OBVIOUS
<1>5. n # 0
  BY <1>2, <1>4
<1>6. n - 1 \in 0..Leaf /\ n - 1 \in 0..(Leaf + 1) /\ (n - 1) + 1 = n /\ n - 1 \notin Bad
  BY <1>1, <1>3, <1>4, <1>5
<1>7. g[n - 1] = {NONE}
  BY <1>6
<1>8. g[n] = g[n - 1] \union {f[e] : e \in g[n - 1] \ {NONE}}
  BY <1>2, <1>6
<1> QED BY <1>4, <1>7, <1>8

\* Along f levels decrease, within L.
Forest(f, L, t) ==
    /\ NONE \notin L
    /\ \A e \in L : /\ t[e] \in 0..Leaf
                    /\ f[e] # NONE => f[e] \in L /\ t[f[e]] < t[e]

\* A device of L on the lowest level that some devices of L are on.
LEMMA LowestOf ==
    ASSUME NEW f, NEW L, NEW t, Forest(f, L, t), NEW S, S \subseteq L, S # {}
    PROVE  \E d \in S : \A e \in S : t[d] <= t[e]
<1> DEFINE T == {t[d] : d \in S}
<1>1. T \subseteq Nat /\ T # {}
  BY ZoomAssumption DEF Forest, Leaf
<1>2. PICK k \in T : \A m \in T : k <= m
  <2> HIDE DEF T
  <2> QED BY <1>1, LeastOf
<1> QED BY <1>2

\* After as many steps as there are levels below, nothing new is met.
LEMMA UpEnds ==
    ASSUME NEW f, NEW L, NEW t, Forest(f, L, t)
    PROVE  \A d \in L : \A n \in (t[d] + 1)..Leaf : Up(f, d)[n + 1] = Up(f, d)[n]
<1> DEFINE Ended(d) == \A n \in (t[d] + 1)..Leaf : Up(f, d)[n + 1] = Up(f, d)[n]
           Bad == {d \in L : ~ Ended(d)}
<1> HIDE DEF Ended
<1> SUFFICES ASSUME Bad # {} PROVE FALSE
  BY DEF Ended
<1>1. PICK d \in Bad : \A e \in Bad : t[d] <= t[e]
  <2>1. Bad \subseteq L
    OBVIOUS
  <2> HIDE DEF Bad
  <2> QED BY <2>1, LowestOf
<1>2. d \in L /\ ~ Ended(d) /\ d # NONE /\ t[d] \in 0..Leaf /\ Leaf \in Nat
  BY ZoomAssumption DEF Forest, Leaf
<1>3. PICK n \in (t[d] + 1)..Leaf : Up(f, d)[n + 1] # Up(f, d)[n]
  BY <1>2 DEF Ended
<1>4. /\ n \in 0..Leaf /\ n - 1 \in 0..Leaf /\ (n - 1) + 1 = n /\ n - 1 >= t[d]
      /\ n \in 0..(Leaf + 1) /\ n - 1 \in 0..(Leaf + 1)
  BY <1>2, <1>3
<1>5. /\ Up(f, d)[n + 1] = {d} \union Up(f, f[d])[n]
      /\ Up(f, d)[n] = {d} \union Up(f, f[d])[n - 1]
  BY <1>2, <1>4, UpShift
<1>6. CASE f[d] = NONE
  BY <1>3, <1>4, <1>5, <1>6, UpNone
<1>7. CASE f[d] # NONE
  <2>1. f[d] \in L /\ t[f[d]] < t[d] /\ t[f[d]] \in 0..Leaf
    BY <1>2, <1>7 DEF Forest
  <2>2. f[d] \notin Bad
    BY <1>1, <1>2, <2>1
  <2>3. Ended(f[d])
    BY <2>1, <2>2
  <2>4. n - 1 \in (t[f[d]] + 1)..Leaf
    BY <1>2, <1>4, <2>1
  <2>5. Up(f, f[d])[(n - 1) + 1] = Up(f, f[d])[n - 1]
    BY <2>3, <2>4 DEF Ended
  <2> QED BY <1>3, <1>4, <1>5, <2>5
<1> QED BY <1>6, <1>7

\* A chain is a device and the chain of its parent.
LEMMA ChainStep ==
    ASSUME NEW f, NEW L, NEW t, Forest(f, L, t)
    PROVE  /\ Chain(f, NONE) = {}
           /\ \A d \in L : Chain(f, d) = {d} \union Chain(f, f[d])
<1>1. Leaf \in Nat /\ Leaf + 1 \in 0..(Leaf + 1) /\ Leaf \in 0..Leaf /\ Leaf \in 0..(Leaf + 1)
  BY ZoomAssumption DEF Leaf
<1>2. Chain(f, NONE) = {}
  BY <1>1, ChainIsUp, UpNone
<1>3. ASSUME NEW d \in L PROVE Chain(f, d) = {d} \union Chain(f, f[d])
  <2>1. d # NONE /\ t[d] \in 0..Leaf
    BY DEF Forest
  <2>2. Up(f, d)[Leaf + 1] = {d} \union Up(f, f[d])[Leaf]
    BY <1>1, <2>1, UpShift
  <2>3. Up(f, f[d])[Leaf] = Up(f, f[d])[Leaf + 1]
    <3>1. CASE f[d] = NONE
      BY <1>1, <3>1, UpNone
    <3>2. CASE f[d] # NONE
      <4>1. f[d] \in L /\ t[f[d]] < t[d] /\ t[f[d]] \in 0..Leaf
        BY <3>2 DEF Forest
      <4>2. Leaf \in (t[f[d]] + 1)..Leaf
        BY <1>1, <2>1, <4>1
      <4> QED BY <4>1, <4>2, UpEnds
    <3> QED BY <3>1, <3>2
  <2> QED BY <2>1, <2>2, <2>3, ChainIsUp
<1> QED BY <1>2, <1>3

\* A chain stays in the forest, and goes down in levels.
LEMMA ChainFalls ==
    ASSUME NEW f, NEW L, NEW t, Forest(f, L, t)
    PROVE  \A d \in L : /\ d \in Chain(f, d) /\ Chain(f, d) \subseteq L
                        /\ \A a \in Chain(f, d) : a # d => t[a] < t[d]
<1> DEFINE Falls(d) == Chain(f, d) \subseteq L /\ \A a \in Chain(f, d) : a # d => t[a] < t[d]
           Bad == {d \in L : ~ Falls(d)}
<1>1. \A d \in L : d \in Chain(f, d)
  BY ChainStep
<1>2. Bad = {}
  <2> HIDE DEF Falls
  <2> SUFFICES ASSUME Bad # {} PROVE FALSE
    OBVIOUS
  <2>1. PICK d \in Bad : \A e \in Bad : t[d] <= t[e]
    <3>1. Bad \subseteq L
      OBVIOUS
    <3> HIDE DEF Bad
    <3> QED BY <3>1, LowestOf
  <2>2. d \in L /\ ~ Falls(d) /\ t[d] \in Int /\ Chain(f, d) = {d} \union Chain(f, f[d])
    BY ChainStep, ZoomAssumption DEF Forest, Leaf
  <2>3. CASE f[d] = NONE
    <3>1. Chain(f, d) = {d}
      BY <2>2, <2>3, ChainStep
    <3> QED BY <2>2, <3>1 DEF Falls
  <2>4. CASE f[d] # NONE
    <3>1. f[d] \in L /\ t[f[d]] < t[d] /\ t[f[d]] \in Int
      BY <2>2, <2>4, ZoomAssumption DEF Forest, Leaf
    <3>2. Falls(f[d])
      <4>1. f[d] \notin Bad
        BY <2>1, <2>2, <3>1
      <4> QED BY <3>1, <4>1
    <3>3. \A a \in Chain(f, f[d]) : a \in L /\ t[a] < t[d]
      <4> SUFFICES ASSUME NEW a \in Chain(f, f[d]) PROVE a \in L /\ t[a] < t[d]
        OBVIOUS
      <4>1. a \in L /\ (a # f[d] => t[a] < t[f[d]])
        BY <3>2 DEF Falls
      <4>2. t[a] \in Int
        BY <4>1, ZoomAssumption DEF Forest, Leaf
      <4> QED BY <2>2, <3>1, <4>1, <4>2
    <3> QED BY <2>2, <3>3 DEF Falls
  <2> QED BY <2>3, <2>4
<1> QED BY <1>1, <1>2

\* What is above b is above all that b is above.
LEMMA ChainAbove ==
    ASSUME NEW f, NEW L, NEW t, Forest(f, L, t)
    PROVE  \A d \in L : \A b \in Chain(f, d) : Chain(f, b) \subseteq Chain(f, d)
<1> DEFINE Above(d) == \A b \in Chain(f, d) : Chain(f, b) \subseteq Chain(f, d)
           Bad == {d \in L : ~ Above(d)}
<1> HIDE DEF Above
<1> SUFFICES ASSUME Bad # {} PROVE FALSE
  BY DEF Above
<1>1. PICK d \in Bad : \A e \in Bad : t[d] <= t[e]
  <2>1. Bad \subseteq L
    OBVIOUS
  <2> HIDE DEF Bad
  <2> QED BY <2>1, LowestOf
<1>2. d \in L /\ ~ Above(d) /\ t[d] \in Int /\ Chain(f, d) = {d} \union Chain(f, f[d])
  BY ChainStep, ZoomAssumption DEF Forest, Leaf
<1>3. CASE f[d] = NONE
  <2>1. Chain(f, d) = {d}
    BY <1>2, <1>3, ChainStep
  <2> QED BY <1>2, <2>1 DEF Above
<1>4. CASE f[d] # NONE
  <2>1. f[d] \in L /\ t[f[d]] < t[d] /\ t[f[d]] \in Int
    BY <1>2, <1>4, ZoomAssumption DEF Forest, Leaf
  <2>2. Above(f[d])
    <3>1. f[d] \notin Bad
      BY <1>1, <1>2, <2>1
    <3> QED BY <2>1, <3>1
  <2> QED BY <1>2, <2>2 DEF Above
<1> QED BY <1>3, <1>4

\* Two forests that agree on devices among which chains stay have the same chains there.
LEMMA ChainSame ==
    ASSUME NEW f, NEW L, NEW t, Forest(f, L, t), NEW g, NEW M, NEW u, Forest(g, M, u),
           NEW S, S \subseteq L, S \subseteq M,
           \A e \in S : g[e] = f[e] /\ f[e] \in S \union {NONE}
    PROVE  \A e \in S \union {NONE} : Chain(g, e) = Chain(f, e)
<1> DEFINE Bad == {d \in S : Chain(g, d) # Chain(f, d)}
<1>1. Chain(g, NONE) = Chain(f, NONE)
  BY ChainStep
<1> SUFFICES ASSUME Bad # {} PROVE FALSE
  BY <1>1
<1>2. PICK d \in Bad : \A e \in Bad : t[d] <= t[e]
  <2>1. Bad \subseteq L
    OBVIOUS
  <2> HIDE DEF Bad
  <2> QED BY <2>1, LowestOf
<1>3. d \in S /\ d \in L /\ d \in M /\ t[d] \in Int /\ Chain(g, d) # Chain(f, d)
  BY ZoomAssumption DEF Forest, Leaf
<1>4. Chain(f, d) = {d} \union Chain(f, f[d]) /\ Chain(g, d) = {d} \union Chain(g, f[d])
  BY <1>3, ChainStep
<1>5. f[d] # NONE
  BY <1>1, <1>3, <1>4
<1>6. f[d] \in S /\ f[d] \in L /\ t[f[d]] < t[d] /\ t[f[d]] \in Int
  BY <1>3, <1>5, ZoomAssumption DEF Forest, Leaf
<1>7. f[d] \notin Bad
  BY <1>2, <1>3, <1>6
<1> QED BY <1>3, <1>4, <1>6, <1>7

\* The subtree of c is what has c above it.
Subtree(f, L, c) == {e \in L : c \in Chain(f, e)}

\* Whatever c is moved under, its subtree goes with it: the chains inside stay, and
\* those of the new parent are put behind.
LEMMA ChainSplits ==
    ASSUME NEW f, NEW L, NEW t, Forest(f, L, t), NEW g, NEW u, Forest(g, L, u),
           NEW c \in L, \A e \in L \ {c} : g[e] = f[e]
    PROVE  \A e \in Subtree(f, L, c) :
              Chain(g, e) = (Chain(f, e) \intersect Subtree(f, L, c)) \union Chain(g, g[c])
<1> DEFINE K == Subtree(f, L, c)
           Bad == {d \in K : Chain(g, d) # (Chain(f, d) \intersect K) \union Chain(g, g[c])}
<1> SUFFICES ASSUME Bad # {} PROVE FALSE
  OBVIOUS
<1>1. PICK d \in Bad : \A e \in Bad : t[d] <= t[e]
  <2>1. Bad \subseteq L
    BY DEF Subtree
  <2> HIDE DEF Bad
  <2> QED BY <2>1, LowestOf
<1>2. /\ d \in K /\ d \in L /\ t[d] \in Int
      /\ Chain(g, d) # (Chain(f, d) \intersect K) \union Chain(g, g[c])
  <2>1. d \in K /\ Chain(g, d) # (Chain(f, d) \intersect K) \union Chain(g, g[c])
    OBVIOUS
  <2>2. d \in L
    BY <2>1 DEF Subtree
  <2> QED BY <2>1, <2>2, ZoomAssumption DEF Forest, Leaf
<1>3. Chain(f, d) = {d} \union Chain(f, f[d]) /\ Chain(g, d) = {d} \union Chain(g, g[d])
  BY <1>2, ChainStep
<1>4. CASE d = c
  <2>1. Chain(f, c) \intersect K = {c}
    <3>1. ASSUME NEW a \in Chain(f, c), a \in K, a # c PROVE FALSE
      <4>1. c \in Chain(f, a) /\ a \in L
        BY <3>1 DEF Subtree
      <4>2. t[c] < t[a] /\ t[a] < t[c] /\ t[a] \in Int /\ t[c] \in Int
        BY <3>1, <4>1, ChainFalls, ZoomAssumption DEF Forest, Leaf
      <4> QED BY <4>2
    <3> QED BY <1>2, <1>3, <1>4, <3>1
  <2> QED BY <1>2, <1>3, <1>4, <2>1
<1>5. CASE d # c
  <2>1. g[d] = f[d]
    BY <1>2, <1>5
  <2>2. c \in Chain(f, f[d])
    BY <1>2, <1>3, <1>5 DEF Subtree
  <2>3. f[d] # NONE
    BY <2>2, ChainStep
  <2>4. f[d] \in L /\ t[f[d]] < t[d] /\ t[f[d]] \in Int
    BY <1>2, <2>3, ZoomAssumption DEF Forest, Leaf
  <2>5. f[d] \in K
    BY <2>2, <2>4 DEF Subtree
  <2>6. f[d] \notin Bad
    BY <1>1, <1>2, <2>4
  <2>7. Chain(g, f[d]) = (Chain(f, f[d]) \intersect K) \union Chain(g, g[c])
    BY <2>5, <2>6
  <2> HIDE DEF K
  <2> QED BY <1>2, <1>3, <2>1, <2>7
<1> QED BY <1>4, <1>5

-----------------------------------------------------------------------------
(* Child lists *)

\* A list with c put in, or taken out, place by place.
LEMMA InsertIs ==
    ASSUME NEW S, NEW list \in Seq(S), NEW c \in S, NEW m \in 0..Len(list)
    PROVE  /\ InsertAt(list, m + 1, c) \in Seq(S)
           /\ Len(InsertAt(list, m + 1, c)) = Len(list) + 1
           /\ \A i \in 1..(Len(list) + 1) :
                 InsertAt(list, m + 1, c)[i] = IF i <= m THEN list[i]
                                               ELSE IF i = m + 1 THEN c ELSE list[i - 1]
<1>1. Len(list) \in Nat /\ m \in Nat /\ (m + 1) - 1 = m
  OBVIOUS
<1> DEFINE a == SubSeq(list, 1, m)
           b == SubSeq(list, m + 1, Len(list))
<1>2. a \in Seq(S) /\ Len(a) = m /\ \A i \in 1..m : a[i] = list[i]
  BY <1>1
<1>3. b \in Seq(S) /\ Len(b) = Len(list) - m /\ \A i \in 1..(Len(list) - m) : b[i] = list[m + i]
  BY <1>1
<1>4. InsertAt(list, m + 1, c) = a \o <<c>> \o b
  BY <1>1 DEF InsertAt
<1> HIDE DEF a, b
<1>5. a \o <<c>> \in Seq(S) /\ Len(a \o <<c>>) = m + 1
      /\ \A i \in 1..(m + 1) : (a \o <<c>>)[i] = IF i <= m THEN list[i] ELSE c
  BY <1>1, <1>2
<1> DEFINE r == (a \o <<c>>) \o b
<1>6. r \in Seq(S) /\ Len(r) = Len(list) + 1
  BY <1>1, <1>3, <1>5
<1>7. ASSUME NEW i \in 1..(Len(list) + 1)
      PROVE  r[i] = IF i <= m THEN list[i] ELSE IF i = m + 1 THEN c ELSE list[i - 1]
  <2>1. CASE i <= m + 1
    <3>1. r[i] = (a \o <<c>>)[i]
      BY <1>1, <1>3, <1>5, <2>1
    <3>2. i \in 1..(m + 1)
      BY <1>1, <2>1
    <3>3. i <= m \/ i = m + 1
      BY <1>1, <2>1
    <3> QED BY <1>1, <1>5, <3>1, <3>2, <3>3
  <2>2. CASE i > m + 1
    <3>1. r[i] = b[i - (m + 1)]
      BY <1>1, <1>3, <1>5, <2>2
    <3>2. i - (m + 1) \in 1..(Len(list) - m) /\ m + (i - (m + 1)) = i - 1
      BY <1>1, <2>2
    <3>3. b[i - (m + 1)] = list[i - 1]
      BY <1>3, <3>2
    <3>4. ~ (i <= m) /\ i # m + 1
      BY <1>1, <2>2
    <3> QED BY <3>1, <3>3, <3>4
  <2> HIDE DEF r
  <2> QED BY <1>1, <2>1, <2>2
<1>8. InsertAt(list, m + 1, c) = r
  BY <1>4
<1> HIDE DEF r
<1> QED BY <1>6, <1>7, <1>8

\* The same of a list with one taken out.
LEMMA RemoveIs ==
    ASSUME NEW S, NEW list \in Seq(S), NEW m \in 1..Len(list)
    PROVE  /\ RemoveAt(list, m) \in Seq(S)
           /\ Len(RemoveAt(list, m)) = Len(list) - 1
           /\ \A i \in 1..(Len(list) - 1) :
                 RemoveAt(list, m)[i] = IF i < m THEN list[i] ELSE list[i + 1]
<1>1. Len(list) \in Nat /\ m \in Nat /\ m - 1 \in Nat
  OBVIOUS
<1> DEFINE a == SubSeq(list, 1, m - 1)
           b == SubSeq(list, m + 1, Len(list))
<1>2. a \in Seq(S) /\ Len(a) = m - 1 /\ \A i \in 1..(m - 1) : a[i] = list[i]
  BY <1>1
<1>3. b \in Seq(S) /\ Len(b) = Len(list) - m /\ \A i \in 1..(Len(list) - m) : b[i] = list[m + i]
  BY <1>1
<1> HIDE DEF a, b
<1> DEFINE r == a \o b
<1>4. RemoveAt(list, m) = r
  BY DEF RemoveAt, a, b
<1>5. r \in Seq(S) /\ Len(r) = Len(list) - 1
  <2>1. a \in Seq(S) /\ b \in Seq(S)
    BY <1>2, <1>3
  <2>2. r \in Seq(S) /\ Len(r) = Len(a) + Len(b)
    BY <2>1
  <2> HIDE DEF r
  <2> QED BY <1>1, <1>2, <1>3, <2>2
<1>6. ASSUME NEW i \in 1..(Len(list) - 1)
      PROVE  r[i] = IF i < m THEN list[i] ELSE list[i + 1]
  <2>1. CASE i < m
    BY <1>1, <1>2, <1>3, <2>1
  <2>2. CASE i >= m
    <3>1. r[i] = b[i - (m - 1)]
      BY <1>1, <1>2, <1>3, <2>2
    <3>2. i - (m - 1) \in 1..(Len(list) - m) /\ m + (i - (m - 1)) = i + 1
      BY <1>1, <2>2
    <3>3. b[i - (m - 1)] = list[i + 1]
      BY <1>3, <3>2
    <3> QED BY <1>1, <2>2, <3>1, <3>3
  <2> HIDE DEF r
  <2> QED BY <1>1, <2>1, <2>2
<1> HIDE DEF r
<1> QED BY <1>4, <1>5, <1>6

\* list holds C, each once, coarsest first.
ListOf(list, C, t) ==
    /\ list \in Seq(C)
    /\ \A c \in C : \E i \in 1..Len(list) : list[i] = c
    /\ \A i, j \in 1..Len(list) : i < j => list[i] # list[j] /\ t[list[i]] <= t[list[j]]

\* A child is put where the coarser siblings end.
LEMMA AddKeepsOrder ==
    ASSUME NEW list, NEW C, NEW t, ListOf(list, C, t), NEW c, c \notin C,
           \A e \in C \union {c} : t[e] \in Int
    PROVE  ListOf(AddChild(list, c, t), C \union {c}, t)
<1> DEFINE n == Len(list)
           finer == {i \in 1..n : ~ (t[list[i]] < t[c])}
           coarser == {i \in DOMAIN list : t[list[i]] < t[c]}
<1>1. n \in Nat /\ DOMAIN list = 1..n /\ \A i \in 1..n : list[i] \in C /\ t[list[i]] \in Int
  BY DEF ListOf
<1>2. \E m \in 0..n : \A i \in 1..n : t[list[i]] < t[c] <=> i <= m
  <2>1. CASE finer = {}
    <3>1. n \in 0..n /\ \A i \in 1..n : t[list[i]] < t[c] /\ i <= n
      BY <1>1, <2>1
    <3> QED BY <3>1
  <2>2. CASE finer # {}
    <3>1. PICK k \in finer : \A i \in finer : k <= i
      <4>1. finer \subseteq Nat
        OBVIOUS
      <4> HIDE DEF finer
      <4> QED BY <2>2, <4>1, LeastOf
    <3>2. k \in 1..n /\ ~ (t[list[k]] < t[c]) /\ k - 1 \in 0..n
      BY <1>1, <3>1
    <3>3. \A i \in 1..n : i < k => t[list[i]] < t[c]
      BY <1>1, <3>1, <3>2
    <3>4. \A i \in 1..n : i > k => ~ (t[list[i]] < t[c])
      <4> SUFFICES ASSUME NEW i \in 1..n, i > k, t[list[i]] < t[c] PROVE FALSE
        OBVIOUS
      <4>1. t[list[k]] <= t[list[i]]
        BY <3>2 DEF ListOf
      <4>2. t[list[k]] \in Int /\ t[list[i]] \in Int /\ t[c] \in Int
        BY <1>1, <3>2
      <4> QED BY <3>2, <4>1, <4>2
    <3>5. \A i \in 1..n : t[list[i]] < t[c] <=> i <= k - 1
      BY <1>1, <3>2, <3>3, <3>4
    <3> QED BY <3>2, <3>5
  <2> QED BY <2>1, <2>2
<1>3. PICK m \in 0..n : \A i \in 1..n : t[list[i]] < t[c] <=> i <= m
  BY <1>2
<1>4. coarser = 1..m
  BY <1>1, <1>3
<1>5. Cardinality(coarser) = m
  <2>1. Cardinality(1..m) = m
    BY <1>1, FS_Interval
  <2> HIDE DEF coarser
  <2> QED BY <1>4, <2>1
<1> DEFINE D == C \union {c}
           r == InsertAt(list, m + 1, c)
<1>6. AddChild(list, c, t) = r
  BY <1>5 DEF AddChild
<1>7. list \in Seq(D) /\ c \in D /\ m \in 0..Len(list)
  BY DEF ListOf
<1>8. /\ r \in Seq(D) /\ Len(r) = n + 1
      /\ \A i \in 1..(n + 1) : r[i] = IF i <= m THEN list[i]
                                      ELSE IF i = m + 1 THEN c ELSE list[i - 1]
  <2> HIDE DEF D
  <2> QED BY <1>7, InsertIs
<1> HIDE DEF r
<1>9. \A d \in D : \E i \in 1..Len(r) : r[i] = d
  <2> SUFFICES ASSUME NEW d \in D PROVE \E i \in 1..(n + 1) : r[i] = d
    BY <1>8
  <2>1. CASE d = c
    <3>1. m + 1 \in 1..(n + 1) /\ ~ (m + 1 <= m)
      BY <1>1
    <3> QED BY <1>8, <2>1, <3>1
  <2>2. CASE d \in C
    <3>1. PICK i \in 1..n : list[i] = d
      BY <2>2 DEF ListOf
    <3>2. CASE i <= m
      <4>1. i \in 1..(n + 1)
        BY <1>1
      <4> QED BY <1>8, <3>1, <3>2, <4>1
    <3>3. CASE i > m
      <4>1. i + 1 \in 1..(n + 1) /\ ~ (i + 1 <= m) /\ i + 1 # m + 1 /\ (i + 1) - 1 = i
        BY <1>1, <3>3
      <4> QED BY <1>8, <3>1, <4>1
    <3> QED BY <1>1, <3>2, <3>3
  <2> QED BY <2>1, <2>2
<1>10. ASSUME NEW i \in 1..Len(r), NEW j \in 1..Len(r), i < j
       PROVE  r[i] # r[j] /\ t[r[i]] <= t[r[j]]
  <2>1. i \in 1..(n + 1) /\ j \in 1..(n + 1)
    BY <1>8
  <2>2. \A k \in 1..n : list[k] # c /\ t[list[k]] \in Int /\ t[c] \in Int
    BY <1>1
  <2>3. CASE j <= m
    <3>1. i \in 1..n /\ j \in 1..n /\ i <= m
      BY <1>1, <1>10, <2>1, <2>3
    <3> QED BY <1>8, <1>10, <2>1, <2>3, <3>1 DEF ListOf
  <2>4. CASE j = m + 1
    <3>1. i \in 1..n /\ i <= m /\ r[i] = list[i] /\ r[j] = c
      BY <1>1, <1>8, <1>10, <2>1, <2>4
    <3>2. t[list[i]] < t[c]
      BY <1>3, <3>1
    <3> QED BY <2>2, <3>1, <3>2
  <2>5. CASE j > m + 1
    <3>1. j - 1 \in 1..n /\ r[j] = list[j - 1] /\ ~ (j - 1 <= m)
      BY <1>1, <1>8, <2>1, <2>5
    <3>2. CASE i <= m
      <4>1. i \in 1..n /\ r[i] = list[i] /\ i < j - 1
        BY <1>1, <1>8, <2>1, <2>5, <3>2
      <4> QED BY <3>1, <4>1 DEF ListOf
    <3>3. CASE i = m + 1
      <4>1. r[i] = c
        BY <1>1, <1>8, <2>1, <3>3
      <4>2. ~ (t[list[j - 1]] < t[c])
        BY <1>3, <3>1
      <4> QED BY <2>2, <3>1, <4>1, <4>2
    <3>4. CASE i > m + 1
      <4>1. i - 1 \in 1..n /\ r[i] = list[i - 1] /\ i - 1 < j - 1
        BY <1>1, <1>8, <1>10, <2>1, <3>4
      <4> QED BY <3>1, <4>1 DEF ListOf
    <3> QED BY <1>1, <2>1, <3>2, <3>3, <3>4
  <2> QED BY <1>1, <2>1, <2>3, <2>4, <2>5
<1> QED BY <1>6, <1>8, <1>9, <1>10 DEF ListOf

\* A child is taken out.
LEMMA DelKeepsOrder ==
    ASSUME NEW list, NEW C, NEW t, ListOf(list, C, t), NEW c \in C
    PROVE  ListOf(DelChild(list, c), C \ {c}, t)
<1> DEFINE n == Len(list)
           m == CHOOSE i \in DOMAIN list : list[i] = c
           r == RemoveAt(list, m)
<1>1. n \in Nat /\ DOMAIN list = 1..n /\ list \in Seq(C) /\ \A i \in 1..n : list[i] \in C
  BY DEF ListOf
<1>2. m \in 1..n /\ list[m] = c
  BY <1>1 DEF ListOf
<1>3. DelChild(list, c) = r
  BY DEF DelChild
<1> HIDE DEF m
<1>4. /\ r \in Seq(C) /\ Len(r) = n - 1
      /\ \A i \in 1..(n - 1) : r[i] = IF i < m THEN list[i] ELSE list[i + 1]
  BY <1>1, <1>2, RemoveIs
<1> HIDE DEF r
<1>5. \A i, j \in 1..n : list[i] = list[j] => i = j
  BY <1>1 DEF ListOf
<1>6. \A i \in 1..(n - 1) : r[i] \in C \ {c}
  <2> SUFFICES ASSUME NEW i \in 1..(n - 1) PROVE r[i] \in C /\ r[i] # c
    OBVIOUS
  <2>1. i \in 1..n /\ i + 1 \in 1..n
    BY <1>1
  <2>2. CASE i < m
    BY <1>1, <1>2, <1>4, <1>5, <2>1, <2>2
  <2>3. CASE ~ (i < m)
    <3>1. i + 1 # m
      BY <1>2, <2>3
    <3> QED BY <1>1, <1>2, <1>4, <1>5, <2>1, <2>3, <3>1
  <2> QED BY <2>2, <2>3
<1>7. r \in Seq(C \ {c})
  <2>1. DOMAIN r = 1..(n - 1) /\ n - 1 \in Nat
    BY <1>1, <1>2, <1>4
  <2> QED BY <1>4, <1>6, <2>1
<1>8. \A d \in C \ {c} : \E i \in 1..Len(r) : r[i] = d
  <2> SUFFICES ASSUME NEW d \in C, d # c PROVE \E i \in 1..(n - 1) : r[i] = d
    BY <1>4
  <2>1. PICK i \in 1..n : list[i] = d
    BY DEF ListOf
  <2>2. i # m
    BY <1>2, <2>1
  <2>3. CASE i < m
    <3>1. i \in 1..(n - 1)
      BY <1>1, <1>2, <2>3
    <3> QED BY <1>4, <2>1, <2>3, <3>1
  <2>4. CASE i > m
    <3>1. i - 1 \in 1..(n - 1) /\ ~ (i - 1 < m) /\ (i - 1) + 1 = i
      BY <1>1, <1>2, <2>4
    <3> QED BY <1>4, <2>1, <3>1
  <2> QED BY <1>1, <1>2, <2>2, <2>3, <2>4
<1>9. ASSUME NEW i \in 1..Len(r), NEW j \in 1..Len(r), i < j
      PROVE  r[i] # r[j] /\ t[r[i]] <= t[r[j]]
  <2>1. i \in 1..(n - 1) /\ j \in 1..(n - 1)
    BY <1>4
  <2>2. PICK k, l \in 1..n : r[i] = list[k] /\ r[j] = list[l] /\ k < l
    <3>1. /\ i \in 1..n /\ i + 1 \in 1..n /\ j \in 1..n /\ j + 1 \in 1..n
          /\ i < j /\ i < j + 1 /\ i + 1 < j + 1
          /\ ~ (i < m) => ~ (j < m)
      BY <1>1, <1>2, <1>9, <2>1
    <3>2. /\ r[i] = IF i < m THEN list[i] ELSE list[i + 1]
          /\ r[j] = IF j < m THEN list[j] ELSE list[j + 1]
      BY <1>4, <2>1
    <3>3. CASE i < m /\ j < m
      BY <3>1, <3>2, <3>3
    <3>4. CASE i < m /\ ~ (j < m)
      BY <3>1, <3>2, <3>4
    <3>5. CASE ~ (i < m)
      BY <3>1, <3>2, <3>5
    <3> QED BY <3>3, <3>4, <3>5
  <2> QED BY <2>2 DEF ListOf
<1> QED BY <1>3, <1>7, <1>8, <1>9 DEF ListOf

\* Order is a matter of the levels of those in the list.
LEMMA OrderKept ==
    ASSUME NEW list, NEW C, NEW t, NEW u, ListOf(list, C, t), \A c \in C : u[c] = t[c]
    PROVE  ListOf(list, C, u)
<1>1. \A i \in 1..Len(list) : list[i] \in C
  BY DEF ListOf
<1> QED BY <1>1 DEF ListOf

\* The list of no children is empty.
LEMMA NoList == \A t : ListOf(<<>>, {}, t)
BY DEF ListOf

-----------------------------------------------------------------------------
(* Masses of subtrees *)

\* What all devices carry.
Masses == [Dev -> [Key -> Amount]]

\* Every device of P carries the mass of those of P under it.
Exact(m, at, cs, f, P) ==
    \A x \in P : \A k \in Key : m[x][k] = Mass(at, cs, Subtree(f, P, x), k)

\* agg changes the devices of a chain, under every key, and no others.
LEMMA AddMassIs ==
    ASSUME NEW m \in Masses, NEW S, NEW i \in Int, i = 1 \/ i = -1,
           NEW delta \in [Key -> Amount]
    PROVE  /\ AddMass(m, S, i, delta) \in Masses
           /\ \A x \in Dev : \A k \in Key :
                 AddMass(m, S, i, delta)[x][k] =
                    IF x \in S THEN Plus(m[x][k], Times(i, delta[k])) ELSE m[x][k]
<1>1. \A x \in Dev : m[x] \in [Key -> Amount]
  BY DEF Masses
<1>2. \A x \in Dev : \A k \in Key : Plus(m[x][k], Times(i, delta[k])) \in Amount
  <2> SUFFICES ASSUME NEW x \in Dev, NEW k \in Key
               PROVE  Plus(m[x][k], Times(i, delta[k])) \in Amount
    OBVIOUS
  <2>1. m[x][k] \in Amount /\ delta[k] \in Amount
    BY <1>1
  <2>2. Times(i, delta[k]) \in Amount
    BY <2>1, PlusLaws
  <2> QED BY <2>1, <2>2, PlusLaws
<1>3. \A x \in Dev : [k \in Key |-> Plus(m[x][k], Times(i, delta[k]))] \in [Key -> Amount]
  BY <1>2
<1> QED BY <1>1, <1>3 DEF AddMass, Masses

\* d joins the devices of P under g[d]; its mass goes up the chain.
LEMMA MassJoins ==
    ASSUME NEW f, NEW L, NEW t, Forest(f, L, t), NEW g, NEW M, NEW u, Forest(g, M, u),
           NEW P, P \subseteq L, IsFiniteSet(P), P \subseteq Dev,
           \A e \in P : g[e] = f[e] /\ f[e] \in P \union {NONE},
           NEW d \in Dev, d \notin P, P \union {d} \subseteq M, g[d] \in P \union {NONE},
           NEW at, NEW cs, NEW to, NEW cs2, Placeable(to, P \union {d}),
           \A e \in P : to[e] = at[e] /\ cs2[e] = cs[e],
           NEW m \in Masses, Exact(m, at, cs, f, P),
           NEW own \in [Key -> Amount], \A k \in Key : own[k] = Own(to, cs2, d, k)
    PROVE  Exact(AddMass([m EXCEPT ![d] = own], Chain(g, g[d]), 1, own), to, cs2, g, P \union {d})
<1>1. \A e \in P \union {NONE} : Chain(g, e) = Chain(f, e) /\ Chain(f, e) \subseteq P
  <2>1. \A e \in P \union {NONE} : Chain(g, e) = Chain(f, e)
    BY ChainSame
  <2>2. Forest(f, P, t)
    BY DEF Forest
  <2> QED BY <2>1, <2>2, ChainFalls, ChainStep
<1>2. /\ Chain(g, d) = {d} \union Chain(g, g[d])
      /\ Chain(g, g[d]) \subseteq P
  BY <1>1, ChainStep
<1> DEFINE m1 == [m EXCEPT ![d] = own]
           m2 == AddMass(m1, Chain(g, g[d]), 1, own)
<1>3. m1 \in Masses /\ m1[d] = own /\ \A x \in P : m1[x] = m[x]
  BY DEF Masses
<1>4. /\ \A x \in Dev : \A k \in Key :
            m2[x][k] = IF x \in Chain(g, g[d]) THEN Plus(m1[x][k], Times(1, own[k])) ELSE m1[x][k]
  <2> HIDE DEF m1
  <2> QED BY <1>3, AddMassIs
<1> HIDE DEF m1, m2
<1> SUFFICES ASSUME NEW x \in P \union {d}, NEW k \in Key
             PROVE  m2[x][k] = Mass(to, cs2, Subtree(g, P \union {d}, x), k)
  BY DEF Exact, m1, m2
<1>5. own[k] \in Amount /\ Times(1, own[k]) = own[k]
  BY PlusLaws
<1>6. to[d][1] \in Int
  BY DEF Placeable
<1>7. CASE x = d
  <2>1. Subtree(g, P \union {d}, d) = {d}
    BY <1>1, <1>2 DEF Subtree
  <2>2. Mass(to, cs2, {d}, k) = own[k]
    BY <1>6, MassOfFew
  <2>3. m2[d][k] = own[k]
    BY <1>2, <1>3, <1>4
  <2> QED BY <1>7, <2>1, <2>2, <2>3
<1>8. CASE x # d
  <2> DEFINE old == Subtree(f, P, x)
  <2>1. /\ x \in P /\ x \in Dev /\ m1[x][k] = Mass(at, cs, old, k)
        /\ IsFiniteSet(old) /\ old \subseteq P
    <3>1. x \in P /\ x \in Dev
      BY <1>8
    <3> QED BY <3>1, <1>3, FS_Subset DEF Exact, Subtree
  <2>2. Mass(at, cs, old, k) = Mass(to, cs2, old, k)
    <3> HIDE DEF old
    <3> QED BY <2>1, MassSame
  <2>3. CASE x \in Chain(g, g[d])
    <3>1. Subtree(g, P \union {d}, x) = old \union {d}
      BY <1>1, <1>2, <2>3 DEF Subtree
    <3>2. Placeable(to, old \union {d}) /\ d \notin old
      BY <2>1 DEF Placeable
    <3> HIDE DEF old
    <3>3. Mass(to, cs2, old \union {d}, k) = Plus(Mass(to, cs2, old, k), Own(to, cs2, d, k))
      BY <2>1, <3>2, MassAdd
    <3>4. m2[x][k] = Plus(Mass(to, cs2, old, k), own[k])
      BY <1>4, <1>5, <2>1, <2>2, <2>3
    <3> QED BY <3>1, <3>3, <3>4
  <2>4. CASE x \notin Chain(g, g[d])
    <3>1. Subtree(g, P \union {d}, x) = old
      BY <1>1, <1>2, <1>8, <2>4 DEF Subtree
    <3> HIDE DEF old
    <3> QED BY <1>4, <2>1, <2>2, <2>4, <3>1
  <2> QED BY <2>3, <2>4
<1> QED BY <1>7, <1>8

\* d leaves; its mass is taken off what is above it.
LEMMA MassLeaves ==
    ASSUME NEW f, NEW L, NEW t, Forest(f, L, t), IsFiniteSet(L), L \subseteq Dev,
           NEW d \in L, NEW at, NEW cs, Placeable(at, L),
           NEW m \in Masses, Exact(m, at, cs, f, L),
           NEW own \in [Key -> Amount], \A k \in Key : own[k] = Own(at, cs, d, k)
    PROVE  Exact(AddMass(m, Chain(f, f[d]), -1, own), at, cs, f, L \ {d})
<1> DEFINE m2 == AddMass(m, Chain(f, f[d]), -1, own)
<1>1. Chain(f, d) = {d} \union Chain(f, f[d])
  BY ChainStep
<1>2. \A x \in Dev : \A k \in Key :
         m2[x][k] = IF x \in Chain(f, f[d]) THEN Plus(m[x][k], Times(-1, own[k])) ELSE m[x][k]
  BY AddMassIs
<1> HIDE DEF m2
<1> SUFFICES ASSUME NEW x \in L \ {d}, NEW k \in Key
             PROVE  m2[x][k] = Mass(at, cs, Subtree(f, L \ {d}, x), k)
  BY DEF Exact, m2
<1> DEFINE new == Subtree(f, L \ {d}, x)
<1>3. /\ x \in Dev /\ m[x][k] = Mass(at, cs, Subtree(f, L, x), k)
      /\ IsFiniteSet(new) /\ d \notin new /\ Placeable(at, new \union {d}) /\ Placeable(at, new)
  BY FS_Subset DEF Exact, Subtree, Placeable
<1>4. CASE x \in Chain(f, f[d])
  <2>1. Subtree(f, L, x) = new \union {d}
    BY <1>1, <1>4 DEF Subtree
  <2> HIDE DEF new
  <2>2. Mass(at, cs, new \union {d}, k) = Plus(Mass(at, cs, new, k), own[k])
    BY <1>3, MassAdd
  <2>3. Mass(at, cs, new, k) \in Amount /\ own[k] \in Amount
    BY <1>3, MassType
  <2>4. Plus(Plus(Mass(at, cs, new, k), own[k]), Times(-1, own[k])) = Mass(at, cs, new, k)
    BY <2>3, PlusLaws
  <2> QED BY <1>2, <1>3, <1>4, <2>1, <2>2, <2>4 DEF new
<1>5. CASE x \notin Chain(f, f[d])
  <2>1. Subtree(f, L, x) = new
    BY <1>1, <1>5 DEF Subtree
  <2> QED BY <1>2, <1>3, <1>5, <2>1
<1> QED BY <1>4, <1>5

\* d counts for something else than it did; the difference goes up its chain.
LEMMA MassChanges ==
    ASSUME NEW f, NEW L, NEW t, Forest(f, L, t), IsFiniteSet(L), L \subseteq Dev,
           NEW d \in L, NEW at, NEW cs, NEW to, NEW cs2, Placeable(at, L), Placeable(to, L),
           \A e \in L \ {d} : to[e] = at[e] /\ cs2[e] = cs[e],
           NEW m \in Masses, Exact(m, at, cs, f, L),
           NEW delta \in [Key -> Amount],
           \A k \in Key : Own(to, cs2, d, k) = Plus(Own(at, cs, d, k), delta[k])
    PROVE  Exact(AddMass(m, Chain(f, d), 1, delta), to, cs2, f, L)
<1> DEFINE m2 == AddMass(m, Chain(f, d), 1, delta)
<1>1. \A x \in Dev : \A k \in Key :
         m2[x][k] = IF x \in Chain(f, d) THEN Plus(m[x][k], Times(1, delta[k])) ELSE m[x][k]
  BY AddMassIs
<1> HIDE DEF m2
<1> SUFFICES ASSUME NEW x \in L, NEW k \in Key
             PROVE  m2[x][k] = Mass(to, cs2, Subtree(f, L, x), k)
  BY DEF Exact, m2
<1> DEFINE all == Subtree(f, L, x)
           rest == all \ {d}
<1>2. /\ x \in Dev /\ m[x][k] = Mass(at, cs, all, k)
      /\ IsFiniteSet(all) /\ IsFiniteSet(rest) /\ all \subseteq L /\ d \notin rest
      /\ (x \in Chain(f, d) <=> d \in all)
  BY FS_Subset DEF Exact, Subtree
<1> HIDE DEF all
<1>3. CASE d \in all
  <2>1. all = rest \union {d} /\ Placeable(at, rest \union {d}) /\ Placeable(to, rest \union {d})
        /\ Placeable(at, rest)
    BY <1>2, <1>3 DEF Placeable
  <2>2. /\ at[d][1] \in Int
        /\ \A e \in rest : to[e] = at[e] /\ cs2[e] = cs[e]
    BY <1>2 DEF Placeable
  <2> HIDE DEF rest
  <2>3. /\ Mass(at, cs, all, k) = Plus(Mass(at, cs, rest, k), Own(at, cs, d, k))
        /\ Mass(to, cs2, all, k) = Plus(Mass(to, cs2, rest, k), Own(to, cs2, d, k))
    BY <1>2, <2>1, MassAdd
  <2>4. Mass(to, cs2, rest, k) = Mass(at, cs, rest, k)
    BY <1>2, <2>2, MassSame
  <2>5. /\ Mass(at, cs, rest, k) \in Amount /\ Own(at, cs, d, k) \in Amount /\ delta[k] \in Amount
        /\ Times(1, delta[k]) = delta[k]
    <3>1. Mass(at, cs, rest, k) \in Amount
      BY <1>2, <2>1, MassType
    <3>2. Own(at, cs, d, k) \in Amount /\ delta[k] \in Amount
      BY <2>2, OwnType
    <3> QED BY <3>1, <3>2, PlusLaws
  <2>6. Plus(Plus(Mass(at, cs, rest, k), Own(at, cs, d, k)), delta[k])
           = Plus(Mass(at, cs, rest, k), Plus(Own(at, cs, d, k), delta[k]))
    BY <2>5, PlusLaws
  <2> QED BY <1>1, <1>2, <1>3, <2>3, <2>4, <2>5, <2>6 DEF all
<1>4. CASE d \notin all
  <2>1. \A e \in all : to[e] = at[e] /\ cs2[e] = cs[e]
    BY <1>2, <1>4
  <2>2. Mass(at, cs, all, k) = Mass(to, cs2, all, k)
    BY <1>2, <2>1, MassSame
  <2> QED BY <1>1, <1>2, <1>4, <2>2 DEF all
<1> QED BY <1>3, <1>4

\* The subtree of c is taken from under the device f[c] that is being detached, whose
\* own mass is gone from the sums already, and put under g[c].
LEMMA MassMoves ==
    ASSUME NEW f, NEW L, NEW t, Forest(f, L, t), NEW g, NEW u, Forest(g, L, u),
           IsFiniteSet(L), L \subseteq Dev, NEW c \in L, f[c] # NONE,
           \A e \in L \ {c} : g[e] = f[e],
           g[c] \notin Subtree(f, L, c),
           NEW at, NEW cs, Placeable(at, L),
           NEW m \in Masses, Exact(m, at, cs, f, L \ {f[c]})
    PROVE  Exact(AddMass(AddMass(m, Chain(f, f[f[c]]), -1, m[c]), Chain(g, g[c]), 1, m[c]),
                 at, cs, g, L \ {f[c]})
<1> DEFINE D == f[c]
           P == L \ {D}
           K == Subtree(f, L, c)
           off == AddMass(m, Chain(f, f[D]), -1, m[c])
           on == AddMass(off, Chain(g, g[c]), 1, m[c])
<1>1. /\ D \in L /\ t[D] < t[c] /\ t[c] \in Int /\ t[D] \in Int /\ c # D
      /\ Chain(f, D) = {D} \union Chain(f, f[D])
  BY ChainStep, ZoomAssumption DEF Forest, Leaf
<1>2. D \notin K /\ K \subseteq P /\ c \in K /\ IsFiniteSet(K)
  <2>1. D \notin K
    <3> SUFFICES ASSUME c \in Chain(f, D) PROVE FALSE
      BY DEF Subtree
    <3>1. t[c] < t[D]
      BY <1>1, ChainFalls
    <3> QED BY <1>1, <3>1
  <2>2. K \subseteq L /\ c \in K /\ IsFiniteSet(K)
    BY ChainFalls, FS_Subset DEF Subtree
  <2> QED BY <2>1, <2>2
<1>3. \A e \in L : \A b \in Chain(f, e) : b \in K => e \in K
  BY ChainAbove DEF Subtree
<1>4. \A e \in L \ K : f[e] \in (L \ K) \union {NONE}
  <2> SUFFICES ASSUME NEW e \in L \ K, f[e] # NONE PROVE f[e] \in L \ K
    OBVIOUS
  <2>1. f[e] \in L
    BY DEF Forest
  <2>2. f[e] \in Chain(f, e)
    BY <2>1, ChainStep, ChainFalls
  <2> QED BY <1>3, <2>1, <2>2
<1>5. \A e \in (L \ K) \union {NONE} : Chain(g, e) = Chain(f, e)
  <2> DEFINE S == L \ K
  <2>1. \A e \in S : g[e] = f[e] /\ f[e] \in S \union {NONE}
    BY <1>2, <1>4
  <2>2. S \subseteq L
    OBVIOUS
  <2> HIDE DEF S
  <2>3. \A e \in S \union {NONE} : Chain(g, e) = Chain(f, e)
    BY <2>1, <2>2, ChainSame
  <2> QED BY <2>3 DEF S
<1>6. g[c] \in (L \ K) \union {NONE} /\ Chain(g, g[c]) = Chain(f, g[c])
  <2>1. g[c] \in L \union {NONE}
    BY DEF Forest
  <2> QED BY <1>5, <2>1
<1>7. \A x \in K : x \notin Chain(f, f[D]) /\ x \notin Chain(g, g[c])
  <2>1. D \notin K /\ Chain(f, f[D]) \subseteq Chain(f, D)
    BY <1>1, <1>2
  <2>2. \A x \in K : x \notin Chain(f, f[D])
    BY <1>1, <1>3, <2>1
  <2>3. \A x \in K : x \notin Chain(f, g[c])
    <3>1. CASE g[c] = NONE
      BY <3>1, ChainStep
    <3>2. CASE g[c] \in L \ K
      BY <1>3, <3>2
    <3> QED BY <1>6, <3>1, <3>2
  <2> QED BY <1>6, <2>2, <2>3
<1>8. \A e \in K : /\ Chain(f, e) = (Chain(f, e) \intersect K) \union Chain(f, D)
                   /\ Chain(g, e) = (Chain(f, e) \intersect K) \union Chain(g, g[c])
  BY ChainSplits
<1>9. m[c] \in [Key -> Amount]
  BY DEF Masses
<1>10. /\ off \in Masses
       /\ \A x \in Dev : \A k \in Key :
             off[x][k] = IF x \in Chain(f, f[D]) THEN Plus(m[x][k], Times(-1, m[c][k])) ELSE m[x][k]
  BY <1>9, AddMassIs
<1>11. \A x \in Dev : \A k \in Key :
          on[x][k] = IF x \in Chain(g, g[c]) THEN Plus(off[x][k], Times(1, m[c][k])) ELSE off[x][k]
  <2> HIDE DEF off
  <2> QED BY <1>9, <1>10, AddMassIs
<1> HIDE DEF off, on
<1> SUFFICES ASSUME NEW x \in P, NEW k \in Key
             PROVE  on[x][k] = Mass(at, cs, Subtree(g, P, x), k)
  BY DEF Exact, off, on
<1>12. /\ x \in L /\ x \in Dev /\ x # D /\ m[x][k] = Mass(at, cs, Subtree(f, P, x), k)
       /\ m[c][k] = Mass(at, cs, K, k)
  <2>1. m[x][k] = Mass(at, cs, Subtree(f, P, x), k) /\ m[c][k] = Mass(at, cs, Subtree(f, P, c), k)
    BY <1>1 DEF Exact
  <2>2. Subtree(f, P, c) = K
    BY <1>2 DEF Subtree
  <2> QED BY <2>1, <2>2
<1>13. CASE x \in K
  <2>1. on[x][k] = m[x][k]
    BY <1>7, <1>10, <1>11, <1>12, <1>13
  <2>2. \A e \in P : x \in Chain(g, e) <=> x \in Chain(f, e)
    <3> SUFFICES ASSUME NEW e \in P PROVE x \in Chain(g, e) <=> x \in Chain(f, e)
      OBVIOUS
    <3>1. CASE e \in K
      BY <1>7, <1>8, <1>13, <3>1
    <3>2. CASE e \notin K
      <4>1. Chain(g, e) = Chain(f, e)
        BY <1>5, <3>2
      <4> QED BY <4>1
    <3> QED BY <3>1, <3>2
  <2>3. Subtree(g, P, x) = Subtree(f, P, x)
    BY <2>2 DEF Subtree
  <2> QED BY <1>12, <2>1, <2>3
<1>14. CASE x \notin K
  <2> DEFINE base == Subtree(f, P, x) \ K
  <2>1. IsFiniteSet(base) /\ base \intersect K = {} /\ Placeable(at, base \union K)
        /\ Placeable(at, base) /\ Placeable(at, K)
    <3>1. base \subseteq L /\ K \subseteq L
      BY <1>2 DEF Subtree
    <3> QED BY <3>1, FS_Subset DEF Placeable
  <2>2. /\ \A e \in K : x \in Chain(f, e) <=> x \in Chain(f, f[D])
        /\ \A e \in K : x \in Chain(g, e) <=> x \in Chain(g, g[c])
    <3> HIDE DEF K
    <3> QED BY <1>1, <1>8, <1>12, <1>14
  <2>3. \A e \in P \ K : Chain(g, e) = Chain(f, e)
    BY <1>5
  <2>4. Subtree(f, P, x) = IF x \in Chain(f, f[D]) THEN base \union K ELSE base
    <3>1. CASE x \in Chain(f, f[D])
      <4>1. K \subseteq Subtree(f, P, x)
        BY <1>2, <2>2, <3>1 DEF Subtree
      <4> QED BY <3>1, <4>1
    <3>2. CASE x \notin Chain(f, f[D])
      <4>1. K \intersect Subtree(f, P, x) = {}
        BY <2>2, <3>2 DEF Subtree
      <4> QED BY <3>2, <4>1
    <3> QED BY <3>1, <3>2
  <2>5. Subtree(g, P, x) = IF x \in Chain(g, g[c]) THEN base \union K ELSE base
    <3>1. \A e \in P \ K : e \in Subtree(g, P, x) <=> e \in base
      BY <2>3 DEF Subtree
    <3>2. CASE x \in Chain(g, g[c])
      <4>1. K \subseteq Subtree(g, P, x)
        BY <1>2, <2>2, <3>2 DEF Subtree
      <4>2. Subtree(g, P, x) \subseteq P /\ base \subseteq P
        BY DEF Subtree
      <4> HIDE DEF base, K
      <4> QED BY <1>2, <3>1, <3>2, <4>1, <4>2
    <3>3. CASE x \notin Chain(g, g[c])
      <4>1. K \intersect Subtree(g, P, x) = {} /\ base \intersect K = {}
        BY <2>2, <3>3 DEF Subtree
      <4>2. Subtree(g, P, x) \subseteq P /\ base \subseteq P
        BY DEF Subtree
      <4> HIDE DEF base, K
      <4> QED BY <3>1, <3>3, <4>1, <4>2
    <3> QED BY <3>2, <3>3
  <2> HIDE DEF base, K
  <2>6. Mass(at, cs, base \union K, k) = Plus(Mass(at, cs, base, k), Mass(at, cs, K, k))
    BY <1>2, <2>1, MassUnion
  <2> DEFINE b == Mass(at, cs, base, k)
             w == Mass(at, cs, K, k)
  <2>7. b \in Amount /\ w \in Amount
    BY <1>2, <2>1, MassType
  <2> HIDE DEF b, w
  <2>8. Plus(Plus(b, w), Times(-1, w)) = b /\ Times(1, w) = w
    BY <2>7, PlusLaws
  <2>9. m[c][k] = w /\ m[x][k] = IF x \in Chain(f, f[D]) THEN Plus(b, w) ELSE b
    BY <1>12, <2>4, <2>6 DEF b, w
  <2>10. off[x][k] = b
    BY <1>10, <1>12, <2>8, <2>9
  <2>11. on[x][k] = IF x \in Chain(g, g[c]) THEN Plus(b, w) ELSE b
    BY <1>11, <1>12, <2>8, <2>9, <2>10
  <2> QED BY <2>5, <2>6, <2>11 DEF b, w
<1> QED BY <1>13, <1>14

\* Where chains, positions, cells and sums are as they were, the sums are right as before.
LEMMA MassRests ==
    ASSUME NEW f, NEW L, NEW t, Forest(f, L, t), NEW g, NEW M, NEW u, Forest(g, M, u),
           NEW P, P \subseteq L, P \subseteq M, IsFiniteSet(P),
           \A e \in P : g[e] = f[e] /\ f[e] \in P \union {NONE},
           NEW at, NEW cs, NEW to, NEW cs2,
           \A e \in P : to[e] = at[e] /\ cs2[e] = cs[e],
           NEW m, Exact(m, at, cs, f, P), NEW m2, \A e \in P : m2[e] = m[e]
    PROVE  Exact(m2, to, cs2, g, P)
<1>1. \A e \in P : Chain(g, e) = Chain(f, e)
  BY ChainSame
<1> SUFFICES ASSUME NEW x \in P, NEW k \in Key
             PROVE  m2[x][k] = Mass(to, cs2, Subtree(g, P, x), k)
  BY DEF Exact
<1> DEFINE S == Subtree(f, P, x)
<1>2. Subtree(g, P, x) = S
  BY <1>1 DEF Subtree
<1>3. m2[x][k] = Mass(at, cs, S, k)
  BY DEF Exact
<1>4. IsFiniteSet(S) /\ S \subseteq P
  BY FS_Subset DEF Subtree
<1> HIDE DEF S
<1>5. Mass(at, cs, S, k) = Mass(to, cs2, S, k)
  BY <1>4, MassSame
<1> QED BY <1>2, <1>3, <1>5

-----------------------------------------------------------------------------
(* The inductive invariant *)

\* Only devices of the index have a parent, and it is one of a coarser level, that
\* of the device being detached included.
Rooted ==
    /\ \A d \in Dev \ live : par[d] = NONE
    /\ \A d \in live : par[d] # NONE => par[d] \in live /\ tz[par[d]] < tz[d]

\* The child list of every device holds its children, also where it is being detached.
Listed ==
    /\ kidlist \in [Dev -> Seq(Dev)]
    /\ \A d \in Dev : ListOf(kidlist[d], Children(d), tz)

\* The device being detached counts nowhere any more, all others where they are.
Counted ==
    /\ cells \in [Dev -> SUBSET Cell]
    /\ mass \in Masses
    /\ Exact(mass, pos, cells, par, Placed)

\* The inductive invariant: that of the hierarchy, and of what it carries.
AInv == IInv /\ IsFiniteSet(live) /\ Rooted /\ Listed /\ Counted

\* Parents and levels are those of a forest over the devices there are.
LEMMA IsForest ==
    ASSUME TypeOK, Rooted
    PROVE  Forest(par, live, tz) /\ Placeable(pos, live) /\ live \subseteq Dev
BY PosAssumption, NoneAssumption DEF TypeOK, Rooted, Forest, Placeable

\* And so they are after a step that keeps the invariant.
LEMMA IsForestNext ==
    ASSUME TypeOK', Rooted'
    PROVE  Forest(par', live', tz') /\ Placeable(pos', live') /\ live' \subseteq Dev
BY PosAssumption, NoneAssumption DEF TypeOK, Rooted, Forest, Placeable

\* With no repair under way every device is in the hierarchy.
LEMMA AllPlaced ==
    ASSUME TypeOK, job = Idle
    PROVE  Placed = live
BY NoneAssumption DEF TypeOK, Idle, Placed

\* The same after a step that ends a repair.
LEMMA AllPlacedNext ==
    ASSUME TypeOK', job' = Idle
    PROVE  Placed' = live'
BY NoneAssumption DEF TypeOK, Idle, Placed

\* With no repair under way Covering says what Rooted says of the devices there are.
LEMMA RootedNext ==
    ASSUME TypeOK', Covering', \A d \in Dev \ live' : par'[d] = NONE,
           \A d \in live' \ Placed' :
              par'[d] # NONE => par'[d] \in live' /\ tz'[par'[d]] < tz'[d]
    PROVE  Rooted'
<1>1. \A d \in Placed' : par'[d] # NONE => par'[d] \in live' /\ tz'[par'[d]] < tz'[d]
  BY DEF Covering
<1> QED BY <1>1 DEF Rooted

\* The list that c leaves and the one it comes into stay in order, whatever level it gets.
LEMMA RelinkedKeepsOrder ==
    ASSUME NEW c \in Dev, NEW q \in Dev \union {NONE}, NEW l,
           par \in [Dev -> Dev \union {NONE}], par' = [par EXCEPT ![c] = q],
           tz \in [Dev -> Int], tz' = [tz EXCEPT ![c] = l], l \in Int,
           live \subseteq Dev, live' \subseteq Dev, live \ {c} = live' \ {c},
           par[c] # NONE => c \in live, q # NONE => c \in live',
           NEW lists \in [Dev -> Seq(Dev)],
           \A d \in Dev : ListOf(lists[d], Children(d), tz)
    PROVE  /\ Relinked(lists, c) \in [Dev -> Seq(Dev)]
           /\ \A d \in Dev : ListOf(Relinked(lists, c)[d], {e \in live' : par'[e] = d}, tz')
<1> DEFINE o == par[c]
           Rest(d) == {e \in live \ {c} : par[e] = d}
           without == IF o = NONE THEN lists ELSE [lists EXCEPT ![o] = DelChild(@, c)]
           r == IF q = NONE THEN without ELSE [without EXCEPT ![q] = AddChild(@, c, tz')]
<1>1. Relinked(lists, c) = r
  BY DEF Relinked
<1>2. \A d \in Dev : ListOf(without[d], Rest(d), tz) /\ without \in [Dev -> Seq(Dev)]
  <2>1. CASE o = NONE
    <3>1. \A d \in Dev : Children(d) = Rest(d)
      BY <2>1, NoneAssumption DEF Children
    <3> QED BY <2>1, <3>1
  <2>2. CASE o # NONE
    <3>1. o \in Dev /\ c \in Children(o) /\ Children(o) \ {c} = Rest(o)
      BY <2>2 DEF Children
    <3>2. ListOf(DelChild(lists[o], c), Rest(o), tz)
      <4> DEFINE C == Children(o)
                 list == lists[o]
                 t == tz
      <4>1. ListOf(list, C, t) /\ c \in C
        BY <3>1
      <4> HIDE DEF C, list, t
      <4>2. ListOf(DelChild(list, c), C \ {c}, t)
        BY <4>1, DelKeepsOrder
      <4> QED BY <3>1, <4>2 DEF C, list, t
    <3>3. DelChild(lists[o], c) \in Seq(Dev)
      <4>1. Rest(o) \subseteq Dev
        OBVIOUS
      <4> HIDE DEF Rest
      <4> QED BY <3>2, <4>1 DEF ListOf
    <3>4. \A d \in Dev \ {o} : Children(d) = Rest(d)
      BY DEF Children
    <3> QED BY <2>2, <3>1, <3>2, <3>3, <3>4
  <2> QED BY <2>1, <2>2
<1>3. \A d \in Dev : ListOf(without[d], Rest(d), tz')
  <2> SUFFICES ASSUME NEW d \in Dev PROVE ListOf(without[d], Rest(d), tz')
    OBVIOUS
  <2>1. \A e \in Rest(d) : tz'[e] = tz[e]
    OBVIOUS
  <2> HIDE DEF Rest, without
  <2> QED BY <1>2, <2>1, OrderKept
<1> DEFINE After(d) == {e \in live' : par'[e] = d}
<1>4. CASE q = NONE
  <2>1. \A d \in Dev : After(d) = Rest(d)
    BY <1>4, NoneAssumption
  <2> HIDE DEF without, Rest
  <2> QED BY <1>1, <1>2, <1>3, <1>4, <2>1
<1>5. CASE q # NONE
  <2>1. q \in Dev /\ After(q) = Rest(q) \union {c} /\ \A d \in Dev \ {q} : After(d) = Rest(d)
    BY <1>5
  <2>2. c \notin Rest(q) /\ \A e \in Rest(q) \union {c} : tz'[e] \in Int
    OBVIOUS
  <2>3. After(q) \subseteq Dev
    OBVIOUS
  <2> HIDE DEF without, Rest, After
  <2>4. ListOf(AddChild(without[q], c, tz'), After(q), tz')
    <3> DEFINE C == Rest(q)
               list == without[q]
               u == tz'
    <3>1. ListOf(list, C, u) /\ c \notin C /\ \A e \in C \union {c} : u[e] \in Int
      BY <1>3, <2>1, <2>2
    <3> HIDE DEF C, list, u
    <3>2. ListOf(AddChild(list, c, u), C \union {c}, u)
      BY <3>1, AddKeepsOrder
    <3> QED BY <2>1, <3>2 DEF C, list, u
  <2>5. AddChild(without[q], c, tz') \in Seq(Dev)
    BY <2>3, <2>4 DEF ListOf
  <2>6. r \in [Dev -> Seq(Dev)] /\ \A d \in Dev : ListOf(r[d], After(d), tz')
    BY <1>2, <1>3, <1>5, <2>1, <2>4, <2>5
  <2> HIDE DEF r
  <2> QED BY <1>1, <2>6 DEF After
<1> QED BY <1>4, <1>5

-----------------------------------------------------------------------------
(* The steps *)

\* self_mass is an amount under every key.
LEMMA SelfMassType == \A p \in Pos : \A cs : SelfMass(p, cs) \in [Key -> Amount]
<1> SUFFICES ASSUME NEW p \in Pos, NEW cs PROVE SelfMass(p, cs) \in [Key -> Amount]
  OBVIOUS
<1>1. p[1] \in Int
  BY PosAssumption
<1>2. [n |-> 1, x |-> p[1]] \in Amount /\ Zero \in Amount
  BY <1>1, AmountOf DEF Zero
<1> QED BY <1>2 DEF SelfMass

\* self_mass is what the device adds to every subtree it is in.
LEMMA SelfMassIs ==
    ASSUME NEW at, NEW with, NEW d, NEW k \in Key
    PROVE  SelfMass(at[d], with[d])[k] = Own(at, with, d, k)
BY DEF SelfMass, Own

\* agg leaves amounts.
LEMMA AddMassType ==
    \A m \in Masses : \A delta \in [Key -> Amount] : \A S :
       AddMass(m, S, 1, delta) \in Masses /\ AddMass(m, S, -1, delta) \in Masses
<1> SUFFICES ASSUME NEW m \in Masses, NEW delta \in [Key -> Amount], NEW S
             PROVE  AddMass(m, S, 1, delta) \in Masses /\ AddMass(m, S, -1, delta) \in Masses
  OBVIOUS
<1>1. AddMass(m, S, 1, delta) \in Masses
  BY AddMassIs
<1>2. AddMass(m, S, -1, delta) \in Masses
  <2>1. ASSUME NEW i \in Int, i = -1 PROVE AddMass(m, S, i, delta) \in Masses
    BY <2>1, AddMassIs
  <2> QED BY <2>1
<1> QED BY <1>1, <1>2

\* What an invariant of both says of what a step changes.
LEMMA Unpacked ==
    ASSUME AInv
    PROVE  /\ IInv /\ TypeOK /\ JobOK /\ Covering /\ Rooted /\ Listed /\ Counted
           /\ IsFiniteSet(live) /\ live \subseteq Dev
           /\ Forest(par, live, tz) /\ Placeable(pos, live)
           /\ tz \in [Dev -> Int] /\ \A d \in live : tz[d] \in 0..Leaf
           /\ par \in [Dev -> Dev \union {NONE}]
<1>1. TypeOK
  BY DEF AInv, IInv
<1>2. tz \in [Dev -> Int] /\ \A d \in live : tz[d] \in 0..Leaf
  BY <1>1, ZoomAssumption DEF TypeOK, Dead, Leaf
<1> QED BY <1>1, <1>2, IsForest DEF AInv, IInv, TypeOK

\* An inserted device joins the sums of its ancestors and their lists.
LEMMA InsertAInv ==
    ASSUME AInv, NEW d \in Dev, NEW p \in Pos, NEW cs \in CellSets, AggInsert(d, p, cs)
    PROVE  AInv'
<1>1. IInv' /\ TypeOK' /\ Covering'
  <2>1. IInv'
    BY InsertIInv DEF AggInsert, AInv
  <2> QED BY <2>1 DEF IInv
<1>2. PICK l \in 0..Leaf, q \in Dev \union {NONE} :
         tz' = [tz EXCEPT ![d] = l] /\ par' = [par EXCEPT ![d] = q]
  BY DEF AggInsert, Insert, Link
<1>3. /\ job = Idle /\ job' = Idle /\ d \notin live /\ live' = live \union {d}
      /\ pos' = [pos EXCEPT ![d] = p]
  BY DEF AggInsert, Insert
<1>4. Placed = live /\ Placed' = live'
  BY <1>1, <1>3, Unpacked, AllPlaced, AllPlacedNext
<1>5. IsFiniteSet(live')
  BY <1>3, Unpacked, FS_AddElement
<1>6. Rooted'
  <2>1. \A e \in Dev \ live' : par'[e] = NONE
    BY <1>2, <1>3, Unpacked DEF Rooted
  <2> QED BY <1>1, <1>4, <2>1, RootedNext
<1>7. Listed'
  <2>1. par[d] = NONE
    BY <1>3, Unpacked DEF Rooted
  <2>2. l \in Int
    BY ZoomAssumption DEF Leaf
  <2>3. kidlist' = Relinked(kidlist, d)
    BY DEF AggInsert
  <2>4. /\ kidlist' \in [Dev -> Seq(Dev)]
        /\ \A e \in Dev : ListOf(kidlist'[e], {x \in live' : par'[x] = e}, tz')
    BY <1>2, <1>3, <2>1, <2>2, <2>3, Unpacked, RelinkedKeepsOrder DEF Listed
  <2> QED BY <2>4 DEF Listed, Children
<1>8. Counted'
  <2> DEFINE own == SelfMass(p, cs)
             m1 == [mass EXCEPT ![d] = own]
  <2>1. cells' = [cells EXCEPT ![d] = cs] /\ cells' \in [Dev -> SUBSET Cell]
        /\ mass' = AddMass(m1, Chain(par', par'[d]), 1, own)
    BY Unpacked, CellAssumption DEF AggInsert, Counted
  <2>2. pos'[d] = p /\ cells'[d] = cs
    BY <1>3, <2>1, Unpacked DEF TypeOK, Counted
  <2>3. own \in [Key -> Amount] /\ \A k \in Key : own[k] = Own(pos', cells', d, k)
    <3>1. PICK to, with : to = pos' /\ with = cells'
      OBVIOUS
    <3>2. \A k \in Key : SelfMass(to[d], with[d])[k] = Own(to, with, d, k)
      BY SelfMassIs
    <3>3. own \in [Key -> Amount]
      BY SelfMassType
    <3>4. own = SelfMass(to[d], with[d])
      BY <2>2, <3>1
    <3> HIDE DEF own
    <3> QED BY <3>1, <3>2, <3>3, <3>4
  <2>4. m1 \in Masses
    BY <2>3, Unpacked DEF Counted, Masses
  <2>5. mass' \in Masses
    <3> HIDE DEF own, m1
    <3> QED BY <2>1, <2>3, <2>4, AddMassType
  <2>6. Forest(par', live', tz') /\ Placeable(pos', live')
    BY <1>1, <1>6, IsForestNext
  <2>7. par'[d] \in live \union {NONE}
    <3>1. par'[d] # NONE => par'[d] \in live' /\ tz'[par'[d]] < tz'[d] /\ tz'[d] \in Int
      BY <1>1, <1>3, <1>6, ZoomAssumption DEF Rooted, TypeOK, Leaf
    <3> QED BY <1>3, <3>1
  <2>8. \A e \in live : par'[e] = par[e] /\ par[e] \in live \union {NONE}
    BY <1>2, <1>3, Unpacked DEF Rooted
  <2>9. \A e \in live : pos'[e] = pos[e] /\ cells'[e] = cells[e]
    BY <1>3, <2>1, Unpacked DEF TypeOK, Counted
  <2>10. Exact(mass, pos, cells, par, live) /\ mass \in Masses
    BY <1>4, Unpacked DEF Counted
  <2> HIDE DEF own
  <2>11. Exact(mass', pos', cells', par', live \union {d})
    BY <1>3, <2>1, <2>3, <2>6, <2>7, <2>8, <2>9, <2>10, Unpacked, MassJoins
  <2> QED BY <1>3, <1>4, <2>1, <2>5, <2>11 DEF Counted
<1> QED BY <1>1, <1>5, <1>6, <1>7, <1>8 DEF AInv

\* recell takes a device out of the sums of the cells it has left and puts it in those
\* of the cells it has come into.
LEMMA RecelledIs ==
    ASSUME AInv, job = Idle, NEW d \in live, NEW cs \in CellSets
    PROVE  /\ [cells EXCEPT ![d] = cs] \in [Dev -> SUBSET Cell]
           /\ Recelled(d, cs) \in Masses
           /\ Exact(Recelled(d, cs), pos, [cells EXCEPT ![d] = cs], par, live)
<1>1. Placed = live
  BY Unpacked, AllPlaced
<1>2. d \in Dev /\ pos[d][1] \in Int
  BY Unpacked DEF Placeable
<1> DEFINE new == [cells EXCEPT ![d] = cs]
           one == [n |-> 1, x |-> pos[d][1]]
           moved == [k \in Key |-> IF k = All THEN Zero
                                   ELSE IF k \in cs \ cells[d] THEN one
                                   ELSE IF k \in cells[d] \ cs THEN Times(-1, one)
                                   ELSE Zero]
<1>3. Recelled(d, cs) = AddMass(mass, Chain(par, d), 1, moved)
  BY DEF Recelled
<1>4. new \in [Dev -> SUBSET Cell] /\ new[d] = cs /\ \A e \in live \ {d} : new[e] = cells[e]
  BY <1>2, Unpacked, CellAssumption DEF Counted
<1>5. /\ one \in Amount /\ Zero \in Amount /\ Times(-1, one) \in Amount
      /\ Plus(Zero, one) = one /\ Plus(one, Zero) = one /\ Plus(Zero, Zero) = Zero
      /\ Plus(one, Times(-1, one)) = Zero
  <2>1. one \in Amount /\ Zero \in Amount
    BY <1>2, AmountOf DEF Zero
  <2> HIDE DEF one
  <2>2. Plus(Plus(Zero, one), Times(-1, one)) = Zero
    BY <2>1, PlusLaws
  <2> QED BY <2>1, <2>2, PlusLaws
<1> HIDE DEF one
<1>6. moved \in [Key -> Amount]
  BY <1>5
<1>7. \A k \in Key : /\ Own(pos, cells, d, k) = IF k = All \/ k \in cells[d] THEN one ELSE Zero
                     /\ Own(pos, new, d, k) = IF k = All \/ k \in cs THEN one ELSE Zero
  BY <1>4 DEF Own, one
<1>8. \A k \in Key : Own(pos, new, d, k) = Plus(Own(pos, cells, d, k), moved[k])
  BY <1>5, <1>7
<1>9. mass \in Masses /\ Exact(mass, pos, cells, par, live)
  BY <1>1, Unpacked DEF Counted
<1> HIDE DEF moved, new
<1>10. Exact(AddMass(mass, Chain(par, d), 1, moved), pos, new, par, live)
  BY <1>4, <1>6, <1>8, <1>9, Unpacked, MassChanges
<1>11. AddMass(mass, Chain(par, d), 1, moved) \in Masses
  BY <1>6, <1>9, AddMassType
<1> QED BY <1>3, <1>4, <1>10, <1>11 DEF new

\* A device that changes its cells where it is changes the sums of its chain.
LEMMA RefileAInv ==
    ASSUME AInv, NEW d \in Dev, NEW cs \in CellSets, AggRefile(d, cs)
    PROVE  AInv'
<1>1. /\ job = Idle /\ d \in live /\ cells' = [cells EXCEPT ![d] = cs]
      /\ mass' = Recelled(d, cs) /\ kidlist' = kidlist
      /\ live' = live /\ pos' = pos /\ tz' = tz /\ par' = par /\ listed' = listed /\ job' = job
  BY DEF AggRefile, vars
<1>2. IInv'
  BY <1>1 DEF AInv, IInv, TypeOK, JobOK, GridListsCenters, Separation, Covering, Placed
<1>3. Rooted' /\ Listed' /\ IsFiniteSet(live')
  BY <1>1 DEF AInv, Rooted, Listed, Children
<1>4. Placed = live /\ Placed' = live
  <2>1. Placed = live
    BY <1>1, Unpacked, AllPlaced
  <2> QED BY <1>1, <2>1 DEF Placed
<1>5. Counted'
  BY <1>1, <1>4, RecelledIs DEF Counted
<1> QED BY <1>2, <1>3, <1>5 DEF AInv

\* A device that moves within the slack takes its displacement up its chain.
LEMMA MoveFastAInv ==
    ASSUME AInv, NEW d \in Dev, NEW p \in Pos, NEW cs \in CellSets, AggMoveFast(d, p, cs)
    PROVE  AInv'
<1>1. /\ job = Idle /\ d \in live /\ cells' = [cells EXCEPT ![d] = cs] /\ kidlist' = kidlist
      /\ live' = live /\ pos' = [pos EXCEPT ![d] = p] /\ tz' = tz /\ par' = par
      /\ job' = job
  BY DEF AggMoveFast, MoveFast
<1>2. IInv' /\ TypeOK'
  <2>1. IInv'
    BY MoveFastIInv DEF AggMoveFast, AInv
  <2> QED BY <2>1 DEF IInv
<1>3. Rooted' /\ Listed' /\ IsFiniteSet(live')
  BY <1>1 DEF AInv, Rooted, Listed, Children
<1>4. Placed = live /\ Placed' = live
  <2>1. Placed = live
    BY <1>1, Unpacked, AllPlaced
  <2> QED BY <1>1, <2>1 DEF Placed
<1>5. Counted'
  <2> DEFINE shift == [k \in Key |-> IF k \in {All} \union cs
                                     THEN [n |-> 0, x |-> p[1] - pos[d][1]] ELSE Zero]
             m1 == Recelled(d, cs)
             new == [cells EXCEPT ![d] = cs]
             to == [pos EXCEPT ![d] = p]
  <2>1. mass' = AddMass(m1, Chain(par, d), 1, shift)
    BY DEF AggMoveFast
  <2>2. m1 \in Masses /\ Exact(m1, pos, new, par, live) /\ new \in [Dev -> SUBSET Cell]
    BY <1>1, RecelledIs
  <2>3. /\ pos[d][1] \in Int /\ p[1] \in Int /\ to[d] = p /\ new[d] = cs
        /\ \A e \in live \ {d} : to[e] = pos[e]
    BY <1>1, Unpacked, PosAssumption DEF Placeable, TypeOK, Counted
  <2>4. /\ [n |-> 0, x |-> p[1] - pos[d][1]] \in Amount /\ Zero \in Amount
        /\ [n |-> 1, x |-> p[1]] = Plus([n |-> 1, x |-> pos[d][1]], [n |-> 0, x |-> p[1] - pos[d][1]])
        /\ Zero = Plus(Zero, Zero)
    <3>1. p[1] = pos[d][1] + (p[1] - pos[d][1]) /\ p[1] - pos[d][1] \in Int
      BY <2>3
    <3> QED BY <3>1, AmountOf DEF Plus, Zero
  <2>5. shift \in [Key -> Amount]
    BY <2>4
  <2>6. \A k \in Key : Own(to, new, d, k) = Plus(Own(pos, new, d, k), shift[k])
    <3>1. \A k \in Key : /\ Own(to, new, d, k) = IF k = All \/ k \in cs THEN [n |-> 1, x |-> p[1]] ELSE Zero
                         /\ Own(pos, new, d, k) = IF k = All \/ k \in cs THEN [n |-> 1, x |-> pos[d][1]] ELSE Zero
                         /\ shift[k] = IF k = All \/ k \in cs THEN [n |-> 0, x |-> p[1] - pos[d][1]] ELSE Zero
      BY <2>3 DEF Own
    <3> HIDE DEF shift, to, new
    <3> QED BY <2>4, <3>1
  <2>7. Placeable(to, live)
    <3>1. Forest(par', live', tz') /\ Placeable(pos', live')
      BY <1>2, <1>3, IsForestNext
    <3> QED BY <1>1, <3>1
  <2> HIDE DEF shift, m1, new, to
  <2>8. Exact(AddMass(m1, Chain(par, d), 1, shift), to, new, par, live)
    BY <1>1, <2>2, <2>3, <2>5, <2>6, <2>7, Unpacked, MassChanges
  <2>9. mass' \in Masses
    BY <2>1, <2>2, <2>5, AddMassType
  <2> QED BY <1>1, <1>4, <2>1, <2>2, <2>8, <2>9 DEF Counted, new, to
<1> QED BY <1>2, <1>3, <1>5 DEF AInv

\* The head of a repair: the device that is detached is taken off what is above it.
LEMMA DetachAInv ==
    ASSUME AInv, job = Idle, NEW d \in live, NEW to \in Pos \union {NONE}, BeginUnlink(d, to),
           NEW m \in Masses, NEW w \in [Dev -> SUBSET Cell], Exact(m, pos, w, par, live),
           cells' = w, kidlist' = kidlist,
           mass' = AddMass(m, Chain(par, par[d]), -1, SelfMass(pos[d], w[d]))
    PROVE  AInv'
<1>1. IInv'
  BY BeginUnlinkIInv, Unpacked
<1>2. live' = live /\ pos' = pos /\ tz' = tz /\ par' = par /\ job'.dev = d
  BY DEF BeginUnlink
<1>3. Rooted' /\ Listed' /\ IsFiniteSet(live')
  BY <1>2 DEF AInv, Rooted, Listed, Children
<1>4. Placed' = live \ {d}
  BY <1>2 DEF Placed
<1>5. Counted'
  <2> DEFINE own == SelfMass(pos[d], w[d])
  <2>1. pos[d] \in Pos
    BY Unpacked DEF TypeOK
  <2>2. own \in [Key -> Amount] /\ \A k \in Key : own[k] = Own(pos, w, d, k)
    <3>1. \A k \in Key : own[k] = Own(pos, w, d, k)
      BY SelfMassIs
    <3>2. own \in [Key -> Amount]
      BY <2>1, SelfMassType
    <3> QED BY <3>1, <3>2
  <2> HIDE DEF own
  <2>3. Exact(AddMass(m, Chain(par, par[d]), -1, own), pos, w, par, live \ {d})
    BY <2>2, Unpacked, MassLeaves
  <2>4. AddMass(m, Chain(par, par[d]), -1, own) \in Masses
    BY <2>2, AddMassType
  <2> QED BY <1>2, <1>4, <2>3, <2>4 DEF Counted, own
<1> QED BY <1>1, <1>3, <1>5 DEF AInv

\* The head of a slow move takes the device off its ancestors, in its new cells.
LEMMA MoveSlowAInv ==
    ASSUME AInv, NEW d \in Dev, NEW p \in Pos, NEW cs \in CellSets, AggMoveSlow(d, p, cs)
    PROVE  AInv'
<1>1. /\ job = Idle /\ d \in live /\ BeginUnlink(d, p) /\ kidlist' = kidlist
      /\ cells' = [cells EXCEPT ![d] = cs]
      /\ mass' = AddMass(Recelled(d, cs), Chain(par, par[d]), -1, SelfMass(pos[d], cs))
  BY DEF AggMoveSlow, MoveSlow
<1> DEFINE m == Recelled(d, cs)
           w == [cells EXCEPT ![d] = cs]
<1>2. m \in Masses /\ w \in [Dev -> SUBSET Cell] /\ Exact(m, pos, w, par, live)
  BY <1>1, RecelledIs
<1>3. w[d] = cs
  BY Unpacked DEF Counted
<1> HIDE DEF m, w
<1>4. cells' = w /\ mass' = AddMass(m, Chain(par, par[d]), -1, SelfMass(pos[d], w[d]))
  BY <1>1, <1>3 DEF m, w
<1> QED BY <1>1, <1>2, <1>4, DetachAInv

\* The head of a removal takes the device off its ancestors.
LEMMA RemoveAInv ==
    ASSUME AInv, NEW d \in Dev, AggRemove(d)
    PROVE  AInv'
<1>1. /\ job = Idle /\ d \in live /\ BeginUnlink(d, NONE) /\ kidlist' = kidlist
      /\ cells' = cells
      /\ mass' = AddMass(mass, Chain(par, par[d]), -1, SelfMass(pos[d], cells[d]))
  BY DEF AggRemove, RemoveDevice
<1>2. Placed = live
  BY <1>1, Unpacked, AllPlaced
<1>3. mass \in Masses /\ cells \in [Dev -> SUBSET Cell] /\ Exact(mass, pos, cells, par, live)
  BY <1>2, Unpacked DEF Counted
<1> QED BY <1>1, <1>3, DetachAInv

\* One iteration of the loop: the subtree of the child moves as a whole.
LEMMA RehomeChildAInv ==
    ASSUME AInv, NEW c \in Dev, AggRehomeChild(c)
    PROVE  AInv'
<1>1. RehomeChild(c) /\ kidlist' = Relinked(kidlist, c) /\ cells' = cells
  BY DEF AggRehomeChild
<1>2. IInv' /\ TypeOK' /\ Covering'
  <2>1. IInv'
    BY <1>1, RehomeChildIInv, Unpacked
  <2> QED BY <2>1 DEF IInv
<1>3. PICK l \in 0..Leaf, q \in Dev \union {NONE} :
         /\ Descend(Unlisted(listed, c), c, pos[c], tz[c] - 1, l, q)
         /\ tz' = [tz EXCEPT ![c] = l] /\ par' = [par EXCEPT ![c] = q]
  BY <1>1 DEF RehomeChild, Link
<1>4. c \in job.kids /\ live' = live /\ pos' = pos /\ job'.dev = job.dev
  BY <1>1, Unpacked DEF RehomeChild, IsNextKid, TypeOK
<1> DEFINE D == job.dev
<1>5. /\ D # NONE /\ D \in live /\ c \in live /\ c # D /\ par[c] = D
      /\ tz[D] < tz[c] /\ tz[c] \in 0..Leaf /\ tz[D] \in 0..Leaf
      /\ Placed = live \ {D} /\ Placed' = live \ {D}
  BY <1>4, Unpacked DEF JobOK, Idle, Placed, Rooted
<1>6. l <= tz[c]
  <2>1. Unlisted(listed, c) \in [Level -> SUBSET live]
    BY Unpacked, <1>5 DEF AInv, IInv, GridListsCenters, Placed, Unlisted, TypeOK
  <2>2. pos[c] \in Pos /\ tz[c] - 1 \in Int /\ tz[c] - 1 >= 0
    BY <1>5, Unpacked, ZoomAssumption DEF TypeOK, Leaf
  <2>3. l <= (tz[c] - 1) + 1
    BY <1>3, <2>1, <2>2, Unpacked, PlacementIsCovered
  <2> QED BY <1>5, <2>3, ZoomAssumption DEF Leaf
<1>7. Rooted'
  <2>1. \A d \in Dev \ live' : par'[d] = NONE
    BY <1>3, <1>4, <1>5, Unpacked DEF Rooted
  <2>2. par'[D] # NONE => par'[D] \in live' /\ tz'[par'[D]] < tz'[D]
    <3> SUFFICES ASSUME par'[D] # NONE PROVE par'[D] \in live' /\ tz'[par'[D]] < tz'[D]
      OBVIOUS
    <3>1. par'[D] = par[D] /\ tz'[D] = tz[D]
      BY <1>3, <1>5, Unpacked
    <3>2. par[D] \in live /\ tz[par[D]] < tz[D] /\ tz[par[D]] \in 0..Leaf
      BY <1>5, <3>1, Unpacked DEF Rooted
    <3>3. par[D] # c
      BY <1>5, <3>2, ZoomAssumption DEF Leaf
    <3>4. tz'[par[D]] = tz[par[D]]
      BY <1>3, <3>3, <3>2, Unpacked
    <3> QED BY <1>4, <3>1, <3>2, <3>4
  <2>3. live' \ Placed' \subseteq {D}
    BY <1>4, <1>5
  <2> QED BY <1>2, <2>1, <2>2, <2>3, RootedNext
<1>8. Listed'
  <2>1. l \in Int
    BY ZoomAssumption DEF Leaf
  <2>2. /\ kidlist' \in [Dev -> Seq(Dev)]
        /\ \A e \in Dev : ListOf(kidlist'[e], {x \in live' : par'[x] = e}, tz')
    BY <1>1, <1>3, <1>4, <1>5, <2>1, Unpacked, RelinkedKeepsOrder DEF Listed
  <2> QED BY <2>2 DEF Listed, Children
<1>9. Counted'
  <2> DEFINE off == AddMass(mass, Chain(par, par[D]), -1, mass[c])
  <2>1. mass' = AddMass(off, Chain(par', par'[c]), 1, mass[c])
    BY DEF AggRehomeChild
  <2>2. mass \in Masses /\ mass[c] \in [Key -> Amount] /\ Exact(mass, pos, cells, par, live \ {par[c]})
    BY <1>5, Unpacked DEF Counted, Masses
  <2>3. off \in Masses
    BY <2>2, AddMassType
  <2>4. mass' \in Masses
    <3> HIDE DEF off
    <3> QED BY <2>1, <2>2, <2>3, AddMassType
  <2>5. Forest(par', live, tz')
    BY <1>2, <1>4, <1>7, IsForestNext
  <2>6. par'[c] \notin Subtree(par, live, c)
    <3> SUFFICES ASSUME par'[c] \in live, c \in Chain(par, par'[c]) PROVE FALSE
      BY DEF Subtree
    <3>1. par'[c] = q /\ tz'[c] = l /\ q \in live
      BY <1>3, Unpacked
    <3>2. q # NONE
      BY <3>1, NoneAssumption, Unpacked
    <3>3. tz'[q] < l
      BY <1>4, <1>5, <1>7, <3>1, <3>2 DEF Rooted
    <3>4. q # c
      BY <3>1, <3>3, ZoomAssumption DEF Leaf
    <3>5. tz'[q] = tz[q] /\ tz[q] \in 0..Leaf
      BY <1>3, <3>1, <3>4, Unpacked
    <3>6. tz[c] < tz[q]
      BY <3>1, <3>4, Unpacked, ChainFalls
    <3> QED BY <1>5, <1>6, <3>3, <3>5, <3>6, ZoomAssumption DEF Leaf
  <2>7. \A e \in live \ {c} : par'[e] = par[e]
    BY <1>3, Unpacked
  <2>8. par[c] # NONE /\ par[c] = D
    BY <1>5
  <2> HIDE DEF off
  <2>9. Exact(AddMass(AddMass(mass, Chain(par, par[par[c]]), -1, mass[c]),
                      Chain(par', par'[c]), 1, mass[c]), pos, cells, par', live \ {par[c]})
    BY <1>5, <2>2, <2>5, <2>6, <2>7, <2>8, Unpacked, MassMoves
  <2>10. Exact(mass', pos, cells, par', live \ {D})
    BY <2>1, <2>8, <2>9 DEF off
  <2> QED BY <1>1, <1>4, <1>5, <2>4, <2>10, Unpacked DEF Counted
<1>10. IsFiniteSet(live')
  BY <1>4, Unpacked
<1> QED BY <1>2, <1>7, <1>8, <1>9, <1>10 DEF AInv

\* The tail of a removal: the slot is freed, and nothing was above or under it.
LEMMA FinishRemoveAInv ==
    ASSUME AInv, AggFinishRemove
    PROVE  AInv'
<1> DEFINE D == job.dev
           none == [k \in Key |-> Zero]
<1>1. /\ FinishRemove /\ cells' = [cells EXCEPT ![D] = {}]
      /\ kidlist' = [Relinked(kidlist, D) EXCEPT ![D] = <<>>]
      /\ mass' = [mass EXCEPT ![D] = none]
  BY DEF AggFinishRemove
<1>2. IInv' /\ TypeOK' /\ Covering'
  <2>1. IInv'
    BY <1>1, FinishRemoveIInv, Unpacked
  <2> QED BY <2>1 DEF IInv
<1>3. /\ D # NONE /\ D \in live /\ D \in Dev /\ job' = Idle /\ live' = live \ {D}
      /\ pos' = [pos EXCEPT ![D] = NONE] /\ tz' = [tz EXCEPT ![D] = Dead]
      /\ par' = [par EXCEPT ![D] = NONE]
      /\ Placed = live \ {D} /\ \A e \in live \ {D} : par[e] # D
  BY <1>1, Unpacked DEF FinishRemove, JobOK, Placed
<1>4. Placed' = live'
  BY <1>2, <1>3, AllPlacedNext
<1>5. IsFiniteSet(live')
  BY <1>3, Unpacked, FS_Subset
<1>6. Rooted'
  <2>1. \A e \in Dev \ live' : par'[e] = NONE
    BY <1>3, Unpacked DEF Rooted
  <2> QED BY <1>2, <1>4, <2>1, RootedNext
<1>7. Listed'
  <2> DEFINE lists == Relinked(kidlist, D)
  <2>1. Dead \in Int
    BY DEF Dead
  <2>2. /\ lists \in [Dev -> Seq(Dev)]
        /\ \A e \in Dev : ListOf(lists[e], {x \in live' : par'[x] = e}, tz')
    BY <1>3, <2>1, Unpacked, RelinkedKeepsOrder DEF Listed
  <2>3. {x \in live' : par'[x] = D} = {}
    BY <1>3, Unpacked
  <2>4. ListOf(<<>>, {x \in live' : par'[x] = D}, tz')
    BY <2>3, NoList
  <2>5. <<>> \in Seq(Dev)
    OBVIOUS
  <2> HIDE DEF lists
  <2>6. /\ kidlist' \in [Dev -> Seq(Dev)]
        /\ \A e \in Dev : ListOf(kidlist'[e], {x \in live' : par'[x] = e}, tz')
    BY <1>1, <1>3, <2>2, <2>4, <2>5 DEF lists
  <2> QED BY <2>6 DEF Listed, Children
<1>8. Counted'
  <2>1. none \in [Key -> Amount]
    BY AmountOf DEF Zero
  <2>2. /\ mass \in Masses /\ Exact(mass, pos, cells, par, live \ {D})
        /\ cells \in [Dev -> SUBSET Cell]
    BY <1>3, Unpacked DEF Counted
  <2> HIDE DEF none
  <2>3. mass' \in Masses /\ \A e \in live \ {D} : mass'[e] = mass[e]
    BY <1>1, <1>3, <2>1, <2>2, Unpacked DEF Masses
  <2>4. cells' \in [Dev -> SUBSET Cell] /\ \A e \in live \ {D} : cells'[e] = cells[e]
    BY <1>1, <1>3, <2>2, Unpacked
  <2>5. \A e \in live \ {D} : pos'[e] = pos[e] /\ par'[e] = par[e]
    BY <1>3, Unpacked DEF TypeOK
  <2>6. \A e \in live \ {D} : par[e] \in (live \ {D}) \union {NONE}
    BY <1>3, Unpacked DEF Rooted
  <2>7. Forest(par', live', tz')
    BY <1>2, <1>6, IsForestNext
  <2>8. Exact(mass', pos', cells', par', live \ {D})
    <3> DEFINE P == live \ {D}
    <3>1. P \subseteq live /\ P = live' /\ IsFiniteSet(P)
      BY <1>3, <1>5
    <3>2. /\ \A e \in P : par'[e] = par[e] /\ par[e] \in P \union {NONE}
          /\ \A e \in P : pos'[e] = pos[e] /\ cells'[e] = cells[e]
          /\ \A e \in P : mass'[e] = mass[e]
      BY <2>3, <2>4, <2>5, <2>6
    <3>3. Exact(mass, pos, cells, par, P)
      BY <2>2
    <3> HIDE DEF P
    <3>4. Exact(mass', pos', cells', par', P)
      BY <2>7, <3>1, <3>2, <3>3, Unpacked, MassRests
    <3> QED BY <3>4 DEF P
  <2> QED BY <1>3, <1>4, <2>3, <2>4, <2>8 DEF Counted
<1> QED BY <1>2, <1>5, <1>6, <1>7, <1>8 DEF AInv

\* The tail of a slow move: the device joins the sums and lists where it now is.
LEMMA FinishMoveAInv ==
    ASSUME AInv, AggFinishMove
    PROVE  AInv'
<1> DEFINE D == job.dev
           p == job.to
           P == live \ {D}
<1>1. FinishMove /\ kidlist' = Relinked([kidlist EXCEPT ![D] = <<>>], D) /\ cells' = cells
  BY DEF AggFinishMove
<1>2. IInv' /\ TypeOK' /\ Covering'
  <2>1. IInv'
    BY <1>1, FinishMoveIInv, Unpacked
  <2> QED BY <2>1 DEF IInv
<1>3. PICK l \in 0..Leaf, q \in Dev \union {NONE} :
         tz' = [tz EXCEPT ![D] = l] /\ par' = [par EXCEPT ![D] = q]
  BY <1>1 DEF FinishMove, Link
<1>4. /\ D # NONE /\ D \in live /\ D \in Dev /\ job' = Idle /\ live' = live /\ p \in Pos
      /\ pos' = [pos EXCEPT ![D] = p]
      /\ Placed = P /\ \A e \in P : par[e] # D
  BY <1>1, Unpacked DEF FinishMove, JobOK, Placed, TypeOK
<1>5. Placed' = live /\ P \union {D} = live /\ IsFiniteSet(P) /\ P \subseteq live /\ P \subseteq Dev
  BY <1>2, <1>4, AllPlacedNext, Unpacked, FS_Subset
<1>6. Rooted'
  <2>1. \A e \in Dev \ live' : par'[e] = NONE
    BY <1>3, <1>4, Unpacked DEF Rooted
  <2> QED BY <1>2, <1>4, <1>5, <2>1, RootedNext
<1>7. Listed'
  <2> DEFINE lists == [kidlist EXCEPT ![D] = <<>>]
  <2>1. par[D] # D
    BY <1>4, Unpacked, ZoomAssumption DEF Rooted, Leaf
  <2>2. Children(D) = {}
    BY <1>4, <2>1 DEF Children
  <2>3. ListOf(<<>>, Children(D), tz)
    BY <2>2, NoList
  <2>4. <<>> \in Seq(Dev)
    OBVIOUS
  <2>5. lists \in [Dev -> Seq(Dev)] /\ \A e \in Dev : ListOf(lists[e], Children(e), tz)
    BY <1>4, <2>3, <2>4, Unpacked DEF Listed
  <2>6. l \in Int
    BY ZoomAssumption DEF Leaf
  <2> HIDE DEF lists
  <2>7. /\ Relinked(lists, D) \in [Dev -> Seq(Dev)]
        /\ \A e \in Dev : ListOf(Relinked(lists, D)[e], {x \in live' : par'[x] = e}, tz')
    BY <1>3, <1>4, <2>5, <2>6, Unpacked, RelinkedKeepsOrder
  <2>8. kidlist' = Relinked(lists, D)
    BY <1>1 DEF lists
  <2> QED BY <2>7, <2>8 DEF Listed, Children
<1>8. Counted'
  <2> DEFINE own == SelfMass(p, cells[D])
             m1 == [mass EXCEPT ![D] = own]
  <2>1. mass' = AddMass(m1, Chain(par', par'[D]), 1, own)
    BY DEF AggFinishMove
  <2>2. mass \in Masses /\ Exact(mass, pos, cells, par, P) /\ cells \in [Dev -> SUBSET Cell]
    BY <1>4, Unpacked DEF Counted
  <2>3. own \in [Key -> Amount] /\ \A k \in Key : own[k] = Own(pos', cells, D, k)
    <3>1. PICK to : to = pos'
      OBVIOUS
    <3>2. \A k \in Key : SelfMass(to[D], cells[D])[k] = Own(to, cells, D, k)
      BY SelfMassIs
    <3>3. own \in [Key -> Amount]
      BY <1>4, SelfMassType
    <3>4. pos'[D] = p
      BY <1>4, Unpacked DEF TypeOK
    <3>5. own = SelfMass(to[D], cells[D])
      BY <3>1, <3>4
    <3> HIDE DEF own
    <3> QED BY <3>1, <3>2, <3>3, <3>5
  <2>4. m1 \in Masses
    BY <2>2, <2>3 DEF Masses
  <2>5. mass' \in Masses
    <3> HIDE DEF own, m1
    <3> QED BY <2>1, <2>3, <2>4, AddMassType
  <2>6. Forest(par', live, tz') /\ Placeable(pos', P \union {D})
    BY <1>2, <1>4, <1>5, <1>6, IsForestNext
  <2>7. par'[D] \in P \union {NONE}
    <3>1. par'[D] # NONE => par'[D] \in live /\ tz'[par'[D]] < tz'[D] /\ tz'[D] \in 0..Leaf
      BY <1>2, <1>4, <1>6 DEF Rooted, TypeOK
    <3>2. par'[D] # D
      BY <1>4, <3>1, ZoomAssumption DEF Leaf
    <3> QED BY <3>1, <3>2
  <2>8. \A e \in P : par'[e] = par[e] /\ par[e] \in P \union {NONE}
    BY <1>3, <1>4, Unpacked DEF Rooted
  <2>9. \A e \in P : pos'[e] = pos[e]
    BY <1>4, Unpacked DEF TypeOK
  <2>10. D \notin P
    OBVIOUS
  <2>12. m1 = [mass EXCEPT ![D] = own] /\ \A e \in P : cells[e] = cells[e]
    OBVIOUS
  <2> HIDE DEF own, P, m1
  <2>11. Exact(mass', pos', cells, par', P \union {D})
    <3>1. PICK d, g, u, to : d = D /\ g = par' /\ u = tz' /\ to = pos'
      OBVIOUS
    <3>2. /\ d \in Dev /\ d \notin P /\ P \union {d} \subseteq live /\ g[d] \in P \union {NONE}
          /\ Forest(g, live, u) /\ Placeable(to, P \union {d})
          /\ \A e \in P : g[e] = par[e] /\ par[e] \in P \union {NONE}
          /\ \A e \in P : to[e] = pos[e] /\ cells[e] = cells[e]
          /\ \A k \in Key : own[k] = Own(to, cells, d, k)
      BY <1>4, <1>5, <2>3, <2>6, <2>7, <2>8, <2>9, <2>10, <2>12, <3>1
    <3>3. P \subseteq live /\ IsFiniteSet(P) /\ P \subseteq Dev /\ Forest(par, live, tz)
      BY <1>5, Unpacked
    <3>4. Exact(AddMass([mass EXCEPT ![d] = own], Chain(g, g[d]), 1, own), to, cells, g, P \union {d})
      BY <2>2, <2>3, <3>2, <3>3, MassJoins
    <3> QED BY <2>1, <2>12, <3>1, <3>4
  <2> QED BY <1>1, <1>5, <2>2, <2>5, <2>11 DEF Counted
<1>9. IsFiniteSet(live')
  BY <1>4, Unpacked
<1> QED BY <1>2, <1>6, <1>7, <1>8, <1>9 DEF AInv

-----------------------------------------------------------------------------
(* The theorems *)

\* With no device, there is nothing to be wrong.
LEMMA InitAInv == AggInit => AInv
<1> SUFFICES ASSUME AggInit PROVE AInv
  OBVIOUS
<1>1. /\ live = {} /\ Init /\ par = [d \in Dev |-> NONE] /\ cells = [d \in Dev |-> {}]
      /\ kidlist = [d \in Dev |-> <<>>] /\ mass = [d \in Dev |-> [k \in Key |-> Zero]]
  BY DEF AggInit, Init
<1>2. IInv /\ IsFiniteSet(live)
  BY <1>1, InitIInv, FS_EmptySet
<1>3. Rooted
  BY <1>1 DEF Rooted
<1>4. Listed
  <2>1. \A d \in Dev : Children(d) = {} /\ kidlist[d] = <<>>
    BY <1>1 DEF Children
  <2>2. \A d \in Dev : ListOf(<<>>, Children(d), tz)
    BY <2>1, NoList
  <2>3. <<>> \in Seq(Dev)
    OBVIOUS
  <2>4. kidlist \in [Dev -> Seq(Dev)]
    BY <1>1, <2>3
  <2> QED BY <2>1, <2>2, <2>4 DEF Listed
<1>5. Counted
  <2>1. Zero \in Amount
    BY AmountOf DEF Zero
  <2>2. mass \in Masses /\ cells \in [Dev -> SUBSET Cell]
    BY <1>1, <2>1 DEF Masses
  <2>3. Placed = {}
    BY <1>1 DEF Placed
  <2>4. Exact(mass, pos, cells, par, {})
    BY DEF Exact
  <2> QED BY <2>2, <2>3, <2>4 DEF Counted
<1> QED BY <1>2, <1>3, <1>4, <1>5 DEF AInv

\* Every step of the lists and sums is the step of the hierarchy of the same operation,
\* or leaves the hierarchy alone.
THEOREM AggregatesFollowNet == AggSpec => Spec
<1>1. AggInit => Init
  BY DEF AggInit
<1>2. [AggNext]_allVars => [Next]_vars
  BY DEF AggNext, allVars, AggInsert, AggMoveFast, AggMoveSlow, AggRefile, AggRemove,
         AggRehomeChild, AggFinishRemove, AggFinishMove, Next
<1> QED BY <1>1, <1>2, PTL DEF AggSpec, Spec

\* Between any two steps of a repair, child lists, cells and sums are what the invariant says.
THEOREM SpecAInv == AggSpec => []AInv
<1>1. AInv /\ [AggNext]_allVars => AInv'
  <2> SUFFICES ASSUME AInv, [AggNext]_allVars PROVE AInv'
    OBVIOUS
  <2>1. ASSUME NEW d \in Dev, NEW p \in Pos, NEW cs \in CellSets, AggInsert(d, p, cs)
        PROVE  AInv'
    BY <2>1, InsertAInv
  <2>2. ASSUME NEW d \in Dev, NEW p \in Pos, NEW cs \in CellSets, AggMoveFast(d, p, cs)
        PROVE  AInv'
    BY <2>2, MoveFastAInv
  <2>3. ASSUME NEW d \in Dev, NEW p \in Pos, NEW cs \in CellSets, AggMoveSlow(d, p, cs)
        PROVE  AInv'
    BY <2>3, MoveSlowAInv
  <2>4. ASSUME NEW d \in Dev, NEW cs \in CellSets, AggRefile(d, cs) PROVE AInv'
    BY <2>4, RefileAInv
  <2>5. ASSUME NEW d \in Dev, AggRemove(d) PROVE AInv'
    BY <2>5, RemoveAInv
  <2>6. ASSUME NEW c \in Dev, AggRehomeChild(c) PROVE AInv'
    BY <2>6, RehomeChildAInv
  <2>7. CASE AggFinishRemove
    BY <2>7, FinishRemoveAInv
  <2>8. CASE AggFinishMove
    BY <2>8, FinishMoveAInv
  <2>9. CASE UNCHANGED allVars
    <3>1. /\ live' = live /\ pos' = pos /\ tz' = tz /\ par' = par /\ listed' = listed
          /\ job' = job /\ cells' = cells /\ kidlist' = kidlist /\ mass' = mass
      BY <2>9 DEF allVars, vars, aggVars
    <3> QED BY <3>1 DEF AInv, IInv, TypeOK, JobOK, GridListsCenters, Separation, Covering,
                        Placed, Rooted, Listed, Children, Counted
  <2> QED BY <2>1, <2>2, <2>3, <2>4, <2>5, <2>6, <2>7, <2>8, <2>9 DEF AggNext
<1> QED BY <1>1, InitAInv, PTL DEF AggSpec

\* At every step of every repair, whatever the radii and the history, each child list holds
\* the children of its device, each once, coarsest first, and each device carries the mass of
\* the devices under it, in total and in every filter cell.
THEOREM AggregatesStayExact == AggSpec => []AggregatesExact
<1>1. AInv => KidListsSorted
  <2> SUFFICES ASSUME AInv, NEW d \in live
               PROVE  /\ ToSet(kidlist[d]) = Children(d)
                      /\ \A i, j \in DOMAIN kidlist[d] :
                            i < j => /\ kidlist[d][i] # kidlist[d][j]
                                     /\ tz[kidlist[d][i]] <= tz[kidlist[d][j]]
    BY DEF KidListsSorted
  <2> DEFINE list == kidlist[d]
             C == Children(d)
  <2>1. ListOf(list, C, tz)
    BY Unpacked DEF Listed
  <2> HIDE DEF list, C
  <2>2. list \in Seq(C) /\ DOMAIN list = 1..Len(list)
    BY <2>1 DEF ListOf
  <2>3. ToSet(list) = C
    BY <2>1, <2>2 DEF ListOf, ToSet
  <2>4. \A i, j \in DOMAIN list :
           i < j => list[i] # list[j] /\ tz[list[i]] <= tz[list[j]]
    BY <2>1, <2>2 DEF ListOf
  <2> QED BY <2>3, <2>4 DEF list, C
<1>2. AInv => MassIsSubtree
  <2> SUFFICES ASSUME AInv PROVE MassIsSubtree
    OBVIOUS
  <2> DEFINE chain == [e \in Placed |-> Chain(par, e)]
             Under(d) == {e \in Placed : d \in chain[e]}
  <2>1. \A d : Under(d) = Subtree(par, Placed, d)
    BY DEF Subtree
  <2>2. \A d \in Placed : \A k \in Key : mass[d][k] = Mass(pos, cells, Subtree(par, Placed, d), k)
    BY Unpacked DEF Counted, Exact
  <2>3. \A d \in Placed : \A k \in Key : mass[d][k] = MassOf(Under(d), k)
    <3> HIDE DEF Under
    <3> QED BY <2>1, <2>2, MassOfIs
  <2> QED BY <2>3 DEF MassIsSubtree
<1> QED BY <1>1, <1>2, SpecAInv, PTL DEF AggregatesExact

-----------------------------------------------------------------------------
(* Representatives *)

\* What is strictly above d is the parent of something above d, or of d.
LEMMA ChainBranch ==
    ASSUME NEW f, NEW L, NEW t, Forest(f, L, t), NEW s
    PROVE  \A d \in L : s \in Chain(f, d) /\ s # d => \E b \in Chain(f, d) : b \in L /\ f[b] = s
<1> DEFINE Branches(d) == s \in Chain(f, d) /\ s # d => \E b \in Chain(f, d) : b \in L /\ f[b] = s
           Bad == {d \in L : ~ Branches(d)}
<1> HIDE DEF Branches
<1> SUFFICES ASSUME Bad # {} PROVE FALSE
  BY DEF Branches
<1>1. PICK d \in Bad : \A e \in Bad : t[d] <= t[e]
  <2>1. Bad \subseteq L
    OBVIOUS
  <2> HIDE DEF Bad
  <2> QED BY <2>1, LowestOf
<1>2. /\ d \in L /\ ~ Branches(d) /\ t[d] \in Int
      /\ Chain(f, d) = {d} \union Chain(f, f[d]) /\ d \in Chain(f, d)
  BY ChainStep, ChainFalls, ZoomAssumption DEF Forest, Leaf
<1>3. s \in Chain(f, d) /\ s # d /\ \A b \in Chain(f, d) : b \in L => f[b] # s
  BY <1>2 DEF Branches
<1>4. f[d] # NONE /\ f[d] # s
  BY <1>2, <1>3, ChainStep
<1>5. f[d] \in L /\ t[f[d]] < t[d] /\ t[f[d]] \in Int
  BY <1>2, <1>4, ZoomAssumption DEF Forest, Leaf
<1>6. Branches(f[d])
  <2>1. f[d] \notin Bad
    BY <1>1, <1>2, <1>5
  <2> QED BY <1>5, <2>1
<1> QED BY <1>2, <1>3, <1>4, <1>6 DEF Branches

\* No two children of one device are above the same device.
LEMMA SiblingsApart ==
    ASSUME NEW f, NEW L, NEW t, Forest(f, L, t), NEW s \in L
    PROVE  \A d \in L : \A a, b \in Chain(f, d) : f[a] = s /\ f[b] = s => a = b
<1> DEFINE Apart(d) == \A a, b \in Chain(f, d) : f[a] = s /\ f[b] = s => a = b
           Bad == {d \in L : ~ Apart(d)}
<1> HIDE DEF Apart
<1> SUFFICES ASSUME Bad # {} PROVE FALSE
  BY DEF Apart
<1>1. PICK d \in Bad : \A e \in Bad : t[d] <= t[e]
  <2>1. Bad \subseteq L
    OBVIOUS
  <2> HIDE DEF Bad
  <2> QED BY <2>1, LowestOf
<1>2. /\ d \in L /\ ~ Apart(d) /\ t[d] \in Int
      /\ Chain(f, d) = {d} \union Chain(f, f[d]) /\ Chain(f, d) \subseteq L
  BY ChainStep, ChainFalls, ZoomAssumption DEF Forest, Leaf
\* A child of s is not above s.
<1>3. ASSUME NEW e \in Chain(f, s), f[e] = s PROVE FALSE
  <2>1. e \in L /\ (e # s => t[e] < t[s]) /\ s # NONE
    BY ChainFalls DEF Forest
  <2>2. t[s] < t[e] /\ t[s] \in Int /\ t[e] \in Int
    BY <1>3, <2>1, ZoomAssumption DEF Forest, Leaf
  <2> QED BY <2>1, <2>2
<1>4. PICK a \in Chain(f, d), b \in Chain(f, d) : f[a] = s /\ f[b] = s /\ a # b
  BY <1>2 DEF Apart
<1>5. f[d] # s
  BY <1>2, <1>3, <1>4
<1>6. a # d /\ b # d /\ a \in Chain(f, f[d]) /\ b \in Chain(f, f[d])
  BY <1>2, <1>4, <1>5
<1>7. f[d] # NONE
  BY <1>6, ChainStep
<1>8. f[d] \in L /\ t[f[d]] < t[d] /\ t[f[d]] \in Int
  BY <1>2, <1>7, ZoomAssumption DEF Forest, Leaf
<1>9. Apart(f[d])
  <2>1. f[d] \notin Bad
    BY <1>1, <1>2, <1>8
  <2> QED BY <1>8, <2>1
<1> QED BY <1>4, <1>6, <1>9 DEF Apart

\* Where the walk towards a center stands is above the device, and under every center
\* of the level above the device.
Passed(d, z, a) ==
    /\ a \in Chain(par, d)
    /\ \A x \in Chain(par, d) : tz[x] <= z => x \in Chain(par, a)

\* The center that represents a device is the first center of the level above it.
LEMMA RepIs ==
    ASSUME AInv, job = Idle, NEW d \in live, NEW z \in Level
    PROVE  Rep(d, z) \in live /\ tz[Rep(d, z)] <= z /\ Passed(d, z, Rep(d, z))
<1>0. /\ TypeOK /\ Covering /\ Forest(par, live, tz)
      /\ tz \in [Dev -> Int] /\ live \subseteq Dev /\ Leaf \in Nat /\ z \in Int
  BY Unpacked, ZoomAssumption DEF Leaf, Level
<1>1. Rep(d, z) \in live /\ tz[Rep(d, z)] <= z
  BY <1>0, RepIsClose
<1>2. PICK g \in [0..Leaf -> live] : Climbs(d, z, Leaf, g) /\ Rep(d, z) = g[Leaf]
  BY <1>0, RepIsReached
<1> DEFINE Bad == {n \in 0..Leaf : ~ Passed(d, z, g[n])}
<1>3. Bad = {}
  <2> SUFFICES ASSUME Bad # {} PROVE FALSE
    OBVIOUS
  <2>1. PICK m \in Bad : \A k \in Bad : m <= k
    <3>1. Bad \subseteq Nat
      BY <1>0
    <3> HIDE DEF Bad
    <3> QED BY <3>1, LeastOf
  <2>2. m \in 0..Leaf /\ ~ Passed(d, z, g[m])
    OBVIOUS
  <2>3. CASE m = 0
    <3>1. g[m] = d
      BY <1>2, <2>2, <2>3 DEF Climbs
    <3>2. Passed(d, z, d)
      BY <1>0, ChainFalls DEF Passed
    <3> QED BY <2>2, <3>1, <3>2
  <2>4. CASE m # 0
    <3> DEFINE a == g[m - 1]
    <3>1. m - 1 \in 0..Leaf /\ ~ (m <= m - 1)
      BY <1>0, <2>2, <2>4
    <3>2. a \in live /\ Passed(d, z, a)
      BY <2>1, <3>1
    <3>3. g[m] = IF tz[a] <= z THEN a ELSE par[a]
      BY <1>2, <2>2, <2>4 DEF Climbs
    <3> HIDE DEF a
    <3>4. CASE tz[a] <= z
      BY <2>2, <3>2, <3>3, <3>4
    <3>5. CASE ~ (tz[a] <= z)
      <4>1. g[m] = par[a] /\ par[a] \in live
        BY <1>2, <2>2, <3>3, <3>5
      <4>2. Chain(par, a) = {a} \union Chain(par, par[a]) /\ par[a] \in Chain(par, par[a])
        BY <1>0, <3>2, <4>1, ChainStep, ChainFalls
      <4>3. Chain(par, a) \subseteq Chain(par, d)
        BY <1>0, <3>2, ChainAbove DEF Passed
      <4>4. Passed(d, z, par[a])
        BY <3>2, <3>5, <4>2, <4>3 DEF Passed
      <4> QED BY <2>2, <4>1, <4>4
    <3> QED BY <3>4, <3>5
  <2> QED BY <2>3, <2>4
<1>4. Leaf \in 0..Leaf
  BY <1>0
<1> QED BY <1>1, <1>2, <1>3, <1>4

\* A center of the level represents what is under it and under none of its children
\* that are centers of the level themselves.
LEMMA RepWhen ==
    ASSUME AInv, job = Idle, NEW z \in Level, NEW s \in live, tz[s] <= z, NEW d \in live
    PROVE  Rep(d, z) = s <=> /\ s \in Chain(par, d)
                             /\ \A b \in Children(s) : tz[b] <= z => b \notin Chain(par, d)
<1>0. /\ Forest(par, live, tz) /\ s # NONE
      /\ tz \in [Dev -> Int] /\ live \subseteq Dev /\ z \in Int
      /\ \A b \in live : Chain(par, b) \subseteq live /\ b \in Chain(par, b)
                         /\ \A a \in Chain(par, b) : a # b => tz[a] < tz[b]
  <2>1. Forest(par, live, tz) /\ tz \in [Dev -> Int] /\ live \subseteq Dev
    BY Unpacked
  <2>2. s # NONE /\ z \in Int
    BY <2>1, ZoomAssumption DEF Forest, Level
  <2> QED BY <2>1, <2>2, ChainFalls
<1>1. Rep(d, z) \in live /\ tz[Rep(d, z)] <= z /\ Passed(d, z, Rep(d, z))
  BY RepIs
<1>2. \A b \in Children(s) : b \in live /\ par[b] = s /\ tz[s] < tz[b]
  BY <1>0 DEF Children, Forest
<1>3. ASSUME Rep(d, z) = s, NEW b \in Children(s), tz[b] <= z, b \in Chain(par, d) PROVE FALSE
  <2>1. b \in Chain(par, s)
    BY <1>1, <1>3 DEF Passed
  <2>2. b # s => tz[b] < tz[s]
    BY <1>0, <2>1
  <2>3. tz[s] < tz[b] /\ tz[s] \in Int /\ tz[b] \in Int
    BY <1>0, <1>2
  <2> QED BY <2>2, <2>3
<1>4. ASSUME s \in Chain(par, d), \A b \in Children(s) : tz[b] <= z => b \notin Chain(par, d),
             Rep(d, z) # s
      PROVE  FALSE
  <2> DEFINE r == Rep(d, z)
  <2>1. s \in Chain(par, r) /\ r \in live /\ tz[r] <= z /\ r \in Chain(par, d)
    BY <1>1, <1>4 DEF Passed
  <2> HIDE DEF r
  <2>2. s # r
    BY <1>4 DEF r
  <2>3. PICK b \in Chain(par, r) : b \in live /\ par[b] = s
    BY <1>0, <2>1, <2>2, ChainBranch
  <2>4. b \in Children(s) /\ tz[b] \in Int /\ tz[r] \in Int /\ (b # r => tz[b] < tz[r])
    BY <1>0, <2>1, <2>3 DEF Children
  <2>5. tz[b] <= z
    BY <1>0, <2>1, <2>4
  <2>6. b \in Chain(par, d)
    BY <1>0, <2>1, <2>3, ChainAbove
  <2> QED BY <1>4, <2>4, <2>5, <2>6
<1>5. Rep(d, z) = s => s \in Chain(par, d)
  BY <1>1 DEF Passed
<1> QED BY <1>3, <1>4, <1>5

-----------------------------------------------------------------------------
(* Sums over lists *)

\* The sums after each of the first n devices of a list.
SumsTo(list, m, n, g) ==
    g = [i \in 0..n |-> IF i = 0 THEN Zero ELSE Plus(g[i - 1], m[list[i]])]

\* One carries what a list of devices carries, step by step.
LEMMA SumsExist == \A list, m : \A n \in Nat : \E g : SumsTo(list, m, n, g)
<1> SUFFICES ASSUME NEW list, NEW m PROVE \A n \in Nat : \E g : SumsTo(list, m, n, g)
  OBVIOUS
<1> DEFINE Has(n) == \E g : SumsTo(list, m, n, g)
           Bad == {n \in Nat : ~ Has(n)}
<1> HIDE DEF Has
<1> SUFFICES ASSUME Bad # {} PROVE FALSE
  BY DEF Has
<1>1. PICK n \in Bad : \A k \in Bad : n <= k
  <2>1. Bad \subseteq Nat
    OBVIOUS
  <2> HIDE DEF Bad
  <2> QED BY <2>1, LeastOf
<1>2. n \in Nat /\ ~ Has(n)
  OBVIOUS
<1>3. CASE n = 0
  <2> DEFINE g == [i \in 0..0 |-> Zero]
  <2>1. SumsTo(list, m, 0, g)
    BY DEF SumsTo
  <2> HIDE DEF g
  <2> QED BY <1>2, <1>3, <2>1 DEF Has
<1>4. CASE n # 0
  <2>1. n - 1 \in Nat /\ ~ (n <= n - 1) /\ n \in 0..n
    BY <1>2, <1>4
  <2>2. Has(n - 1)
    BY <1>1, <2>1
  <2>3. PICK g : SumsTo(list, m, n - 1, g)
    BY <2>2 DEF Has
  <2> DEFINE h == [i \in 0..n |-> IF i = n THEN Plus(g[n - 1], m[list[n]]) ELSE g[i]]
  <2>4. \A i \in 0..n : i # n => i \in 0..n-1 /\ i - 1 # n
    BY <1>2
  <2>5. \A i \in 0..n : i # 0 => i - 1 \in 0..n /\ i - 1 # n
    BY <1>2
  <2>6. h[n] = Plus(g[n - 1], m[list[n]]) /\ \A i \in 0..n : i # n => h[i] = g[i]
    BY <2>1
  <2>7. \A i \in 0..n : h[i] = IF i = 0 THEN Zero ELSE Plus(h[i - 1], m[list[i]])
    <3> SUFFICES ASSUME NEW i \in 0..n
                 PROVE  h[i] = IF i = 0 THEN Zero ELSE Plus(h[i - 1], m[list[i]])
      OBVIOUS
    <3> HIDE DEF h
    <3>1. i # 0 => h[i - 1] = g[i - 1]
      BY <2>5, <2>6
    <3>2. CASE i = n
      BY <1>4, <2>6, <3>1, <3>2
    <3>3. CASE i # n
      <4>1. g[i] = IF i = 0 THEN Zero ELSE Plus(g[i - 1], m[list[i]])
        BY <2>3, <2>4, <3>3 DEF SumsTo
      <4> QED BY <2>6, <3>1, <3>3, <4>1
    <3> QED BY <3>2, <3>3
  <2>8. SumsTo(list, m, n, h)
    <3>1. h = [i \in 0..n |-> h[i]]
      OBVIOUS
    <3> HIDE DEF h
    <3> QED BY <2>7, <3>1 DEF SumsTo
  <2> HIDE DEF h
  <2> QED BY <1>2, <2>8 DEF Has
<1> QED BY <1>3, <1>4

\* The sum over a list is the last of them.
LEMMA SumOverIs ==
    ASSUME NEW S, NEW list \in Seq(S), NEW m
    PROVE  \E g : /\ g[0] = Zero
                  /\ \A i \in 1..Len(list) : g[i] = Plus(g[i - 1], m[list[i]])
                  /\ SumOver(list, m) = g[Len(list)]
<1> DEFINE top == CHOOSE g : SumsTo(list, m, Len(list), g)
<1>1. Len(list) \in Nat
  OBVIOUS
<1>2. SumsTo(list, m, Len(list), top)
  BY <1>1, SumsExist
<1>3. SumOver(list, m) = top[Len(list)]
  BY DEF SumOver, SumsTo
<1>4. \A i \in 0..Len(list) : top[i] = IF i = 0 THEN Zero ELSE Plus(top[i - 1], m[list[i]])
  <2> HIDE DEF top
  <2> QED BY <1>2 DEF SumsTo
<1> HIDE DEF top
<1>5. 0 \in 0..Len(list) /\ \A i \in 1..Len(list) : i \in 0..Len(list) /\ i # 0
  BY <1>1
<1> QED BY <1>3, <1>4, <1>5

\* Each device c of a list carries by m the mass of K[c], and these have nothing in common.
Shares(at, cs, list, C, K, m, k) ==
    /\ list \in Seq(C)
    /\ \A i, j \in 1..Len(list) : i < j => K[list[i]] \intersect K[list[j]] = {}
    /\ \A c \in C : /\ IsFiniteSet(K[c]) /\ Placeable(at, K[c])
                    /\ m[c] = Mass(at, cs, K[c], k)

\* What the first n of a list carry together.
Together(list, K, n) == UNION {K[list[i]] : i \in 1..n}

\* The sum over the list is then the mass of all of it.
LEMMA SumOverIsMass ==
    ASSUME NEW at, NEW cs, NEW list, NEW C, NEW K, NEW m, NEW k,
           Shares(at, cs, list, C, K, m, k)
    PROVE  /\ IsFiniteSet(Together(list, K, Len(list)))
           /\ Placeable(at, Together(list, K, Len(list)))
           /\ SumOver(list, m) = Mass(at, cs, Together(list, K, Len(list)), k)
<1> DEFINE n == Len(list)
           T(i) == Together(list, K, i)
<1>0. /\ n \in Nat /\ list \in Seq(C) /\ \A i \in 1..n : list[i] \in C
      /\ \A i, j \in 1..n : i < j => K[list[i]] \intersect K[list[j]] = {}
      /\ \A c \in C : IsFiniteSet(K[c]) /\ Placeable(at, K[c]) /\ m[c] = Mass(at, cs, K[c], k)
  BY DEF Shares
<1>1. PICK g : /\ g[0] = Zero /\ \A i \in 1..n : g[i] = Plus(g[i - 1], m[list[i]])
               /\ SumOver(list, m) = g[n]
  BY <1>0, SumOverIs
<1> HIDE DEF n
<1> DEFINE Fits(i) == IsFiniteSet(T(i)) /\ Placeable(at, T(i)) /\ g[i] = Mass(at, cs, T(i), k)
           Bad == {i \in 0..n : ~ Fits(i)}
<1>2. Bad = {}
  <2> SUFFICES ASSUME Bad # {} PROVE FALSE
    OBVIOUS
  <2>1. PICK i \in Bad : \A j \in Bad : i <= j
    <3>1. Bad \subseteq Nat
      BY <1>0
    <3> HIDE DEF Bad
    <3> QED BY <3>1, LeastOf
  <2>2. i \in 0..n /\ ~ Fits(i)
    OBVIOUS
  <2>3. CASE i = 0
    <3>1. T(i) = {}
      BY <2>3 DEF Together
    <3>2. IsFiniteSet({}) /\ Placeable(at, {}) /\ Mass(at, cs, {}, k) = Zero
      BY FS_EmptySet, MassOfFew DEF Placeable
    <3> HIDE DEF T
    <3> QED BY <1>1, <2>2, <2>3, <3>1, <3>2
  <2>4. CASE i # 0
    <3> DEFINE c == list[i]
               was == T(i - 1)
               now == T(i)
    <3>1. i - 1 \in 0..n /\ ~ (i <= i - 1) /\ i \in 1..n /\ i \in Nat
      BY <1>0, <2>2, <2>4
    <3>2. c \in C
      BY <1>0, <3>1
    <3>3. Fits(i - 1)
      <4> HIDE DEF Fits
      <4> QED BY <2>1, <3>1
    <3>4. now = was \union K[c] /\ was \intersect K[c] = {}
      <4>1. \A j \in 1..i : j \in 1..i-1 \/ j = i
        BY <3>1
      <4>2. \A j \in 1..i-1 : j \in 1..i /\ j \in 1..n /\ j < i
        BY <1>0, <3>1
      <4>3. i \in 1..i
        BY <3>1
      <4>4. now = was \union K[c]
        BY <4>1, <4>2, <4>3 DEF Together
      <4>5. \A j \in 1..i-1 : K[list[j]] \intersect K[c] = {}
        BY <1>0, <3>1, <4>2
      <4> QED BY <4>4, <4>5 DEF Together
    <3>5. IsFiniteSet(was) /\ Placeable(at, was) /\ g[i - 1] = Mass(at, cs, was, k)
      BY <3>3
    <3>6. IsFiniteSet(K[c]) /\ Placeable(at, K[c]) /\ m[c] = Mass(at, cs, K[c], k)
      <4> HIDE DEF c
      <4> QED BY <1>0, <3>2
    <3>7. g[i] = Plus(g[i - 1], m[c])
      BY <1>1, <3>1
    <3>8. Fits(i) <=> IsFiniteSet(now) /\ Placeable(at, now) /\ g[i] = Mass(at, cs, now, k)
      OBVIOUS
    <3> HIDE DEF c, was, now, Fits
    <3>9. IsFiniteSet(was \union K[c]) /\ Placeable(at, was \union K[c])
      BY <3>5, <3>6, FS_Union DEF Placeable
    <3>10. Mass(at, cs, was \union K[c], k) = Plus(Mass(at, cs, was, k), Mass(at, cs, K[c], k))
      BY <3>4, <3>5, <3>6, <3>9, MassUnion
    <3> QED BY <2>2, <3>4, <3>5, <3>6, <3>7, <3>8, <3>9, <3>10
  <2> QED BY <2>3, <2>4
<1>3. Fits(n)
  <2>1. n \in 0..n
    BY <1>0
  <2> HIDE DEF Fits
  <2> QED BY <1>2, <2>1
<1> QED BY <1>1, <1>3 DEF n

-----------------------------------------------------------------------------
(* Clusters *)

\* The least of some numbers.
LEMMA MinOfSome ==
    ASSUME NEW S, S \subseteq Nat, S # {}
    PROVE  Min(S) \in S /\ \A x \in S : Min(S) <= x
<1>1. \E k \in S : \A m \in S : k <= m
  BY LeastOf
<1> QED BY <1>1 DEF Min

\* Where the children of s that are finer than z begin: m of them are before.
Splits(s, z, m) ==
    /\ m \in 0..Len(kidlist[s])
    /\ \A i \in 1..Len(kidlist[s]) : tz[kidlist[s][i]] <= z <=> i <= m
    /\ Shown(s, z) = SubSeq(kidlist[s], 1, m)
    /\ Finer(s, z) = (m + 1)..Len(kidlist[s])
    /\ m < Len(kidlist[s]) => Min(Finer(s, z)) = m + 1

\* Lists have the coarser children first.
LEMMA ListSplits ==
    ASSUME AInv, NEW s \in live, NEW z \in Int
    PROVE  \E m : Splits(s, z, m)
<1> DEFINE list == kidlist[s]
           n == Len(list)
<1>1. /\ list \in Seq(Dev) /\ ListOf(list, Children(s), tz)
      /\ tz \in [Dev -> Int] /\ n \in Nat
  <2>1. s \in Dev /\ kidlist \in [Dev -> Seq(Dev)] /\ ListOf(list, Children(s), tz) /\ tz \in [Dev -> Int]
    BY Unpacked DEF Listed
  <2> QED BY <2>1
<1>2. /\ \A i \in 1..n : tz[list[i]] \in Int
      /\ \A i, j \in 1..n : i < j => tz[list[i]] <= tz[list[j]]
      /\ DOMAIN list = 1..n
  <2> HIDE DEF list
  <2>1. \A i \in 1..n : list[i] \in Dev
    BY <1>1
  <2> QED BY <1>1, <2>1 DEF ListOf
<1>3. Finer(s, z) = {i \in 1..n : tz[list[i]] > z}
  BY <1>2 DEF Finer
<1> DEFINE F == {i \in 1..n : tz[list[i]] > z}
<1>4. CASE F = {}
  <2>1. Shown(s, z) = SubSeq(list, 1, n)
    <3>1. Shown(s, z) = list
      BY <1>3, <1>4 DEF Shown
    <3>2. SubSeq(list, 1, n) = list
      <4> HIDE DEF list
      <4> QED BY <1>1
    <3> QED BY <3>1, <3>2
  <2>2. \A i \in 1..n : tz[list[i]] <= z
    <3> HIDE DEF list, n
    <3>1. \A i \in 1..n : ~ (tz[list[i]] > z)
      BY <1>4
    <3> QED BY <1>2, <3>1
  <2>3. Finer(s, z) = (n + 1)..n
    <3> HIDE DEF list, n
    <3>1. (n + 1)..n = {}
      BY <1>1
    <3> QED BY <1>3, <1>4, <3>1
  <2>4. n \in 0..n /\ ~ (n < n) /\ \A i \in 1..n : i <= n
    <3> HIDE DEF n
    <3> QED BY <1>1
  <2>5. Splits(s, z, n)
    BY <2>1, <2>2, <2>3, <2>4 DEF Splits
  <2> QED BY <2>5
<1>5. CASE F # {}
  <2> DEFINE h == Min(F)
             m == h - 1
  <2>1. h \in F /\ \A i \in F : h <= i
    <3>1. F \subseteq Nat
      OBVIOUS
    <3> HIDE DEF F
    <3> QED BY <1>5, <3>1, MinOfSome
  <2>2. h \in 1..n /\ tz[list[h]] > z /\ h \in Nat
    BY <2>1
  <2>3. Shown(s, z) = SubSeq(list, 1, m)
    BY <1>3, <1>5 DEF Shown
  <2>4. Min(Finer(s, z)) = h
    BY <1>3
  <2> HIDE DEF list, n, h
  <2>5. \A i \in 1..n : i < h => i \notin F
    BY <2>1, <2>2
  <2>6. \A i \in 1..n : i < h => tz[list[i]] <= z
    BY <1>2, <2>5
  <2>7. \A i \in 1..n : ~ (i < h) => tz[list[i]] > z
    <3> SUFFICES ASSUME NEW i \in 1..n, ~ (i < h) PROVE tz[list[i]] > z
      OBVIOUS
    <3>1. i = h \/ h < i
      BY <2>2
    <3>2. h < i => tz[list[h]] <= tz[list[i]]
      BY <1>2, <2>2
    <3>3. tz[list[h]] \in Int /\ tz[list[i]] \in Int
      BY <1>2, <2>2
    <3> QED BY <2>2, <3>1, <3>2, <3>3
  <2>8. m \in 0..n /\ m + 1 = h /\ \A i \in 1..n : i <= m <=> i < h
    BY <1>1, <2>2
  <2>9. \A i \in 1..n : tz[list[i]] <= z <=> i <= m
    <3> SUFFICES ASSUME NEW i \in 1..n PROVE tz[list[i]] <= z <=> i <= m
      OBVIOUS
    <3>1. tz[list[i]] \in Int
      BY <1>2
    <3> QED BY <2>6, <2>7, <2>8, <3>1
  <2>10. F = (m + 1)..n
    <3>1. \A i \in 1..n : i \in F <=> i >= h
      BY <2>2, <2>5, <2>7
    <3>2. \A i \in (m + 1)..n : i \in 1..n /\ i >= h
      BY <1>1, <2>2, <2>8
    <3>3. \A i \in 1..n : i >= h => i \in (m + 1)..n
      BY <1>1, <2>2, <2>8
    <3>4. F \subseteq 1..n
      OBVIOUS
    <3> HIDE DEF F, m
    <3> QED BY <3>1, <3>2, <3>3, <3>4
  <2>11. Splits(s, z, m)
    <3> HIDE DEF F, m
    <3> QED BY <1>3, <2>3, <2>4, <2>8, <2>9, <2>10 DEF Splits, list, n, F
  <2> QED BY <2>11
<1> QED BY <1>4, <1>5

\* The children of s that are centers of their own at level z.
Coarse(s, z) == {c \in Children(s) : tz[c] <= z}

\* They are what the loop over the list sees before it stops.
LEMMA ShownIs ==
    ASSUME AInv, NEW s \in live, NEW z \in Int
    PROVE  ListOf(Shown(s, z), Coarse(s, z), tz)
<1> DEFINE list == kidlist[s]
           n == Len(list)
           C == Children(s)
<1>1. PICK m : Splits(s, z, m)
  BY ListSplits
<1>2. /\ m \in 0..n /\ Shown(s, z) = SubSeq(list, 1, m)
      /\ \A i \in 1..n : tz[list[i]] <= z <=> i <= m
  BY <1>1 DEF Splits
<1>3. ListOf(list, C, tz)
  BY Unpacked DEF Listed
<1>4. \A c : c \in Coarse(s, z) <=> c \in C /\ tz[c] <= z
  BY DEF Coarse
<1> HIDE DEF list, C
<1>5. list \in Seq(C) /\ n \in Nat /\ \A i \in 1..n : list[i] \in C
  BY <1>3 DEF ListOf
<1> HIDE DEF n
<1>6. \A i \in 1..m : i \in 1..n /\ i <= m
  BY <1>2, <1>5
<1> DEFINE w == SubSeq(list, 1, m)
<1>7. w \in Seq(C) /\ Len(w) = m /\ \A i \in 1..m : w[i] = list[i]
  <2>1. m \in Nat /\ m <= Len(list)
    BY <1>2, <1>5 DEF n
  <2> QED BY <1>5, <2>1
<1> HIDE DEF w
<1>8. \A i \in 1..m : w[i] \in Coarse(s, z)
  BY <1>2, <1>4, <1>5, <1>6, <1>7
<1>9. w \in Seq(Coarse(s, z))
  <2>1. w = [i \in 1..m |-> w[i]] /\ m \in Nat
    BY <1>2, <1>5, <1>7
  <2> QED BY <1>8, <2>1
<1>10. ASSUME NEW c \in Coarse(s, z) PROVE \E i \in 1..m : w[i] = c
  <2>1. PICK i \in 1..n : list[i] = c
    BY <1>3, <1>4 DEF ListOf, n
  <2>2. i <= m
    BY <1>2, <1>4, <2>1
  <2>3. i \in 1..m
    BY <1>2, <1>5, <2>1, <2>2
  <2> QED BY <1>7, <2>1, <2>3
<1>11. ASSUME NEW i \in 1..m, NEW j \in 1..m, i < j PROVE w[i] # w[j] /\ tz[w[i]] <= tz[w[j]]
  BY <1>3, <1>6, <1>7, <1>11 DEF ListOf, n
<1>12. ListOf(w, Coarse(s, z), tz)
  BY <1>7, <1>9, <1>10, <1>11 DEF ListOf
<1> QED BY <1>2, <1>12 DEF w

\* What is in a cluster is under its center and under none of those children.
LEMMA MembersAre ==
    ASSUME AInv, job = Idle, NEW z \in Level, NEW s \in live, tz[s] <= z
    PROVE  /\ Members(s, z, All) = {d \in live : Rep(d, z) = s}
           /\ Members(s, z, All) = {d \in Subtree(par, live, s) : \A b \in Coarse(s, z) : d \notin Subtree(par, live, b)}
           /\ s \in Members(s, z, All)
<1>1. Members(s, z, All) = {d \in live : Rep(d, z) = s}
  BY DEF Members, InCell
<1>2. \A d \in live : Rep(d, z) = s <=> /\ s \in Chain(par, d)
                                        /\ \A b \in Children(s) : tz[b] <= z => b \notin Chain(par, d)
  BY RepWhen
<1>3. ASSUME NEW b \in Children(s), b \in Chain(par, s) PROVE FALSE
  <2>1. b \in live /\ par[b] = s /\ Forest(par, live, tz) /\ tz \in [Dev -> Int] /\ live \subseteq Dev
    BY Unpacked DEF Children
  <2>2. tz[s] < tz[b] /\ s # NONE /\ tz[s] \in Int /\ tz[b] \in Int
    BY <2>1 DEF Forest
  <2>3. b # s => tz[b] < tz[s]
    BY <1>3, <2>1, ChainFalls
  <2> QED BY <2>2, <2>3
<1>4. s \in Chain(par, s)
  BY Unpacked, ChainFalls
<1> QED BY <1>1, <1>2, <1>3, <1>4 DEF Coarse, Subtree

\* What is under the devices of C.
Below(C) == UNION {Subtree(par, live, c) : c \in C}

\* What some children of s carry, added up in list order, is the mass of all that is
\* under them: no device is under two of them.
LEMMA ListWeighs ==
    ASSUME AInv, job = Idle, NEW s \in live, NEW C, C \subseteq Children(s),
           NEW list, ListOf(list, C, tz), NEW k \in Key,
           NEW m, \A c \in C : m[c] = Mass(pos, cells, Subtree(par, live, c), k)
    PROVE  /\ Below(C) \subseteq live /\ IsFiniteSet(Below(C)) /\ Placeable(pos, Below(C))
           /\ SumOver(list, m) = Mass(pos, cells, Below(C), k)
<1> DEFINE K == [c \in C |-> Subtree(par, live, c)]
<1>0. Forest(par, live, tz) /\ IsFiniteSet(live) /\ Placeable(pos, live)
  BY Unpacked
<1>1. \A S : S \subseteq live => IsFiniteSet(S) /\ Placeable(pos, S)
  BY <1>0, FS_Subset DEF Placeable
<1>2. \A c \in C : par[c] = s /\ K[c] = Subtree(par, live, c)
  BY DEF Children
<1>3. \A x : Subtree(par, live, x) \subseteq live
  BY DEF Subtree
<1>4. list \in Seq(C) /\ \A i \in 1..Len(list) : list[i] \in C
  BY DEF ListOf
<1>5. ASSUME NEW i \in 1..Len(list), NEW j \in 1..Len(list), i < j
      PROVE  K[list[i]] \intersect K[list[j]] = {}
  <2>1. list[i] # list[j] /\ list[i] \in C /\ list[j] \in C
    BY <1>4, <1>5 DEF ListOf
  <2>2. \A d \in live : ~ (list[i] \in Chain(par, d) /\ list[j] \in Chain(par, d))
    <3>1. par[list[i]] = s /\ par[list[j]] = s
      BY <1>2, <2>1
    <3>2. \A d \in live : \A a, b \in Chain(par, d) : par[a] = s /\ par[b] = s => a = b
      BY <1>0, SiblingsApart
    <3> QED BY <2>1, <3>1, <3>2
  <2> HIDE DEF K
  <2> QED BY <1>2, <2>1, <2>2 DEF Subtree
<1>6. Shares(pos, cells, list, C, K, m, k)
  <2>1. ASSUME NEW c \in C
        PROVE  IsFiniteSet(K[c]) /\ Placeable(pos, K[c]) /\ m[c] = Mass(pos, cells, K[c], k)
    BY <1>1, <1>2, <1>3
  <2> HIDE DEF K
  <2> QED BY <1>4, <1>5, <2>1 DEF Shares
<1>7. Together(list, K, Len(list)) = Below(C)
  <2>1. \A c \in C : \E i \in 1..Len(list) : list[i] = c
    BY DEF ListOf
  <2> HIDE DEF K
  <2> QED BY <1>2, <1>4, <2>1 DEF Together, Below
<1>8. Below(C) \subseteq live
  BY <1>3 DEF Below
<1> HIDE DEF K
<1> QED BY <1>6, <1>7, <1>8, SumOverIsMass

\* What cluster_at counts is what the center represents.
LEMMA ClusterWeighs ==
    ASSUME AInv, job = Idle, NEW z \in Level, NEW s \in live, tz[s] <= z, NEW k \in Key
    PROVE  ClusterAt(s, z, k) = Mass(pos, cells, Members(s, z, All), k)
<1> DEFINE m == [b \in Dev |-> mass[b][k]]
           C == Coarse(s, z)
           list == Shown(s, z)
           T == Below(C)
           M == Members(s, z, All)
<1>0. /\ Forest(par, live, tz) /\ IsFiniteSet(live) /\ Placeable(pos, live) /\ live \subseteq Dev
      /\ z \in Int
      /\ \A x \in live : mass[x][k] = Mass(pos, cells, Subtree(par, live, x), k)
  <2>1. Placed = live
    BY Unpacked, AllPlaced
  <2> QED BY <2>1, Unpacked, ZoomAssumption DEF Level, Counted, Exact
<1>1. ListOf(list, C, tz) /\ C \subseteq Children(s)
  BY <1>0, ShownIs DEF Coarse
<1>2. \A S : S \subseteq live => IsFiniteSet(S) /\ Placeable(pos, S)
  BY <1>0, FS_Subset DEF Placeable
<1>3. \A c \in C : c \in live /\ par[c] = s
  BY <1>1 DEF Children
<1>4. \A c \in C : m[c] = Mass(pos, cells, Subtree(par, live, c), k)
  <2>1. \A c \in C : m[c] = mass[c][k]
    BY <1>0, <1>3
  <2> HIDE DEF m, C
  <2> QED BY <1>0, <1>3, <2>1
<1>5. T \subseteq live /\ IsFiniteSet(T) /\ Placeable(pos, T) /\ SumOver(list, m) = Mass(pos, cells, T, k)
  <2> HIDE DEF m, C, list
  <2> QED BY <1>1, <1>4, ListWeighs
<1>6. M = {d \in Subtree(par, live, s) : \A b \in C : d \notin Subtree(par, live, b)}
  BY MembersAre
<1>7. \A c \in C : Subtree(par, live, c) \subseteq Subtree(par, live, s)
  <2> SUFFICES ASSUME NEW c \in C, NEW d \in live, c \in Chain(par, d) PROVE s \in Chain(par, d)
    BY DEF Subtree
  <2>1. c \in live /\ par[c] = s
    BY <1>3
  <2>2. s \in Chain(par, c)
    BY <1>0, <2>1, ChainStep, ChainFalls
  <2> QED BY <1>0, <2>2, ChainAbove
<1>8. Subtree(par, live, s) = M \union T /\ M \intersect T = {} /\ Subtree(par, live, s) \subseteq live
  <2>1. Subtree(par, live, s) \subseteq live
    BY DEF Subtree
  <2> HIDE DEF M, C
  <2> QED BY <1>6, <1>7, <2>1 DEF Below
<1> HIDE DEF T, M, C, list, m
<1>9. /\ mass[s][k] = Plus(Mass(pos, cells, M, k), Mass(pos, cells, T, k))
      /\ Mass(pos, cells, M, k) \in Amount /\ Mass(pos, cells, T, k) \in Amount
  <2>1. mass[s][k] = Mass(pos, cells, M \union T, k)
    BY <1>0, <1>8
  <2>2. IsFiniteSet(M) /\ Placeable(pos, M) /\ Placeable(pos, M \union T)
    BY <1>2, <1>8
  <2> QED BY <1>5, <1>8, <2>1, <2>2, MassUnion, MassType
<1>10. ClusterAt(s, z, k) = Plus(mass[s][k], Times(-1, Mass(pos, cells, T, k)))
  BY <1>5 DEF ClusterAt, m, list
<1> QED BY <1>9, <1>10, PlusLaws DEF M

\* Between operations, at every zoom, with a filter or without, what a cluster weighs is
\* what its devices weigh: the clusters of a level are a partition of the devices.
THEOREM ClustersAreExact == AggSpec => []ClusterIsItsMembers
<1>1. AInv => ClusterIsItsMembers
  <2> SUFFICES ASSUME AInv, job = Idle, NEW z \in Level, NEW s \in listed[z], NEW k \in Key
               PROVE  ClusterAt(s, z, k) = MassOf(Members(s, z, All), k)
    BY DEF ClusterIsItsMembers
  <2>1. s \in live /\ tz[s] <= z
    BY DEF AInv, IInv, GridListsCenters, Placed
  <2> QED BY <2>1, ClusterWeighs, MassOfIs
<1> QED BY <1>1, SpecAInv, PTL

\* A cluster splits at the level of the first of its children that are inside it.
LEMMA ExpansionIs ==
    ASSUME AInv, NEW s \in live, NEW z \in Level
    PROVE  /\ ExpansionZoom(s, z) \in Int /\ z < ExpansionZoom(s, z)
           /\ \A c \in Children(s) : tz[c] <= z \/ ExpansionZoom(s, z) <= tz[c]
           /\ ExpansionZoom(s, z) <= MaxZoom =>
                 \E b \in Children(s) : tz[b] = ExpansionZoom(s, z)
<1> DEFINE list == kidlist[s]
           n == Len(list)
           C == Children(s)
           nz == ExpansionZoom(s, z)
<1>1. PICK m : Splits(s, z, m)
  BY ListSplits, ZoomAssumption DEF Level
<1>2. /\ m \in 0..n /\ \A i \in 1..n : tz[list[i]] <= z <=> i <= m
      /\ Finer(s, z) = (m + 1)..n /\ (m < n => Min(Finer(s, z)) = m + 1)
  BY <1>1 DEF Splits
<1>3. nz = IF Finer(s, z) = {} THEN MaxZoom + 1 ELSE tz[list[Min(Finer(s, z))]]
  BY DEF ExpansionZoom
<1>4. /\ ListOf(list, C, tz) /\ z \in Int /\ MaxZoom \in Int /\ z <= MaxZoom
      /\ \A c \in C : c \in live /\ tz[c] \in Int
  <2>1. ListOf(list, C, tz) /\ tz \in [Dev -> Int] /\ live \subseteq Dev
    BY Unpacked DEF Listed
  <2>2. \A c \in C : c \in live /\ tz[c] \in Int
    BY <2>1 DEF Children
  <2> QED BY <2>1, <2>2, ZoomAssumption DEF Level
<1> HIDE DEF list, C, nz
<1>5. /\ n \in Nat /\ \A i \in 1..n : list[i] \in C
      /\ \A c \in C : \E i \in 1..n : list[i] = c
      /\ \A i, j \in 1..n : i < j => tz[list[i]] <= tz[list[j]]
  <2>1. list \in Seq(C)
    BY <1>4 DEF ListOf
  <2> QED BY <1>4, <2>1 DEF ListOf
<1> HIDE DEF n
<1>6. CASE ~ (m < n)
  <2>1. Finer(s, z) = {} /\ \A i \in 1..n : i <= m
    <3>1. (m + 1)..n = {}
      BY <1>2, <1>5, <1>6
    <3> QED BY <1>2, <1>5, <1>6, <3>1
  <2>2. nz = MaxZoom + 1
    BY <1>3, <2>1
  <2>3. \A c \in C : tz[c] <= z
    BY <1>2, <1>5, <2>1
  <2>4. z < nz /\ nz \in Int /\ ~ (nz <= MaxZoom)
    BY <1>4, <2>2
  <2> QED BY <2>3, <2>4 DEF nz, C
<1>7. CASE m < n
  <2>1. m + 1 \in 1..n /\ m \in Nat
    BY <1>2, <1>5, <1>7
  <2>2. Finer(s, z) # {} /\ Min(Finer(s, z)) = m + 1
    <3>1. m + 1 \in (m + 1)..n
      BY <2>1
    <3> QED BY <1>2, <1>7, <3>1
  <2>3. nz = tz[list[m + 1]] /\ list[m + 1] \in C /\ nz \in Int
    BY <1>3, <1>4, <1>5, <2>1, <2>2
  <2>4. z < nz
    <3>1. ~ (m + 1 <= m)
      BY <2>1
    <3>2. ~ (tz[list[m + 1]] <= z)
      BY <1>2, <2>1, <3>1
    <3> QED BY <1>4, <2>3, <3>2
  <2>5. ASSUME NEW c \in C, ~ (tz[c] <= z) PROVE nz <= tz[c]
    <3>1. PICK i \in 1..n : list[i] = c
      BY <1>5
    <3>2. ~ (i <= m)
      BY <1>2, <2>5, <3>1
    <3>3. i = m + 1 \/ m + 1 < i
      BY <1>5, <2>1, <3>1, <3>2
    <3>4. m + 1 < i => tz[list[m + 1]] <= tz[list[i]]
      BY <1>5, <2>1
    <3> QED BY <1>4, <2>3, <3>1, <3>3, <3>4
  <2> QED BY <2>3, <2>4, <2>5 DEF nz, C
<1> QED BY <1>6, <1>7

\* As long as no child of s becomes a center, its cluster stays what it is.
LEMMA MembersStay ==
    ASSUME AInv, job = Idle, NEW s \in live, NEW z \in Level, tz[s] <= z,
           NEW y \in Level, z <= y, \A c \in Children(s) : tz[c] <= z \/ y < tz[c]
    PROVE  Members(s, y, All) = Members(s, z, All)
<1>1. tz[s] \in Int /\ y \in Int /\ z \in Int /\ \A c \in Children(s) : tz[c] \in Int
  BY Unpacked, ZoomAssumption DEF Level, Children
<1>2. tz[s] <= y
  BY <1>1
<1>3. Coarse(s, y) = Coarse(s, z)
  BY <1>1 DEF Coarse
<1>4. /\ Members(s, z, All) = {d \in Subtree(par, live, s) : \A b \in Coarse(s, z) : d \notin Subtree(par, live, b)}
      /\ Members(s, y, All) = {d \in Subtree(par, live, s) : \A b \in Coarse(s, y) : d \notin Subtree(par, live, b)}
  BY <1>2, MembersAre
<1> QED BY <1>3, <1>4

\* A device under a child that is no center of the level is in the cluster of s.
LEMMA InsideOf ==
    ASSUME AInv, job = Idle, NEW s \in live, NEW z \in Level, tz[s] <= z,
           NEW b \in Children(s), ~ (tz[b] <= z), NEW d \in live, b \in Chain(par, d)
    PROVE  Rep(d, z) = s
<1>0. Forest(par, live, tz) /\ b \in live /\ par[b] = s
  BY Unpacked DEF Children
<1>1. s \in Chain(par, d)
  <2>1. s \in Chain(par, b)
    BY <1>0, ChainStep, ChainFalls
  <2> QED BY <1>0, <2>1, ChainAbove
<1>2. \A c \in Children(s) : tz[c] <= z => c \notin Chain(par, d)
  <2> SUFFICES ASSUME NEW c \in Children(s), tz[c] <= z, c \in Chain(par, d) PROVE FALSE
    OBVIOUS
  <2>1. par[c] = s
    BY DEF Children
  <2>2. c = b
    BY <1>0, <2>1, SiblingsApart
  <2> QED BY <2>2
<1> QED BY <1>1, <1>2, RepWhen

\* A device of the cluster is s itself, or under a child that is no center of the level.
LEMMA UnderChild ==
    ASSUME AInv, job = Idle, NEW s \in live, NEW z \in Level, tz[s] <= z,
           NEW d \in live, Rep(d, z) = s, d # s
    PROVE  \E b \in Children(s) : ~ (tz[b] <= z) /\ b \in Chain(par, d)
<1>0. Forest(par, live, tz) /\ s \in Chain(par, d)
  BY Unpacked, RepWhen
<1>1. PICK b \in Chain(par, d) : b \in live /\ par[b] = s
  BY <1>0, ChainBranch
<1>2. b \in Children(s)
  BY <1>1 DEF Children
<1> QED BY <1>1, <1>2, RepWhen

\* Where it splits, its devices go to s and to the children that become centers there.
LEMMA MembersSplit ==
    ASSUME AInv, job = Idle, NEW s \in live, NEW z \in Level, tz[s] <= z,
           NEW nz \in Level, z < nz, \A c \in Children(s) : tz[c] <= z \/ nz <= tz[c],
           NEW one \in Children(s), tz[one] = nz
    PROVE  /\ Members(s, nz, All) # Members(s, z, All)
           /\ UNION {Members(b, nz, All) : b \in {s} \union {c \in Coarse(s, nz) : tz[c] > z}} = Members(s, z, All)
<1> DEFINE New == {c \in Coarse(s, nz) : tz[c] > z}
<1>0. /\ Forest(par, live, tz) /\ tz \in [Dev -> Int] /\ live \subseteq Dev
      /\ nz \in Int /\ z \in Int /\ s # NONE
      /\ \A b \in live : b \in Chain(par, b)
  <2>1. Forest(par, live, tz) /\ tz \in [Dev -> Int] /\ live \subseteq Dev
    BY Unpacked
  <2> QED BY <2>1, ChainFalls, ZoomAssumption DEF Level, Forest
<1>1. tz[s] <= nz /\ tz[s] \in Int
  BY <1>0
<1>2. \A c \in Children(s) : c \in live /\ par[c] = s /\ tz[c] \in Int /\ s \in Chain(par, c)
  <2> SUFFICES ASSUME NEW c \in Children(s) PROVE c \in live /\ par[c] = s /\ tz[c] \in Int /\ s \in Chain(par, c)
    OBVIOUS
  <2>1. c \in live /\ par[c] = s
    BY DEF Children
  <2> QED BY <1>0, <2>1, ChainStep
<1>3. \A c \in New : c \in Children(s) /\ tz[c] = nz
  BY <1>0, <1>2 DEF Coarse
<1>4. \A c \in Children(s) : tz[c] <= nz => tz[c] <= z \/ c \in New
  BY <1>0, <1>2 DEF Coarse
<1> HIDE DEF New
\* Who represents a device at either level.
<1>5. \A d \in live : Rep(d, z) = s <=> /\ s \in Chain(par, d)
                                        /\ \A b \in Children(s) : tz[b] <= z => b \notin Chain(par, d)
  BY RepWhen
<1>6. \A d \in live : Rep(d, nz) = s <=> /\ s \in Chain(par, d)
                                         /\ \A b \in Children(s) : tz[b] <= nz => b \notin Chain(par, d)
  BY <1>1, RepWhen
<1>7. ASSUME NEW b \in New, NEW d \in live PROVE Rep(d, nz) = b <=> b \in Chain(par, d)
  <2>1. b \in live /\ tz[b] = nz
    BY <1>2, <1>3, <1>7
  <2>2. \A c \in Children(b) : ~ (tz[c] <= nz)
    <3> SUFFICES ASSUME NEW c \in Children(b), tz[c] <= nz PROVE FALSE
      OBVIOUS
    <3>1. c \in live /\ par[c] = b /\ b # NONE
      BY <1>0, <2>1 DEF Children, Forest
    <3>2. tz[b] < tz[c] /\ tz[c] \in Int
      BY <1>0, <3>1 DEF Forest
    <3> QED BY <1>0, <2>1, <3>2
  <2>3. tz[b] <= nz
    BY <1>0, <2>1
  <2> QED BY <2>1, <2>2, <2>3, RepWhen
<1>8. /\ Members(s, z, All) = {d \in live : Rep(d, z) = s}
      /\ Members(s, nz, All) = {d \in live : Rep(d, nz) = s}
      /\ \A b \in New : Members(b, nz, All) = {d \in live : Rep(d, nz) = b}
  BY DEF Members, InCell
<1>10. \A b \in New : ~ (tz[b] <= z)
  BY <1>0, <1>3
\* A device of the cluster is in one of its parts.
<1>11. ASSUME NEW d \in live, Rep(d, z) = s PROVE Rep(d, nz) = s \/ \E b \in New : Rep(d, nz) = b
  <2>1. CASE \E b \in New : b \in Chain(par, d)
    BY <1>7, <2>1
  <2>2. CASE \A b \in New : b \notin Chain(par, d)
    <3>1. \A b \in Children(s) : tz[b] <= nz => b \notin Chain(par, d)
      BY <1>4, <1>5, <1>11, <2>2
    <3> QED BY <1>5, <1>6, <1>11, <3>1
  <2> QED BY <2>1, <2>2
\* A device of a part is in the cluster.
<1>12. ASSUME NEW d \in live, Rep(d, nz) = s PROVE Rep(d, z) = s
  <2>1. \A b \in Children(s) : tz[b] <= z => tz[b] <= nz
    BY <1>0, <1>2
  <2> QED BY <1>5, <1>6, <1>12, <2>1
<1>13. ASSUME NEW d \in live, NEW b \in New, Rep(d, nz) = b PROVE Rep(d, z) = s
  BY <1>3, <1>7, <1>10, <1>13, InsideOf
<1>14. one \in New /\ one \in live
  <2>1. ~ (tz[one] <= z) /\ tz[one] <= nz
    BY <1>0
  <2> QED BY <1>2, <1>4, <2>1
<1>15. one \in Members(s, z, All) /\ one \notin Members(s, nz, All)
  <2>1. Rep(one, nz) = one
    BY <1>0, <1>7, <1>14
  <2>2. one # s
    <3>1. tz[s] # tz[one]
      BY <1>0, <1>1
    <3> QED BY <3>1
  <2> QED BY <1>8, <1>13, <1>14, <2>1, <2>2
<1>16. UNION {Members(b, nz, All) : b \in {s} \union New} = Members(s, z, All)
  BY <1>8, <1>11, <1>12, <1>13
<1> QED BY <1>15, <1>16 DEF New

\* Between operations, a cluster stays what it is up to its expansion zoom, and splits there
\* into sub-clusters that hold exactly its devices.
THEOREM DrillDownIsExact == AggSpec => []DrillDownPartitions
<1>1. AInv => DrillDownPartitions
  <2> DEFINE nz(s, z) == ExpansionZoom(s, z)
             inside(s, z) == Members(s, z, All)
  <2> SUFFICES ASSUME AInv, job = Idle, NEW z \in Level, NEW s \in listed[z]
               PROVE  IF nz(s, z) > MaxZoom
                      THEN \A y \in z..MaxZoom : Members(s, y, All) = inside(s, z)
                      ELSE /\ \A y \in z..(nz(s, z) - 1) : Members(s, y, All) = inside(s, z)
                           /\ Members(s, nz(s, z), All) # inside(s, z)
                           /\ UNION {Members(b, nz(s, z), All) : b \in SubClusters(s, z)} = inside(s, z)
    BY DEF DrillDownPartitions
  <2> DEFINE x == ExpansionZoom(s, z)
  <2>1. s \in live /\ tz[s] <= z
    BY DEF AInv, IInv, GridListsCenters, Placed
  <2>2. /\ x \in Int /\ z < x /\ \A c \in Children(s) : tz[c] <= z \/ x <= tz[c]
        /\ x <= MaxZoom => \E b \in Children(s) : tz[b] = x
    BY <2>1, ExpansionIs
  <2>3. SubClusters(s, z) = IF x > MaxZoom THEN {s} ELSE {s} \union {b \in ToSet(Shown(s, x)) : tz[b] > z}
    BY DEF SubClusters
  <2> HIDE DEF x
  <2>4. z \in 0..MaxZoom /\ z \in Int /\ MaxZoom \in Nat /\ \A c \in Children(s) : tz[c] \in Int
    BY Unpacked, ZoomAssumption DEF Level, Children
  <2>5. ASSUME NEW y \in Level, z <= y, y < x PROVE Members(s, y, All) = Members(s, z, All)
    <3>1. \A c \in Children(s) : tz[c] <= z \/ y < tz[c]
      BY <2>2, <2>4, <2>5, ZoomAssumption DEF Level
    <3> QED BY <2>1, <2>5, <3>1, MembersStay
  <2>6. CASE x > MaxZoom
    <3>1. \A y \in z..MaxZoom : y \in Level /\ z <= y /\ y < x
      BY <2>2, <2>4, <2>6 DEF Level
    <3> QED BY <2>5, <2>6, <3>1 DEF x
  <2>7. CASE ~ (x > MaxZoom)
    <3>1. x \in Level /\ x <= MaxZoom
      BY <2>2, <2>4, <2>7 DEF Level
    <3>2. \A y \in z..(x - 1) : y \in Level /\ z <= y /\ y < x
      BY <2>2, <2>4, <3>1 DEF Level
    <3>3. PICK one \in Children(s) : tz[one] = x
      BY <2>2, <3>1
    <3>4. ToSet(Shown(s, x)) = Coarse(s, x)
      <4>1. ListOf(Shown(s, x), Coarse(s, x), tz)
        BY <2>1, <2>2, ShownIs
      <4>2. Shown(s, x) \in Seq(Coarse(s, x)) /\ DOMAIN Shown(s, x) = 1..Len(Shown(s, x))
        BY <4>1 DEF ListOf
      <4> QED BY <4>1, <4>2 DEF ListOf, ToSet
    <3>5. /\ Members(s, x, All) # Members(s, z, All)
          /\ UNION {Members(b, x, All) : b \in {s} \union {c \in Coarse(s, x) : tz[c] > z}} = Members(s, z, All)
      BY <2>1, <2>2, <3>1, <3>3, MembersSplit
    <3>6. SubClusters(s, z) = {s} \union {c \in Coarse(s, x) : tz[c] > z}
      BY <2>3, <2>7, <3>4
    <3> QED BY <2>5, <2>7, <3>2, <3>5, <3>6 DEF x
  <2> QED BY <2>6, <2>7
<1> QED BY <1>1, SpecAInv, PTL

-----------------------------------------------------------------------------
(* The one device of a filtered cluster *)

\* A device counts some of k exactly if there is one of k under it.
LEMMA CountIs ==
    ASSUME AInv, job = Idle, NEW x \in live, NEW k \in Key
    PROVE  mass[x][k].n > 0 <=> \E d \in live : x \in Chain(par, d) /\ InCell(d, k)
<1> DEFINE S == Marked(cells, Subtree(par, live, x), k)
<1>1. mass[x][k] = Mass(pos, cells, Subtree(par, live, x), k) /\ IsFiniteSet(live)
  <2>1. Placed = live
    BY Unpacked, AllPlaced
  <2> QED BY <2>1, Unpacked DEF Counted, Exact
<1>2. S \subseteq live
  BY DEF Marked, Subtree
<1>3. mass[x][k].n = Cardinality(S)
  BY <1>1 DEF Mass
<1>4. S # {} <=> \E d \in live : x \in Chain(par, d) /\ InCell(d, k)
  BY DEF Marked, Subtree, InCell
<1> HIDE DEF S
<1>5. IsFiniteSet(S) /\ Cardinality(S) \in Nat /\ (Cardinality(S) = 0 <=> S = {})
  BY <1>1, <1>2, FS_Subset, FS_CardinalityType, FS_EmptySet
<1> QED BY <1>3, <1>4, <1>5

\* What the search enters is a child finer than z with some of k under it.
Enterable(e, z, k, c) == c \in Children(e) /\ tz[c] > z /\ mass[c][k].n > 0

LEMMA HoldingIs ==
    ASSUME AInv, job = Idle, NEW e \in live, NEW z \in Int, NEW k \in Key
    PROVE  /\ Holding(e, z, k) # {} => Enterable(e, z, k, kidlist[e][Min(Holding(e, z, k))])
           /\ \A b \in Children(e) : Enterable(e, z, k, b) => Holding(e, z, k) # {}
<1> DEFINE list == kidlist[e]
           H == Holding(e, z, k)
<1>1. ListOf(list, Children(e), tz)
  BY Unpacked DEF Listed
<1>2. list \in Seq(Children(e)) /\ DOMAIN list = 1..Len(list) /\ \A i \in 1..Len(list) : list[i] \in Children(e)
  BY <1>1 DEF ListOf
<1>3. H = {i \in 1..Len(list) : tz[list[i]] > z /\ mass[list[i]][k].n > 0}
  BY <1>2 DEF Holding, Finer
<1> HIDE DEF list, H
<1>4. ASSUME H # {} PROVE Enterable(e, z, k, list[Min(H)])
  <2>1. H \subseteq Nat
    BY <1>3
  <2>2. Min(H) \in H
    BY <1>4, <2>1, MinOfSome
  <2> QED BY <1>2, <1>3, <2>2 DEF Enterable
<1>5. ASSUME NEW b \in Children(e), Enterable(e, z, k, b) PROVE H # {}
  <2>1. PICK i \in 1..Len(list) : list[i] = b
    BY <1>1 DEF ListOf
  <2> QED BY <1>3, <1>5, <2>1 DEF Enterable
<1> QED BY <1>4, <1>5 DEF list, H

\* One call of find_single_in: the device itself, or the child it goes on with.
Entered(e, k) ==
    LET holding == Holding(e, -1, k)
    IN  IF InCell(e, k) \/ holding = {} THEN e ELSE kidlist[e][Min(holding)]

\* The first n calls from s.
Enters(s, k, n, g) == g = [i \in 0..n |-> IF i = 0 THEN s ELSE Entered(g[i - 1], k)]

LEMMA EntersExist == \A s, k : \A n \in Nat : \E g : Enters(s, k, n, g)
<1> SUFFICES ASSUME NEW s, NEW k PROVE \A n \in Nat : \E g : Enters(s, k, n, g)
  OBVIOUS
<1> DEFINE Has(n) == \E g : Enters(s, k, n, g)
           Bad == {n \in Nat : ~ Has(n)}
<1> HIDE DEF Has
<1> SUFFICES ASSUME Bad # {} PROVE FALSE
  BY DEF Has
<1>1. PICK n \in Bad : \A m \in Bad : n <= m
  <2>1. Bad \subseteq Nat
    OBVIOUS
  <2> HIDE DEF Bad
  <2> QED BY <2>1, LeastOf
<1>2. n \in Nat /\ ~ Has(n)
  OBVIOUS
<1>3. CASE n = 0
  <2> DEFINE g == [i \in 0..0 |-> s]
  <2>1. Enters(s, k, 0, g)
    BY DEF Enters
  <2> HIDE DEF g
  <2> QED BY <1>2, <1>3, <2>1 DEF Has
<1>4. CASE n # 0
  <2>1. n - 1 \in Nat /\ ~ (n <= n - 1) /\ n \in 0..n
    BY <1>2, <1>4
  <2>2. Has(n - 1)
    BY <1>1, <2>1
  <2>3. PICK g : Enters(s, k, n - 1, g)
    BY <2>2 DEF Has
  <2> DEFINE h == [i \in 0..n |-> IF i = n THEN Entered(g[n - 1], k) ELSE g[i]]
  <2>4. \A i \in 0..n : i # n => i \in 0..n-1 /\ i - 1 # n
    BY <1>2
  <2>5. \A i \in 0..n : i # 0 => i - 1 \in 0..n /\ i - 1 # n
    BY <1>2
  <2>6. h[n] = Entered(g[n - 1], k) /\ \A i \in 0..n : i # n => h[i] = g[i]
    BY <2>1
  <2>7. \A i \in 0..n : h[i] = IF i = 0 THEN s ELSE Entered(h[i - 1], k)
    <3> SUFFICES ASSUME NEW i \in 0..n
                 PROVE  h[i] = IF i = 0 THEN s ELSE Entered(h[i - 1], k)
      OBVIOUS
    <3> HIDE DEF h
    <3>1. i # 0 => h[i - 1] = g[i - 1]
      BY <2>5, <2>6
    <3>2. CASE i = n
      BY <1>4, <2>6, <3>1, <3>2
    <3>3. CASE i # n
      <4>1. g[i] = IF i = 0 THEN s ELSE Entered(g[i - 1], k)
        BY <2>3, <2>4, <3>3 DEF Enters
      <4> QED BY <2>6, <3>1, <3>3, <4>1
    <3> QED BY <3>2, <3>3
  <2>8. Enters(s, k, n, h)
    <3>1. h = [i \in 0..n |-> h[i]]
      OBVIOUS
    <3> HIDE DEF h
    <3> QED BY <2>7, <3>1 DEF Enters
  <2> HIDE DEF h
  <2> QED BY <1>2, <2>8 DEF Has
<1> QED BY <1>3, <1>4

\* The search from h, as deep as there are levels.
LEMMA FindSingleInIs ==
    ASSUME NEW h, NEW k
    PROVE  \E g : /\ g[0] = h /\ \A n \in 1..Leaf : g[n] = Entered(g[n - 1], k)
                  /\ FindSingleIn(h, k) = g[Leaf]
<1> DEFINE top == CHOOSE g : Enters(h, k, Leaf, g)
<1>1. Leaf \in Nat
  BY ZoomAssumption DEF Leaf
<1>2. Enters(h, k, Leaf, top)
  BY <1>1, EntersExist
<1>3. FindSingleIn(h, k) = top[Leaf]
  BY DEF FindSingleIn, Enters, Entered
<1>4. \A n \in 0..Leaf : top[n] = IF n = 0 THEN h ELSE Entered(top[n - 1], k)
  <2> HIDE DEF top
  <2> QED BY <1>2 DEF Enters
<1> HIDE DEF top
<1>5. 0 \in 0..Leaf /\ \A n \in 1..Leaf : n \in 0..Leaf /\ n # 0
  BY <1>1
<1> QED BY <1>3, <1>4, <1>5

\* Where it stands after n calls: under h, with a device of k below, and found or n
\* levels down.
Sought(h, k, n, e) ==
    /\ e \in live /\ h \in Chain(par, e)
    /\ mass[e][k].n > 0
    /\ InCell(e, k) \/ tz[e] >= n

\* It ends at a device of k under h.
LEMMA FindSingleInFinds ==
    ASSUME AInv, job = Idle, NEW h \in live, NEW k \in Key, mass[h][k].n > 0
    PROVE  /\ FindSingleIn(h, k) \in live /\ h \in Chain(par, FindSingleIn(h, k))
           /\ InCell(FindSingleIn(h, k), k)
<1>0. /\ Forest(par, live, tz) /\ Leaf \in Nat /\ Leaf \in 0..Leaf
      /\ \A d \in live : tz[d] \in 0..Leaf
  BY Unpacked, ZoomAssumption DEF Leaf
<1>1. PICK g : /\ g[0] = h /\ \A n \in 1..Leaf : g[n] = Entered(g[n - 1], k)
               /\ FindSingleIn(h, k) = g[Leaf]
  BY FindSingleInIs
\* A child of a device without k of its own is a level further down.
<1>2. ASSUME NEW e \in live, mass[e][k].n > 0, ~ InCell(e, k)
      PROVE  /\ Entered(e, k) \in live /\ Enterable(e, -1, k, Entered(e, k))
             /\ e \in Chain(par, Entered(e, k)) /\ tz[Entered(e, k)] >= tz[e] + 1
  <2>1. PICK d \in live : e \in Chain(par, d) /\ InCell(d, k)
    BY <1>2, CountIs
  <2>2. PICK b \in Chain(par, d) : b \in live /\ par[b] = e
    BY <1>0, <1>2, <2>1, ChainBranch
  <2>3. Enterable(e, -1, k, b)
    <3>1. b \in Children(e) /\ tz[b] > -1
      BY <1>0, <2>2 DEF Children
    <3>2. mass[b][k].n > 0
      BY <2>1, <2>2, CountIs
    <3> QED BY <3>1, <3>2 DEF Enterable
  <2>4. Holding(e, -1, k) # {} /\ Enterable(e, -1, k, kidlist[e][Min(Holding(e, -1, k))])
    <3>1. b \in Children(e) /\ -1 \in Int
      BY <2>3 DEF Enterable
    <3> QED BY <2>3, <3>1, HoldingIs
  <2> DEFINE c == Entered(e, k)
  <2>5. Enterable(e, -1, k, c)
    BY <1>2, <2>4 DEF Entered
  <2> HIDE DEF c
  <2>6. c \in live /\ par[c] = e
    BY <2>5 DEF Enterable, Children
  <2>7. e \in Chain(par, c)
    BY <1>0, <2>6, ChainStep, ChainFalls
  <2>8. tz[e] < tz[c] /\ tz[e] \in Int /\ tz[c] \in Int
    <3>1. e # NONE
      BY <1>0 DEF Forest
    <3> QED BY <1>0, <2>6, <3>1 DEF Forest
  <2> QED BY <2>5, <2>6, <2>7, <2>8 DEF c
<1> DEFINE Bad == {n \in 0..Leaf : ~ Sought(h, k, n, g[n])}
<1>3. Bad = {}
  <2> SUFFICES ASSUME Bad # {} PROVE FALSE
    OBVIOUS
  <2>1. PICK n \in Bad : \A j \in Bad : n <= j
    <3>1. Bad \subseteq Nat
      BY <1>0
    <3> HIDE DEF Bad
    <3> QED BY <3>1, LeastOf
  <2>2. n \in 0..Leaf /\ ~ Sought(h, k, n, g[n])
    OBVIOUS
  <2>3. CASE n = 0
    <3>1. h \in Chain(par, h) /\ tz[h] >= 0
      BY <1>0, ChainFalls
    <3> QED BY <1>1, <2>2, <2>3, <3>1 DEF Sought
  <2>4. CASE n # 0
    <3> DEFINE e == g[n - 1]
    <3>1. n - 1 \in 0..Leaf /\ ~ (n <= n - 1) /\ n \in 1..Leaf /\ n \in Int
      BY <1>0, <2>2, <2>4
    <3>2. Sought(h, k, n - 1, e)
      BY <2>1, <3>1
    <3>3. g[n] = Entered(e, k)
      BY <1>1, <3>1
    <3> HIDE DEF e
    <3>4. CASE InCell(e, k)
      <4>1. g[n] = e
        BY <3>3, <3>4 DEF Entered
      <4> QED BY <2>2, <3>2, <3>4, <4>1 DEF Sought
    <3>5. CASE ~ InCell(e, k)
      <4>1. e \in live /\ mass[e][k].n > 0 /\ h \in Chain(par, e) /\ tz[e] >= n - 1
        BY <3>2, <3>5 DEF Sought
      <4> DEFINE c == g[n]
      <4>2. c \in live /\ Enterable(e, -1, k, c) /\ e \in Chain(par, c) /\ tz[c] >= tz[e] + 1
        BY <1>2, <3>3, <3>5, <4>1
      <4> HIDE DEF c
      <4>3. tz[c] \in Int /\ tz[e] \in Int
        BY <1>0, <4>1, <4>2
      <4>4. tz[c] >= n
        BY <3>1, <4>1, <4>2, <4>3
      <4>5. h \in Chain(par, c)
        BY <1>0, <4>1, <4>2, ChainAbove
      <4>6. Sought(h, k, n, c)
        BY <4>2, <4>4, <4>5 DEF Sought, Enterable
      <4> QED BY <2>2, <4>6 DEF c
    <3> QED BY <3>4, <3>5
  <2> QED BY <2>3, <2>4
<1>4. Sought(h, k, Leaf, g[Leaf])
  BY <1>0, <1>3
<1> DEFINE e == g[Leaf]
<1>5. InCell(e, k)
  <2> SUFFICES ASSUME ~ InCell(e, k) PROVE FALSE
    OBVIOUS
  <2>1. e \in live /\ mass[e][k].n > 0 /\ tz[e] >= Leaf
    BY <1>4 DEF Sought
  <2>2. Entered(e, k) \in live /\ tz[Entered(e, k)] >= tz[e] + 1
    BY <1>2, <2>1
  <2>3. tz[e] \in Int /\ tz[Entered(e, k)] \in 0..Leaf
    BY <1>0, <2>1, <2>2
  <2> HIDE DEF e
  <2> QED BY <1>0, <2>1, <2>2, <2>3
<1> QED BY <1>1, <1>4, <1>5 DEF Sought

\* A cluster with a device of k has one where find_single looks.
LEMMA FindSingleFinds ==
    ASSUME AInv, job = Idle, NEW z \in Level, NEW s \in live, tz[s] <= z, NEW k \in Key,
           Members(s, z, k) # {}
    PROVE  FindSingle(s, z, k) \in Members(s, z, k)
<1>0. \A d : d \in Members(s, z, k) <=> d \in live /\ Rep(d, z) = s /\ InCell(d, k)
  BY DEF Members
<1>1. s \in live /\ Rep(s, z) = s
  BY MembersAre
<1>2. CASE InCell(s, k)
  <2>1. FindSingle(s, z, k) = s
    BY <1>2 DEF FindSingle
  <2> QED BY <1>0, <1>1, <1>2, <2>1
<1>3. CASE ~ InCell(s, k)
  <2>1. PICK d \in live : Rep(d, z) = s /\ InCell(d, k)
    BY <1>0
  <2>2. PICK b \in Children(s) : ~ (tz[b] <= z) /\ b \in Chain(par, d)
    BY <1>3, <2>1, UnderChild
  <2>3. b \in live /\ tz[b] \in Int /\ z \in Int
    BY Unpacked, ZoomAssumption DEF Children, Level
  <2>4. Enterable(s, z, k, b)
    <3>1. mass[b][k].n > 0
      BY <2>1, <2>2, <2>3, CountIs
    <3> QED BY <2>2, <2>3, <3>1 DEF Enterable
  <2> DEFINE c == kidlist[s][Min(Holding(s, z, k))]
  <2>5. Holding(s, z, k) # {} /\ Enterable(s, z, k, c)
    BY <2>3, <2>4, HoldingIs
  <2>6. FindSingle(s, z, k) = FindSingleIn(c, k)
    BY <1>3, <2>5 DEF FindSingle
  <2> HIDE DEF c
  <2>7. c \in Children(s) /\ c \in live /\ tz[c] > z /\ mass[c][k].n > 0
    BY <2>5 DEF Enterable, Children
  <2>8. /\ FindSingleIn(c, k) \in live /\ c \in Chain(par, FindSingleIn(c, k))
        /\ InCell(FindSingleIn(c, k), k)
    BY <2>7, FindSingleInFinds
  <2>9. ~ (tz[c] <= z)
    <3>1. tz[c] \in Int
      BY <2>7, Unpacked
    <3> QED BY <2>3, <2>7, <3>1
  <2>10. Rep(FindSingleIn(c, k), z) = s
    BY <2>7, <2>8, <2>9, InsideOf
  <2> QED BY <1>0, <2>6, <2>8, <2>10
<1> QED BY <1>2, <1>3

\* Between operations, the device that stands for a filtered cluster of one is that one,
\* wherever under the center it is.
THEOREM SingleIsExact == AggSpec => []SingleIsTheMember
<1>1. AInv => SingleIsTheMember
  <2> SUFFICES ASSUME AInv, job = Idle, NEW z \in Level, NEW s \in listed[z], NEW k \in Cell,
                      ClusterAt(s, z, k).n = 1
               PROVE  Members(s, z, k) = {FindSingle(s, z, k)}
    BY DEF SingleIsTheMember
  <2>1. s \in live /\ tz[s] <= z /\ k \in Key
    BY DEF AInv, IInv, GridListsCenters, Placed, Key
  <2>2. ClusterAt(s, z, k) = Mass(pos, cells, Members(s, z, All), k)
    BY <2>1, ClusterWeighs
  <2>3. Marked(cells, Members(s, z, All), k) = Members(s, z, k)
    BY DEF Members, Marked, InCell
  <2> DEFINE M == Members(s, z, k)
  <2>4. Cardinality(M) = 1
    BY <2>2, <2>3 DEF Mass
  <2>5. IsFiniteSet(M)
    <3>1. M \subseteq live /\ IsFiniteSet(live)
      BY Unpacked DEF Members
    <3> QED BY <3>1, FS_Subset
  <2>6. PICK x : M = {x}
    <3> HIDE DEF M
    <3> QED BY <2>4, <2>5, FS_Singleton
  <2>7. FindSingle(s, z, k) \in M
    BY <2>1, <2>6, FindSingleFinds
  <2> QED BY <2>6, <2>7
<1> QED BY <1>1, SpecAInv, PTL

-----------------------------------------------------------------------------
(* The checker *)

\* A free slot carries nothing.
FreeIsEmpty == \A t \in Dev \ live : \A k \in Key : mass[t][k] = Zero

\* What a chain of ancestors goes through is in the forest.
LEMMA ChainInside ==
    ASSUME NEW f, NEW L, NEW t, Forest(f, L, t), NEW e \in L \union {NONE}
    PROVE  Chain(f, e) \subseteq L
BY ChainStep, ChainFalls

\* Sums change along a chain and nowhere else.
LEMMA AddMassElsewhere ==
    ASSUME NEW m, NEW S, NEW i, NEW delta, NEW x \in Dev, x \notin S
    PROVE  AddMass(m, S, i, delta)[x] = m[x]
BY DEF AddMass

\* Nothing is added to a slot that is free, and one that becomes free is emptied.
LEMMA FreeStaysEmpty ==
    ASSUME AInv, AInv', FreeIsEmpty, [AggNext]_allVars
    PROVE  FreeIsEmpty'
<1>0. /\ Forest(par, live, tz) /\ live \subseteq Dev
      /\ \A d \in live : par[d] \in live \union {NONE} /\ Chain(par, d) \subseteq live
      /\ \A d \in live : Chain(par, par[d]) \subseteq live
  <2>1. Forest(par, live, tz) /\ live \subseteq Dev
    BY Unpacked
  <2>2. \A d \in live : par[d] \in live \union {NONE}
    BY <2>1 DEF Forest
  <2> QED BY <2>1, <2>2, ChainInside
<1>1. /\ Forest(par', live', tz')
      /\ \A d \in live' : Chain(par', par'[d]) \subseteq live'
  <2>1. Forest(par', live', tz')
    BY IsForestNext DEF AInv, IInv
  <2>2. \A d \in live' : par'[d] \in live' \union {NONE}
    BY <2>1 DEF Forest
  <2> QED BY <2>1, <2>2, ChainInside
<1> SUFFICES ASSUME NEW t \in Dev, t \notin live', NEW k \in Key PROVE mass'[t][k] = Zero
  BY DEF FreeIsEmpty, Key
<1>2. t \notin live => mass[t][k] = Zero
  BY DEF FreeIsEmpty
<1>3. ASSUME NEW d \in Dev, NEW p \in Pos, NEW cs \in CellSets, AggInsert(d, p, cs)
      PROVE  mass'[t][k] = Zero
  <2> DEFINE m == [mass EXCEPT ![d] = SelfMass(p, cs)]
  <2>1. live' = live \union {d} /\ mass' = AddMass(m, Chain(par', par'[d]), 1, SelfMass(p, cs))
    BY <1>3 DEF AggInsert, Insert
  <2>2. t \notin live /\ t # d /\ t \notin Chain(par', par'[d])
    BY <1>1, <2>1
  <2>3. m[t] = mass[t]
    BY <2>2, Unpacked DEF Counted, Masses
  <2> HIDE DEF m
  <2> QED BY <1>2, <2>1, <2>2, <2>3, AddMassElsewhere
<1>4. ASSUME NEW d \in live, NEW cs, t \notin live PROVE Recelled(d, cs)[t] = mass[t]
  <2>1. t \notin Chain(par, d)
    BY <1>0, <1>4
  <2> QED BY <2>1, AddMassElsewhere DEF Recelled
<1>5. ASSUME NEW d \in Dev, NEW p \in Pos, NEW cs \in CellSets, AggMoveFast(d, p, cs)
      PROVE  mass'[t][k] = Zero
  <2>1. d \in live /\ live' = live /\ \E s : mass' = AddMass(Recelled(d, cs), Chain(par, d), 1, s)
    BY <1>5 DEF AggMoveFast, MoveFast
  <2>2. t \notin live /\ t \notin Chain(par, d)
    BY <1>0, <2>1
  <2> QED BY <1>2, <1>4, <2>1, <2>2, AddMassElsewhere
<1>6. ASSUME NEW d \in Dev, NEW p \in Pos, NEW cs \in CellSets, AggMoveSlow(d, p, cs)
      PROVE  mass'[t][k] = Zero
  <2>1. /\ d \in live /\ live' = live
        /\ mass' = AddMass(Recelled(d, cs), Chain(par, par[d]), -1, SelfMass(pos[d], cs))
    BY <1>6 DEF AggMoveSlow, MoveSlow, BeginUnlink
  <2>2. t \notin live /\ t \notin Chain(par, par[d])
    BY <1>0, <2>1
  <2> QED BY <1>2, <1>4, <2>1, <2>2, AddMassElsewhere
<1>7. ASSUME NEW d \in Dev, NEW cs \in CellSets, AggRefile(d, cs) PROVE mass'[t][k] = Zero
  <2>1. d \in live /\ live' = live /\ mass' = Recelled(d, cs)
    BY <1>7 DEF AggRefile, vars
  <2> QED BY <1>2, <1>4, <2>1
<1>8. ASSUME NEW d \in Dev, AggRemove(d) PROVE mass'[t][k] = Zero
  <2>1. /\ d \in live /\ live' = live
        /\ mass' = AddMass(mass, Chain(par, par[d]), -1, SelfMass(pos[d], cells[d]))
    BY <1>8 DEF AggRemove, RemoveDevice, BeginUnlink
  <2>2. t \notin live /\ t \notin Chain(par, par[d])
    BY <1>0, <2>1
  <2> QED BY <1>2, <2>1, <2>2, AddMassElsewhere
<1>9. ASSUME NEW c \in Dev, AggRehomeChild(c) PROVE mass'[t][k] = Zero
  <2> DEFINE off == AddMass(mass, Chain(par, par[job.dev]), -1, mass[c])
  <2>1. live' = live /\ c \in job.kids /\ mass' = AddMass(off, Chain(par', par'[c]), 1, mass[c])
    BY <1>9 DEF AggRehomeChild, RehomeChild, IsNextKid
  <2>2. job.dev \in live /\ c \in live
    <3>1. JobOK
      BY Unpacked
    <3> QED BY <2>1, <3>1 DEF JobOK, Idle, Placed
  <2>3. t \notin live /\ t \notin Chain(par, par[job.dev]) /\ t \notin Chain(par', par'[c])
    BY <1>0, <1>1, <2>1, <2>2
  <2>4. off[t] = mass[t]
    BY <2>3, AddMassElsewhere
  <2> HIDE DEF off
  <2> QED BY <1>2, <2>1, <2>3, <2>4, AddMassElsewhere
<1>10. CASE AggFinishRemove
  <2>1. live' = live \ {job.dev} /\ mass' = [mass EXCEPT ![job.dev] = [e \in Key |-> Zero]]
    BY <1>10 DEF AggFinishRemove, FinishRemove
  <2>2. DOMAIN mass = Dev
    BY Unpacked DEF Counted, Masses
  <2> QED BY <1>2, <2>1, <2>2
<1>11. CASE AggFinishMove
  <2> DEFINE own == SelfMass(job.to, cells[job.dev])
             m == [mass EXCEPT ![job.dev] = own]
  <2>1. live' = live /\ mass' = AddMass(m, Chain(par', par'[job.dev]), 1, own)
    BY <1>11 DEF AggFinishMove, FinishMove
  <2>2. job.dev \in live
    BY <1>11, Unpacked DEF JobOK, AggFinishMove, FinishMove
  <2>3. t \notin live /\ t # job.dev /\ t \notin Chain(par', par'[job.dev])
    BY <1>1, <2>1, <2>2
  <2>4. m[t] = mass[t]
    BY <2>3, Unpacked DEF Counted, Masses
  <2> HIDE DEF m, own
  <2> QED BY <1>2, <2>1, <2>3, <2>4, AddMassElsewhere
<1>12. CASE UNCHANGED allVars
  BY <1>2, <1>12 DEF allVars, vars, aggVars
<1> QED BY <1>3, <1>5, <1>6, <1>7, <1>8, <1>9, <1>10, <1>11, <1>12 DEF AggNext

\* The first n levels of calls of subtree_sums, the deepest first.
Summing(n, g) ==
    g = [i \in 0..n |-> IF i = 0 THEN [t \in live |-> [met |-> {}, sum |-> Zero]]
                                ELSE SumsFrom(g[i - 1])]

LEMMA SummingExists == \A n \in Nat : \E g : Summing(n, g)
<1> DEFINE Nothing == [t \in live |-> [met |-> {}, sum |-> Zero]]
           Has(n) == \E g : Summing(n, g)
           Bad == {n \in Nat : ~ Has(n)}
<1> HIDE DEF Has
<1> SUFFICES ASSUME Bad # {} PROVE FALSE
  BY DEF Has
<1>1. PICK n \in Bad : \A k \in Bad : n <= k
  <2>1. Bad \subseteq Nat
    OBVIOUS
  <2> HIDE DEF Bad
  <2> QED BY <2>1, LeastOf
<1>2. n \in Nat /\ ~ Has(n)
  OBVIOUS
<1>3. \A k, g : Summing(k, g) <=> g = [i \in 0..k |-> IF i = 0 THEN Nothing ELSE SumsFrom(g[i - 1])]
  BY DEF Summing
<1> HIDE DEF Nothing
<1>4. CASE n = 0
  <2> DEFINE g == [i \in 0..0 |-> Nothing]
  <2>1. \A i \in 0..0 : i = 0
    OBVIOUS
  <2>2. g = [i \in 0..0 |-> IF i = 0 THEN Nothing ELSE SumsFrom(g[i - 1])]
    BY <2>1
  <2> HIDE DEF g
  <2>3. Summing(0, g)
    BY <1>3, <2>2
  <2> QED BY <1>2, <1>4, <2>3 DEF Has
<1>5. CASE n # 0
  <2>1. n - 1 \in Nat /\ ~ (n <= n - 1) /\ n \in 0..n
    BY <1>2, <1>5
  <2>2. Has(n - 1)
    BY <1>1, <2>1
  <2>3. PICK g : Summing(n - 1, g)
    BY <2>2 DEF Has
  <2> DEFINE h == [i \in 0..n |-> IF i = n THEN SumsFrom(g[n - 1]) ELSE g[i]]
  <2>4. \A i \in 0..n : i # n => i \in 0..n-1 /\ i - 1 # n
    BY <1>2
  <2>5. \A i \in 0..n : i # 0 => i - 1 \in 0..n /\ i - 1 # n
    BY <1>2
  <2>6. h[n] = SumsFrom(g[n - 1]) /\ \A i \in 0..n : i # n => h[i] = g[i]
    BY <2>1
  <2>7. \A i \in 0..n : h[i] = IF i = 0 THEN Nothing ELSE SumsFrom(h[i - 1])
    <3> SUFFICES ASSUME NEW i \in 0..n
                 PROVE  h[i] = IF i = 0 THEN Nothing ELSE SumsFrom(h[i - 1])
      OBVIOUS
    <3> HIDE DEF h
    <3>1. i # 0 => h[i - 1] = g[i - 1]
      BY <2>5, <2>6
    <3>2. CASE i = n
      BY <1>5, <2>6, <3>1, <3>2
    <3>3. CASE i # n
      <4>1. g[i] = IF i = 0 THEN Nothing ELSE SumsFrom(g[i - 1])
        BY <1>3, <2>3, <2>4, <3>3
      <4> QED BY <2>6, <3>1, <3>3, <4>1
    <3> QED BY <3>2, <3>3
  <2>8. Summing(n, h)
    <3>1. h = [i \in 0..n |-> h[i]]
      OBVIOUS
    <3> HIDE DEF h
    <3> QED BY <1>3, <2>7, <3>1
  <2> HIDE DEF h
  <2> QED BY <1>2, <2>8 DEF Has
<1> QED BY <1>4, <1>5

LEMMA SubtreeSumsIs ==
    \E g : /\ \A i \in 1..(Leaf + 1) : g[i] = SumsFrom(g[i - 1])
           /\ \A s : SubtreeSums(s) = g[Leaf + 1][s]
<1> DEFINE top == CHOOSE g : Summing(Leaf + 1, g)
<1>1. Leaf + 1 \in Nat
  BY ZoomAssumption DEF Leaf
<1>2. Summing(Leaf + 1, top)
  BY <1>1, SummingExists
<1>3. \A s : SubtreeSums(s) = top[Leaf + 1][s]
  BY DEF SubtreeSums, Summing
<1>4. \A i \in 0..(Leaf + 1) : i # 0 => top[i] = SumsFrom(top[i - 1])
  <2> HIDE DEF top
  <2> QED BY <1>2 DEF Summing
<1> HIDE DEF top
<1>5. \A i \in 1..(Leaf + 1) : i \in 0..(Leaf + 1) /\ i # 0
  BY <1>1
<1> QED BY <1>3, <1>4, <1>5

\* A subtree is its device and the subtrees of its children, which leave the device out.
LEMMA SubtreeIs ==
    ASSUME AInv, NEW s \in live
    PROVE  Subtree(par, live, s) = {s} \union Below(Children(s)) /\ s \notin Below(Children(s))
<1>0. Forest(par, live, tz) /\ live \subseteq Dev /\ tz \in [Dev -> Int] /\ s # NONE
  BY Unpacked DEF Forest
<1>1. \A c \in Children(s) : c \in live /\ par[c] = s /\ tz[s] < tz[c]
  BY <1>0 DEF Children, Forest
<1>2. s \in Subtree(par, live, s)
  BY <1>0, ChainFalls DEF Subtree
<1>3. ASSUME NEW d \in Subtree(par, live, s), d # s
      PROVE  \E c \in Children(s) : d \in Subtree(par, live, c)
  <2>1. d \in live /\ s \in Chain(par, d)
    BY DEF Subtree
  <2>2. PICK b \in Chain(par, d) : b \in live /\ par[b] = s
    BY <1>0, <1>3, <2>1, ChainBranch
  <2> QED BY <2>1, <2>2 DEF Subtree, Children
<1>4. ASSUME NEW c \in Children(s), NEW d \in Subtree(par, live, c)
      PROVE  d \in Subtree(par, live, s)
  <2>1. d \in live /\ c \in Chain(par, d)
    BY DEF Subtree
  <2>2. s \in Chain(par, c)
    BY <1>0, <1>1, ChainStep, ChainFalls
  <2>3. s \in Chain(par, d)
    BY <1>0, <2>1, <2>2, ChainAbove
  <2> QED BY <2>1, <2>3 DEF Subtree
<1>5. ASSUME NEW c \in Children(s), s \in Subtree(par, live, c) PROVE FALSE
  <2>1. c \in Chain(par, s)
    BY <1>5 DEF Subtree
  <2>2. c # s => tz[c] < tz[s]
    BY <1>0, <2>1, ChainFalls
  <2>3. tz[s] < tz[c] /\ tz[s] \in Int /\ tz[c] \in Int
    BY <1>0, <1>1
  <2> QED BY <2>2, <2>3
<1> QED BY <1>2, <1>3, <1>4, <1>5 DEF Below

\* What the calls for t return: the devices under it and their mass.
Summed(w, t) ==
    /\ w[t].met = Subtree(par, live, t)
    /\ w[t].sum = Mass(pos, cells, Subtree(par, live, t), All)

\* One level of calls, the calls below it being right.
LEMMA SumsFromIs ==
    ASSUME AInv, job = Idle, NEW t \in live, NEW w, \A b \in Children(t) : Summed(w, b)
    PROVE  Summed(SumsFrom(w), t)
<1> DEFINE C == Children(t)
           list == kidlist[t]
           m == [b \in live |-> w[b].sum]
           T == Below(C)
<1>0. /\ Placeable(pos, live) /\ IsFiniteSet(live) /\ live \subseteq Dev
      /\ ListOf(list, C, tz) /\ C \subseteq live
  BY Unpacked DEF Listed, Children
<1>1. /\ SumsFrom(w)[t].met = {t} \union UNION {w[b].met : b \in ToSet(list)}
      /\ SumsFrom(w)[t].sum = Plus([n |-> 1, x |-> pos[t][1]], SumOver(list, m))
  BY DEF SumsFrom
<1>2. ToSet(list) = C
  <2> HIDE DEF list, C
  <2>1. list \in Seq(C) /\ DOMAIN list = 1..Len(list)
    BY <1>0 DEF ListOf
  <2> QED BY <1>0, <2>1 DEF ListOf, ToSet
<1>3. \A c \in C : m[c] = Mass(pos, cells, Subtree(par, live, c), All)
  <2>1. \A c \in C : m[c] = w[c].sum
    BY <1>0
  <2> HIDE DEF m
  <2> QED BY <2>1 DEF Summed
<1>4. T \subseteq live /\ IsFiniteSet(T) /\ Placeable(pos, T) /\ SumOver(list, m) = Mass(pos, cells, T, All)
  <2>1. All \in Key
    BY DEF Key
  <2>2. C \subseteq Children(t) /\ ListOf(list, C, tz)
    BY <1>0
  <2> HIDE DEF m, C, list
  <2> QED BY <1>3, <2>1, <2>2, ListWeighs
<1>5. Subtree(par, live, t) = {t} \union T /\ t \notin T
  BY SubtreeIs
<1>6. SumsFrom(w)[t].met = {t} \union T
  BY <1>1, <1>2 DEF Summed, Below
<1> HIDE DEF T, C, list, m
<1>7. pos[t][1] \in Int /\ Placeable(pos, T \union {t})
  BY <1>0, <1>4 DEF Placeable
<1>8. /\ Mass(pos, cells, T \union {t}, All) = Plus(Mass(pos, cells, T, All), Own(pos, cells, t, All))
      /\ Mass(pos, cells, T, All) \in Amount /\ Own(pos, cells, t, All) \in Amount
  BY <1>4, <1>5, <1>7, MassAdd, MassType, OwnType
<1>9. Own(pos, cells, t, All) = [n |-> 1, x |-> pos[t][1]]
  BY DEF Own
<1>10. SumsFrom(w)[t].sum = Mass(pos, cells, T \union {t}, All)
  BY <1>1, <1>4, <1>8, <1>9, PlusLaws
<1> QED BY <1>5, <1>6, <1>10 DEF Summed

\* subtree_sums returns the subtree and its mass.
LEMMA SubtreeSumsExact ==
    ASSUME AInv, job = Idle, NEW s \in live
    PROVE  /\ SubtreeSums(s).met = Subtree(par, live, s)
           /\ SubtreeSums(s).sum = Mass(pos, cells, Subtree(par, live, s), All)
<1>0. /\ tz \in [Dev -> Int] /\ live \subseteq Dev /\ Leaf \in Nat
      /\ \A d \in live : tz[d] \in 0..Leaf
      /\ \A d \in live : \A b \in Children(d) : b \in live /\ tz[d] < tz[b]
  <2>1. Forest(par, live, tz) /\ tz \in [Dev -> Int] /\ live \subseteq Dev /\ \A d \in live : tz[d] \in 0..Leaf
    BY Unpacked
  <2>2. \A d \in live : \A b \in Children(d) : b \in live /\ tz[d] < tz[b]
    BY <2>1 DEF Children, Forest
  <2> QED BY <2>1, <2>2, ZoomAssumption DEF Leaf
<1>1. PICK g : /\ \A i \in 1..(Leaf + 1) : g[i] = SumsFrom(g[i - 1])
               /\ \A t : SubtreeSums(t) = g[Leaf + 1][t]
  BY SubtreeSumsIs
<1> DEFINE Right(n) == \A t \in live : n + tz[t] > Leaf => Summed(g[n], t)
           Bad == {n \in 0..(Leaf + 1) : ~ Right(n)}
<1>2. Bad = {}
  <2> SUFFICES ASSUME Bad # {} PROVE FALSE
    OBVIOUS
  <2>1. PICK n \in Bad : \A k \in Bad : n <= k
    <3>1. Bad \subseteq Nat
      BY <1>0
    <3> HIDE DEF Bad
    <3> QED BY <3>1, LeastOf
  <2>2. n \in 0..(Leaf + 1) /\ ~ Right(n)
    OBVIOUS
  <2>3. PICK t \in live : n + tz[t] > Leaf /\ ~ Summed(g[n], t)
    BY <2>2
  <2>4. n # 0
    BY <1>0, <2>3
  <2>5. n \in 1..(Leaf + 1) /\ n - 1 \in 0..(Leaf + 1) /\ ~ (n <= n - 1)
    BY <1>0, <2>2, <2>4
  <2>6. Right(n - 1)
    <3> HIDE DEF Right
    <3> QED BY <2>1, <2>5
  <2>7. \A b \in Children(t) : Summed(g[n - 1], b)
    <3> SUFFICES ASSUME NEW b \in Children(t) PROVE Summed(g[n - 1], b)
      OBVIOUS
    <3>1. b \in live /\ tz[t] < tz[b] /\ tz[t] \in Int /\ tz[b] \in Int
      BY <1>0
    <3>2. n - 1 + tz[b] > Leaf
      BY <1>0, <2>3, <2>5, <3>1
    <3> QED BY <2>6, <3>1, <3>2
  <2>8. Summed(g[n], t)
    BY <1>1, <2>5, <2>7, SumsFromIs
  <2> QED BY <2>3, <2>8
<1>3. Right(Leaf + 1)
  <2>1. Leaf + 1 \in 0..(Leaf + 1)
    BY <1>0
  <2> HIDE DEF Right
  <2> QED BY <1>2, <2>1
<1>4. Leaf + 1 + tz[s] > Leaf
  BY <1>0
<1> QED BY <1>1, <1>3, <1>4 DEF Summed

\* Lists pass.
LEMMA ListsPass == ASSUME AInv, job = Idle PROVE VerifyLists
<1>1. ASSUME NEW s \in live
      PROVE  /\ IsInjective(kidlist[s])
             /\ \A i \in DOMAIN kidlist[s] : par[kidlist[s][i]] = s
             /\ \A i \in 2..Len(kidlist[s]) : tz[kidlist[s][i - 1]] <= tz[kidlist[s][i]]
  <2> DEFINE list == kidlist[s]
             C == Children(s)
  <2>1. ListOf(list, C, tz) /\ \A c \in C : par[c] = s
    BY Unpacked DEF Listed, Children
  <2> HIDE DEF list, C
  <2>2. list \in Seq(C) /\ Len(list) \in Nat /\ DOMAIN list = 1..Len(list) /\ \A i \in 1..Len(list) : list[i] \in C
    BY <2>1 DEF ListOf
  <2>3. \A i, j \in 1..Len(list) : i < j => list[i] # list[j] /\ tz[list[i]] <= tz[list[j]]
    BY <2>1 DEF ListOf
  <2>4. IsInjective(list)
    <3>1. \A i, j \in 1..Len(list) : i = j \/ i < j \/ j < i
      OBVIOUS
    <3> QED BY <2>2, <2>3, <3>1 DEF IsInjective
  <2>5. \A i \in 2..Len(list) : i - 1 \in 1..Len(list) /\ i \in 1..Len(list) /\ i - 1 < i
    BY <2>2
  <2> QED BY <2>1, <2>2, <2>3, <2>4, <2>5 DEF list
<1>2. ASSUME NEW s \in live, par[s] # NONE PROVE \E t \in live : s \in ToSet(kidlist[t])
  <2>1. par[s] \in live /\ s \in Children(par[s]) /\ par[s] \in Dev
    BY <1>2, Unpacked DEF Forest, Children
  <2>2. ListOf(kidlist[par[s]], Children(par[s]), tz)
    BY <2>1, Unpacked DEF Listed
  <2>3. PICK i \in 1..Len(kidlist[par[s]]) : kidlist[par[s]][i] = s
    BY <2>1, <2>2 DEF ListOf
  <2>4. DOMAIN kidlist[par[s]] = 1..Len(kidlist[par[s]])
    BY <2>2 DEF ListOf
  <2> QED BY <2>1, <2>3, <2>4 DEF ToSet
<1> QED BY <1>1, <1>2 DEF VerifyLists

\* Every device is under a root.
LEMMA RootAbove ==
    ASSUME AInv, NEW d \in live
    PROVE  \E r \in Chain(par, d) : r \in live /\ par[r] = NONE
<1>0. /\ Forest(par, live, tz) /\ tz \in [Dev -> Int] /\ live \subseteq Dev
      /\ d \in Chain(par, d) /\ Chain(par, d) \subseteq live
  BY Unpacked, ChainFalls
<1>1. PICK r \in Chain(par, d) : \A e \in Chain(par, d) : tz[r] <= tz[e]
  <2>1. Chain(par, d) # {}
    BY <1>0
  <2> QED BY <1>0, <2>1, LowestOf
<1>2. r \in live
  BY <1>0
<1>3. ASSUME par[r] # NONE PROVE FALSE
  <2>1. par[r] \in live /\ tz[par[r]] < tz[r]
    BY <1>0, <1>2, <1>3 DEF Forest
  <2>2. par[r] \in Chain(par, r)
    BY <1>0, <1>2, <2>1, ChainStep, ChainFalls
  <2>3. par[r] \in Chain(par, d)
    BY <1>0, <2>2, ChainAbove
  <2>4. tz[r] <= tz[par[r]] /\ tz[r] \in Int /\ tz[par[r]] \in Int
    BY <1>0, <1>1, <1>2, <2>1, <2>3
  <2> QED BY <2>1, <2>4
<1> QED BY <1>2, <1>3

\* Sums pass.
LEMMA SumsPass == ASSUME AInv, job = Idle PROVE VerifySums
<1>1. \A s \in live : mass[s][All] = Mass(pos, cells, Subtree(par, live, s), All)
  <2>1. Placed = live /\ All \in Key
    BY Unpacked, AllPlaced DEF Key
  <2> QED BY <2>1, Unpacked DEF Counted, Exact
<1>2. \A s \in live : mass[s][All] = SubtreeSums(s).sum /\ SubtreeSums(s).met = Subtree(par, live, s)
  BY <1>1, SubtreeSumsExact
<1>3. \A d \in live : \E r \in live : par[r] = NONE /\ d \in Subtree(par, live, r)
  BY RootAbove DEF Subtree
<1>4. \A s : Subtree(par, live, s) \subseteq live
  BY DEF Subtree
<1>5. UNION {SubtreeSums(s).met : s \in {r \in live : par[r] = NONE}} = live
  BY <1>2, <1>3, <1>4
<1> QED BY <1>2, <1>5 DEF VerifySums

\* The cells pass, those of free slots too.
LEMMA CellsPass == ASSUME AInv, FreeIsEmpty, job = Idle PROVE VerifyCells
<1> DEFINE below == [t \in Dev |-> {d \in live : t \in Chain(par, d)}]
<1>1. \A t \in Dev : below[t] = Subtree(par, live, t)
  BY DEF Subtree
<1>2. ASSUME NEW t \in Dev, NEW c \in Cell
      PROVE  mass[t][c] = Mass(pos, cells, Subtree(par, live, t), c)
  <2>1. c \in Key
    BY DEF Key
  <2>2. CASE t \in live
    <3>1. Placed = live
      BY Unpacked, AllPlaced
    <3> QED BY <2>1, <2>2, <3>1, Unpacked DEF Counted, Exact
  <2>3. CASE t \notin live
    <3>1. \A d \in live : Chain(par, d) \subseteq live
      BY Unpacked, ChainFalls
    <3>2. Subtree(par, live, t) = {}
      BY <2>3, <3>1 DEF Subtree
    <3>3. Mass(pos, cells, {}, c) = Zero
      BY MassOfFew
    <3> QED BY <2>1, <2>3, <3>2, <3>3 DEF FreeIsEmpty
  <2> QED BY <2>2, <2>3
<1>3. ASSUME NEW t \in Dev, NEW c \in Cell PROVE mass[t][c] = MassOf(below[t], c)
  <2> HIDE DEF below
  <2> QED BY <1>1, <1>2, MassOfIs
<1> QED BY <1>3 DEF VerifyCells

\* The partition of every level passes.
LEMMA PartitionPasses == ASSUME AInv, job = Idle PROVE VerifyPartition
<1> SUFFICES ASSUME NEW z \in Level
             PROVE  LET rep == [d \in live |-> Rep(d, z)]
                    IN  /\ \A d \in live : D2(pos[d], pos[rep[d]]) <= 4 * H2[z]
                        /\ \A a \in {rep[d] : d \in live} :
                              ClusterAt(a, z, All).n = Cardinality({d \in live : rep[d] = a})
  BY DEF VerifyPartition
<1> DEFINE rep == [d \in live |-> Rep(d, z)]
<1>1. \A d \in live : rep[d] = Rep(d, z)
  OBVIOUS
<1>2. \A d \in live : Rep(d, z) \in live /\ tz[Rep(d, z)] <= z /\ D2(pos[d], pos[Rep(d, z)]) <= 4 * H2[z]
  BY Unpacked, RepIsClose
<1>3. ASSUME NEW e \in live
      PROVE  ClusterAt(Rep(e, z), z, All).n = Cardinality({d \in live : rep[d] = Rep(e, z)})
  <2> DEFINE a == Rep(e, z)
             M == {d \in live : rep[d] = a}
  <2>1. a \in live /\ tz[a] <= z /\ All \in Key
    BY <1>2 DEF Key
  <2>2. Members(a, z, All) = M
    <3>1. Members(a, z, All) = {d \in live : Rep(d, z) = a}
      BY <2>1, MembersAre
    <3> HIDE DEF a
    <3> QED BY <3>1
  <2>3. ClusterAt(a, z, All) = Mass(pos, cells, Members(a, z, All), All)
    BY <2>1, ClusterWeighs
  <2> HIDE DEF a, M
  <2>4. Mass(pos, cells, M, All).n = Cardinality(M)
    BY DEF Mass, Marked
  <2> QED BY <2>2, <2>3, <2>4 DEF a, M
<1> QED BY <1>1, <1>2, <1>3

\* The repository's own checker finds nothing wrong between operations, whatever sequence
\* of calls came before: lists, sums, cells, levels, distances and clusters recomputed from
\* the edges agree with what incremental repair keeps.
THEOREM VerifierAlwaysAccepts == AggSpec => []VerifyAccepts
<1>1. AggInit => FreeIsEmpty
  BY DEF AggInit, FreeIsEmpty
<1>2. AInv /\ AInv' /\ FreeIsEmpty /\ [AggNext]_allVars => FreeIsEmpty'
  BY FreeStaysEmpty
<1>3. AInv /\ FreeIsEmpty => VerifyAccepts
  <2> SUFFICES ASSUME AInv, FreeIsEmpty, job = Idle
               PROVE  VerifyTree /\ VerifyLists /\ VerifySums /\ VerifyCells /\ VerifyPartition
    BY DEF VerifyAccepts
  <2>1. VerifyTree
    BY Unpacked, VerifierAccepts
  <2> QED BY <2>1, ListsPass, SumsPass, CellsPass, PartitionPasses
<1> QED BY <1>1, <1>2, <1>3, SpecAInv, PTL DEF AggSpec

=============================================================================
