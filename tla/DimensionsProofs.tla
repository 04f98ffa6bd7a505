-------------------------- MODULE DimensionsProofs --------------------------
(***************************************************************************)
(* Dimensions holds what a filter depends on, for every schema, every set  *)
(* of requests and every number of devices: a cell is one choice of values *)
(* for ever.  The first half is arithmetic: the cells of a shape are the   *)
(* numerals of a mixed radix system, the blocks of two shapes are apart,   *)
(* and so two choices never share a cell (CellsDiffer).  The second half   *)
(* is the inductive invariant DInv: whatever is filed, resolved, copied or *)
(* on disk keeps the cells that its values have under the labels it will   *)
(* be read with.                                                           *)
(*                                                                         *)
(* The prover has no induction over sequences, and CHOOSE defines what a   *)
(* fold returns.  Each fold of Dimensions is therefore shown to be the     *)
(* last of a trace of steps (WalkSteps), and an invariant of a trace by    *)
(* looking at the first step that would break it (LeastOf).                *)
(***************************************************************************)
EXTENDS Dimensions, SequenceTheorems, WellFoundedInduction, TLAPS

\* The names a dimension has, slot 0 first, when t are the tables of labels, and the
\* slot of one of them.
Names(t, d) == IF IsDynamic(d) THEN t[d] ELSE Dims[d].values
Place(t, d, m) == (CHOOSE i \in DOMAIN Names(t, d) : Names(t, d)[i] = m) - 1
Places(t, held) == [d \in Dim |-> {Place(t, d, m) : m \in held[d]}]

\* What may be the name of something.
Text == Value \union UNION {Range(Dims[d].values) : d \in Dim}

\* What a device may hold under t, and its record: the cells are those of what it holds.
Holdable(t) == {held \in [Dim -> SUBSET Text] : \A d \in Dim : held[d] \subseteq Range(Names(t, d))}
Rec(t) == {rec \in [cells : SUBSET Nat, held : Holdable(t)] : rec.cells = Emitted(Places(t, rec.held))}
Recs(t) == [Device -> Rec(t) \union {NONE}]

\* A report that was resolved: it keeps what the device has, or its cells are right.
Out(t) == {out \in [dev : Device, patch : BOOLEAN, keep : BOOLEAN,
                    cells : SUBSET Nat, held : [Dim -> SUBSET Text]] :
              out.keep \/ [cells |-> out.cells, held |-> out.held] \in Rec(t)}

\* The values of d that some well formed item names.
Named(d) ==
    {v \in Value : \E q \in Batches : \E n \in DOMAIN q.items :
        LET vals == ValsOf(q, q.items[n])
        IN  WellFormed(q, q.items[n]) /\ vals[d] # ABSENT /\ v \in Range(vals[d])}

\* The tables of labels there may be.
Table == {t \in [Dim -> Seq(Value)] :
             \A d \in Dim : IF IsDynamic(d)
                            THEN Len(t[d]) <= Size(d) /\ IsInjective(t[d]) /\ Range(t[d]) \subseteq Named(d)
                            ELSE t[d] = <<>>}

\* u has every label where t has it.
Extends(t, u) ==
    \A d \in Dim : Len(t[d]) <= Len(u[d]) /\ \A i \in 1..Len(t[d]) : u[d][i] = t[d][i]

\* The well formed items, as they wait to be resolved.
Item == UNION { {Taken(q, q.items[n]) : n \in {m \in DOMAIN q.items : WellFormed(q, q.items[m])}} : q \in Batches }

ReqOK == req \in [pc : {"idle", "resolving", "patching"}, partial : BOOLEAN,
                  todo : Seq(Item), got : Seq(Out(labels))]
CopyOK == copied # NONE => copied.records \in Recs(labels)
FileOK == file.labels \in Table /\ file.records \in Recs(file.labels)
AskedOK == asked # NONE =>
              /\ asked.sel \in Selections
              /\ asked.cell = QueryCell(labels, asked.sel)
              /\ asked.cell # NONE

DInv ==
    /\ labels \in Table
    /\ filed \in Recs(labels)
    /\ ReqOK
    /\ CopyOK
    /\ FileOK
    /\ AskedOK

-----------------------------------------------------------------------------
(* Folds *)

\* A set of numbers that has any has a least one.
LEMMA LeastOf ==
    ASSUME NEW S, S \subseteq Nat, S # {}
    PROVE  \E k \in S : \A m \in S : k <= m
<1>1. PICK k \in S : \A m \in S : ~ (<<m, k>> \in OpToRel(<, Nat))
  BY WFMin, NatLessThanWellFounded
<1>2. \A m \in S : ~ (m < k)
  BY <1>1 DEF OpToRel
<1> QED BY <1>2

\* The greatest of the numbers up to one.
LEMMA MaxOfSome ==
    ASSUME NEW n \in Nat, NEW s \in SUBSET (1..n), s # {}
    PROVE  Max(s) \in s /\ \A x \in s : x <= Max(s)
<1> DEFINE Away == {n - x : x \in s}
<1>1. Away \subseteq Nat /\ Away # {}
  <2>1. \A x \in s : x \in 1..n
    OBVIOUS
  <2>2. \A x \in 1..n : n - x \in Nat
    OBVIOUS
  <2> QED BY <2>1, <2>2
<1>2. PICK k \in Away : \A m \in Away : k <= m
  <2> HIDE DEF Away
  <2> QED BY <1>1, LeastOf
<1>3. PICK y \in s : k = n - y
  BY <1>2
<1>4. \A x \in s : y >= x
  BY <1>2, <1>3
<1> QED BY <1>3, <1>4 DEF Max

\* step says how each element changes what was accumulated.  There is a function of
\* the sets of positions that does it, the greatest position last.
Walks(base, n, step, f) ==
    \A s \in SUBSET (1..n) :
       f[s] = IF s = {} THEN base ELSE step[Max(s)][f[s \ {Max(s)}]]

LEMMA WalkExists ==
    ASSUME NEW A, NEW base \in A, NEW n \in Nat, NEW step \in [1..n -> [A -> A]]
    PROVE  \E f \in [SUBSET (1..n) -> A] : Walks(base, n, step, f)
<1> DEFINE Has(m) == \E f \in [SUBSET (1..m) -> A] : Walks(base, m, step, f)
           Bad == {m \in 0..n : ~ Has(m)}
<1> SUFFICES ASSUME Bad # {} PROVE FALSE
  <2>1. n \in 0..n
    OBVIOUS
  <2>2. Has(n) => \E f \in [SUBSET (1..n) -> A] : Walks(base, n, step, f)
    OBVIOUS
  <2> HIDE DEF Has
  <2>3. Bad = {} => Has(n)
    BY <2>1
  <2> QED BY <2>2, <2>3
<1>1. PICK m \in Bad : \A k \in Bad : m <= k
  <2>1. Bad \subseteq Nat
    OBVIOUS
  <2> HIDE DEF Bad
  <2> QED BY <2>1, LeastOf
<1>2. m \in 0..n /\ ~ Has(m)
  BY <1>1
<1>3. CASE m = 0
  <2>1. 1..m = {}
    BY <1>3
  <2> DEFINE f == [s \in SUBSET (1..m) |-> base]
  <2>2. f \in [SUBSET (1..m) -> A] /\ Walks(base, m, step, f)
    BY <2>1 DEF Walks
  <2> HIDE DEF f
  <2> QED BY <2>2, <1>2
<1>4. CASE m # 0
  <2>0. m \in Nat
    BY <1>2
  <2>1. m - 1 \in 0..n /\ m \in 1..n
    BY <1>2, <1>4
  <2>2. Has(m - 1)
    <3> HIDE DEF Has
    <3>1. m - 1 \notin Bad
      <4>1. ~ (m <= m - 1)
        BY <2>1
      <4> QED BY <1>1, <4>1
    <3> QED BY <2>1, <3>1
  <2>3. PICK f \in [SUBSET (1..m-1) -> A] : Walks(base, m - 1, step, f)
    BY <2>2
  <2> DEFINE g == [s \in SUBSET (1..m) |-> IF m \in s THEN step[m][f[s \ {m}]] ELSE f[s]]
  <2>4. \A s \in SUBSET (1..m) : s \ {m} \in SUBSET (1..m-1) /\ (m \notin s => s \in SUBSET (1..m-1))
    BY <2>1
  <2>5. g \in [SUBSET (1..m) -> A]
    BY <2>1, <2>4
  <2>6. ASSUME NEW s \in SUBSET (1..m)
        PROVE  g[s] = IF s = {} THEN base ELSE step[Max(s)][g[s \ {Max(s)}]]
    <3>1. CASE m \in s
      <4>1. Max(s) = m
        <5>1. Max(s) \in s /\ \A x \in s : x <= Max(s)
          BY <2>0, <3>1, MaxOfSome
        <5>2. Max(s) \in 1..m /\ m <= Max(s)
          BY <3>1, <5>1
        <5> QED BY <2>0, <5>2
      <4>2. g[s \ {m}] = f[s \ {m}]
        OBVIOUS
      <4> QED BY <3>1, <4>1, <4>2
    <3>2. CASE m \notin s /\ s # {}
      <4>1. s \in SUBSET (1..m-1)
        BY <2>4, <3>2
      <4>2. Max(s) \in s
        BY <2>0, <3>2, MaxOfSome
      <4>3. f[s] = step[Max(s)][f[s \ {Max(s)}]]
        BY <2>3, <3>2, <4>1 DEF Walks
      <4>4. g[s] = f[s] /\ g[s \ {Max(s)}] = f[s \ {Max(s)}]
        BY <3>2
      <4> QED BY <3>2, <4>3, <4>4
    <3>3. CASE s = {}
      <4>1. s \in SUBSET (1..m-1) /\ m \notin s
        BY <3>3
      <4>2. f[s] = base
        BY <2>3, <3>3, <4>1 DEF Walks
      <4> QED BY <3>3, <4>1, <4>2
    <3> QED BY <3>1, <3>2, <3>3
  <2>7. Walks(base, m, step, g)
    <3> HIDE DEF g
    <3> QED BY <2>6 DEF Walks
  <2> HIDE DEF g
  <2> QED BY <1>2, <2>5, <2>7
<1> QED BY <1>3, <1>4

\* What is accumulated after each of the first n elements.
Traces(A, base, n, step, g) ==
    g \in [0..n -> A] /\ g[0] = base /\ \A k \in 1..n : g[k] = step[k][g[k-1]]

\* h goes from the first k - 1 positions to the first k by a step, if it is in A there.
Goes(A, n, step, h) == \A k \in 1..n : h[1..k-1] \in A => h[1..k] = step[k][h[1..k-1]]

\* What a walk has after each position, one after the other.
LEMMA WalkSteps ==
    ASSUME NEW A, NEW base \in A, NEW n \in Nat, NEW step \in [1..n -> [A -> A]],
           NEW h, h[{}] = base, Goes(A, n, step, h)
    PROVE  \E g : Traces(A, base, n, step, g) /\ g[n] = h[1..n]
<1> DEFINE Bad == {k \in 0..n : h[1..k] \notin A}
           g == [k \in 0..n |-> h[1..k]]
<1>1. h[1..0] = base
  <2>1. 1..0 = {}
    OBVIOUS
  <2> QED BY <2>1
<1>2. Bad = {}
  <2> SUFFICES ASSUME Bad # {} PROVE FALSE
    OBVIOUS
  <2>1. PICK k \in Bad : \A m \in Bad : k <= m
    <3>1. Bad \subseteq Nat
      OBVIOUS
    <3> HIDE DEF Bad
    <3> QED BY <3>1, LeastOf
  <2>2. k \in 0..n /\ h[1..k] \notin A /\ k # 0
    BY <1>1
  <2>3. k - 1 \in 0..n /\ k \in 1..n /\ k - 1 \notin Bad
    BY <2>1, <2>2
  <2>4. h[1..k-1] \in A
    BY <2>3
  <2>5. h[1..k] = step[k][h[1..k-1]]
    BY <2>3, <2>4 DEF Goes
  <2> QED BY <2>2, <2>3, <2>4, <2>5
<1>3. g \in [0..n -> A]
  BY <1>2
<1>4. \A k \in 1..n : g[k] = step[k][g[k-1]]
  <2> SUFFICES ASSUME NEW k \in 1..n PROVE g[k] = step[k][g[k-1]]
    OBVIOUS
  <2>1. k - 1 \in 0..n /\ k \in 0..n
    OBVIOUS
  <2> QED BY <2>1, <1>2 DEF Goes
<1>5. g[0] = base /\ g[n] = h[1..n]
  BY <1>1
<1> HIDE DEF g
<1> QED BY <1>3, <1>4, <1>5 DEF Traces

\* h follows step from one set of positions to the next as long as it stays in A.
Follows(A, n, step, h) ==
    \A x \in SUBSET (1..n) : x # {} /\ h[x \ {Max(x)}] \in A =>
                                h[x] = step[Max(x)][h[x \ {Max(x)}]]

\* The first k positions, the last of which is k.
LEMMA FirstPositions ==
    ASSUME NEW n \in Nat, NEW k \in 1..n
    PROVE  1..k \in SUBSET (1..n) /\ 1..k # {} /\ Max(1..k) = k /\ (1..k) \ {k} = 1..k-1
<1>1. 1..k \in SUBSET (1..n) /\ k \in 1..k
  OBVIOUS
<1>2. Max(1..k) \in 1..k /\ k <= Max(1..k)
  BY <1>1, MaxOfSome
<1> QED BY <1>1, <1>2

\* h goes from base through n steps in A: it is what the definition of a fold chooses.
Folds(A, base, n, step, h) ==
    /\ base \in A /\ n \in Nat /\ step \in [1..n -> [A -> A]]
    /\ h[{}] = base /\ Follows(A, n, step, h)

\* A fold over a list of n elements goes through them one after the other.
LEMMA FoldSteps ==
    ASSUME NEW A, NEW base, NEW n, NEW step, NEW h, Folds(A, base, n, step, h)
    PROVE  \E g : Traces(A, base, n, step, g) /\ g[n] = h[1..n]
<1>0. base \in A /\ n \in Nat /\ step \in [1..n -> [A -> A]] /\ h[{}] = base /\ Follows(A, n, step, h)
  BY DEF Folds
<1>1. ASSUME NEW k \in 1..n, h[1..k-1] \in A PROVE h[1..k] = step[k][h[1..k-1]]
  <2>1. 1..k \in SUBSET (1..n) /\ 1..k # {} /\ Max(1..k) = k /\ (1..k) \ {k} = 1..k-1
    BY <1>0, FirstPositions
  <2> QED BY <1>0, <1>1, <2>1 DEF Follows
<1>2. Goes(A, n, step, h)
  BY <1>1 DEF Goes
<1> QED BY <1>0, <1>2, WalkSteps

\* Where the greatest of some positions is.
LEMMA MaxIsIn ==
    ASSUME NEW n \in Nat, NEW x \in SUBSET (1..n), x # {}
    PROVE  Max(x) \in 1..n /\ x \ {Max(x)} \in SUBSET (1..n)
BY MaxOfSome

\* A dimension has some values.
LEMMA SizeIsPositive == \A d \in Dim : Size(d) \in Nat \ {0}
<1> SUFFICES ASSUME NEW d \in Dim PROVE Size(d) \in Nat \ {0}
  OBVIOUS
<1>1. Dims[d].capacity \in Nat /\ Dims[d].values \in Seq(Range(Dims[d].values))
      /\ ((Dims[d].values = <<>>) <=> IsDynamic(d))
  BY SchemaAssumption
<1>2. CASE IsDynamic(d)
  BY <1>1, <1>2 DEF Size, IsDynamic
<1>3. CASE ~ IsDynamic(d)
  <2> DEFINE S == Range(Dims[d].values)
  <2>1. Dims[d].values # <<>> /\ Dims[d].values \in Seq(S)
    BY <1>1, <1>3
  <2>2. Len(Dims[d].values) \in Nat \ {0}
    <3> HIDE DEF S
    <3> QED BY <2>1, EmptySeq
  <2> QED BY <2>2, <1>3 DEF Size
<1> QED BY <1>2, <1>3

\* A stride is a product of sizes.
LEMMA StrideFold ==
    ASSUME NEW s \in Seq(Dim)
    PROVE  \E g \in [0..Len(s) -> Nat] :
              /\ g[0] = 1
              /\ \A k \in 1..Len(s) : g[k] = g[k-1] * Size(s[k])
              /\ g[Len(s)] = FoldLeft(LAMBDA acc, d : acc * Size(d), 1, s)
<1> DEFINE A == Nat
           base == 1
           n == Len(s)
           step == [k \in 1..n |-> [a \in A |-> a * Size(s[k])]]
           Is(i) == i = [x \in SUBSET (1..n) |->
                            IF x = {} THEN base ELSE i[x \ {Max(x)}] * Size(s[Max(x)])]
           h == CHOOSE i : Is(i)
<1>1. n \in Nat /\ DOMAIN s = 1..n /\ \A k \in 1..n : s[k] \in Dim
  OBVIOUS
<1>2. base \in A /\ \A k \in 1..n : \A a \in A : a * Size(s[k]) \in A
  BY <1>1, SizeIsPositive
<1>3. step \in [1..n -> [A -> A]]
  <2> HIDE DEF n, A
  <2> QED BY <1>2
<1>4. PICK f \in [SUBSET (1..n) -> A] : Walks(base, n, step, f)
  <2> HIDE DEF A, base, n, step
  <2> QED BY <1>1, <1>2, <1>3, WalkExists
<1>5. \A x \in SUBSET (1..n) : x # {} => Max(x) \in 1..n /\ x \ {Max(x)} \in SUBSET (1..n)
  <2> HIDE DEF n
  <2> QED BY <1>1, MaxIsIn
<1>6. Is(f)
  <2>1. ASSUME NEW x \in SUBSET (1..n), x # {} PROVE f[x] = f[x \ {Max(x)}] * Size(s[Max(x)])
    <3> DEFINE m == Max(x)
    <3> HIDE DEF A, n, m
    <3>1. m \in 1..n /\ f[x \ {m}] \in A
      BY <1>5, <2>1 DEF m
    <3>2. f[x] = step[m][f[x \ {m}]]
      <4> HIDE DEF step, base
      <4> QED BY <1>4, <2>1 DEF Walks, m
    <3>3. f[x] = f[x \ {m}] * Size(s[m])
      BY <3>1, <3>2
    <3> QED BY <3>3 DEF m
  <2>2. f[{}] = base
    <3> HIDE DEF A, n, step, base
    <3> QED BY <1>4 DEF Walks
  <2> HIDE DEF A, n, base
  <2> QED BY <2>1, <2>2
<1>7. Is(h)
  <2> HIDE DEF Is
  <2> QED BY <1>6
<1>8. FoldLeft(LAMBDA acc, d : acc * Size(d), 1, s) = h[1..n]
  <2> HIDE DEF n
  <2> QED BY <1>1 DEF FoldLeft, MapThenFoldSet
<1>9. h[{}] = base /\ Follows(A, n, step, h)
  <2>1. h[{}] = base /\ \A x \in SUBSET (1..n) : x # {} => h[x] = h[x \ {Max(x)}] * Size(s[Max(x)])
    <3> HIDE DEF h, n, A, base
    <3> QED BY <1>7
  <2>2. ASSUME NEW x \in SUBSET (1..n), x # {}, h[x \ {Max(x)}] \in A
        PROVE  h[x] = step[Max(x)][h[x \ {Max(x)}]]
    <3> HIDE DEF h, n, A, base
    <3> QED BY <1>5, <2>1, <2>2
  <2> HIDE DEF h, n, A, base, step
  <2> QED BY <2>1, <2>2 DEF Follows
<1>10. PICK g : Traces(A, base, n, step, g) /\ g[n] = h[1..n]
  <2>1. n \in Nat /\ base \in A
    BY <1>1, <1>2
  <2> HIDE DEF h, n, step, A, base
  <2>2. Folds(A, base, n, step, h)
    BY <1>3, <1>9, <2>1 DEF Folds
  <2> QED BY <2>2, FoldSteps
<1>11. g \in [0..n -> A] /\ g[0] = base /\ \A k \in 1..n : g[k] = g[k-1] * Size(s[k])
  <2> HIDE DEF n, A, base
  <2>1. \A k \in 1..n : g[k] = step[k][g[k-1]] /\ g[k-1] \in A
    <3> HIDE DEF step
    <3> QED BY <1>1, <1>10 DEF Traces
  <2>2. g \in [0..n -> A] /\ g[0] = base
    <3> HIDE DEF step
    <3> QED BY <1>10 DEF Traces
  <2> QED BY <2>1, <2>2
<1> HIDE DEF h, step
<1> QED BY <1>8, <1>10, <1>11

-----------------------------------------------------------------------------
(* Numbers in a mixed radix *)

LEMMA Dividing ==
    ASSUME NEW w \in Nat, NEW r \in 0..w-1, NEW s \in 0..w-1, NEW a \in Nat, NEW b \in Nat,
           r + a * w = s + b * w
    PROVE  a = b /\ r = s
<1>1. ASSUME NEW x \in Nat, NEW y \in Nat, x < y PROVE y * w >= x * w + w
  <2>1. PICK d \in Nat : y = x + 1 + d
    <3>1. y - x - 1 \in Nat /\ y = x + 1 + (y - x - 1)
      BY <1>1
    <3> QED BY <3>1
  <2>2. y * w = x * w + w + d * w
    BY <2>1
  <2>3. d * w \in Nat
    OBVIOUS
  <2> HIDE <2>1
  <2> QED BY <2>2, <2>3
<1>2. a * w \in Nat /\ b * w \in Nat
  OBVIOUS
<1>3. ~ (a < b)
  <2> SUFFICES ASSUME a < b PROVE FALSE
    OBVIOUS
  <2>1. b * w >= a * w + w
    BY <1>1
  <2> QED BY <1>2, <2>1
<1>4. ~ (b < a)
  <2> SUFFICES ASSUME b < a PROVE FALSE
    OBVIOUS
  <2>1. a * w >= b * w + w
    BY <1>1
  <2> QED BY <1>2, <2>1
<1>5. a = b
  BY <1>3, <1>4
<1> QED BY <1>2, <1>5

\* A product of numbers above zero is above zero.
LEMMA ProductPositive ==
    ASSUME NEW n \in Nat, NEW z, \A k \in 1..n : z[k] \in Nat \ {0},
           NEW g \in [0..n -> Nat], g[0] = 1, \A k \in 1..n : g[k] = g[k-1] * z[k]
    PROVE  g[n] # 0
<1> DEFINE Bad == {k \in 0..n : g[k] = 0}
<1>1. Bad = {}
  <2> SUFFICES ASSUME Bad # {} PROVE FALSE
    OBVIOUS
  <2>1. PICK k \in Bad : \A m \in Bad : k <= m
    <3>1. Bad \subseteq Nat
      OBVIOUS
    <3> HIDE DEF Bad
    <3> QED BY <3>1, LeastOf
  <2>2. k \in 0..n /\ g[k] = 0 /\ k # 0
    OBVIOUS
  <2>3. k \in 1..n /\ k - 1 \in 0..n /\ k - 1 \notin Bad
    BY <2>1, <2>2
  <2>4. g[k-1] \in Nat \ {0} /\ z[k] \in Nat \ {0} /\ g[k] = g[k-1] * z[k]
    BY <2>3
  <2>5. \A x, y \in Nat \ {0} : x * y # 0
    OBVIOUS
  <2> QED BY <2>2, <2>4, <2>5
<1> QED BY <1>1

\* A product is its first factor times that of the others.
LEMMA ProductFirst ==
    ASSUME NEW n \in Nat \ {0}, NEW z, \A k \in 1..n : z[k] \in Nat,
           NEW g \in [0..n -> Nat], g[0] = 1, \A k \in 1..n : g[k] = g[k-1] * z[k],
           NEW h \in [0..n-1 -> Nat], h[0] = 1, \A k \in 1..n-1 : h[k] = h[k-1] * z[k+1]
    PROVE  g[n] = z[1] * h[n-1]
<1> DEFINE Bad == {k \in 1..n : g[k] # z[1] * h[k-1]}
<1>1. Bad = {}
  <2> SUFFICES ASSUME Bad # {} PROVE FALSE
    OBVIOUS
  <2>1. PICK k \in Bad : \A m \in Bad : k <= m
    <3>1. Bad \subseteq Nat
      OBVIOUS
    <3> HIDE DEF Bad
    <3> QED BY <3>1, LeastOf
  <2>2. k \in 1..n /\ g[k] # z[1] * h[k-1]
    OBVIOUS
  <2>3. CASE k = 1
    <3>1. g[1] = g[0] * z[1] /\ z[1] \in Nat
      BY <2>2, <2>3
    <3> QED BY <2>2, <2>3, <3>1
  <2>4. CASE k # 1
    <3>1. k - 1 \in 1..n-1 /\ k - 1 \in 1..n /\ k - 1 \notin Bad
      BY <2>1, <2>2, <2>4
    <3>2. g[k-1] = z[1] * h[k-2]
      BY <3>1
    <3>3. g[k] = g[k-1] * z[k] /\ h[k-1] = h[k-2] * z[k]
      <4>1. h[k-1] = h[k-1-1] * z[k-1+1]
        BY <3>1
      <4> QED BY <2>2, <4>1
    <3>4. z[1] \in Nat /\ z[k] \in Nat /\ h[k-2] \in Nat
      <4>1. k - 2 \in 0..n-1 /\ 1 \in 1..n
        BY <3>1
      <4> QED BY <2>2, <4>1
    <3>5. \A x, y, t \in Nat : (x * y) * t = x * (y * t)
      OBVIOUS
    <3>6. (z[1] * h[k-2]) * z[k] = z[1] * (h[k-2] * z[k])
      BY <3>4, <3>5
    <3>7. g[k] = z[1] * h[k-1]
      BY <3>2, <3>3, <3>6
    <3> QED BY <2>2, <3>7
  <2> QED BY <2>3, <2>4
<1>2. n \in 1..n
  OBVIOUS
<1>3. n \notin Bad
  <2> HIDE DEF Bad
  <2> QED BY <1>1
<1> QED BY <1>2, <1>3

\* Digits a, each below the size z of its place; w is what each place is worth, and g
\* what the first digits come to.
Digits(n, z, w, a, g) ==
    /\ \A k \in 1..n : z[k] \in Nat /\ a[k] \in Nat /\ a[k] < z[k]
    /\ \A k \in 0..n : w[k] \in Nat /\ g[k] \in Nat
    /\ w[n] = 1
    /\ \A k \in 1..n : w[k-1] = z[k] * w[k]
    /\ g[0] = 0
    /\ \A k \in 1..n : g[k] = g[k-1] + a[k] * w[k]

\* The digits that are left come to less than the last place counted is worth.
LEMMA DigitsLeft ==
    ASSUME NEW n \in Nat, NEW z, NEW w, NEW a, NEW g, Digits(n, z, w, a, g)
    PROVE  \A k \in 0..n : g[n] - g[k] \in 0..w[k]-1
<1> DEFINE Bad == {m \in 0..n : ~ (g[n] - g[n-m] \in 0..w[n-m]-1)}
<1>1. Bad = {}
  <2> SUFFICES ASSUME Bad # {} PROVE FALSE
    OBVIOUS
  <2>1. PICK m \in Bad : \A x \in Bad : m <= x
    <3>1. Bad \subseteq Nat
      OBVIOUS
    <3> HIDE DEF Bad
    <3> QED BY <3>1, LeastOf
  <2>2. m \in 0..n /\ ~ (g[n] - g[n-m] \in 0..w[n-m]-1)
    OBVIOUS
  <2>3. CASE m = 0
    <3>1. n - m = n /\ g[n] \in Nat /\ w[n] = 1
      BY <2>3 DEF Digits
    <3> QED BY <2>2, <3>1
  <2>4. CASE m # 0
    <3> DEFINE k == n - m + 1
    <3>1. k \in 1..n /\ k - 1 \in 0..n /\ k \in 0..n /\ n - m = k - 1 /\ n - (m - 1) = k
          /\ m - 1 \in 0..n
      BY <2>2, <2>4
    <3>2. m - 1 \notin Bad
      <4>1. ~ (m <= m - 1)
        BY <2>2
      <4> QED BY <2>1, <4>1
    <3>3. g[n] - g[k] \in 0..w[k]-1
      <4> HIDE DEF k
      <4> QED BY <3>1, <3>2
    <3> HIDE DEF k
    <3>4. g[k] = g[k-1] + a[k] * w[k] /\ w[k-1] = z[k] * w[k]
      BY <3>1 DEF Digits
    <3>5. w[k] \in Nat /\ g[k] \in Nat /\ g[k-1] \in Nat /\ w[k-1] \in Nat /\ g[n] \in Nat
      BY <3>1 DEF Digits
    <3>6. z[k] \in Nat /\ a[k] \in Nat /\ a[k] < z[k]
      BY <3>1 DEF Digits
    <3>7. \A y, x, t \in Nat : x < y => y * t >= x * t + t
      <4> SUFFICES ASSUME NEW y \in Nat, NEW x \in Nat, NEW t \in Nat, x < y
                   PROVE  y * t >= x * t + t
        OBVIOUS
      <4>1. y - x - 1 \in Nat
        OBVIOUS
      <4>2. PICK d \in Nat : y = x + 1 + d
        <5>1. y = x + 1 + (y - x - 1)
          OBVIOUS
        <5> QED BY <4>1, <5>1
      <4>3. y * t = x * t + t + d * t /\ d * t \in Nat /\ x * t \in Nat
        BY <4>2
      <4> HIDE <4>2
      <4> QED BY <4>3
    <3>8. w[k-1] >= a[k] * w[k] + w[k] /\ a[k] * w[k] \in Nat
      <4>1. z[k] * w[k] >= a[k] * w[k] + w[k]
        BY <3>5, <3>6, <3>7
      <4>2. a[k] * w[k] \in Nat
        BY <3>5, <3>6
      <4> QED BY <3>4, <4>1, <4>2
    <3>9. g[n] - g[k-1] \in 0..w[k-1]-1
      BY <3>3, <3>4, <3>5, <3>8
    <3> QED BY <2>2, <3>1, <3>9
  <2> QED BY <2>3, <2>4
<1> SUFFICES ASSUME NEW k \in 0..n PROVE g[n] - g[k] \in 0..w[k]-1
  OBVIOUS
<1>2. n - k \in 0..n /\ n - (n - k) = k /\ n - k \notin Bad
  BY <1>1
<1> QED BY <1>2

\* Two numbers that are the same have the same digits.
LEMMA DigitsAgree ==
    ASSUME NEW n \in Nat, NEW z, NEW w, NEW a, NEW g, Digits(n, z, w, a, g),
           NEW b, NEW h, Digits(n, z, w, b, h), g[n] = h[n]
    PROVE  \A k \in 1..n : a[k] = b[k]
<1> DEFINE Bad == {m \in 1..n : ~ (g[m] = h[m] /\ a[m] = b[m])}
<1>1. Bad = {}
  <2> SUFFICES ASSUME Bad # {} PROVE FALSE
    OBVIOUS
  <2>1. PICK k \in Bad : \A x \in Bad : k <= x
    <3>1. Bad \subseteq Nat
      OBVIOUS
    <3> HIDE DEF Bad
    <3> QED BY <3>1, LeastOf
  <2>2. k \in 1..n /\ ~ (g[k] = h[k] /\ a[k] = b[k]) /\ k - 1 \in 0..n /\ k \in 0..n
    OBVIOUS
  <2>3. g[k-1] = h[k-1]
    <3>1. CASE k = 1
      <4>1. g[0] = 0 /\ h[0] = 0
        BY DEF Digits
      <4> QED BY <3>1, <4>1
    <3>2. CASE k # 1
      <4>1. k - 1 \in 1..n /\ ~ (k <= k - 1)
        BY <2>2, <3>2
      <4>2. k - 1 \notin Bad
        BY <2>1, <4>1
      <4> QED BY <4>1, <4>2
    <3> QED BY <3>1, <3>2
  <2>4. g[n] - g[k] \in 0..w[k]-1 /\ h[n] - h[k] \in 0..w[k]-1
    BY <2>2, DigitsLeft
  <2>5. g[k] = g[k-1] + a[k] * w[k] /\ h[k] = h[k-1] + b[k] * w[k]
    BY <2>2 DEF Digits
  <2>6. w[k] \in Nat /\ a[k] \in Nat /\ b[k] \in Nat
    BY <2>2 DEF Digits
  <2>7. g[k] \in Nat /\ g[k-1] \in Nat /\ h[k] \in Nat /\ h[k-1] \in Nat /\ g[n] \in Nat /\ h[n] \in Nat
    BY <2>2 DEF Digits
  <2> DEFINE r == g[n] - g[k]
             s == h[n] - h[k]
  <2>8. r + a[k] * w[k] = s + b[k] * w[k]
    <3>1. a[k] * w[k] \in Nat /\ b[k] * w[k] \in Nat
      BY <2>6
    <3> QED BY <2>3, <2>5, <2>7, <3>1
  <2>9. a[k] = b[k] /\ r = s
    <3> HIDE DEF r, s
    <3> QED BY <2>4, <2>6, <2>8, Dividing DEF r, s
  <2> QED BY <2>2, <2>3, <2>5, <2>9
<1> SUFFICES ASSUME NEW k \in 1..n PROVE a[k] = b[k]
  OBVIOUS
<1> QED BY <1>1

-----------------------------------------------------------------------------
(* Cells are numbers of their own *)

LEMMA StrideType ==
    ASSUME NEW s \in Seq(Dim), NEW k \in 0..Len(s)
    PROVE  Stride(s, k) \in Nat \ {0}
<1> DEFINE u == SubSeq(s, k + 1, Len(s))
           n == Len(u)
           z == [j \in 1..n |-> Size(u[j])]
<1>1. u \in Seq(Dim)
  BY SubSeqProperties
<1>2. PICK g \in [0..Len(u) -> Nat] :
         /\ g[0] = 1
         /\ \A j \in 1..Len(u) : g[j] = g[j-1] * Size(u[j])
         /\ g[Len(u)] = FoldLeft(LAMBDA acc, d : acc * Size(d), 1, u)
  <2> HIDE DEF u
  <2> QED BY <1>1, StrideFold
<1>3. n \in Nat /\ \A j \in 1..n : z[j] \in Nat \ {0} /\ g[j] = g[j-1] * z[j]
  <2> HIDE DEF u
  <2>1. n \in Nat /\ \A j \in 1..n : u[j] \in Dim
    BY <1>1
  <2> QED BY <1>2, <2>1, SizeIsPositive
<1>4. g[n] # 0
  <2> HIDE DEF z, u
  <2>1. g \in [0..n -> Nat] /\ g[0] = 1
    BY <1>2
  <2> HIDE DEF n
  <2> QED BY <1>3, <2>1, ProductPositive
<1>5. Stride(s, k) = g[n]
  BY <1>2 DEF Stride
<1>6. g[n] \in Nat
  <2>1. n \in 0..n
    <3> HIDE DEF n
    <3> QED BY <1>3
  <2> HIDE DEF u
  <2> QED BY <1>2, <2>1
<1> HIDE DEF n
<1> QED BY <1>4, <1>5, <1>6

\* Each place is worth the size of the next times what that is worth; the last is
\* worth one.
LEMMA StrideNext ==
    ASSUME NEW s \in Seq(Dim)
    PROVE  /\ Stride(s, Len(s)) = 1
           /\ \A k \in 1..Len(s) : Stride(s, k - 1) = Size(s[k]) * Stride(s, k)
<1>1. Stride(s, Len(s)) = 1
  <2> DEFINE u == SubSeq(s, Len(s) + 1, Len(s))
  <2>1. u \in Seq(Dim) /\ Len(u) = 0
    BY SubSeqProperties
  <2>2. \E g \in [0..Len(u) -> Nat] :
           g[0] = 1 /\ g[Len(u)] = FoldLeft(LAMBDA acc, d : acc * Size(d), 1, u)
    <3> HIDE DEF u
    <3> QED BY <2>1, StrideFold
  <2> QED BY <2>1, <2>2 DEF Stride
<1>2. ASSUME NEW k \in 1..Len(s) PROVE Stride(s, k - 1) = Size(s[k]) * Stride(s, k)
  <2> DEFINE u == SubSeq(s, k, Len(s))
             v == SubSeq(s, k + 1, Len(s))
             n == Len(s) - k + 1
             z == [j \in 1..n |-> Size(u[j])]
  <2>0. n \in Nat \ {0} /\ Len(s) \in Nat /\ k \in Int
    OBVIOUS
  <2>1. u \in Seq(Dim) /\ Len(u) = n /\ \A j \in 1..n : u[j] = s[k+j-1] /\ u[j] \in Dim
    <3>1. \A i \in k..Len(s) : s[i] \in Dim
      OBVIOUS
    <3>2. u \in Seq(Dim) /\ Len(u) = n /\ \A j \in 1..n : u[j] = s[k+j-1]
      BY <2>0, <3>1, SubSeqProperties
    <3> HIDE DEF u, n
    <3>3. \A j \in 1..Len(u) : u[j] \in Dim
      BY <3>2
    <3> QED BY <3>2, <3>3
  <2>2. v \in Seq(Dim) /\ Len(v) = n - 1 /\ \A j \in 1..n-1 : v[j] = s[k+1+j-1]
    <3>1. \A i \in k+1..Len(s) : s[i] \in Dim
      OBVIOUS
    <3> QED BY <2>0, <3>1, SubSeqProperties
  <2>3. PICK g \in [0..n -> Nat] :
           /\ g[0] = 1
           /\ \A j \in 1..n : g[j] = g[j-1] * Size(u[j])
           /\ g[n] = FoldLeft(LAMBDA acc, d : acc * Size(d), 1, u)
    <3> HIDE DEF u, n
    <3> QED BY <2>1, StrideFold
  <2>4. PICK h \in [0..n-1 -> Nat] :
           /\ h[0] = 1
           /\ \A j \in 1..n-1 : h[j] = h[j-1] * Size(v[j])
           /\ h[n-1] = FoldLeft(LAMBDA acc, d : acc * Size(d), 1, v)
    <3> HIDE DEF v, n
    <3> QED BY <2>2, StrideFold
  <2>5. \A j \in 1..n-1 : v[j] = u[j+1]
    <3> HIDE DEF u, v
    <3> QED BY <2>1, <2>2
  <2>6. /\ \A j \in 1..n : z[j] \in Nat /\ g[j] = g[j-1] * z[j]
        /\ \A j \in 1..n-1 : h[j] = h[j-1] * z[j+1]
    <3> HIDE DEF u, v, n
    <3>1. \A j \in 1..n : z[j] \in Nat /\ g[j] = g[j-1] * z[j]
      BY <2>1, <2>3, SizeIsPositive
    <3>2. \A j \in 1..n-1 : j + 1 \in 1..n
      BY <2>0
    <3>3. \A j \in 1..n-1 : z[j+1] = Size(u[j+1])
      BY <3>2
    <3> HIDE DEF z
    <3> QED BY <2>4, <2>5, <3>1, <3>3
  <2>7. g[n] = z[1] * h[n-1]
    <3> HIDE DEF z, u, v, n
    <3> QED BY <2>0, <2>3, <2>4, <2>6, ProductFirst
  <2>8. z[1] = Size(s[k])
    <3> HIDE DEF u
    <3> QED BY <2>0, <2>1
  <2>9. Stride(s, k - 1) = g[n] /\ Stride(s, k) = h[n-1]
    <3>1. k - 1 + 1 = k
      OBVIOUS
    <3> QED BY <2>3, <2>4, <3>1 DEF Stride
  <2> HIDE DEF z
  <2> QED BY <2>7, <2>8, <2>9
<1> QED BY <1>1, <1>2

LEMMA SpanType == \A s \in Seq(Dim) : Span(s) \in Nat \ {0}
BY StrideType DEF Span

\* What the shapes s span.
Blocks(s) == FoldLeft(LAMBDA acc, sh : acc + Span(sh), 0, s)

\* Where a block begins is a sum of spans.
LEMMA BaseFold ==
    ASSUME NEW s \in Seq(Seq(Dim))
    PROVE  \E g \in [0..Len(s) -> Nat] :
              /\ g[0] = 0
              /\ \A k \in 1..Len(s) : g[k] = g[k-1] + Span(s[k])
              /\ g[Len(s)] = Blocks(s)
<1> DEFINE A == Nat
           base == 0
           n == Len(s)
           step == [k \in 1..n |-> [a \in A |-> a + Span(s[k])]]
           Is(i) == i = [x \in SUBSET (1..n) |->
                            IF x = {} THEN base ELSE i[x \ {Max(x)}] + Span(s[Max(x)])]
           h == CHOOSE i : Is(i)
<1>1. n \in Nat /\ DOMAIN s = 1..n /\ \A k \in 1..n : s[k] \in Seq(Dim)
  OBVIOUS
<1>2. base \in A /\ \A k \in 1..n : \A a \in A : a + Span(s[k]) \in A
  BY <1>1, SpanType
<1>3. step \in [1..n -> [A -> A]]
  <2> HIDE DEF n, A
  <2> QED BY <1>2
<1>4. PICK f \in [SUBSET (1..n) -> A] : Walks(base, n, step, f)
  <2> HIDE DEF A, base, n, step
  <2> QED BY <1>1, <1>2, <1>3, WalkExists
<1>5. \A x \in SUBSET (1..n) : x # {} => Max(x) \in 1..n /\ x \ {Max(x)} \in SUBSET (1..n)
  <2> HIDE DEF n
  <2> QED BY <1>1, MaxIsIn
<1>6. Is(f)
  <2>1. ASSUME NEW x \in SUBSET (1..n), x # {} PROVE f[x] = f[x \ {Max(x)}] + Span(s[Max(x)])
    <3> DEFINE m == Max(x)
    <3> HIDE DEF A, n, m
    <3>1. m \in 1..n /\ f[x \ {m}] \in A
      BY <1>5, <2>1 DEF m
    <3>2. f[x] = step[m][f[x \ {m}]]
      <4> HIDE DEF step, base
      <4> QED BY <1>4, <2>1 DEF Walks, m
    <3>3. f[x] = f[x \ {m}] + Span(s[m])
      BY <3>1, <3>2
    <3> QED BY <3>3 DEF m
  <2>2. f[{}] = base
    <3> HIDE DEF A, n, step, base
    <3> QED BY <1>4 DEF Walks
  <2> HIDE DEF A, n, base
  <2> QED BY <2>1, <2>2
<1>7. Is(h)
  <2> HIDE DEF Is
  <2> QED BY <1>6
<1>8. Blocks(s) = h[1..n]
  <2> HIDE DEF n
  <2> QED BY <1>1 DEF FoldLeft, MapThenFoldSet, Blocks
<1>9. h[{}] = base /\ Follows(A, n, step, h)
  <2>1. h[{}] = base /\ \A x \in SUBSET (1..n) : x # {} => h[x] = h[x \ {Max(x)}] + Span(s[Max(x)])
    <3> HIDE DEF h, n, A, base
    <3> QED BY <1>7
  <2>2. ASSUME NEW x \in SUBSET (1..n), x # {}, h[x \ {Max(x)}] \in A
        PROVE  h[x] = step[Max(x)][h[x \ {Max(x)}]]
    <3> HIDE DEF h, n, A, base
    <3> QED BY <1>5, <2>1, <2>2
  <2> HIDE DEF h, n, A, base, step
  <2> QED BY <2>1, <2>2 DEF Follows
<1>10. PICK g : Traces(A, base, n, step, g) /\ g[n] = h[1..n]
  <2>1. n \in Nat /\ base \in A
    BY <1>1, <1>2
  <2> HIDE DEF h, n, step, A, base
  <2>2. Folds(A, base, n, step, h)
    BY <1>3, <1>9, <2>1 DEF Folds
  <2> QED BY <2>2, FoldSteps
<1>11. g \in [0..n -> A] /\ g[0] = base /\ \A k \in 1..n : g[k] = g[k-1] + Span(s[k])
  <2> HIDE DEF n, A, base
  <2>1. \A k \in 1..n : g[k] = step[k][g[k-1]] /\ g[k-1] \in A
    <3> HIDE DEF step
    <3> QED BY <1>1, <1>10 DEF Traces
  <2>2. g \in [0..n -> A] /\ g[0] = base
    <3> HIDE DEF step
    <3> QED BY <1>10 DEF Traces
  <2> QED BY <2>1, <2>2
<1> HIDE DEF h, step
<1> QED BY <1>8, <1>10, <1>11

\* What each digit comes to is a number.
Counts(sh, slot, s) == \A k \in 1..Len(s) : slot[sh[s[k]]] * Stride(sh, s[k]) \in Nat

\* What the places s of a shape come to.
Offset(sh, slot, s) == FoldLeft(LAMBDA acc, j : acc + slot[sh[j]] * Stride(sh, j), 0, s)

\* A place in a block is a sum over the dimensions of the shape.
LEMMA CellFold ==
    ASSUME NEW sh, NEW slot, NEW s \in Seq(Nat), Counts(sh, slot, s)
    PROVE  \E g \in [0..Len(s) -> Nat] :
              /\ g[0] = 0
              /\ \A k \in 1..Len(s) : g[k] = g[k-1] + slot[sh[s[k]]] * Stride(sh, s[k])
              /\ g[Len(s)] = Offset(sh, slot, s)
<1> DEFINE A == Nat
           base == 0
           n == Len(s)
           step == [k \in 1..n |-> [a \in A |-> a + slot[sh[s[k]]] * Stride(sh, s[k])]]
           Is(i) == i = [x \in SUBSET (1..n) |->
                            IF x = {} THEN base ELSE i[x \ {Max(x)}] + slot[sh[s[Max(x)]]] * Stride(sh, s[Max(x)])]
           h == CHOOSE i : Is(i)
<1>1. n \in Nat /\ DOMAIN s = 1..n /\ \A k \in 1..n : s[k] \in Nat
  OBVIOUS
<1>2. base \in A /\ \A k \in 1..n : \A a \in A : a + slot[sh[s[k]]] * Stride(sh, s[k]) \in A
  <2>1. \A x \in Nat : \A a \in Nat : a + x \in Nat
    OBVIOUS
  <2> QED BY <2>1 DEF Counts
<1>3. step \in [1..n -> [A -> A]]
  <2> HIDE DEF n, A
  <2> QED BY <1>2
<1>4. PICK f \in [SUBSET (1..n) -> A] : Walks(base, n, step, f)
  <2> HIDE DEF A, base, n, step
  <2> QED BY <1>1, <1>2, <1>3, WalkExists
<1>5. \A x \in SUBSET (1..n) : x # {} => Max(x) \in 1..n /\ x \ {Max(x)} \in SUBSET (1..n)
  <2> HIDE DEF n
  <2> QED BY <1>1, MaxIsIn
<1>6. Is(f)
  <2>1. ASSUME NEW x \in SUBSET (1..n), x # {} PROVE f[x] = f[x \ {Max(x)}] + slot[sh[s[Max(x)]]] * Stride(sh, s[Max(x)])
    <3> DEFINE m == Max(x)
    <3> HIDE DEF A, n, m
    <3>1. m \in 1..n /\ f[x \ {m}] \in A
      BY <1>5, <2>1 DEF m
    <3>2. f[x] = step[m][f[x \ {m}]]
      <4> HIDE DEF step, base
      <4> QED BY <1>4, <2>1 DEF Walks, m
    <3>3. f[x] = f[x \ {m}] + slot[sh[s[m]]] * Stride(sh, s[m])
      BY <3>1, <3>2
    <3> QED BY <3>3 DEF m
  <2>2. f[{}] = base
    <3> HIDE DEF A, n, step, base
    <3> QED BY <1>4 DEF Walks
  <2> HIDE DEF A, n, base
  <2> QED BY <2>1, <2>2
<1>7. Is(h)
  <2> HIDE DEF Is
  <2> QED BY <1>6
<1>8. Offset(sh, slot, s) = h[1..n]
  <2> HIDE DEF n
  <2> QED BY <1>1 DEF FoldLeft, MapThenFoldSet, Offset
<1>9. h[{}] = base /\ Follows(A, n, step, h)
  <2>1. h[{}] = base /\ \A x \in SUBSET (1..n) : x # {} => h[x] = h[x \ {Max(x)}] + slot[sh[s[Max(x)]]] * Stride(sh, s[Max(x)])
    <3> HIDE DEF h, n, A, base
    <3> QED BY <1>7
  <2>2. ASSUME NEW x \in SUBSET (1..n), x # {}, h[x \ {Max(x)}] \in A
        PROVE  h[x] = step[Max(x)][h[x \ {Max(x)}]]
    <3> HIDE DEF h, n, A, base
    <3> QED BY <1>5, <2>1, <2>2
  <2> HIDE DEF h, n, A, base, step
  <2> QED BY <2>1, <2>2 DEF Follows
<1>10. PICK g : Traces(A, base, n, step, g) /\ g[n] = h[1..n]
  <2>1. n \in Nat /\ base \in A
    BY <1>1, <1>2
  <2> HIDE DEF h, n, step, A, base
  <2>2. Folds(A, base, n, step, h)
    BY <1>3, <1>9, <2>1 DEF Folds
  <2> QED BY <2>2, FoldSteps
<1>11. g \in [0..n -> A] /\ g[0] = base /\ \A k \in 1..n : g[k] = g[k-1] + slot[sh[s[k]]] * Stride(sh, s[k])
  <2> HIDE DEF n, A, base
  <2>1. \A k \in 1..n : g[k] = step[k][g[k-1]] /\ g[k-1] \in A
    <3> HIDE DEF step
    <3> QED BY <1>1, <1>10 DEF Traces
  <2>2. g \in [0..n -> A] /\ g[0] = base
    <3> HIDE DEF step
    <3> QED BY <1>10 DEF Traces
  <2> QED BY <2>1, <2>2
<1> HIDE DEF h, step
<1> QED BY <1>8, <1>10, <1>11

\* Two sums of the same numbers are the same.
Sums(n, z, g) == \A k \in 1..n : g[k] = g[k-1] + z[k]

LEMMA SumsAgree ==
    ASSUME NEW n \in Nat, NEW g, NEW h, NEW z, g[0] = h[0], Sums(n, z, g), Sums(n, z, h)
    PROVE  g[n] = h[n]
<1> DEFINE Bad == {k \in 0..n : g[k] # h[k]}
<1>1. Bad = {}
  <2> SUFFICES ASSUME Bad # {} PROVE FALSE
    OBVIOUS
  <2>1. PICK k \in Bad : \A m \in Bad : k <= m
    <3>1. Bad \subseteq Nat
      OBVIOUS
    <3> HIDE DEF Bad
    <3> QED BY <3>1, LeastOf
  <2>2. k \in 0..n /\ g[k] # h[k] /\ k # 0
    OBVIOUS
  <2>3. k \in 1..n /\ k - 1 \in 0..n /\ ~ (k <= k - 1)
    BY <2>2
  <2>4. g[k-1] = h[k-1]
    BY <2>1, <2>3
  <2> QED BY <2>2, <2>3, <2>4 DEF Sums
<1>2. n \in 0..n
  OBVIOUS
<1> HIDE DEF Bad
<1>3. n \notin Bad
  BY <1>1
<1> QED BY <1>2, <1>3 DEF Bad

LEMMA ShapeType ==
    /\ Len(Shapes) \in Nat /\ DOMAIN Shapes = 1..Len(Shapes)
    /\ \A i \in DOMAIN Shapes : Shapes[i] \in Seq(Dim)
BY SchemaAssumption

\* A block begins where the one before it ends.
LEMMA BaseNext ==
    /\ Base(1) = 0
    /\ \A i \in 1..Len(Shapes) : /\ Base(i) \in Nat /\ Base(i + 1) \in Nat
                                 /\ Base(i + 1) = Base(i) + Span(Shapes[i])
<1>1. Base(1) = 0
  <2> DEFINE u == SubSeq(Shapes, 1, 1 - 1)
  <2>1. u \in Seq(Seq(Dim)) /\ Len(u) = 0
    BY SubSeqProperties
  <2>2. \E g \in [0..Len(u) -> Nat] :
           g[0] = 0 /\ g[Len(u)] = Blocks(u)
    <3> HIDE DEF u
    <3> QED BY <2>1, BaseFold
  <2>3. Base(1) = Blocks(u)
    BY DEF Base, Blocks
  <2> HIDE DEF u
  <2> QED BY <2>1, <2>2, <2>3
<1>2. ASSUME NEW i \in 1..Len(Shapes)
      PROVE  /\ Base(i) \in Nat /\ Base(i + 1) \in Nat
             /\ Base(i + 1) = Base(i) + Span(Shapes[i])
  <2> DEFINE n == i - 1
             u == SubSeq(Shapes, 1, n)
             v == SubSeq(Shapes, 1, i + 1 - 1)
             z == [k \in 1..i |-> Span(Shapes[k])]
  <2>0. i \in Nat /\ n \in Nat /\ n + 1 = i /\ Len(Shapes) \in Nat
    BY ShapeType
  <2>1. u \in Seq(Seq(Dim)) /\ Len(u) = n /\ \A k \in 1..n : u[k] = Shapes[k]
    <3>1. \A k \in 1..n : Shapes[k] \in Seq(Dim)
      BY <2>0, ShapeType
    <3>2. /\ u \in Seq(Seq(Dim)) /\ Len(u) = (IF 1 <= n THEN n - 1 + 1 ELSE 0)
          /\ \A k \in 1..n - 1 + 1 : u[k] = Shapes[1 + k - 1]
      BY <2>0, <3>1, SubSeqProperties
    <3> HIDE DEF u, n
    <3> QED BY <2>0, <3>2
  <2>2. v \in Seq(Seq(Dim)) /\ Len(v) = i /\ \A k \in 1..i : v[k] = Shapes[k]
    <3>1. i + 1 - 1 = i /\ \A k \in 1..i : Shapes[k] \in Seq(Dim)
      BY <2>0, ShapeType
    <3>2. /\ v \in Seq(Seq(Dim)) /\ Len(v) = (IF 1 <= i THEN i - 1 + 1 ELSE 0)
          /\ \A k \in 1..i - 1 + 1 : v[k] = Shapes[1 + k - 1]
      BY <2>0, <3>1, SubSeqProperties
    <3> HIDE DEF v
    <3> QED BY <2>0, <3>2
  <2>3. PICK g \in [0..n -> Nat] :
           /\ g[0] = 0
           /\ \A k \in 1..n : g[k] = g[k-1] + Span(u[k])
           /\ g[n] = Blocks(u)
    <3> HIDE DEF u, n
    <3> QED BY <2>1, BaseFold
  <2>4. PICK h \in [0..i -> Nat] :
           /\ h[0] = 0
           /\ \A k \in 1..i : h[k] = h[k-1] + Span(v[k])
           /\ h[i] = Blocks(v)
    <3> HIDE DEF v
    <3> QED BY <2>2, BaseFold
  <2>5. Sums(n, z, g) /\ Sums(n, z, h)
    <3>1. \A k \in 1..n : k \in 1..i
      BY <2>0
    <3> HIDE DEF u, v, n
    <3> QED BY <2>1, <2>2, <2>3, <2>4, <3>1 DEF Sums
  <2>6. g[n] = h[n]
    <3>1. g[0] = h[0]
      BY <2>3, <2>4
    <3> HIDE DEF z, u, v, n
    <3> QED BY <2>0, <3>1, <2>5, SumsAgree
  <2>7. h[i] = h[n] + Span(Shapes[i])
    <3>1. i \in 1..i /\ i - 1 = n
      BY <2>0
    <3> HIDE DEF v, n
    <3> QED BY <2>2, <2>4, <3>1
  <2>8. Base(i) = g[n]
    <3>1. Base(i) = Blocks(u)
      BY DEF Base, Blocks
    <3> HIDE DEF u, n
    <3> QED BY <2>3, <3>1
  <2>9. Base(i + 1) = h[i]
    <3>1. \A j : Base(j) = Blocks(SubSeq(Shapes, 1, j - 1))
      BY DEF Base, Blocks
    <3>2. Base(i + 1) = Blocks(v)
      BY <3>1
    <3> HIDE DEF v
    <3> QED BY <2>4, <3>2
  <2>10. g[n] \in Nat /\ h[i] \in Nat
    <3>1. n \in 0..n /\ i \in 0..i
      BY <2>0
    <3> HIDE DEF u, v, n
    <3> QED BY <2>3, <2>4, <3>1
  <2> HIDE DEF n, u, v, z
  <2> QED BY <2>6, <2>7, <2>8, <2>9, <2>10
<1> QED BY <1>1, <1>2

\* A block ends before those that come after it, and before the end of them all.
LEMMA BlocksApart ==
    \A i \in 1..Len(Shapes) : \A j \in i+1..Len(Shapes)+1 : Base(i) + Span(Shapes[i]) <= Base(j)
<1> SUFFICES ASSUME NEW i \in 1..Len(Shapes)
             PROVE  \A j \in i+1..Len(Shapes)+1 : Base(i + 1) <= Base(j)
  BY BaseNext
<1> DEFINE Bad == {j \in i+1..Len(Shapes)+1 : ~ (Base(i + 1) <= Base(j))}
<1>0. i \in Nat /\ Len(Shapes) \in Nat
  BY ShapeType
<1>1. Bad = {}
  <2> SUFFICES ASSUME Bad # {} PROVE FALSE
    OBVIOUS
  <2>1. PICK j \in Bad : \A m \in Bad : j <= m
    <3>1. Bad \subseteq Nat
      BY <1>0
    <3> HIDE DEF Bad
    <3> QED BY <3>1, LeastOf
  <2>2. j \in i+1..Len(Shapes)+1 /\ ~ (Base(i + 1) <= Base(j))
    OBVIOUS
  <2>3. Base(i + 1) \in Nat
    BY BaseNext
  <2>4. j # i + 1
    BY <2>2, <2>3
  <2>5. j - 1 \in i+1..Len(Shapes)+1 /\ j - 1 \in 1..Len(Shapes) /\ ~ (j <= j - 1)
    BY <1>0, <2>2, <2>4
  <2>6. Base(i + 1) <= Base(j - 1)
    BY <2>1, <2>5
  <2>7. Base(j) = Base(j - 1) + Span(Shapes[j - 1]) /\ Base(j - 1) \in Nat
    <3>1. j - 1 + 1 = j
      BY <2>2
    <3> QED BY <2>5, <3>1, BaseNext
  <2>8. Span(Shapes[j - 1]) \in Nat
    BY <2>5, ShapeType, SpanType
  <2> QED BY <2>2, <2>3, <2>6, <2>7, <2>8
<1> QED BY <1>1

\* A choice of one slot in each dimension of the i-th shape.
Choice(i) == {f \in [Range(Shapes[i]) -> Nat] : \A d \in Range(Shapes[i]) : f[d] < Size(d)}

\* The digits of a cell are the slots chosen.
LEMMA CellDigits ==
    ASSUME NEW i \in DOMAIN Shapes, NEW f \in Choice(i)
    PROVE  \E g : /\ Digits(Len(Shapes[i]), [k \in 1..Len(Shapes[i]) |-> Size(Shapes[i][k])],
                            [k \in 0..Len(Shapes[i]) |-> Stride(Shapes[i], k)],
                            [k \in 1..Len(Shapes[i]) |-> f[Shapes[i][k]]], g)
                  /\ CellOf(i, f) = Base(i) + g[Len(Shapes[i])]
<1> DEFINE s == Shapes[i]
           n == Len(s)
           idx == [k \in DOMAIN s |-> k]
           z == [k \in 1..n |-> Size(s[k])]
           w == [k \in 0..n |-> Stride(s, k)]
           a == [k \in 1..n |-> f[s[k]]]
<1>1. s \in Seq(Dim) /\ n \in Nat /\ DOMAIN s = 1..n /\ \A k \in 1..n : s[k] \in Dim
  BY ShapeType
<1>2. idx \in Seq(Nat) /\ Len(idx) = n /\ \A k \in 1..n : idx[k] = k
  <2> HIDE DEF n, s
  <2> QED BY <1>1
<1>3. \A k \in 1..n : z[k] \in Nat /\ a[k] \in Nat /\ a[k] < z[k] /\ s[k] \in Range(s)
  <2>1. \A k \in 1..n : s[k] \in Range(s)
    <3> HIDE DEF n, s
    <3> QED BY <1>1 DEF Range
  <2>2. \A d \in Range(s) : f[d] \in Nat /\ f[d] < Size(d)
    BY DEF Choice
  <2> HIDE DEF n, s
  <2> QED BY <1>1, <2>1, <2>2, SizeIsPositive
<1>4. \A k \in 0..n : w[k] \in Nat
  <2> HIDE DEF s
  <2> QED BY <1>1, StrideType
<1>5. w[n] = 1 /\ \A k \in 1..n : w[k-1] = z[k] * w[k]
  <2> HIDE DEF s
  <2>1. \A k \in 1..n : k - 1 \in 0..n /\ k \in 0..n
    BY <1>1
  <2>2. n \in 0..n
    BY <1>1
  <2> QED BY <1>1, <2>1, <2>2, StrideNext
<1>6. \A k \in 1..n : f[s[idx[k]]] * Stride(s, idx[k]) = a[k] * w[k] /\ a[k] * w[k] \in Nat
  <2>1. \A k \in 1..n : k \in 0..n
    BY <1>1
  <2>2. \A k \in 1..n : f[s[idx[k]]] = a[k] /\ Stride(s, idx[k]) = w[k]
    <3> HIDE DEF s, n, idx
    <3> QED BY <1>2, <2>1
  <2>3. \A x, y \in Nat : x * y \in Nat
    OBVIOUS
  <2> HIDE DEF s, n, idx, a, w
  <2> QED BY <1>3, <1>4, <2>1, <2>2, <2>3
<1>7. PICK g \in [0..n -> Nat] :
         /\ g[0] = 0
         /\ \A k \in 1..n : g[k] = g[k-1] + f[s[idx[k]]] * Stride(s, idx[k])
         /\ g[n] = Offset(s, f, idx)
  <2>1. Counts(s, f, idx)
    <3> HIDE DEF s, n, idx, a, w
    <3> QED BY <1>2, <1>6 DEF Counts
  <2> HIDE DEF s, n, idx
  <2> QED BY <1>2, <2>1, CellFold
<1>8. CellOf(i, f) = Base(i) + g[n]
  <2>1. CellOf(i, f) = Base(i) + Offset(s, f, idx)
    BY DEF CellOf, Offset
  <2> HIDE DEF s, n, idx
  <2> QED BY <1>7, <2>1
<1>9. Digits(n, z, w, a, g)
  <2>1. \A k \in 1..n : g[k] = g[k-1] + a[k] * w[k]
    <3> HIDE DEF s, n, idx, a, w
    <3> QED BY <1>6, <1>7
  <2>2. \A k \in 0..n : g[k] \in Nat
    <3> HIDE DEF s, n, idx, a, w
    <3> QED BY <1>7
  <2>3. g[0] = 0
    BY <1>7
  <2> HIDE DEF s, n, idx, a, w, z
  <2> QED BY <1>3, <1>4, <1>5, <2>1, <2>2, <2>3 DEF Digits
<1> HIDE <1>7
<1> QED BY <1>8, <1>9

\* A cell is in the block of its shape.
LEMMA CellInBlock ==
    ASSUME NEW i \in DOMAIN Shapes, NEW f \in Choice(i)
    PROVE  CellOf(i, f) \in Base(i)..Base(i) + Span(Shapes[i]) - 1
<1> DEFINE n == Len(Shapes[i])
           z == [k \in 1..n |-> Size(Shapes[i][k])]
           w == [k \in 0..n |-> Stride(Shapes[i], k)]
           a == [k \in 1..n |-> f[Shapes[i][k]]]
<1>1. PICK g : Digits(n, z, w, a, g) /\ CellOf(i, f) = Base(i) + g[n]
  BY CellDigits
<1>2. n \in Nat /\ 0 \in 0..n /\ Base(i) \in Nat /\ i \in 1..Len(Shapes)
  BY ShapeType, BaseNext
<1>3. g[n] - g[0] \in 0..w[0]-1 /\ g[0] = 0 /\ g[n] \in Nat
  <2>1. \A k \in 0..n : g[n] - g[k] \in 0..w[k]-1
    <3> HIDE DEF n, z, w, a
    <3> QED BY <1>1, <1>2, DigitsLeft
  <2>2. g[0] = 0 /\ g[n] \in Nat
    <3> HIDE DEF n, z, w, a
    <3> QED BY <1>1, <1>2 DEF Digits
  <2> HIDE DEF n, z, w, a
  <2> QED BY <1>2, <2>1, <2>2
<1>4. w[0] = Span(Shapes[i])
  BY <1>2 DEF Span
<1>5. Span(Shapes[i]) \in Nat
  BY ShapeType, SpanType
<1> HIDE DEF n, z, w, a
<1> QED BY <1>1, <1>2, <1>3, <1>4, <1>5

\* And below the number of cells there are.
LEMMA CellInRange ==
    ASSUME NEW i \in DOMAIN Shapes, NEW f \in Choice(i)
    PROVE  CellOf(i, f) \in Nat /\ CellOf(i, f) < Cells
<1>1. CellOf(i, f) \in Base(i)..Base(i) + Span(Shapes[i]) - 1
  BY CellInBlock
<1>2. i \in 1..Len(Shapes) /\ Len(Shapes) \in Nat /\ Len(Shapes) + 1 \in i+1..Len(Shapes)+1
  BY ShapeType
<1>3. Base(i) + Span(Shapes[i]) <= Cells
  BY <1>2, BlocksApart DEF Cells
<1>4. Base(i) \in Nat /\ Span(Shapes[i]) \in Nat /\ Cells \in Nat
  <2>1. Len(Shapes) \in 1..Len(Shapes)
    BY <1>2
  <2> QED BY <1>2, <2>1, ShapeType, SpanType, BaseNext DEF Cells
<1> QED BY <1>1, <1>3, <1>4

\* Two choices have two cells, in one shape or in two.
LEMMA CellsDiffer ==
    ASSUME NEW i \in DOMAIN Shapes, NEW e \in Choice(i),
           NEW j \in DOMAIN Shapes, NEW f \in Choice(j), CellOf(i, e) = CellOf(j, f)
    PROVE  i = j /\ e = f
<1>1. /\ CellOf(i, e) \in Base(i)..Base(i) + Span(Shapes[i]) - 1
      /\ CellOf(j, f) \in Base(j)..Base(j) + Span(Shapes[j]) - 1
  BY CellInBlock
<1>2. /\ i \in 1..Len(Shapes) /\ j \in 1..Len(Shapes) /\ Len(Shapes) \in Nat
      /\ Base(i) \in Nat /\ Base(j) \in Nat
      /\ Span(Shapes[i]) \in Nat /\ Span(Shapes[j]) \in Nat
  BY ShapeType, SpanType, BaseNext
<1>3. i = j
  <2>1. i < j => Base(i) + Span(Shapes[i]) <= Base(j)
    BY <1>2, BlocksApart
  <2>2. j < i => Base(j) + Span(Shapes[j]) <= Base(i)
    BY <1>2, BlocksApart
  <2> QED BY <1>1, <1>2, <2>1, <2>2
<1> DEFINE n == Len(Shapes[i])
           z == [k \in 1..n |-> Size(Shapes[i][k])]
           w == [k \in 0..n |-> Stride(Shapes[i], k)]
           a == [k \in 1..n |-> e[Shapes[i][k]]]
           b == [k \in 1..n |-> f[Shapes[i][k]]]
<1>4. PICK g : Digits(n, z, w, a, g) /\ CellOf(i, e) = Base(i) + g[n]
  BY CellDigits
<1>5. PICK h : Digits(n, z, w, b, h) /\ CellOf(i, f) = Base(i) + h[n]
  BY <1>3, CellDigits
<1>6. n \in Nat /\ DOMAIN Shapes[i] = 1..n
  BY ShapeType
<1>7. g[n] = h[n]
  <2>1. g[n] \in Nat /\ h[n] \in Nat
    <3> HIDE DEF n, z, w, a, b
    <3> QED BY <1>4, <1>5, <1>6 DEF Digits
  <2> HIDE DEF n, z, w, a, b
  <2> QED BY <1>2, <1>3, <1>4, <1>5, <2>1
<1>8. \A k \in 1..n : a[k] = b[k]
  <2> HIDE DEF n, z, w, a, b
  <2> QED BY <1>4, <1>5, <1>6, <1>7, DigitsAgree
<1>9. \A d \in Range(Shapes[i]) : e[d] = f[d]
  <2> HIDE DEF n
  <2> QED BY <1>6, <1>8 DEF Range
<1> QED BY <1>3, <1>9 DEF Choice

-----------------------------------------------------------------------------
(* Names and their places *)

LEMMA DimType ==
    \A d \in Dim : /\ Dims[d].capacity \in Nat
                   /\ Dims[d].values \in Seq(Range(Dims[d].values))
                   /\ Dims[d].values \in Seq(Text)
                   /\ Len(Dims[d].values) \in Nat /\ DOMAIN Dims[d].values = 1..Len(Dims[d].values)
                   /\ ~ IsDynamic(d) => Dims[d].values # <<>>
                   /\ IsInjective(Dims[d].values)
<1> SUFFICES ASSUME NEW d \in Dim
             PROVE  /\ Dims[d].capacity \in Nat
                    /\ Dims[d].values \in Seq(Range(Dims[d].values))
                    /\ Dims[d].values \in Seq(Text)
                    /\ Len(Dims[d].values) \in Nat /\ DOMAIN Dims[d].values = 1..Len(Dims[d].values)
                    /\ ~ IsDynamic(d) => Dims[d].values # <<>>
                    /\ IsInjective(Dims[d].values)
  OBVIOUS
<1> DEFINE s == Dims[d].values
           S == Range(s)
<1>1. /\ Dims[d].capacity \in Nat /\ s \in Seq(S)
      /\ (s = <<>> <=> IsDynamic(d)) /\ IsInjective(s)
  BY SchemaAssumption
<1>2. S \subseteq Text
  BY DEF Text
<1>3. s \in Seq(Text) /\ Len(s) \in Nat /\ DOMAIN s = 1..Len(s)
  <2> HIDE DEF S, s
  <2> QED BY <1>1, <1>2, SeqMonotonic, LenProperties
<1> QED BY <1>1, <1>3

\* The names of a dimension: each has one place, below the dimension's size.
LEMMA NamesType ==
    ASSUME NEW t \in Table, NEW d \in Dim
    PROVE  /\ Names(t, d) \in Seq(Text) /\ IsInjective(Names(t, d))
           /\ Len(Names(t, d)) \in Nat /\ DOMAIN Names(t, d) = 1..Len(Names(t, d))
           /\ Len(Names(t, d)) <= Size(d)
<1>1. CASE IsDynamic(d)
  <2>1. t[d] \in Seq(Value) /\ IsInjective(t[d]) /\ Len(t[d]) <= Size(d)
    BY <1>1 DEF Table
  <2>2. t[d] \in Seq(Text)
    BY <2>1, SeqMonotonic DEF Text
  <2> QED BY <1>1, <2>1, <2>2 DEF Names
<1>2. CASE ~ IsDynamic(d)
  BY <1>2, DimType DEF Names, Size
<1> QED BY <1>1, <1>2

LEMMA PlaceOf ==
    ASSUME NEW t \in Table, NEW d \in Dim, NEW i \in 1..Len(Names(t, d))
    PROVE  Place(t, d, Names(t, d)[i]) = i - 1
<1> DEFINE s == Names(t, d)
<1>1. DOMAIN s = 1..Len(s) /\ IsInjective(s)
  BY NamesType
<1>2. (CHOOSE j \in DOMAIN s : s[j] = s[i]) = i
  <2> HIDE DEF s
  <2>1. i \in DOMAIN s
    BY <1>1 DEF s
  <2>2. \A j \in DOMAIN s : s[j] = s[i] => j = i
    BY <1>1, <2>1 DEF IsInjective
  <2> QED BY <2>1, <2>2
<1> QED BY <1>2 DEF Place

LEMMA PlaceType ==
    ASSUME NEW t \in Table, NEW d \in Dim, NEW m \in Range(Names(t, d))
    PROVE  /\ Place(t, d, m) \in Nat /\ Place(t, d, m) < Size(d)
           /\ Place(t, d, m) + 1 \in 1..Len(Names(t, d))
           /\ Names(t, d)[Place(t, d, m) + 1] = m
<1>1. /\ DOMAIN Names(t, d) = 1..Len(Names(t, d)) /\ Len(Names(t, d)) \in Nat
      /\ Len(Names(t, d)) <= Size(d)
  BY NamesType
<1>2. PICK i \in 1..Len(Names(t, d)) : m = Names(t, d)[i]
  BY <1>1 DEF Range
<1>3. Place(t, d, m) = i - 1
  BY <1>2, PlaceOf
<1> QED BY <1>1, <1>2, <1>3, SizeIsPositive

\* A name keeps its place when others are added.
LEMMA PlaceStays ==
    ASSUME NEW t \in Table, NEW u \in Table, Extends(t, u), NEW d \in Dim,
           NEW m \in Range(Names(t, d))
    PROVE  m \in Range(Names(u, d)) /\ Place(u, d, m) = Place(t, d, m)
<1>1. CASE IsDynamic(d)
  <2>1. /\ DOMAIN Names(t, d) = 1..Len(Names(t, d)) /\ Len(Names(t, d)) \in Nat
        /\ DOMAIN Names(u, d) = 1..Len(Names(u, d)) /\ Len(Names(u, d)) \in Nat
    BY NamesType
  <2>2. PICK i \in 1..Len(Names(t, d)) : m = Names(t, d)[i]
    BY <2>1 DEF Range
  <2>3. i \in 1..Len(Names(u, d)) /\ Names(u, d)[i] = m
    BY <1>1, <2>1, <2>2 DEF Extends, Names
  <2>4. Place(t, d, m) = i - 1
    BY <2>2, PlaceOf
  <2>5. Place(u, d, m) = i - 1
    BY <2>3, PlaceOf
  <2> QED BY <2>1, <2>3, <2>4, <2>5 DEF Range
<1>2. CASE ~ IsDynamic(d)
  BY <1>2 DEF Names, Place
<1> QED BY <1>1, <1>2

\* What a value means has a place once the value is known, and the place is its slot.
LEMMA SlotIsPlace ==
    ASSUME NEW t \in Table, NEW d \in Dim, NEW v \in Value, Known(t, d, v)
    PROVE  /\ Meaning(d, v) \in Range(Names(t, d))
           /\ Slot(t, d, v) = Place(t, d, Meaning(d, v))
<1>1. CASE IsDynamic(d)
  BY <1>1 DEF Names, Place, Meaning, Slot, Known
<1>2. CASE ~ IsDynamic(d)
  <2> DEFINE s == Dims[d].values
             n == StaticValue(d, v)
  <2>1. Len(s) \in Nat /\ DOMAIN s = 1..Len(s) /\ Names(t, d) = s
    BY <1>2, DimType DEF Names
  <2>2. n + 1 \in 1..Len(s) /\ n \in Nat
    <3>1. CASE v \in Range(s)
      <4>1. PICK i \in DOMAIN s : s[i] = v
        BY <3>1 DEF Range
      <4>2. (CHOOSE j \in DOMAIN s : s[j] = v) \in DOMAIN s
        BY <4>1
      <4>3. n = (CHOOSE j \in DOMAIN s : s[j] = v) - 1
        BY <3>1 DEF StaticValue
      <4> HIDE DEF n, s
      <4> QED BY <2>1, <4>2, <4>3
    <3>2. CASE v \notin Range(s)
      <4>1. n = Numeral[v] /\ Numeral[v] < Len(s) /\ Numeral[v] \in Nat
        BY <1>2, <3>2, ValueAssumption DEF StaticValue, Known, Declared
      <4> HIDE DEF n, s
      <4> QED BY <2>1, <4>1
    <3> QED BY <3>1, <3>2
  <2>3. Meaning(d, v) = s[n + 1] /\ Slot(t, d, v) = n
    BY <1>2 DEF Meaning, Slot
  <2> HIDE DEF n, s
  <2>4. Place(t, d, s[n + 1]) = n + 1 - 1
    BY <2>1, <2>2, PlaceOf
  <2>5. s[n + 1] \in Range(s)
    BY <2>1, <2>2 DEF Range
  <2> QED BY <2>1, <2>2, <2>3, <2>4, <2>5
<1> QED BY <1>1, <1>2

-----------------------------------------------------------------------------
(* The cells of a device *)

\* Slots there may be, by dimension.
SlotSets == {slots \in [Dim -> SUBSET Nat] : \A d \in Dim : \A x \in slots[d] : x < Size(d)}

LEMMA EmittedIs ==
    ASSUME NEW slots \in SlotSets
    PROVE  /\ \A c \in Emitted(slots) : c \in Nat /\ c < Cells
           /\ \A i \in DOMAIN Shapes : \A f \in Choice(i) :
                 CellOf(i, f) \in Emitted(slots) <=> \A d \in Range(Shapes[i]) : f[d] \in slots[d]
<1> DEFINE Chosen(i) == {f \in [Range(Shapes[i]) -> UNION {slots[d] : d \in Range(Shapes[i])}] :
                            \A d \in Range(Shapes[i]) : f[d] \in slots[d]}
<1>0. \A i \in DOMAIN Shapes : Range(Shapes[i]) \subseteq Dim
  BY ShapeType, RangeOfSeq
<1>1. \A i \in DOMAIN Shapes : \A f \in Chosen(i) : f \in Choice(i)
  BY <1>0 DEF SlotSets, Choice
<1>2. \A c : c \in Emitted(slots) <=> \E i \in DOMAIN Shapes : \E f \in Chosen(i) : c = CellOf(i, f)
  BY DEF Emitted
<1>3. ASSUME NEW i \in DOMAIN Shapes, NEW f \in Choice(i)
      PROVE  f \in Chosen(i) <=> \A d \in Range(Shapes[i]) : f[d] \in slots[d]
  <2>1. f = [d \in Range(Shapes[i]) |-> f[d]]
    BY DEF Choice
  <2>2. (\A d \in Range(Shapes[i]) : f[d] \in slots[d])
        => \A d \in Range(Shapes[i]) : f[d] \in UNION {slots[e] : e \in Range(Shapes[i])}
    OBVIOUS
  <2> QED BY <2>1, <2>2
<1> HIDE DEF Chosen
<1>4. \A c \in Emitted(slots) : c \in Nat /\ c < Cells
  BY <1>1, <1>2, CellInRange
<1>5. ASSUME NEW i \in DOMAIN Shapes, NEW f \in Choice(i)
      PROVE  CellOf(i, f) \in Emitted(slots) <=> f \in Chosen(i)
  <2>1. f \in Chosen(i) => CellOf(i, f) \in Emitted(slots)
    BY <1>2
  <2>2. ASSUME CellOf(i, f) \in Emitted(slots) PROVE f \in Chosen(i)
    <3>1. PICK j \in DOMAIN Shapes : \E e \in Chosen(j) : CellOf(i, f) = CellOf(j, e)
      BY <1>2, <2>2
    <3>2. PICK e \in Chosen(j) : CellOf(i, f) = CellOf(j, e)
      BY <3>1
    <3>3. e \in Choice(j)
      BY <1>1
    <3>4. i = j /\ f = e
      BY <3>2, <3>3, CellsDiffer
    <3> QED BY <3>4
  <2> QED BY <2>1, <2>2
<1> QED BY <1>3, <1>4, <1>5

\* The places of what may be held.
LEMMA PlacesType ==
    ASSUME NEW t \in Table, NEW held \in Holdable(t)
    PROVE  Places(t, held) \in SlotSets
<1>1. \A d \in Dim : \A m \in held[d] : m \in Range(Names(t, d))
  BY DEF Holdable
<1> QED BY <1>1, PlaceType DEF Places, SlotSets

\* A record stays right when labels are added.
LEMMA RecStays ==
    ASSUME NEW t \in Table, NEW u \in Table, Extends(t, u)
    PROVE  Rec(t) \subseteq Rec(u) /\ Recs(t) \subseteq Recs(u) /\ Out(t) \subseteq Out(u)
<1>1. ASSUME NEW held \in Holdable(t) PROVE held \in Holdable(u) /\ Places(t, held) = Places(u, held)
  <2>1. \A d \in Dim : \A m \in held[d] : m \in Range(Names(t, d))
    BY DEF Holdable
  <2>2. \A d \in Dim : \A m \in held[d] : m \in Range(Names(u, d)) /\ Place(t, d, m) = Place(u, d, m)
    BY <2>1, PlaceStays
  <2>3. \A d \in Dim : {Place(t, d, m) : m \in held[d]} = {Place(u, d, m) : m \in held[d]}
    BY <2>2
  <2> QED BY <2>2, <2>3 DEF Holdable, Places
<1>2. Rec(t) \subseteq Rec(u)
  BY <1>1 DEF Rec
<1>3. Recs(t) \subseteq Recs(u)
  BY <1>2 DEF Recs
<1>4. Out(t) \subseteq Out(u)
  BY <1>2 DEF Out
<1> QED BY <1>2, <1>3, <1>4

\* A filter for a choice of known values finds a device by its cells just when the
\* device holds them.
LEMMA CellFindsHeld ==
    ASSUME NEW t \in Table, NEW rec \in Rec(t), NEW sel \in Selections, QueryCell(t, sel) # NONE
    PROVE  QueryCell(t, sel) \in rec.cells <=> \A d \in DOMAIN sel : Meaning(d, sel[d]) \in rec.held[d]
<1> DEFINE i == CHOOSE i \in DOMAIN Shapes : Range(Shapes[i]) = DOMAIN sel
           f == [d \in DOMAIN sel |-> Slot(t, d, sel[d])]
<1>1. PICK sh \in Range(Shapes) : sel \in [Range(sh) -> Value]
  BY DEF Selections
<1>2. i \in DOMAIN Shapes /\ Range(Shapes[i]) = DOMAIN sel
  <2>1. \E j \in DOMAIN Shapes : Range(Shapes[j]) = DOMAIN sel
    BY <1>1 DEF Range
  <2> QED BY <2>1
<1>3. DOMAIN sel \subseteq Dim /\ \A d \in DOMAIN sel : sel[d] \in Value
  <2>1. Range(Shapes[i]) \subseteq Dim
    <3> HIDE DEF i
    <3> QED BY <1>2, ShapeType, RangeOfSeq
  <2> HIDE DEF i
  <2> QED BY <1>1, <1>2, <2>1
<1>4. (\A d \in DOMAIN sel : Known(t, d, sel[d])) /\ QueryCell(t, sel) = CellOf(i, f)
  BY DEF QueryCell
<1>5. \A d \in DOMAIN sel : /\ Meaning(d, sel[d]) \in Range(Names(t, d))
                            /\ f[d] = Place(t, d, Meaning(d, sel[d]))
  <2> HIDE DEF i
  <2> QED BY <1>3, <1>4, SlotIsPlace
<1>6. f \in Choice(i)
  <2>1. \A d \in DOMAIN sel : f[d] \in Nat /\ f[d] < Size(d)
    <3> HIDE DEF i, f
    <3> QED BY <1>3, <1>5, PlaceType
  <2> HIDE DEF i
  <2> QED BY <1>2, <2>1 DEF Choice
<1>7. rec.held \in Holdable(t) /\ rec.cells = Emitted(Places(t, rec.held))
  BY DEF Rec
<1>8. CellOf(i, f) \in rec.cells <=> \A d \in DOMAIN sel : f[d] \in Places(t, rec.held)[d]
  <2> HIDE DEF i, f
  <2> QED BY <1>2, <1>6, <1>7, PlacesType, EmittedIs
<1>9. ASSUME NEW d \in DOMAIN sel
      PROVE  f[d] \in Places(t, rec.held)[d] <=> Meaning(d, sel[d]) \in rec.held[d]
  <2> HIDE DEF i, f
  <2>1. Places(t, rec.held)[d] = {Place(t, d, m) : m \in rec.held[d]}
    BY <1>3 DEF Places
  <2>2. \A m \in rec.held[d] : m \in Range(Names(t, d))
    BY <1>3, <1>7 DEF Holdable
  <2>3. \A m \in rec.held[d] : Place(t, d, m) = Place(t, d, Meaning(d, sel[d])) => m = Meaning(d, sel[d])
    <3> SUFFICES ASSUME NEW m \in rec.held[d], Place(t, d, m) = Place(t, d, Meaning(d, sel[d]))
                 PROVE  m = Meaning(d, sel[d])
      OBVIOUS
    <3>1. m = Names(t, d)[Place(t, d, m) + 1]
      BY <1>3, <2>2, PlaceType
    <3>2. Meaning(d, sel[d]) = Names(t, d)[Place(t, d, Meaning(d, sel[d])) + 1]
      BY <1>3, <1>5, PlaceType
    <3> QED BY <3>1, <3>2
  <2> QED BY <1>5, <2>1, <2>3
<1> HIDE DEF i, f
<1> QED BY <1>4, <1>8, <1>9

-----------------------------------------------------------------------------
(* Resolving the values of a report *)

\* What has been resolved of a report: the labels are a table.
Acc == [ok : BOOLEAN, labels : Table, slots : [Dim -> SUBSET Nat]]

\* What a report may say of dimension d, and what that means.
Named1(d) == Seq(Named(d)) \union {ABSENT}
Means(d, val) ==
    IF val # ABSENT THEN {Meaning(d, v) : v \in Range(val)}
    ELSE IF IsDynamic(d) THEN {} ELSE {Head(Dims[d].values)}

LEMMA ExtendsTransitive ==
    ASSUME NEW t \in Table, NEW u \in Table, NEW w \in Table, Extends(t, u), Extends(u, w)
    PROVE  Extends(t, w)
<1>1. \A d \in Dim : t[d] \in Seq(Value) /\ u[d] \in Seq(Value) /\ w[d] \in Seq(Value)
  BY DEF Table
<1>2. \A d \in Dim : Len(t[d]) \in Nat /\ Len(u[d]) \in Nat /\ Len(w[d]) \in Nat
  BY <1>1
<1>3. \A d \in Dim : Len(t[d]) <= Len(u[d]) /\ Len(u[d]) <= Len(w[d])
  BY DEF Extends
<1>4. \A d \in Dim : \A i \in 1..Len(t[d]) : i \in 1..Len(u[d])
  BY <1>2, <1>3
<1> QED BY <1>2, <1>3, <1>4 DEF Extends

LEMMA ExtendsItself == ASSUME NEW t \in Table PROVE Extends(t, t)
<1>1. \A d \in Dim : Len(t[d]) \in Nat
  BY DEF Table
<1> QED BY <1>1 DEF Extends

\* Interning one value that some well formed item names: it has its slot then, unless
\* that is an error.
LEMMA InternedIs ==
    ASSUME NEW s \in Acc, NEW d \in Dim, NEW v \in Named(d)
    PROVE  /\ Interned(s, d, v) \in Acc
           /\ Extends(s.labels, Interned(s, d, v).labels)
           /\ Interned(s, d, v).ok =>
                 /\ s.ok
                 /\ Meaning(d, v) \in Range(Names(Interned(s, d, v).labels, d))
                 /\ Interned(s, d, v).slots =
                       [s.slots EXCEPT ![d] = @ \union {Place(Interned(s, d, v).labels, d, Meaning(d, v))}]
<1>0. v \in Value /\ s.labels \in Table /\ s.slots \in [Dim -> SUBSET Nat] /\ s.ok \in BOOLEAN
      /\ s = [ok |-> s.ok, labels |-> s.labels, slots |-> s.slots]
  BY DEF Acc, Named
<1>1. CASE Known(s.labels, d, v)
  <2>1. Interned(s, d, v) = [s EXCEPT !.slots[d] = @ \union {Slot(s.labels, d, v)}]
    BY <1>1 DEF Interned
  <2>2. /\ Meaning(d, v) \in Range(Names(s.labels, d))
        /\ Slot(s.labels, d, v) = Place(s.labels, d, Meaning(d, v))
    BY <1>0, <1>1, SlotIsPlace
  <2>3. Place(s.labels, d, Meaning(d, v)) \in Nat
    BY <1>0, <2>2, PlaceType
  <2>4. /\ Interned(s, d, v).labels = s.labels /\ Interned(s, d, v).ok = s.ok
        /\ Interned(s, d, v).slots = [s.slots EXCEPT ![d] = @ \union {Slot(s.labels, d, v)}]
    BY <1>0, <2>1
  <2>5. Interned(s, d, v) \in Acc
    BY <1>0, <2>1, <2>2, <2>3 DEF Acc
  <2> QED BY <1>0, <2>2, <2>4, <2>5, ExtendsItself
<1>2. CASE ~ Known(s.labels, d, v) /\ (~ IsDynamic(d) \/ v = "" \/ Full(s.labels, d))
  <2>1. Interned(s, d, v) = [s EXCEPT !.ok = FALSE]
    BY <1>2 DEF Interned
  <2>2. Interned(s, d, v) \in Acc /\ Interned(s, d, v).labels = s.labels /\ ~ Interned(s, d, v).ok
    BY <1>0, <2>1 DEF Acc
  <2> QED BY <1>0, <2>2, ExtendsItself
<1>3. CASE ~ Known(s.labels, d, v) /\ IsDynamic(d) /\ v # "" /\ ~ Full(s.labels, d)
  <2> DEFINE l == s.labels[d]
             t == [s.labels EXCEPT ![d] = Append(l, v)]
  <2>1. Interned(s, d, v) = [s EXCEPT !.labels[d] = Append(@, v), !.slots[d] = @ \union {Len(s.labels[d])}]
    BY <1>3 DEF Interned
  <2>2. /\ Interned(s, d, v).labels = t /\ Interned(s, d, v).ok = s.ok
        /\ Interned(s, d, v).slots = [s.slots EXCEPT ![d] = @ \union {Len(l)}]
        /\ Interned(s, d, v) = [ok |-> s.ok, labels |-> t,
                                slots |-> [s.slots EXCEPT ![d] = @ \union {Len(l)}]]
    BY <1>0, <2>1
  <2>3. /\ l \in Seq(Value) /\ Len(l) \in Nat /\ IsInjective(l) /\ Range(l) \subseteq Named(d)
        /\ DOMAIN l = 1..Len(l) /\ v \notin Range(l)
    <3>1. l \in Seq(Value) /\ IsInjective(l) /\ Range(l) \subseteq Named(d)
      BY <1>0, <1>3 DEF Table
    <3>2. v \notin Range(l)
      BY <1>3 DEF Known
    <3> HIDE DEF l
    <3> QED BY <3>1, <3>2, LenProperties
  <2>4. Len(l) < Size(d) /\ Size(d) \in Nat
    <3>1. ~ (Len(l) >= Size(d))
      BY <1>3 DEF Full
    <3>2. Size(d) \in Nat
      BY SizeIsPositive
    <3> HIDE DEF l
    <3> QED BY <2>3, <3>1, <3>2
  <2>5. /\ Append(l, v) \in Seq(Value) /\ Len(Append(l, v)) = Len(l) + 1
        /\ \A i \in 1..Len(l) : Append(l, v)[i] = l[i]
        /\ Append(l, v)[Len(l) + 1] = v
        /\ DOMAIN Append(l, v) = 1..Len(l) + 1
    <3> HIDE DEF l
    <3> QED BY <1>0, <2>3, AppendProperties, LenProperties
  <2>6. \A i \in 1..Len(l) + 1 : i = Len(l) + 1 \/ i \in 1..Len(l)
    <3> HIDE DEF l
    <3> QED BY <2>3
  <2>7. \A i \in 1..Len(l) : l[i] \in Range(l)
    <3> HIDE DEF l
    <3> QED BY <2>3 DEF Range
  <2>8. IsInjective(Append(l, v))
    <3> SUFFICES ASSUME NEW i \in 1..Len(l) + 1, NEW j \in 1..Len(l) + 1,
                        Append(l, v)[i] = Append(l, v)[j]
                 PROVE  i = j
      <4> HIDE DEF l
      <4> QED BY <2>5 DEF IsInjective
    <3> HIDE DEF l
    <3>1. CASE i \in 1..Len(l) /\ j \in 1..Len(l)
      BY <2>3, <2>5, <3>1 DEF IsInjective
    <3>2. CASE i = Len(l) + 1 /\ j \in 1..Len(l)
      BY <2>3, <2>5, <2>7, <3>2
    <3>3. CASE j = Len(l) + 1 /\ i \in 1..Len(l)
      BY <2>3, <2>5, <2>7, <3>3
    <3> QED BY <2>6, <3>1, <3>2, <3>3
  <2>9. Range(Append(l, v)) \subseteq Named(d)
    <3> HIDE DEF l
    <3>1. \A i \in 1..Len(l) + 1 : Append(l, v)[i] \in Named(d)
      BY <2>3, <2>5, <2>6, <2>7
    <3> QED BY <2>5, <3>1 DEF Range
  <2>10. t \in Table
    <3>1. t \in [Dim -> Seq(Value)]
      BY <1>0, <2>5 DEF Table
    <3>2. \A e \in Dim \ {d} : t[e] = s.labels[e]
      BY <1>0 DEF Table
    <3>3. t[d] = Append(l, v)
      BY <1>0 DEF Table
    <3>4. Len(t[d]) <= Size(d) /\ IsInjective(t[d]) /\ Range(t[d]) \subseteq Named(d)
      <4> HIDE DEF l, t
      <4> QED BY <2>3, <2>4, <2>5, <2>8, <2>9, <3>3
    <3> HIDE DEF l, t
    <3>5. \A e \in Dim : IF IsDynamic(e)
                         THEN Len(t[e]) <= Size(e) /\ IsInjective(t[e]) /\ Range(t[e]) \subseteq Named(e)
                         ELSE t[e] = <<>>
      <4>1. \A e \in Dim \ {d} : IF IsDynamic(e)
                         THEN Len(t[e]) <= Size(e) /\ IsInjective(t[e]) /\ Range(t[e]) \subseteq Named(e)
                         ELSE t[e] = <<>>
        BY <1>0, <3>2 DEF Table
      <4> QED BY <1>3, <3>4, <4>1
    <3> QED BY <3>1, <3>5 DEF Table
  <2>11. Extends(s.labels, t)
    <3>1. \A e \in Dim \ {d} : t[e] = s.labels[e] /\ Len(s.labels[e]) \in Nat
      BY <1>0 DEF Table
    <3>2. t[d] = Append(l, v) /\ s.labels[d] = l
      BY <1>0 DEF Table
    <3> HIDE DEF l, t
    <3>3. \A e \in Dim \ {d} : Len(s.labels[e]) <= Len(t[e]) /\ \A i \in 1..Len(s.labels[e]) : t[e][i] = s.labels[e][i]
      BY <3>1
    <3>4. Len(l) <= Len(t[d]) /\ \A i \in 1..Len(l) : t[d][i] = l[i]
      BY <2>3, <2>5, <3>2
    <3> QED BY <3>2, <3>3, <3>4 DEF Extends
  <2>12. /\ Meaning(d, v) = v /\ Names(t, d) = Append(l, v)
         /\ v \in Range(Names(t, d)) /\ Place(t, d, v) = Len(l)
    <3>1. Meaning(d, v) = v /\ Names(t, d) = Append(l, v)
      BY <1>0, <1>3 DEF Meaning, Names, Table
    <3> HIDE DEF l, t
    <3>2. Len(l) + 1 \in 1..Len(Names(t, d)) /\ Names(t, d)[Len(l) + 1] = v
      BY <2>3, <2>5, <3>1
    <3>3. Place(t, d, v) = Len(l) + 1 - 1
      BY <2>10, <3>2, PlaceOf
    <3>4. v \in Range(Names(t, d))
      BY <2>3, <2>5, <3>1, <3>2 DEF Range
    <3> QED BY <2>3, <3>1, <3>3, <3>4
  <2>13. Interned(s, d, v) \in Acc
    <3> HIDE DEF l, t
    <3>1. [s.slots EXCEPT ![d] = @ \union {Len(l)}] \in [Dim -> SUBSET Nat]
      BY <1>0, <2>3
    <3> QED BY <1>0, <2>2, <2>10, <3>1 DEF Acc
  <2> HIDE DEF l, t
  <2> QED BY <2>2, <2>11, <2>12, <2>13
<1> QED BY <1>1, <1>2, <1>3

\* The values val of d interned one after the other, until one cannot be.
Taking(s, d, val) == FoldLeft(LAMBDA u, v : IF u.ok THEN Interned(u, d, v) ELSE u, s, val)

\* They are interned in order.
LEMMA TakingFold ==
    ASSUME NEW s \in Acc, NEW d \in Dim, NEW val \in Seq(Named(d))
    PROVE  \E g \in [0..Len(val) -> Acc] :
              /\ g[0] = s
              /\ \A k \in 1..Len(val) : g[k] = (IF g[k-1].ok THEN Interned(g[k-1], d, val[k]) ELSE g[k-1])
              /\ g[Len(val)] = Taking(s, d, val)
<1> DEFINE A == Acc
           base == s
           n == Len(val)
           step == [k \in 1..n |-> [a \in A |-> (IF a.ok THEN Interned(a, d, val[k]) ELSE a)]]
           Is(i) == i = [x \in SUBSET (1..n) |->
                            IF x = {} THEN base ELSE (IF i[x \ {Max(x)}].ok THEN Interned(i[x \ {Max(x)}], d, val[Max(x)]) ELSE i[x \ {Max(x)}])]
           h == CHOOSE i : Is(i)
<1>1. n \in Nat /\ DOMAIN val = 1..n /\ \A k \in 1..n : val[k] \in Named(d)
  OBVIOUS
<1>2. base \in A /\ \A k \in 1..n : \A a \in A : (IF a.ok THEN Interned(a, d, val[k]) ELSE a) \in A
  BY <1>1, InternedIs
<1>3. step \in [1..n -> [A -> A]]
  <2> HIDE DEF n, A
  <2> QED BY <1>2
<1>4. PICK f \in [SUBSET (1..n) -> A] : Walks(base, n, step, f)
  <2> HIDE DEF A, base, n, step
  <2> QED BY <1>1, <1>2, <1>3, WalkExists
<1>5. \A x \in SUBSET (1..n) : x # {} => Max(x) \in 1..n /\ x \ {Max(x)} \in SUBSET (1..n)
  <2> HIDE DEF n
  <2> QED BY <1>1, MaxIsIn
<1>6. Is(f)
  <2>1. ASSUME NEW x \in SUBSET (1..n), x # {} PROVE f[x] = (IF f[x \ {Max(x)}].ok THEN Interned(f[x \ {Max(x)}], d, val[Max(x)]) ELSE f[x \ {Max(x)}])
    <3> DEFINE m == Max(x)
    <3> HIDE DEF A, n, m
    <3>1. m \in 1..n /\ f[x \ {m}] \in A
      BY <1>5, <2>1 DEF m
    <3>2. f[x] = step[m][f[x \ {m}]]
      <4> HIDE DEF step, base
      <4> QED BY <1>4, <2>1 DEF Walks, m
    <3>3. f[x] = (IF f[x \ {m}].ok THEN Interned(f[x \ {m}], d, val[m]) ELSE f[x \ {m}])
      BY <3>1, <3>2
    <3> QED BY <3>3 DEF m
  <2>2. f[{}] = base
    <3> HIDE DEF A, n, step, base
    <3> QED BY <1>4 DEF Walks
  <2> HIDE DEF A, n, base
  <2> QED BY <2>1, <2>2
<1>7. Is(h)
  <2> HIDE DEF Is
  <2> QED BY <1>6
<1>8. Taking(s, d, val) = h[1..n]
  <2> HIDE DEF n
  <2> QED BY <1>1 DEF FoldLeft, MapThenFoldSet, Taking
<1>9. h[{}] = base /\ Follows(A, n, step, h)
  <2>1. h[{}] = base /\ \A x \in SUBSET (1..n) : x # {} => h[x] = (IF h[x \ {Max(x)}].ok THEN Interned(h[x \ {Max(x)}], d, val[Max(x)]) ELSE h[x \ {Max(x)}])
    <3> HIDE DEF h, n, A, base
    <3> QED BY <1>7
  <2>2. ASSUME NEW x \in SUBSET (1..n), x # {}, h[x \ {Max(x)}] \in A
        PROVE  h[x] = step[Max(x)][h[x \ {Max(x)}]]
    <3> HIDE DEF h, n, A, base
    <3> QED BY <1>5, <2>1, <2>2
  <2> HIDE DEF h, n, A, base, step
  <2> QED BY <2>1, <2>2 DEF Follows
<1>10. PICK g : Traces(A, base, n, step, g) /\ g[n] = h[1..n]
  <2>1. n \in Nat /\ base \in A
    BY <1>1, <1>2
  <2> HIDE DEF h, n, step, A, base
  <2>2. Folds(A, base, n, step, h)
    BY <1>3, <1>9, <2>1 DEF Folds
  <2> QED BY <2>2, FoldSteps
<1>11. g \in [0..n -> A] /\ g[0] = base /\ \A k \in 1..n : g[k] = (IF g[k-1].ok THEN Interned(g[k-1], d, val[k]) ELSE g[k-1])
  <2> HIDE DEF n, A, base
  <2>1. \A k \in 1..n : g[k] = step[k][g[k-1]] /\ g[k-1] \in A
    <3> HIDE DEF step
    <3> QED BY <1>1, <1>10 DEF Traces
  <2>2. g \in [0..n -> A] /\ g[0] = base
    <3> HIDE DEF step
    <3> QED BY <1>10 DEF Traces
  <2> QED BY <2>1, <2>2
<1> HIDE DEF h, step
<1> QED BY <1>8, <1>10, <1>11

\* What taking the first k values of val comes to.
TakenSoFar(s, d, val, k, u) ==
    /\ Extends(s.labels, u.labels)
    /\ u.ok => /\ s.ok
               /\ \A e \in Dim \ {d} : u.slots[e] = s.slots[e]
               /\ \A j \in 1..k : Meaning(d, val[j]) \in Range(Names(u.labels, d))
               /\ u.slots[d] = {Place(u.labels, d, Meaning(d, val[j])) : j \in 1..k}

LEMMA TakesNext ==
    ASSUME NEW s \in Acc, NEW d \in Dim, NEW k \in Nat \ {0}, NEW val, val[k] \in Named(d),
           NEW u \in Acc, TakenSoFar(s, d, val, k - 1, u)
    PROVE  TakenSoFar(s, d, val, k, IF u.ok THEN Interned(u, d, val[k]) ELSE u)
<1>1. CASE ~ u.ok
  BY <1>1 DEF TakenSoFar
<1>2. CASE u.ok
  <2> DEFINE w == Interned(u, d, val[k])
             m(j) == Meaning(d, val[j])
  <2>1. /\ w \in Acc /\ Extends(u.labels, w.labels)
        /\ w.ok => /\ m(k) \in Range(Names(w.labels, d))
                   /\ w.slots = [u.slots EXCEPT ![d] = @ \union {Place(w.labels, d, m(k))}]
    BY InternedIs
  <2>2. s.labels \in Table /\ u.labels \in Table /\ w.labels \in Table /\ u.slots \in [Dim -> SUBSET Nat]
    <3> HIDE DEF w
    <3> QED BY <2>1 DEF Acc
  <2>3. Extends(s.labels, w.labels)
    <3>1. Extends(s.labels, u.labels)
      BY DEF TakenSoFar
    <3> HIDE DEF w
    <3> QED BY <2>1, <2>2, <3>1, ExtendsTransitive
  <2>4. ASSUME w.ok
        PROVE  /\ s.ok
               /\ \A e \in Dim \ {d} : w.slots[e] = s.slots[e]
               /\ \A j \in 1..k : m(j) \in Range(Names(w.labels, d))
               /\ w.slots[d] = {Place(w.labels, d, m(j)) : j \in 1..k}
    <3>1. /\ s.ok /\ \A e \in Dim \ {d} : u.slots[e] = s.slots[e]
          /\ \A j \in 1..k-1 : m(j) \in Range(Names(u.labels, d))
          /\ u.slots[d] = {Place(u.labels, d, m(j)) : j \in 1..k-1}
      BY <1>2 DEF TakenSoFar
    <3> HIDE DEF w, m
    <3>2. \A j \in 1..k-1 : /\ m(j) \in Range(Names(w.labels, d))
                            /\ Place(w.labels, d, m(j)) = Place(u.labels, d, m(j))
      BY <2>1, <2>2, <3>1, PlaceStays
    <3>3. \A j \in 1..k : j = k \/ j \in 1..k-1
      OBVIOUS
    <3>4. k \in 1..k /\ \A j \in 1..k-1 : j \in 1..k
      OBVIOUS
    <3>5. \A j \in 1..k : m(j) \in Range(Names(w.labels, d))
      BY <2>1, <2>4, <3>2, <3>3
    <3>6. w.slots[d] = u.slots[d] \union {Place(w.labels, d, m(k))}
      BY <2>1, <2>2, <2>4
    <3>7. \A e \in Dim \ {d} : w.slots[e] = u.slots[e]
      BY <2>1, <2>2, <2>4
    <3>8. u.slots[d] = {Place(w.labels, d, m(j)) : j \in 1..k-1}
      BY <3>1, <3>2
    <3>9. w.slots[d] = {Place(w.labels, d, m(j)) : j \in 1..k}
      BY <3>3, <3>4, <3>6, <3>8
    <3> QED BY <3>1, <3>5, <3>7, <3>9
  <2> HIDE DEF w
  <2>5. TakenSoFar(s, d, val, k, w)
    BY <2>3, <2>4 DEF TakenSoFar
  <2> QED BY <1>2, <2>5 DEF w
<1> QED BY <1>1, <1>2

\* All the values of a dimension taken: its slots are the places of what they mean.
LEMMA TakingIs ==
    ASSUME NEW s \in Acc, NEW d \in Dim, NEW val \in Seq(Named(d)), s.slots[d] = {}
    PROVE  Taking(s, d, val) \in Acc /\ TakenSoFar(s, d, val, Len(val), Taking(s, d, val))
<1> DEFINE n == Len(val)
<1>1. PICK g \in [0..n -> Acc] :
         /\ g[0] = s
         /\ \A k \in 1..n : g[k] = (IF g[k-1].ok THEN Interned(g[k-1], d, val[k]) ELSE g[k-1])
         /\ g[n] = Taking(s, d, val)
  BY TakingFold
<1>2. n \in Nat /\ \A k \in 1..n : val[k] \in Named(d)
  OBVIOUS
<1> HIDE DEF n
<1> DEFINE Bad == {k \in 0..n : ~ TakenSoFar(s, d, val, k, g[k])}
<1>3. Bad = {}
  <2> SUFFICES ASSUME Bad # {} PROVE FALSE
    OBVIOUS
  <2>1. PICK k \in Bad : \A m \in Bad : k <= m
    <3>1. Bad \subseteq Nat
      OBVIOUS
    <3> HIDE DEF Bad
    <3> QED BY <3>1, LeastOf
  <2>2. k \in 0..n /\ ~ TakenSoFar(s, d, val, k, g[k])
    OBVIOUS
  <2>3. CASE k = 0
    <3>1. s.labels \in Table /\ 1..0 = {}
      BY DEF Acc
    <3>2. {Place(s.labels, d, Meaning(d, val[j])) : j \in 1..0} = {}
      BY <3>1
    <3>3. TakenSoFar(s, d, val, 0, s)
      BY <3>1, <3>2, ExtendsItself DEF TakenSoFar
    <3> QED BY <1>1, <2>2, <2>3, <3>3
  <2>4. CASE k # 0
    <3>1. k \in 1..n /\ k - 1 \in 0..n /\ k \in Nat \ {0} /\ ~ (k <= k - 1)
      BY <1>2, <2>2, <2>4
    <3>2. TakenSoFar(s, d, val, k - 1, g[k-1]) /\ g[k-1] \in Acc
      BY <1>1, <2>1, <3>1
    <3>3. g[k] = (IF g[k-1].ok THEN Interned(g[k-1], d, val[k]) ELSE g[k-1])
      BY <1>1, <3>1
    <3>4. val[k] \in Named(d)
      BY <1>2, <3>1
    <3>5. TakenSoFar(s, d, val, k, IF g[k-1].ok THEN Interned(g[k-1], d, val[k]) ELSE g[k-1])
      BY <3>1, <3>2, <3>4, TakesNext
    <3> QED BY <2>2, <3>3, <3>5
  <2> QED BY <2>3, <2>4
<1>4. n \in 0..n
  BY <1>2
<1>5. TakenSoFar(s, d, val, n, g[n]) /\ g[n] \in Acc
  BY <1>1, <1>3, <1>4
<1> QED BY <1>1, <1>5 DEF n

\* What it takes for u to be s with d resolved: the slots of d are the places of what
\* val means, and a dimension that is not named is no error.
Settled(s, d, val, u) ==
    /\ u \in Acc
    /\ s.slots[d] = {} =>
          /\ Extends(s.labels, u.labels)
          /\ val = ABSENT => u.ok = s.ok /\ u.labels = s.labels
          /\ u.ok => /\ s.ok
                     /\ \A e \in Dim \ {d} : u.slots[e] = s.slots[e]
                     /\ Means(d, val) \subseteq Range(Names(u.labels, d))
                     /\ u.slots[d] = {Place(u.labels, d, m) : m \in Means(d, val)}

\* One dimension of a report resolved.
LEMMA ResolvedDimIs ==
    ASSUME NEW s \in Acc, NEW d \in Dim, NEW val \in Named1(d)
    PROVE  Settled(s, d, val, ResolvedDim(s, d, val))
<1> DEFINE u == ResolvedDim(s, d, val)
<1>0. s.labels \in Table /\ s.slots \in [Dim -> SUBSET Nat] /\ s.ok \in BOOLEAN
      /\ s = [ok |-> s.ok, labels |-> s.labels, slots |-> s.slots] /\ Extends(s.labels, s.labels)
  <2>1. s.labels \in Table /\ s.slots \in [Dim -> SUBSET Nat] /\ s.ok \in BOOLEAN
        /\ s = [ok |-> s.ok, labels |-> s.labels, slots |-> s.slots]
    BY DEF Acc
  <2> QED BY <2>1, ExtendsItself
<1>1. ABSENT # <<>>
  <2>1. <<>> \in Seq(Value)
    OBVIOUS
  <2> QED BY <2>1, ValueAssumption
<1>2. ASSUME ~ s.ok PROVE Settled(s, d, val, u)
  <2>1. u = s
    BY <1>2 DEF ResolvedDim
  <2> HIDE DEF u
  <2> QED BY <1>0, <1>2, <2>1 DEF Settled
<1>3. ASSUME s.ok /\ val = <<>> PROVE Settled(s, d, val, u)
  <2>1. u = s
    BY <1>3 DEF ResolvedDim
  <2>2. Means(d, val) = {}
    BY <1>1, <1>3 DEF Means, Range
  <2> HIDE DEF u
  <2> QED BY <1>0, <1>1, <1>3, <2>1, <2>2 DEF Settled
<1>4. ASSUME s.ok /\ val = ABSENT /\ IsDynamic(d) PROVE Settled(s, d, val, u)
  <2>1. u = s
    BY <1>1, <1>4 DEF ResolvedDim
  <2>2. Means(d, val) = {}
    BY <1>4 DEF Means
  <2> HIDE DEF u
  <2> QED BY <1>0, <1>4, <2>1, <2>2 DEF Settled
<1>5. ASSUME s.ok /\ val = ABSENT /\ ~ IsDynamic(d) PROVE Settled(s, d, val, u)
  <2> DEFINE vs == Dims[d].values
  <2>1. u = [s EXCEPT !.slots[d] = {0}]
    BY <1>1, <1>5 DEF ResolvedDim
  <2>2. Means(d, val) = {Head(vs)} /\ Names(s.labels, d) = vs
    BY <1>5 DEF Means, Names
  <2>3. Head(vs) = vs[1] /\ 1 \in 1..Len(vs) /\ vs[1] \in Range(vs)
    <3>1. vs \in Seq(Text) /\ vs # <<>> /\ Len(vs) \in Nat /\ DOMAIN vs = 1..Len(vs)
      BY <1>5, DimType
    <3> HIDE DEF vs
    <3>2. Len(vs) # 0
      BY <3>1, EmptySeq
    <3> QED BY <3>1, <3>2 DEF Range
  <2>4. Place(s.labels, d, vs[1]) = 0
    <3> HIDE DEF vs
    <3>1. Place(s.labels, d, vs[1]) = 1 - 1
      BY <1>0, <2>2, <2>3, PlaceOf
    <3> QED BY <3>1
  <2>5. u.slots = [s.slots EXCEPT ![d] = {0}] /\ u.labels = s.labels /\ u.ok = s.ok /\ u \in Acc
    <3>1. [s.slots EXCEPT ![d] = {0}] \in [Dim -> SUBSET Nat]
      BY <1>0
    <3>2. u = [ok |-> s.ok, labels |-> s.labels, slots |-> [s.slots EXCEPT ![d] = {0}]]
      BY <1>0, <2>1
    <3> HIDE DEF u
    <3> QED BY <1>0, <3>1, <3>2 DEF Acc
  <2> HIDE DEF u, vs
  <2>6. {Place(u.labels, d, m) : m \in Means(d, val)} = {0}
    BY <2>2, <2>3, <2>4, <2>5
  <2> QED BY <1>0, <1>5, <2>2, <2>3, <2>5, <2>6 DEF Settled
<1>6. ASSUME s.ok /\ val # <<>> /\ val # ABSENT /\ ~ Dims[d].multi /\ Len(val) > 1 PROVE Settled(s, d, val, u)
  <2>1. u = [s EXCEPT !.ok = FALSE]
    BY <1>6 DEF ResolvedDim
  <2>2. u.labels = s.labels /\ u.ok = FALSE /\ u \in Acc
    BY <1>0, <2>1 DEF Acc
  <2> HIDE DEF u
  <2> QED BY <1>0, <1>6, <2>2 DEF Settled
<1>7. ASSUME s.ok /\ val # <<>> /\ val # ABSENT /\ ~ (~ Dims[d].multi /\ Len(val) > 1) PROVE Settled(s, d, val, u)
  <2>1. u = Taking(s, d, val)
    BY <1>7 DEF ResolvedDim, Taking
  <2>2. val \in Seq(Named(d))
    BY <1>7 DEF Named1
  <2>3. u \in Acc
    <3> HIDE DEF u
    <3>1. PICK g \in [0..Len(val) -> Acc] : g[Len(val)] = Taking(s, d, val)
      BY <2>2, TakingFold
    <3>2. Len(val) \in 0..Len(val)
      BY <2>2
    <3> QED BY <2>1, <3>1, <3>2
  <2>4. ASSUME s.slots[d] = {} PROVE TakenSoFar(s, d, val, Len(val), u)
    <3> HIDE DEF u
    <3> QED BY <2>1, <2>2, <2>4, TakingIs
  <2> HIDE DEF u
  <2>5. /\ DOMAIN val = 1..Len(val)
        /\ Means(d, val) = {Meaning(d, val[j]) : j \in 1..Len(val)}
    BY <1>7, <2>2 DEF Means, Range
  <2>6. {Place(u.labels, d, m) : m \in Means(d, val)}
           = {Place(u.labels, d, Meaning(d, val[j])) : j \in 1..Len(val)}
    BY <2>5
  <2> QED BY <1>7, <2>3, <2>4, <2>5, <2>6 DEF Settled, TakenSoFar
<1>9. Settled(s, d, val, u)
  <2> HIDE DEF u
  <2> QED BY <1>0, <1>2, <1>3, <1>4, <1>5, <1>6, <1>7
<1> QED BY <1>9 DEF u

\* The values vals of the dimensions ds, resolved one dimension after the other.
Resolving(vals, s, ds) == FoldLeft(LAMBDA u, d : ResolvedDim(u, d, vals[d]), s, ds)

\* They are resolved in order.
LEMMA ResolvingFold ==
    ASSUME NEW s \in Acc, NEW vals, \A d \in Dim : vals[d] \in Named1(d), NEW ds \in Seq(Dim)
    PROVE  \E g \in [0..Len(ds) -> Acc] :
              /\ g[0] = s
              /\ \A k \in 1..Len(ds) : g[k] = ResolvedDim(g[k-1], ds[k], vals[ds[k]])
              /\ g[Len(ds)] = Resolving(vals, s, ds)
<1> DEFINE A == Acc
           base == s
           n == Len(ds)
           step == [k \in 1..n |-> [a \in A |-> ResolvedDim(a, ds[k], vals[ds[k]])]]
           Is(i) == i = [x \in SUBSET (1..n) |->
                            IF x = {} THEN base ELSE ResolvedDim(i[x \ {Max(x)}], ds[Max(x)], vals[ds[Max(x)]])]
           h == CHOOSE i : Is(i)
<1>1. n \in Nat /\ DOMAIN ds = 1..n /\ \A k \in 1..n : ds[k] \in Dim
  OBVIOUS
<1>2. base \in A /\ \A k \in 1..n : \A a \in A : ResolvedDim(a, ds[k], vals[ds[k]]) \in A
  BY <1>1, ResolvedDimIs DEF Settled
<1>3. step \in [1..n -> [A -> A]]
  <2> HIDE DEF n, A
  <2> QED BY <1>2
<1>4. PICK f \in [SUBSET (1..n) -> A] : Walks(base, n, step, f)
  <2> HIDE DEF A, base, n, step
  <2> QED BY <1>1, <1>2, <1>3, WalkExists
<1>5. \A x \in SUBSET (1..n) : x # {} => Max(x) \in 1..n /\ x \ {Max(x)} \in SUBSET (1..n)
  <2> HIDE DEF n
  <2> QED BY <1>1, MaxIsIn
<1>6. Is(f)
  <2>1. ASSUME NEW x \in SUBSET (1..n), x # {} PROVE f[x] = ResolvedDim(f[x \ {Max(x)}], ds[Max(x)], vals[ds[Max(x)]])
    <3> DEFINE m == Max(x)
    <3> HIDE DEF A, n, m
    <3>1. m \in 1..n /\ f[x \ {m}] \in A
      BY <1>5, <2>1 DEF m
    <3>2. f[x] = step[m][f[x \ {m}]]
      <4> HIDE DEF step, base
      <4> QED BY <1>4, <2>1 DEF Walks, m
    <3>3. f[x] = ResolvedDim(f[x \ {m}], ds[m], vals[ds[m]])
      BY <3>1, <3>2
    <3> QED BY <3>3 DEF m
  <2>2. f[{}] = base
    <3> HIDE DEF A, n, step, base
    <3> QED BY <1>4 DEF Walks
  <2> HIDE DEF A, n, base
  <2> QED BY <2>1, <2>2
<1>7. Is(h)
  <2> HIDE DEF Is
  <2> QED BY <1>6
<1>8. Resolving(vals, s, ds) = h[1..n]
  <2> HIDE DEF n
  <2> QED BY <1>1 DEF FoldLeft, MapThenFoldSet, Resolving
<1>9. h[{}] = base /\ Follows(A, n, step, h)
  <2>1. h[{}] = base /\ \A x \in SUBSET (1..n) : x # {} => h[x] = ResolvedDim(h[x \ {Max(x)}], ds[Max(x)], vals[ds[Max(x)]])
    <3> HIDE DEF h, n, A, base
    <3> QED BY <1>7
  <2>2. ASSUME NEW x \in SUBSET (1..n), x # {}, h[x \ {Max(x)}] \in A
        PROVE  h[x] = step[Max(x)][h[x \ {Max(x)}]]
    <3> HIDE DEF h, n, A, base
    <3> QED BY <1>5, <2>1, <2>2
  <2> HIDE DEF h, n, A, base, step
  <2> QED BY <2>1, <2>2 DEF Follows
<1>10. PICK g : Traces(A, base, n, step, g) /\ g[n] = h[1..n]
  <2>1. n \in Nat /\ base \in A
    BY <1>1, <1>2
  <2> HIDE DEF h, n, step, A, base
  <2>2. Folds(A, base, n, step, h)
    BY <1>3, <1>9, <2>1 DEF Folds
  <2> QED BY <2>2, FoldSteps
<1>11. g \in [0..n -> A] /\ g[0] = base /\ \A k \in 1..n : g[k] = ResolvedDim(g[k-1], ds[k], vals[ds[k]])
  <2> HIDE DEF n, A, base
  <2>1. \A k \in 1..n : g[k] = step[k][g[k-1]] /\ g[k-1] \in A
    <3> HIDE DEF step
    <3> QED BY <1>1, <1>10 DEF Traces
  <2>2. g \in [0..n -> A] /\ g[0] = base
    <3> HIDE DEF step
    <3> QED BY <1>10 DEF Traces
  <2> QED BY <2>1, <2>2
<1> HIDE DEF h, step
<1> QED BY <1>8, <1>10, <1>11

\* What resolving the first k dimensions comes to.
ResolvedSoFar(t, vals, k, u) ==
    /\ Extends(t, u.labels)
    /\ (\A d \in Dim : vals[d] = ABSENT) => u.ok /\ u.labels = t
    /\ u.ok => /\ \A d \in Dim : d > k => u.slots[d] = {}
               /\ \A d \in Dim : d <= k => /\ Means(d, vals[d]) \subseteq Range(Names(u.labels, d))
                                           /\ u.slots[d] = {Place(u.labels, d, m) : m \in Means(d, vals[d])}

LEMMA ResolvesNext ==
    ASSUME NEW t \in Table, NEW vals, NEW k \in Dim, k \in Nat, vals[k] \in Named1(k), Dim \subseteq Nat,
           NEW u \in Acc, ResolvedSoFar(t, vals, k - 1, u)
    PROVE  ResolvedSoFar(t, vals, k, ResolvedDim(u, k, vals[k]))
<1> DEFINE w == ResolvedDim(u, k, vals[k])
<1>1. CASE ~ u.ok
  <2>1. w = u
    BY <1>1 DEF ResolvedDim
  <2> HIDE DEF w
  <2>2. ResolvedSoFar(t, vals, k, w)
    BY <1>1, <2>1 DEF ResolvedSoFar
  <2> QED BY <2>2 DEF w
<1>2. CASE u.ok
  <2>1. Settled(u, k, vals[k], w)
    BY ResolvedDimIs
  <2> HIDE DEF w
  <2>2. \A d \in Dim : (d > k => d > k - 1) /\ (d <= k => d = k \/ (d <= k - 1 /\ d # k)) /\ (d > k => d # k) /\ k > k - 1
    OBVIOUS
  <2>3. /\ Extends(t, u.labels)
        /\ \A d \in Dim : d > k - 1 => u.slots[d] = {}
        /\ \A d \in Dim : d <= k - 1 => /\ Means(d, vals[d]) \subseteq Range(Names(u.labels, d))
                                        /\ u.slots[d] = {Place(u.labels, d, m) : m \in Means(d, vals[d])}
    BY <1>2 DEF ResolvedSoFar
  <2>4. u.slots[k] = {}
    BY <2>2, <2>3
  <2>5. /\ w \in Acc /\ Extends(u.labels, w.labels)
        /\ vals[k] = ABSENT => w.ok = u.ok /\ w.labels = u.labels
        /\ w.ok => /\ \A e \in Dim \ {k} : w.slots[e] = u.slots[e]
                   /\ Means(k, vals[k]) \subseteq Range(Names(w.labels, k))
                   /\ w.slots[k] = {Place(w.labels, k, m) : m \in Means(k, vals[k])}
    BY <2>1, <2>4 DEF Settled
  <2>6. u.labels \in Table /\ w.labels \in Table
    BY <2>5 DEF Acc
  <2>7. Extends(t, w.labels)
    BY <2>3, <2>5, <2>6, ExtendsTransitive
  <2>8. ASSUME w.ok, NEW d \in Dim, d <= k
        PROVE  /\ Means(d, vals[d]) \subseteq Range(Names(w.labels, d))
               /\ w.slots[d] = {Place(w.labels, d, m) : m \in Means(d, vals[d])}
    <3>1. CASE d = k
      BY <2>5, <2>8, <3>1
    <3>2. CASE d <= k - 1 /\ d # k
      <4>1. \A m \in Means(d, vals[d]) : m \in Range(Names(u.labels, d))
        BY <2>3, <3>2
      <4>2. \A m \in Means(d, vals[d]) : /\ m \in Range(Names(w.labels, d))
                                         /\ Place(w.labels, d, m) = Place(u.labels, d, m)
        BY <2>5, <2>6, <4>1, PlaceStays
      <4>3. w.slots[d] = {Place(u.labels, d, m) : m \in Means(d, vals[d])}
        BY <2>3, <2>5, <2>8, <3>2
      <4> QED BY <4>2, <4>3
    <3> QED BY <2>2, <2>8, <3>1, <3>2
  <2>9. ASSUME w.ok, NEW d \in Dim, d > k PROVE w.slots[d] = {}
    BY <2>2, <2>3, <2>5, <2>9
  <2>10. (\A d \in Dim : vals[d] = ABSENT) => w.ok /\ w.labels = t
    <3>1. (\A d \in Dim : vals[d] = ABSENT) => u.labels = t
      BY DEF ResolvedSoFar
    <3> QED BY <1>2, <2>5, <3>1
  <2>11. ResolvedSoFar(t, vals, k, w)
    BY <2>7, <2>8, <2>9, <2>10 DEF ResolvedSoFar
  <2> QED BY <2>11 DEF w
<1> QED BY <1>1, <1>2

LEMMA DimIs == Dim = 1..Len(Dims) /\ Len(Dims) \in Nat
BY SchemaAssumption DEF Dim

\* Before the first dimension is resolved.
Start(t) == [ok |-> TRUE, labels |-> t, slots |-> [d \in Dim |-> {}]]

\* All the dimensions resolved.
LEMMA ResolvingIs ==
    ASSUME NEW t \in Table, NEW vals, \A d \in Dim : vals[d] \in Named1(d)
    PROVE  /\ Resolving(vals, Start(t), [d \in Dim |-> d]) \in Acc
           /\ ResolvedSoFar(t, vals, Len(Dims), Resolving(vals, Start(t), [d \in Dim |-> d]))
<1> DEFINE n == Len(Dims)
           ds == [d \in Dim |-> d]
<1>0. n \in Nat /\ Dim = 1..n
  BY DimIs
<1>1. ds \in Seq(Dim) /\ Len(ds) = n /\ \A k \in 1..n : ds[k] = k
  <2> HIDE DEF n
  <2>1. ds = [d \in 1..n |-> d] /\ \A k \in 1..n : k \in Dim
    BY <1>0
  <2> QED BY <1>0, <2>1
<1>2. Start(t) \in Acc
  BY DEF Acc, Start
<1> HIDE DEF ds
<1>3. PICK g \in [0..Len(ds) -> Acc] :
         /\ g[0] = Start(t)
         /\ \A k \in 1..Len(ds) : g[k] = ResolvedDim(g[k-1], ds[k], vals[ds[k]])
         /\ g[Len(ds)] = Resolving(vals, Start(t), ds)
  BY <1>1, <1>2, ResolvingFold
<1>4. /\ g \in [0..n -> Acc] /\ g[0] = Start(t) /\ g[n] = Resolving(vals, Start(t), ds)
      /\ \A k \in 1..n : g[k] = ResolvedDim(g[k-1], k, vals[k])
  BY <1>1, <1>3
<1> HIDE DEF n
<1> DEFINE Bad == {k \in 0..n : ~ ResolvedSoFar(t, vals, k, g[k])}
<1>5. Bad = {}
  <2> SUFFICES ASSUME Bad # {} PROVE FALSE
    OBVIOUS
  <2>1. PICK k \in Bad : \A m \in Bad : k <= m
    <3>1. Bad \subseteq Nat
      OBVIOUS
    <3> HIDE DEF Bad
    <3> QED BY <3>1, LeastOf
  <2>2. k \in 0..n /\ ~ ResolvedSoFar(t, vals, k, g[k])
    OBVIOUS
  <2>3. CASE k = 0
    <3>1. \A d \in Dim : ~ (d <= 0)
      BY <1>0
    <3>2. Start(t).ok /\ Start(t).labels = t /\ \A d \in Dim : Start(t).slots[d] = {}
      BY DEF Start
    <3>3. ResolvedSoFar(t, vals, 0, Start(t))
      BY <3>1, <3>2, ExtendsItself DEF ResolvedSoFar
    <3> QED BY <1>4, <2>2, <2>3, <3>3
  <2>4. CASE k # 0
    <3>1. k \in 1..n /\ k \in Dim /\ k - 1 \in 0..n /\ k \in Nat /\ ~ (k <= k - 1) /\ Dim \subseteq Nat
      BY <1>0, <2>2, <2>4
    <3>2. ResolvedSoFar(t, vals, k - 1, g[k-1]) /\ g[k-1] \in Acc
      BY <1>4, <2>1, <3>1
    <3>3. g[k] = ResolvedDim(g[k-1], k, vals[k])
      BY <1>4, <3>1
    <3>4. ResolvedSoFar(t, vals, k, ResolvedDim(g[k-1], k, vals[k]))
      BY <3>1, <3>2, ResolvesNext
    <3> QED BY <2>2, <3>3, <3>4
  <2> QED BY <2>3, <2>4
<1>6. n \in 0..n
  BY <1>0
<1>7. ResolvedSoFar(t, vals, n, g[n]) /\ g[n] \in Acc
  BY <1>4, <1>5, <1>6
<1> QED BY <1>4, <1>7 DEF n, ds

\* What a report resolves to: the labels grow, and the cells are those of what it says.
LEMMA ResolveIs ==
    ASSUME NEW t \in Table, NEW vals, \A d \in Dim : vals[d] \in Named1(d)
    PROVE  /\ Resolve(t, vals).labels \in Table
           /\ Extends(t, Resolve(t, vals).labels)
           /\ Resolve(t, vals).cells \in SUBSET Nat
           /\ Resolve(t, vals).ok \/ (\A d \in Dim : vals[d] = ABSENT) =>
                 [cells |-> Resolve(t, vals).cells, held |-> Meant(vals)] \in Rec(Resolve(t, vals).labels)
           /\ (\A d \in Dim : vals[d] = ABSENT) => Resolve(t, vals).labels = t
<1> DEFINE s == Resolving(vals, Start(t), [d \in Dim |-> d])
           cells == IF s.ok THEN Emitted(s.slots) ELSE {}
<1>1. Resolve(t, vals) = [labels |-> s.labels, cells |-> cells,
                          ok |-> s.ok /\ Cardinality(cells) <= MaxCellsPerDevice]
  BY DEF Resolve, Resolving, Start
<1>2. s \in Acc /\ ResolvedSoFar(t, vals, Len(Dims), s)
  BY ResolvingIs
<1>3. /\ Resolve(t, vals).labels = s.labels /\ Resolve(t, vals).cells = cells
      /\ Resolve(t, vals).ok => s.ok
  <2> DEFINE few == Cardinality(cells) <= MaxCellsPerDevice
  <2> HIDE DEF s, cells, few
  <2>1. Resolve(t, vals) = [labels |-> s.labels, cells |-> cells, ok |-> s.ok /\ few]
    BY <1>1 DEF few
  <2>2. Resolve(t, vals).labels = s.labels /\ Resolve(t, vals).cells = cells
    BY <2>1
  <2>3. Resolve(t, vals).ok = (s.ok /\ few)
    BY <2>1
  <2>4. Resolve(t, vals).ok => s.ok
    BY <2>3
  <2> QED BY <2>2, <2>4
<1> HIDE DEF s
<1>4. s.labels \in Table /\ Extends(t, s.labels)
  BY <1>2 DEF Acc, ResolvedSoFar
<1>5. \A d \in Dim : Meant(vals)[d] = Means(d, vals[d])
  BY DEF Meant, Means
<1>6. Meant(vals) = [d \in Dim |-> Means(d, vals[d])]
  BY DEF Meant, Means
<1>8. ASSUME s.ok
      PROVE  [cells |-> cells, held |-> Meant(vals)] \in Rec(s.labels) /\ cells \in SUBSET Nat
  <2>1. \A d \in Dim : /\ Means(d, vals[d]) \subseteq Range(Names(s.labels, d))
                       /\ s.slots[d] = {Place(s.labels, d, m) : m \in Means(d, vals[d])}
    <3>1. \A d \in Dim : d <= Len(Dims)
      BY DimIs
    <3> QED BY <1>2, <1>8, <3>1 DEF ResolvedSoFar
  <2>2. Meant(vals) \in Holdable(s.labels)
    <3>1. \A d \in Dim : Range(Names(s.labels, d)) \subseteq Text
      BY <1>4, NamesType, RangeOfSeq
    <3> QED BY <1>5, <1>6, <2>1, <3>1 DEF Holdable
  <2>3. s.slots = Places(s.labels, Meant(vals))
    <3>1. s.slots \in [Dim -> SUBSET Nat]
      BY <1>2 DEF Acc
    <3> QED BY <1>5, <2>1, <3>1 DEF Places
  <2>4. cells = Emitted(s.slots)
    BY <1>8
  <2>5. s.slots \in SlotSets
    BY <1>4, <2>2, <2>3, PlacesType
  <2>6. cells \in SUBSET Nat
    <3> HIDE DEF cells
    <3> QED BY <2>4, <2>5, EmittedIs
  <2> HIDE DEF cells
  <2> QED BY <2>2, <2>3, <2>4, <2>6 DEF Rec
<1>9. (\A d \in Dim : vals[d] = ABSENT) => s.ok /\ s.labels = t
  BY <1>2 DEF ResolvedSoFar
<1>10. cells \in SUBSET Nat
  BY <1>8
<1> HIDE DEF cells
<1> QED BY <1>3, <1>4, <1>8, <1>9, <1>10

-----------------------------------------------------------------------------
(* How far an item gets *)

\* What holds at first and from one number to the next holds up to n.
LEMMA UpTo ==
    ASSUME NEW n \in Nat, NEW Good, 0 \in Good, \A k \in 1..n : k - 1 \in Good => k \in Good
    PROVE  \A k \in 0..n : k \in Good
<1> DEFINE Bad == {k \in 0..n : k \notin Good}
<1> SUFFICES ASSUME Bad # {} PROVE FALSE
  OBVIOUS
<1>1. PICK k \in Bad : \A m \in Bad : k <= m
  <2>1. Bad \subseteq Nat
    OBVIOUS
  <2> HIDE DEF Bad
  <2> QED BY <2>1, LeastOf
<1>2. k \in 1..n /\ k - 1 \in 0..n /\ ~ (k <= k - 1)
  BY <1>1
<1> QED BY <1>1, <1>2

\* A value that has a place keeps one when labels are added.
LEMMA KnownStays ==
    ASSUME NEW t \in Table, NEW u \in Table, Extends(t, u), NEW d \in Dim, NEW v, Known(t, d, v)
    PROVE  Known(u, d, v)
<1>1. CASE IsDynamic(d)
  <2>1. t[d] \in Seq(Value) /\ u[d] \in Seq(Value) /\ v \in Range(t[d])
    BY <1>1 DEF Table, Known
  <2>2. PICK i \in 1..Len(t[d]) : t[d][i] = v
    BY <2>1 DEF Range
  <2>3. i \in 1..Len(u[d]) /\ u[d][i] = v
    <3>1. Len(t[d]) \in Nat /\ Len(u[d]) \in Nat /\ Len(t[d]) <= Len(u[d]) /\ u[d][i] = t[d][i]
      BY <2>1 DEF Extends
    <3> QED BY <2>2, <3>1
  <2> QED BY <1>1, <2>1, <2>3 DEF Known, Range
<1>2. CASE ~ IsDynamic(d)
  BY <1>2 DEF Known
<1> QED BY <1>1, <1>2

\* Everything that vals names in the first k dimensions has a place.
Passed(t, vals, k) ==
    \A e \in 1..k : vals[e] # ABSENT => /\ Dims[e].multi \/ Len(vals[e]) <= 1
                                        /\ \A w \in Range(vals[e]) : Known(t, e, w)

\* So an item that got to a value got there still.
LEMMA GetsToStays ==
    ASSUME NEW t \in Table, NEW u \in Table, Extends(t, u), NEW vals, NEW d \in Dim, NEW v,
           GetsTo(t, vals, d, v)
    PROVE  GetsTo(u, vals, d, v)
<1>1. d \in Nat /\ \A e \in 1..d-1 : e \in Dim
  BY DimIs
<1>2. \A e \in 1..d-1 : vals[e] # ABSENT => \A w \in Range(vals[e]) : Known(u, e, w)
  BY <1>1, KnownStays DEF GetsTo
<1>3. PICK k \in DOMAIN vals[d] : vals[d][k] = v /\ \A j \in 1..k : Known(t, d, vals[d][j])
  BY DEF GetsTo
<1>4. \A j \in 1..k : Known(u, d, vals[d][j])
  BY <1>3, KnownStays
<1> QED BY <1>2, <1>3, <1>4 DEF GetsTo

\* Interning v gives no other value a slot, and none to v if that is an error.
LEMMA InternedGives ==
    ASSUME NEW s \in Acc, NEW d \in Dim, NEW v \in Named(d), s.ok
    PROVE  LET w == Interned(s, d, v)
           IN  /\ \A e \in Dim \ {d} : w.labels[e] = s.labels[e]
               /\ w.ok => Known(w.labels, d, v)
               /\ \A x \in Range(w.labels[d]) : x \in Range(s.labels[d]) \/ (x = v /\ w.ok)
<1> DEFINE w == Interned(s, d, v)
<1>0. /\ v \in Value /\ s.labels \in Table /\ s.labels[d] \in Seq(Value) /\ s.labels \in [Dim -> Seq(Value)]
      /\ s = [ok |-> s.ok, labels |-> s.labels, slots |-> s.slots]
  BY DEF Acc, Named, Table
<1>1. CASE Known(s.labels, d, v)
  <2>1. w = [s EXCEPT !.slots[d] = @ \union {Slot(s.labels, d, v)}]
    BY <1>1 DEF Interned
  <2>2. w.labels = s.labels
    BY <1>0, <2>1
  <2> HIDE DEF w
  <2>3. /\ \A e \in Dim \ {d} : w.labels[e] = s.labels[e]
        /\ w.ok => Known(w.labels, d, v)
        /\ \A x \in Range(w.labels[d]) : x \in Range(s.labels[d]) \/ (x = v /\ w.ok)
    BY <1>1, <2>2
  <2> QED BY <2>3 DEF w
<1>2. CASE ~ Known(s.labels, d, v) /\ (~ IsDynamic(d) \/ v = "" \/ Full(s.labels, d))
  <2>1. w = [s EXCEPT !.ok = FALSE]
    BY <1>2 DEF Interned
  <2>2. w.labels = s.labels /\ ~ w.ok
    BY <1>0, <2>1
  <2> HIDE DEF w
  <2>3. /\ \A e \in Dim \ {d} : w.labels[e] = s.labels[e]
        /\ w.ok => Known(w.labels, d, v)
        /\ \A x \in Range(w.labels[d]) : x \in Range(s.labels[d]) \/ (x = v /\ w.ok)
    BY <2>2
  <2> QED BY <2>3 DEF w
<1>3. CASE ~ Known(s.labels, d, v) /\ IsDynamic(d) /\ v # "" /\ ~ Full(s.labels, d)
  <2> DEFINE l == s.labels[d]
  <2>1. w = [s EXCEPT !.labels[d] = Append(@, v), !.slots[d] = @ \union {Len(s.labels[d])}]
    BY <1>3 DEF Interned
  <2>2. w.labels = [s.labels EXCEPT ![d] = Append(l, v)] /\ w.ok
    BY <1>0, <2>1
  <2> HIDE DEF w
  <2>3. w.labels[d] = Append(l, v) /\ \A e \in Dim \ {d} : w.labels[e] = s.labels[e]
    BY <1>0, <2>2
  <2>4. l \in Seq(Value)
    BY <1>0
  <2> HIDE DEF l
  <2>5. Range(Append(l, v)) = Range(l) \union {v}
    <3>1. /\ Len(l) \in Nat /\ DOMAIN l = 1..Len(l) /\ DOMAIN Append(l, v) = 1..Len(l) + 1
          /\ Append(l, v)[Len(l) + 1] = v /\ \A i \in 1..Len(l) : Append(l, v)[i] = l[i]
      BY <1>0, <2>4
    <3>2. \A i \in 1..Len(l) + 1 : i \in 1..Len(l) \/ i = Len(l) + 1
      BY <3>1
    <3>3. \A i \in 1..Len(l) : i \in 1..Len(l) + 1
      BY <3>1
    <3>4. Len(l) + 1 \in 1..Len(l) + 1
      BY <3>1
    <3> QED BY <3>1, <3>2, <3>3, <3>4 DEF Range
  <2>6. Known(w.labels, d, v)
    BY <1>3, <2>3, <2>5 DEF Known
  <2>7. /\ \A e \in Dim \ {d} : w.labels[e] = s.labels[e]
        /\ w.ok => Known(w.labels, d, v)
        /\ \A x \in Range(w.labels[d]) : x \in Range(s.labels[d]) \/ (x = v /\ w.ok)
    BY <2>2, <2>3, <2>5, <2>6 DEF l
  <2> QED BY <2>7 DEF w
<1> QED BY <1>1, <1>2, <1>3

\* What the first k values of val have been given, from s to u.
GivenSoFar(s, d, val, k, u) ==
    /\ Extends(s.labels, u.labels)
    /\ \A e \in Dim \ {d} : u.labels[e] = s.labels[e]
    /\ \A x \in Range(u.labels[d]) :
          x \in Range(s.labels[d])
             \/ \E i \in 1..k : val[i] = x /\ \A j \in 1..i : Known(u.labels, d, val[j])
    /\ u.ok => \A j \in 1..k : Known(u.labels, d, val[j])

LEMMA GivesNext ==
    ASSUME NEW s \in Acc, NEW d \in Dim, NEW k \in Nat \ {0}, NEW val, val[k] \in Named(d),
           NEW u \in Acc, GivenSoFar(s, d, val, k - 1, u)
    PROVE  GivenSoFar(s, d, val, k, IF u.ok THEN Interned(u, d, val[k]) ELSE u)
<1> DEFINE w == Interned(u, d, val[k])
<1>0. /\ \A j \in 1..k : j \in 1..k-1 \/ j = k
      /\ \A j \in 1..k-1 : j \in 1..k
      /\ k \in 1..k
  OBVIOUS
<1>1. CASE ~ u.ok
  <2>1. GivenSoFar(s, d, val, k, u)
    BY <1>0, <1>1 DEF GivenSoFar
  <2> QED BY <1>1, <2>1
<1>2. CASE u.ok
  <2>1. /\ w \in Acc /\ Extends(u.labels, w.labels)
        /\ \A e \in Dim \ {d} : w.labels[e] = u.labels[e]
        /\ w.ok => Known(w.labels, d, val[k])
        /\ \A x \in Range(w.labels[d]) : x \in Range(u.labels[d]) \/ (x = val[k] /\ w.ok)
    <3>1. w \in Acc /\ Extends(u.labels, w.labels)
      BY InternedIs
    <3>2. /\ \A e \in Dim \ {d} : w.labels[e] = u.labels[e]
          /\ w.ok => Known(w.labels, d, val[k])
          /\ \A x \in Range(w.labels[d]) : x \in Range(u.labels[d]) \/ (x = val[k] /\ w.ok)
      BY <1>2, InternedGives
    <3> HIDE DEF w
    <3> QED BY <3>1, <3>2
  <2> HIDE DEF w
  <2>2. u.labels \in Table /\ w.labels \in Table /\ s.labels \in Table
    BY <2>1 DEF Acc
  <2>3. Extends(s.labels, w.labels) /\ \A e \in Dim \ {d} : w.labels[e] = s.labels[e]
    BY <2>1, <2>2, ExtendsTransitive DEF GivenSoFar
  <2>4. \A j \in 1..k-1 : Known(w.labels, d, val[j])
    BY <1>2, <2>1, <2>2, KnownStays DEF GivenSoFar
  <2>5. w.ok => \A j \in 1..k : Known(w.labels, d, val[j])
    BY <1>0, <2>1, <2>4
  <2>6. ASSUME NEW x \in Range(w.labels[d]), x \notin Range(s.labels[d])
        PROVE  \E i \in 1..k : val[i] = x /\ \A j \in 1..i : Known(w.labels, d, val[j])
    <3>1. CASE x = val[k] /\ w.ok
      BY <1>0, <2>5, <3>1
    <3>2. CASE x \in Range(u.labels[d])
      <4>1. PICK i \in 1..k-1 : val[i] = x /\ \A j \in 1..i : Known(u.labels, d, val[j])
        BY <2>6, <3>2 DEF GivenSoFar
      <4> QED BY <1>0, <2>1, <2>2, <4>1, KnownStays
    <3> QED BY <2>1, <3>1, <3>2
  <2>7. GivenSoFar(s, d, val, k, w)
    BY <2>3, <2>5, <2>6 DEF GivenSoFar
  <2> QED BY <1>2, <2>7 DEF w
<1> QED BY <1>1, <1>2

\* All the values of a dimension taken.
LEMMA TakingGives ==
    ASSUME NEW s \in Acc, NEW d \in Dim, NEW val \in Seq(Named(d))
    PROVE  Taking(s, d, val) \in Acc /\ GivenSoFar(s, d, val, Len(val), Taking(s, d, val))
<1> DEFINE n == Len(val)
<1>1. PICK g \in [0..n -> Acc] :
         /\ g[0] = s
         /\ \A k \in 1..n : g[k] = (IF g[k-1].ok THEN Interned(g[k-1], d, val[k]) ELSE g[k-1])
         /\ g[n] = Taking(s, d, val)
  BY TakingFold
<1>2. n \in Nat /\ \A k \in 1..n : val[k] \in Named(d)
  OBVIOUS
<1> HIDE DEF n
<1> DEFINE Good == {k \in 0..n : GivenSoFar(s, d, val, k, g[k])}
<1>3. 0 \in Good
  <2>1. GivenSoFar(s, d, val, 0, s)
    <3>1. s.labels \in Table
      BY DEF Acc
    <3> QED BY <3>1, ExtendsItself DEF GivenSoFar
  <2> QED BY <1>1, <1>2, <2>1
<1>4. ASSUME NEW k \in 1..n, k - 1 \in Good PROVE k \in Good
  <2>1. k \in 0..n /\ k - 1 \in 0..n /\ k \in Nat \ {0} /\ val[k] \in Named(d)
    BY <1>2
  <2>2. g[k-1] \in Acc /\ GivenSoFar(s, d, val, k - 1, g[k-1])
    BY <1>1, <1>4, <2>1
  <2>3. GivenSoFar(s, d, val, k, IF g[k-1].ok THEN Interned(g[k-1], d, val[k]) ELSE g[k-1])
    BY <2>1, <2>2, GivesNext
  <2> QED BY <1>1, <2>1, <2>3
<1>5. n \in 0..n /\ n \in Good
  <2>1. n \in Nat /\ n \in 0..n
    BY <1>2
  <2> HIDE DEF Good
  <2>2. \A k \in 0..n : k \in Good
    BY <1>3, <1>4, <2>1, UpTo
  <2> QED BY <2>1, <2>2
<1> QED BY <1>1, <1>5 DEF n

\* What the first k dimensions have been given, from t to u.
GotSoFar(t, vals, k, u) ==
    /\ \A e \in Dim : \A x \in Range(u.labels[e]) : x \in Range(t[e]) \/ GetsTo(u.labels, vals, e, x)
    /\ u.ok => Passed(u.labels, vals, k)

LEMMA GetsNext ==
    ASSUME NEW t \in Table, NEW vals, NEW k \in Dim, vals[k] \in Named1(k),
           NEW u \in Acc, GotSoFar(t, vals, k - 1, u)
    PROVE  GotSoFar(t, vals, k, ResolvedDim(u, k, vals[k]))
<1> DEFINE w == ResolvedDim(u, k, vals[k])
           val == vals[k]
<1>0. /\ u.labels \in Table /\ k \in Nat
      /\ u = [ok |-> u.ok, labels |-> u.labels, slots |-> u.slots]
      /\ \A e \in 1..k : e \in 1..k-1 \/ e = k
      /\ \A e \in 1..k-1 : e \in Dim
  BY DimIs DEF Acc
<1>1. CASE ~ u.ok
  <2>1. w = u
    BY <1>1 DEF ResolvedDim
  <2> HIDE DEF w
  <2>2. GotSoFar(t, vals, k, w)
    BY <1>1, <2>1 DEF GotSoFar
  <2> QED BY <2>2 DEF w
<1>2. CASE u.ok /\ (val = <<>> \/ val = ABSENT)
  <2>1. w.labels = u.labels
    BY <1>0, <1>2 DEF ResolvedDim
  <2>2. Passed(u.labels, vals, k - 1)
    BY <1>2 DEF GotSoFar
  <2>3. Range(<<>>) = {} /\ Len(<<>>) <= 1
    BY DEF Range
  <2> HIDE DEF w
  <2>4. Passed(w.labels, vals, k)
    BY <1>0, <1>2, <2>1, <2>2, <2>3 DEF Passed
  <2>5. GotSoFar(t, vals, k, w)
    BY <2>1, <2>4 DEF GotSoFar
  <2> QED BY <2>5 DEF w
<1>3. CASE u.ok /\ val # <<>> /\ val # ABSENT /\ ~ Dims[k].multi /\ Len(val) > 1
  <2>1. w.labels = u.labels /\ ~ w.ok
    BY <1>0, <1>3 DEF ResolvedDim
  <2> HIDE DEF w
  <2>2. GotSoFar(t, vals, k, w)
    BY <2>1 DEF GotSoFar
  <2> QED BY <2>2 DEF w
<1>4. CASE u.ok /\ val # <<>> /\ val # ABSENT /\ ~ (~ Dims[k].multi /\ Len(val) > 1)
  <2>1. w = Taking(u, k, val)
    BY <1>4 DEF ResolvedDim, Taking
  <2>2. val \in Seq(Named(k)) /\ Len(val) \in Nat /\ DOMAIN val = 1..Len(val)
    BY <1>4 DEF Named1
  <2> HIDE DEF w
  <2>3. w \in Acc /\ GivenSoFar(u, k, val, Len(val), w)
    <3> HIDE DEF val
    <3> QED BY <2>1, <2>2, TakingGives
  <2>4. w.labels \in Table /\ Extends(u.labels, w.labels)
    BY <2>3 DEF Acc, GivenSoFar
  <2>5. Passed(u.labels, vals, k - 1)
    BY <1>4 DEF GotSoFar
  <2>6. Passed(w.labels, vals, k - 1)
    BY <1>0, <2>4, <2>5, KnownStays DEF Passed
  <2>7. Dims[k].multi \/ Len(val) <= 1
    BY <1>4, <2>2
  <2>8. ASSUME w.ok PROVE Passed(w.labels, vals, k)
    <3>1. \A x \in Range(val) : Known(w.labels, k, x)
      BY <2>2, <2>3, <2>8 DEF GivenSoFar, Range
    <3> QED BY <1>0, <2>6, <2>7, <3>1 DEF Passed
  <2>9. ASSUME NEW e \in Dim, NEW x \in Range(w.labels[e]), x \notin Range(t[e])
        PROVE  GetsTo(w.labels, vals, e, x)
    <3>1. CASE x \in Range(u.labels[e])
      BY <1>0, <2>4, <2>9, <3>1, GetsToStays DEF GotSoFar
    <3>2. CASE x \notin Range(u.labels[e])
      <4>1. e = k
        BY <2>3, <2>9, <3>2 DEF GivenSoFar
      <4>2. PICK i \in 1..Len(val) : val[i] = x /\ \A j \in 1..i : Known(w.labels, k, val[j])
        BY <2>3, <2>9, <3>2, <4>1 DEF GivenSoFar
      <4>3. \A f \in 1..k : vals[f] # ABSENT => Dims[f].multi \/ Len(vals[f]) <= 1
        BY <1>0, <2>6, <2>7 DEF Passed
      <4> QED BY <1>4, <2>2, <2>6, <4>1, <4>2, <4>3 DEF GetsTo, Passed
    <3> QED BY <3>1, <3>2
  <2>10. GotSoFar(t, vals, k, w)
    BY <2>8, <2>9 DEF GotSoFar
  <2> QED BY <2>10 DEF w
<1> QED BY <1>1, <1>2, <1>3, <1>4

\* A value that gets a slot while vals is resolved is one that vals got to.
LEMMA ResolveGives ==
    ASSUME NEW t \in Table, NEW vals, \A d \in Dim : vals[d] \in Named1(d)
    PROVE  LET u == Resolve(t, vals).labels
           IN  \A e \in Dim : \A x \in Range(u[e]) : x \in Range(t[e]) \/ GetsTo(u, vals, e, x)
<1> DEFINE n == Len(Dims)
           ds == [d \in Dim |-> d]
           s == Resolving(vals, Start(t), ds)
<1>0. n \in Nat /\ Dim = 1..n
  BY DimIs
<1>1. ds \in Seq(Dim) /\ Len(ds) = n /\ \A k \in 1..n : ds[k] = k
  <2> HIDE DEF n
  <2>1. ds = [d \in 1..n |-> d] /\ \A k \in 1..n : k \in Dim
    BY <1>0
  <2> QED BY <1>0, <2>1
<1>2. Start(t) \in Acc
  BY DEF Acc, Start
<1>3. Resolve(t, vals).labels = s.labels
  <2> DEFINE cells == IF s.ok THEN Emitted(s.slots) ELSE {}
             few == s.ok /\ Cardinality(cells) <= MaxCellsPerDevice
  <2>1. Resolve(t, vals) = [labels |-> s.labels, cells |-> cells, ok |-> few]
    BY DEF Resolve, Resolving, Start
  <2> HIDE DEF s, cells, few
  <2> QED BY <2>1
<1> HIDE DEF ds
<1>4. PICK g \in [0..Len(ds) -> Acc] :
         /\ g[0] = Start(t)
         /\ \A k \in 1..Len(ds) : g[k] = ResolvedDim(g[k-1], ds[k], vals[ds[k]])
         /\ g[Len(ds)] = Resolving(vals, Start(t), ds)
  BY <1>1, <1>2, ResolvingFold
<1>5. /\ g \in [0..n -> Acc] /\ g[0] = Start(t) /\ g[n] = s
      /\ \A k \in 1..n : g[k] = ResolvedDim(g[k-1], k, vals[k])
  BY <1>1, <1>4
<1> HIDE DEF n, s
<1> DEFINE Good == {k \in 0..n : GotSoFar(t, vals, k, g[k])}
<1>6. 0 \in Good
  <2>1. GotSoFar(t, vals, 0, Start(t))
    BY DEF GotSoFar, Passed, Start
  <2> QED BY <1>0, <1>5, <2>1
<1>7. ASSUME NEW k \in 1..n, k - 1 \in Good PROVE k \in Good
  <2>1. k \in Dim /\ k \in 0..n /\ k - 1 \in 0..n
    BY <1>0
  <2>2. g[k-1] \in Acc /\ GotSoFar(t, vals, k - 1, g[k-1])
    BY <1>5, <1>7, <2>1
  <2>3. GotSoFar(t, vals, k, ResolvedDim(g[k-1], k, vals[k]))
    BY <2>1, <2>2, GetsNext
  <2> QED BY <1>5, <2>1, <2>3
<1>8. n \in 0..n /\ n \in Good
  <2> HIDE DEF Good
  <2> QED BY <1>0, <1>6, <1>7, UpTo
<1>9. GotSoFar(t, vals, n, s)
  BY <1>5, <1>8
<1> QED BY <1>3, <1>9 DEF GotSoFar

-----------------------------------------------------------------------------
(* What a batch comes to *)

\* The items that pass a test, in order.
WellFormedOf(q, items) == Keeping(LAMBDA r : WellFormed(q, r), items)
Positions(got) == Keeping(LAMBDA out : ~ out.patch, got)
Patches(got) == Keeping(LAMBDA out : out.patch, got)

\* The items that go on to be resolved are well formed items of the batch.
LEMMA WellFormedType ==
    ASSUME NEW q, NEW s, s \in Seq(Range(s))
    PROVE  WellFormedOf(q, s) \in Seq({r \in Range(s) : WellFormed(q, r)})
<1> DEFINE A == Seq({r \in Range(s) : WellFormed(q, r)})
           base == <<>>
           n == Len(s)
           step == [k \in 1..n |-> [a \in A |-> (IF WellFormed(q, s[k]) THEN Append(a, s[k]) ELSE a)]]
           Is(i) == i = [x \in SUBSET (1..n) |->
                            IF x = {} THEN base ELSE (IF WellFormed(q, s[Max(x)]) THEN Append(i[x \ {Max(x)}], s[Max(x)]) ELSE i[x \ {Max(x)}])]
           h == CHOOSE i : Is(i)
<1>1. n \in Nat /\ DOMAIN s = 1..n /\ \A k \in 1..n : s[k] \in Range(s)
  BY LenProperties, ElementOfSeq
<1>2. base \in A /\ \A k \in 1..n : \A a \in A : (IF WellFormed(q, s[k]) THEN Append(a, s[k]) ELSE a) \in A
  <2>1. \A k \in 1..n : WellFormed(q, s[k]) => s[k] \in {r \in Range(s) : WellFormed(q, r)}
    BY <1>1
  <2>2. <<>> \in A
    OBVIOUS
  <2>3. \A S : \A a \in Seq(S) : \A x \in S : Append(a, x) \in Seq(S)
    BY AppendProperties
  <2> HIDE DEF n
  <2> QED BY <2>1, <2>2, <2>3
<1>3. step \in [1..n -> [A -> A]]
  <2> HIDE DEF n, A
  <2> QED BY <1>2
<1>4. PICK f \in [SUBSET (1..n) -> A] : Walks(base, n, step, f)
  <2> HIDE DEF A, base, n, step
  <2> QED BY <1>1, <1>2, <1>3, WalkExists
<1>5. \A x \in SUBSET (1..n) : x # {} => Max(x) \in 1..n /\ x \ {Max(x)} \in SUBSET (1..n)
  <2> HIDE DEF n
  <2> QED BY <1>1, MaxIsIn
<1>6. Is(f)
  <2>1. ASSUME NEW x \in SUBSET (1..n), x # {} PROVE f[x] = (IF WellFormed(q, s[Max(x)]) THEN Append(f[x \ {Max(x)}], s[Max(x)]) ELSE f[x \ {Max(x)}])
    <3> DEFINE m == Max(x)
    <3> HIDE DEF A, n, m
    <3>1. m \in 1..n /\ f[x \ {m}] \in A
      BY <1>5, <2>1 DEF m
    <3>2. f[x] = step[m][f[x \ {m}]]
      <4> HIDE DEF step, base
      <4> QED BY <1>4, <2>1 DEF Walks, m
    <3>3. f[x] = (IF WellFormed(q, s[m]) THEN Append(f[x \ {m}], s[m]) ELSE f[x \ {m}])
      BY <3>1, <3>2
    <3> QED BY <3>3 DEF m
  <2>2. f[{}] = base
    <3> HIDE DEF A, n, step, base
    <3> QED BY <1>4 DEF Walks
  <2> HIDE DEF A, n, base
  <2> QED BY <2>1, <2>2
<1>7. Is(h)
  <2> HIDE DEF Is
  <2> QED BY <1>6
<1>8. WellFormedOf(q, s) = h[1..n]
  <2> HIDE DEF n
  <2> QED BY <1>1 DEF FoldLeft, MapThenFoldSet, WellFormedOf, Keeping
<1>9. h[{}] = base /\ Follows(A, n, step, h)
  <2>1. h[{}] = base /\ \A x \in SUBSET (1..n) : x # {} => h[x] = (IF WellFormed(q, s[Max(x)]) THEN Append(h[x \ {Max(x)}], s[Max(x)]) ELSE h[x \ {Max(x)}])
    <3> HIDE DEF h, n, A, base
    <3> QED BY <1>7
  <2>2. ASSUME NEW x \in SUBSET (1..n), x # {}, h[x \ {Max(x)}] \in A
        PROVE  h[x] = step[Max(x)][h[x \ {Max(x)}]]
    <3> HIDE DEF h, n, A, base
    <3> QED BY <1>5, <2>1, <2>2
  <2> HIDE DEF h, n, A, base, step
  <2> QED BY <2>1, <2>2 DEF Follows
<1>10. PICK g : Traces(A, base, n, step, g) /\ g[n] = h[1..n]
  <2>1. n \in Nat /\ base \in A
    BY <1>1, <1>2
  <2> HIDE DEF h, n, step, A, base
  <2>2. Folds(A, base, n, step, h)
    BY <1>3, <1>9, <2>1 DEF Folds
  <2> QED BY <2>2, FoldSteps
<1>11. g[n] \in A
  <2> HIDE DEF n, A, base, step, h
  <2> QED BY <1>1, <1>10 DEF Traces
<1> QED BY <1>8, <1>10, <1>11

\* Some of the resolved reports are resolved reports.
LEMMA PositionsType ==
    ASSUME NEW S, NEW s \in Seq(S)
    PROVE  Positions(s) \in Seq(S)
<1> DEFINE A == Seq(S)
           base == <<>>
           n == Len(s)
           step == [k \in 1..n |-> [a \in A |-> (IF ~ s[k].patch THEN Append(a, s[k]) ELSE a)]]
           Is(i) == i = [x \in SUBSET (1..n) |->
                            IF x = {} THEN base ELSE (IF ~ s[Max(x)].patch THEN Append(i[x \ {Max(x)}], s[Max(x)]) ELSE i[x \ {Max(x)}])]
           h == CHOOSE i : Is(i)
<1>1. n \in Nat /\ DOMAIN s = 1..n /\ \A k \in 1..n : s[k] \in S
  OBVIOUS
<1>2. base \in A /\ \A k \in 1..n : \A a \in A : (IF ~ s[k].patch THEN Append(a, s[k]) ELSE a) \in A
  <2>1. <<>> \in A
    OBVIOUS
  <2>2. \A a \in Seq(S) : \A x \in S : Append(a, x) \in Seq(S)
    BY AppendProperties
  <2> HIDE DEF n
  <2> QED BY <1>1, <2>1, <2>2
<1>3. step \in [1..n -> [A -> A]]
  <2> HIDE DEF n, A
  <2> QED BY <1>2
<1>4. PICK f \in [SUBSET (1..n) -> A] : Walks(base, n, step, f)
  <2> HIDE DEF A, base, n, step
  <2> QED BY <1>1, <1>2, <1>3, WalkExists
<1>5. \A x \in SUBSET (1..n) : x # {} => Max(x) \in 1..n /\ x \ {Max(x)} \in SUBSET (1..n)
  <2> HIDE DEF n
  <2> QED BY <1>1, MaxIsIn
<1>6. Is(f)
  <2>1. ASSUME NEW x \in SUBSET (1..n), x # {} PROVE f[x] = (IF ~ s[Max(x)].patch THEN Append(f[x \ {Max(x)}], s[Max(x)]) ELSE f[x \ {Max(x)}])
    <3> DEFINE m == Max(x)
    <3> HIDE DEF A, n, m
    <3>1. m \in 1..n /\ f[x \ {m}] \in A
      BY <1>5, <2>1 DEF m
    <3>2. f[x] = step[m][f[x \ {m}]]
      <4> HIDE DEF step, base
      <4> QED BY <1>4, <2>1 DEF Walks, m
    <3>3. f[x] = (IF ~ s[m].patch THEN Append(f[x \ {m}], s[m]) ELSE f[x \ {m}])
      BY <3>1, <3>2
    <3> QED BY <3>3 DEF m
  <2>2. f[{}] = base
    <3> HIDE DEF A, n, step, base
    <3> QED BY <1>4 DEF Walks
  <2> HIDE DEF A, n, base
  <2> QED BY <2>1, <2>2
<1>7. Is(h)
  <2> HIDE DEF Is
  <2> QED BY <1>6
<1>8. Positions(s) = h[1..n]
  <2> HIDE DEF n
  <2> QED BY <1>1 DEF FoldLeft, MapThenFoldSet, Positions, Keeping
<1>9. h[{}] = base /\ Follows(A, n, step, h)
  <2>1. h[{}] = base /\ \A x \in SUBSET (1..n) : x # {} => h[x] = (IF ~ s[Max(x)].patch THEN Append(h[x \ {Max(x)}], s[Max(x)]) ELSE h[x \ {Max(x)}])
    <3> HIDE DEF h, n, A, base
    <3> QED BY <1>7
  <2>2. ASSUME NEW x \in SUBSET (1..n), x # {}, h[x \ {Max(x)}] \in A
        PROVE  h[x] = step[Max(x)][h[x \ {Max(x)}]]
    <3> HIDE DEF h, n, A, base
    <3> QED BY <1>5, <2>1, <2>2
  <2> HIDE DEF h, n, A, base, step
  <2> QED BY <2>1, <2>2 DEF Follows
<1>10. PICK g : Traces(A, base, n, step, g) /\ g[n] = h[1..n]
  <2>1. n \in Nat /\ base \in A
    BY <1>1, <1>2
  <2> HIDE DEF h, n, step, A, base
  <2>2. Folds(A, base, n, step, h)
    BY <1>3, <1>9, <2>1 DEF Folds
  <2> QED BY <2>2, FoldSteps
<1>11. g[n] \in A
  <2> HIDE DEF n, A, base, step, h
  <2> QED BY <1>1, <1>10 DEF Traces
<1> QED BY <1>8, <1>10, <1>11

\* Some of the resolved reports are resolved reports.
LEMMA PatchesType ==
    ASSUME NEW S, NEW s \in Seq(S)
    PROVE  Patches(s) \in Seq(S)
<1> DEFINE A == Seq(S)
           base == <<>>
           n == Len(s)
           step == [k \in 1..n |-> [a \in A |-> (IF s[k].patch THEN Append(a, s[k]) ELSE a)]]
           Is(i) == i = [x \in SUBSET (1..n) |->
                            IF x = {} THEN base ELSE (IF s[Max(x)].patch THEN Append(i[x \ {Max(x)}], s[Max(x)]) ELSE i[x \ {Max(x)}])]
           h == CHOOSE i : Is(i)
<1>1. n \in Nat /\ DOMAIN s = 1..n /\ \A k \in 1..n : s[k] \in S
  OBVIOUS
<1>2. base \in A /\ \A k \in 1..n : \A a \in A : (IF s[k].patch THEN Append(a, s[k]) ELSE a) \in A
  <2>1. <<>> \in A
    OBVIOUS
  <2>2. \A a \in Seq(S) : \A x \in S : Append(a, x) \in Seq(S)
    BY AppendProperties
  <2> HIDE DEF n
  <2> QED BY <1>1, <2>1, <2>2
<1>3. step \in [1..n -> [A -> A]]
  <2> HIDE DEF n, A
  <2> QED BY <1>2
<1>4. PICK f \in [SUBSET (1..n) -> A] : Walks(base, n, step, f)
  <2> HIDE DEF A, base, n, step
  <2> QED BY <1>1, <1>2, <1>3, WalkExists
<1>5. \A x \in SUBSET (1..n) : x # {} => Max(x) \in 1..n /\ x \ {Max(x)} \in SUBSET (1..n)
  <2> HIDE DEF n
  <2> QED BY <1>1, MaxIsIn
<1>6. Is(f)
  <2>1. ASSUME NEW x \in SUBSET (1..n), x # {} PROVE f[x] = (IF s[Max(x)].patch THEN Append(f[x \ {Max(x)}], s[Max(x)]) ELSE f[x \ {Max(x)}])
    <3> DEFINE m == Max(x)
    <3> HIDE DEF A, n, m
    <3>1. m \in 1..n /\ f[x \ {m}] \in A
      BY <1>5, <2>1 DEF m
    <3>2. f[x] = step[m][f[x \ {m}]]
      <4> HIDE DEF step, base
      <4> QED BY <1>4, <2>1 DEF Walks, m
    <3>3. f[x] = (IF s[m].patch THEN Append(f[x \ {m}], s[m]) ELSE f[x \ {m}])
      BY <3>1, <3>2
    <3> QED BY <3>3 DEF m
  <2>2. f[{}] = base
    <3> HIDE DEF A, n, step, base
    <3> QED BY <1>4 DEF Walks
  <2> HIDE DEF A, n, base
  <2> QED BY <2>1, <2>2
<1>7. Is(h)
  <2> HIDE DEF Is
  <2> QED BY <1>6
<1>8. Patches(s) = h[1..n]
  <2> HIDE DEF n
  <2> QED BY <1>1 DEF FoldLeft, MapThenFoldSet, Patches, Keeping
<1>9. h[{}] = base /\ Follows(A, n, step, h)
  <2>1. h[{}] = base /\ \A x \in SUBSET (1..n) : x # {} => h[x] = (IF s[Max(x)].patch THEN Append(h[x \ {Max(x)}], s[Max(x)]) ELSE h[x \ {Max(x)}])
    <3> HIDE DEF h, n, A, base
    <3> QED BY <1>7
  <2>2. ASSUME NEW x \in SUBSET (1..n), x # {}, h[x \ {Max(x)}] \in A
        PROVE  h[x] = step[Max(x)][h[x \ {Max(x)}]]
    <3> HIDE DEF h, n, A, base
    <3> QED BY <1>5, <2>1, <2>2
  <2> HIDE DEF h, n, A, base, step
  <2> QED BY <2>1, <2>2 DEF Follows
<1>10. PICK g : Traces(A, base, n, step, g) /\ g[n] = h[1..n]
  <2>1. n \in Nat /\ base \in A
    BY <1>1, <1>2
  <2> HIDE DEF h, n, step, A, base
  <2>2. Folds(A, base, n, step, h)
    BY <1>3, <1>9, <2>1 DEF Folds
  <2> QED BY <2>2, FoldSteps
<1>11. g[n] \in A
  <2> HIDE DEF n, A, base, step, h
  <2> QED BY <1>1, <1>10 DEF Traces
<1> QED BY <1>8, <1>10, <1>11

\* Before any label is taken.
LEMMA NoLabelsIs == NoLabels \in Table
<1>1. \A d \in Dim : Len(<<>>) = 0 /\ IsInjective(<<>>) /\ Range(<<>>) = {} /\ <<>> \in Seq(Value)
  <2>1. DOMAIN <<>> = {} /\ Len(<<>>) = 0 /\ <<>> \in Seq(Value)
    OBVIOUS
  <2> QED BY <2>1 DEF IsInjective, Range
<1>2. \A d \in Dim : NoLabels[d] = <<>>
  BY DEF NoLabels
<1>3. \A d \in Dim : 0 <= Size(d)
  BY SizeIsPositive
<1> QED BY <1>1, <1>2, <1>3 DEF Table, NoLabels

\* What a device gets that never named a value is right whatever the labels are.
LEMMA DefaultIs ==
    ASSUME NEW t \in Table
    PROVE  [cells |-> DefaultCells, held |-> Meant(Nothing)] \in Rec(t)
<1>1. \A d \in Dim : Nothing[d] = ABSENT /\ Nothing[d] \in Named1(d)
  BY DEF Nothing, Named1
<1>2. NoLabels \in Table
  BY NoLabelsIs
<1> DEFINE r == Resolve(NoLabels, Nothing)
<1>3. r.labels = NoLabels /\ [cells |-> r.cells, held |-> Meant(Nothing)] \in Rec(r.labels)
  <2> HIDE DEF r
  <2> QED BY <1>1, <1>2, ResolveIs DEF r
<1>4. Extends(NoLabels, t)
  <2>1. \A d \in Dim : Len(NoLabels[d]) = 0 /\ Len(t[d]) \in Nat /\ 1..0 = {}
    BY DEF NoLabels, Table
  <2> QED BY <2>1 DEF Extends
<1> HIDE DEF r
<1>5. Rec(NoLabels) \subseteq Rec(t)
  BY <1>2, <1>4, RecStays
<1>6. DefaultCells = r.cells
  BY DEF DefaultCells, r
<1> QED BY <1>3, <1>5, <1>6

\* One report applied leaves every record right.
LEMMA FiledIs ==
    ASSUME NEW t \in Table, NEW f \in Recs(t), NEW out \in Out(t)
    PROVE  FiledBy(f, out) \in Recs(t) /\ PatchedBy(f, out) \in Recs(t)
<1>1. out.dev \in Device /\ (out.keep \/ [cells |-> out.cells, held |-> out.held] \in Rec(t))
  BY DEF Out
<1>2. f \in [Device -> Rec(t) \union {NONE}]
  BY DEF Recs
<1>3. [cells |-> DefaultCells, held |-> Meant(Nothing)] \in Rec(t)
  BY DefaultIs
<1> QED BY <1>1, <1>2, <1>3 DEF FiledBy, PatchedBy, Recs

\* All the reports applied.
FilingAll(was, outs) == FoldLeft(FiledBy, was, outs)
PatchingAll(was, outs) == FoldLeft(PatchedBy, was, outs)

\* They leave every record right.
LEMMA FilingType ==
    ASSUME NEW t \in Table, NEW was \in Recs(t), NEW s \in Seq(Out(t))
    PROVE  FilingAll(was, s) \in Recs(t)
<1> DEFINE A == Recs(t)
           base == was
           n == Len(s)
           step == [k \in 1..n |-> [a \in A |-> FiledBy(a, s[k])]]
           Is(i) == i = [x \in SUBSET (1..n) |->
                            IF x = {} THEN base ELSE FiledBy(i[x \ {Max(x)}], s[Max(x)])]
           h == CHOOSE i : Is(i)
<1>1. n \in Nat /\ DOMAIN s = 1..n /\ \A k \in 1..n : s[k] \in Out(t)
  OBVIOUS
<1>2. base \in A /\ \A k \in 1..n : \A a \in A : FiledBy(a, s[k]) \in A
  BY <1>1, FiledIs
<1>3. step \in [1..n -> [A -> A]]
  <2> HIDE DEF n, A
  <2> QED BY <1>2
<1>4. PICK f \in [SUBSET (1..n) -> A] : Walks(base, n, step, f)
  <2> HIDE DEF A, base, n, step
  <2> QED BY <1>1, <1>2, <1>3, WalkExists
<1>5. \A x \in SUBSET (1..n) : x # {} => Max(x) \in 1..n /\ x \ {Max(x)} \in SUBSET (1..n)
  <2> HIDE DEF n
  <2> QED BY <1>1, MaxIsIn
<1>6. Is(f)
  <2>1. ASSUME NEW x \in SUBSET (1..n), x # {} PROVE f[x] = FiledBy(f[x \ {Max(x)}], s[Max(x)])
    <3> DEFINE m == Max(x)
    <3> HIDE DEF A, n, m
    <3>1. m \in 1..n /\ f[x \ {m}] \in A
      BY <1>5, <2>1 DEF m
    <3>2. f[x] = step[m][f[x \ {m}]]
      <4> HIDE DEF step, base
      <4> QED BY <1>4, <2>1 DEF Walks, m
    <3>3. f[x] = FiledBy(f[x \ {m}], s[m])
      BY <3>1, <3>2
    <3> QED BY <3>3 DEF m
  <2>2. f[{}] = base
    <3> HIDE DEF A, n, step, base
    <3> QED BY <1>4 DEF Walks
  <2> HIDE DEF A, n, base
  <2> QED BY <2>1, <2>2
<1>7. Is(h)
  <2> HIDE DEF Is
  <2> QED BY <1>6
<1>8. FilingAll(was, s) = h[1..n]
  <2> HIDE DEF n
  <2> QED BY <1>1 DEF FoldLeft, MapThenFoldSet, FilingAll
<1>9. h[{}] = base /\ Follows(A, n, step, h)
  <2>1. h[{}] = base /\ \A x \in SUBSET (1..n) : x # {} => h[x] = FiledBy(h[x \ {Max(x)}], s[Max(x)])
    <3> HIDE DEF h, n, A, base
    <3> QED BY <1>7
  <2>2. ASSUME NEW x \in SUBSET (1..n), x # {}, h[x \ {Max(x)}] \in A
        PROVE  h[x] = step[Max(x)][h[x \ {Max(x)}]]
    <3> HIDE DEF h, n, A, base
    <3> QED BY <1>5, <2>1, <2>2
  <2> HIDE DEF h, n, A, base, step
  <2> QED BY <2>1, <2>2 DEF Follows
<1>10. PICK g : Traces(A, base, n, step, g) /\ g[n] = h[1..n]
  <2>1. n \in Nat /\ base \in A
    BY <1>1, <1>2
  <2> HIDE DEF h, n, step, A, base
  <2>2. Folds(A, base, n, step, h)
    BY <1>3, <1>9, <2>1 DEF Folds
  <2> QED BY <2>2, FoldSteps
<1>11. g[n] \in A
  <2> HIDE DEF n, A, base, step, h
  <2> QED BY <1>1, <1>10 DEF Traces
<1> QED BY <1>8, <1>10, <1>11

\* They leave every record right.
LEMMA PatchingType ==
    ASSUME NEW t \in Table, NEW was \in Recs(t), NEW s \in Seq(Out(t))
    PROVE  PatchingAll(was, s) \in Recs(t)
<1> DEFINE A == Recs(t)
           base == was
           n == Len(s)
           step == [k \in 1..n |-> [a \in A |-> PatchedBy(a, s[k])]]
           Is(i) == i = [x \in SUBSET (1..n) |->
                            IF x = {} THEN base ELSE PatchedBy(i[x \ {Max(x)}], s[Max(x)])]
           h == CHOOSE i : Is(i)
<1>1. n \in Nat /\ DOMAIN s = 1..n /\ \A k \in 1..n : s[k] \in Out(t)
  OBVIOUS
<1>2. base \in A /\ \A k \in 1..n : \A a \in A : PatchedBy(a, s[k]) \in A
  BY <1>1, FiledIs
<1>3. step \in [1..n -> [A -> A]]
  <2> HIDE DEF n, A
  <2> QED BY <1>2
<1>4. PICK f \in [SUBSET (1..n) -> A] : Walks(base, n, step, f)
  <2> HIDE DEF A, base, n, step
  <2> QED BY <1>1, <1>2, <1>3, WalkExists
<1>5. \A x \in SUBSET (1..n) : x # {} => Max(x) \in 1..n /\ x \ {Max(x)} \in SUBSET (1..n)
  <2> HIDE DEF n
  <2> QED BY <1>1, MaxIsIn
<1>6. Is(f)
  <2>1. ASSUME NEW x \in SUBSET (1..n), x # {} PROVE f[x] = PatchedBy(f[x \ {Max(x)}], s[Max(x)])
    <3> DEFINE m == Max(x)
    <3> HIDE DEF A, n, m
    <3>1. m \in 1..n /\ f[x \ {m}] \in A
      BY <1>5, <2>1 DEF m
    <3>2. f[x] = step[m][f[x \ {m}]]
      <4> HIDE DEF step, base
      <4> QED BY <1>4, <2>1 DEF Walks, m
    <3>3. f[x] = PatchedBy(f[x \ {m}], s[m])
      BY <3>1, <3>2
    <3> QED BY <3>3 DEF m
  <2>2. f[{}] = base
    <3> HIDE DEF A, n, step, base
    <3> QED BY <1>4 DEF Walks
  <2> HIDE DEF A, n, base
  <2> QED BY <2>1, <2>2
<1>7. Is(h)
  <2> HIDE DEF Is
  <2> QED BY <1>6
<1>8. PatchingAll(was, s) = h[1..n]
  <2> HIDE DEF n
  <2> QED BY <1>1 DEF FoldLeft, MapThenFoldSet, PatchingAll
<1>9. h[{}] = base /\ Follows(A, n, step, h)
  <2>1. h[{}] = base /\ \A x \in SUBSET (1..n) : x # {} => h[x] = PatchedBy(h[x \ {Max(x)}], s[Max(x)])
    <3> HIDE DEF h, n, A, base
    <3> QED BY <1>7
  <2>2. ASSUME NEW x \in SUBSET (1..n), x # {}, h[x \ {Max(x)}] \in A
        PROVE  h[x] = step[Max(x)][h[x \ {Max(x)}]]
    <3> HIDE DEF h, n, A, base
    <3> QED BY <1>5, <2>1, <2>2
  <2> HIDE DEF h, n, A, base, step
  <2> QED BY <2>1, <2>2 DEF Follows
<1>10. PICK g : Traces(A, base, n, step, g) /\ g[n] = h[1..n]
  <2>1. n \in Nat /\ base \in A
    BY <1>1, <1>2
  <2> HIDE DEF h, n, step, A, base
  <2>2. Folds(A, base, n, step, h)
    BY <1>3, <1>9, <2>1 DEF Folds
  <2> QED BY <2>2, FoldSteps
<1>11. g[n] \in A
  <2> HIDE DEF n, A, base, step, h
  <2> QED BY <1>1, <1>10 DEF Traces
<1> QED BY <1>8, <1>10, <1>11

-----------------------------------------------------------------------------
(* The steps *)

\* The values a well formed item names are values that may be named.
LEMMA ItemNames ==
    ASSUME NEW q \in Batches, NEW n \in DOMAIN q.items, WellFormed(q, q.items[n]), NEW d \in Dim,
           ValsOf(q, q.items[n])[d] = ABSENT \/ ValsOf(q, q.items[n])[d] \in Seq(Value)
    PROVE  ValsOf(q, q.items[n])[d] \in Named1(d)
<1> DEFINE val == ValsOf(q, q.items[n])[d]
<1>1. CASE val = ABSENT
  BY <1>1 DEF Named1
<1>2. CASE val # ABSENT
  <2>1. val \in Seq(Value)
    BY <1>2
  <2>2. \A v \in Range(val) : v \in Value
    <3> HIDE DEF val
    <3> QED BY <2>1, RangeOfSeq
  <2>3. \A v \in Range(val) : v \in Named(d)
    BY <1>2, <2>2 DEF Named
  <2>4. val \in Seq(Named(d))
    <3> HIDE DEF val
    <3>1. Len(val) \in Nat /\ val = [i \in 1..Len(val) |-> val[i]] /\ DOMAIN val = 1..Len(val)
      BY <2>1
    <3>2. \A i \in 1..Len(val) : val[i] \in Named(d)
      BY <2>3, <3>1 DEF Range
    <3> QED BY <3>1, <3>2
  <2> QED BY <2>4 DEF Named1
<1> QED BY <1>1, <1>2

\* A well formed item says which device it is about, and what it names may be named.
LEMMA TakenIs ==
    ASSUME NEW q \in Batches, NEW n \in DOMAIN q.items, WellFormed(q, q.items[n])
    PROVE  /\ IdOf(q, q.items[n]) \in Device
           /\ IsPatch(q, q.items[n]) \in BOOLEAN
           /\ \A d \in Dim : ValsOf(q, q.items[n])[d] \in Named1(d)
<1> DEFINE r == q.items[n]
           vals == ValsOf(q, r)
<1>1. /\ q.form \in {"compact", "geo"} /\ q.idProp \in BOOLEAN
      /\ IF q.form = "compact" THEN IsCompact(r) ELSE IsFeature(r)
  BY RequestAssumption DEF IsRequest
<1> HIDE DEF r
<1>2. IsPatch(q, r) \in BOOLEAN
  BY DEF IsPatch
<1>3. CASE q.form = "compact"
  <2>1. IdOf(q, r) \in Device
    BY <1>1, <1>3 DEF IdOf, IsCompact
  <2>2. \A v \in Value : <<v>> \in Seq(Value)
    OBVIOUS
  <2>3. vals = [r.dims EXCEPT ![1] = IF @ = ABSENT /\ r.cat # ABSENT THEN <<r.cat>> ELSE @]
    BY <1>3 DEF ValsOf, CompactVals
  <2>4. /\ DOMAIN r.dims = Dim /\ r.cat \in Value \union {ABSENT}
        /\ \A d \in Dim : r.dims[d] = ABSENT \/ r.dims[d] \in Seq(Value)
    BY <1>1, <1>3 DEF IsCompact, IsNamed
  <2>5. ASSUME NEW d \in Dim PROVE vals[d] = ABSENT \/ vals[d] \in Seq(Value)
    <3>1. CASE d = 1
      <4>1. vals[d] = IF r.dims[1] = ABSENT /\ r.cat # ABSENT THEN <<r.cat>> ELSE r.dims[1]
        <5> HIDE DEF vals
        <5> QED BY <2>3, <2>4, <3>1
      <4> HIDE DEF vals
      <4> QED BY <2>2, <2>4, <3>1, <4>1
    <3>2. CASE d # 1
      <4>1. vals[d] = r.dims[d]
        <5> HIDE DEF vals
        <5> QED BY <2>3, <2>4, <3>2
      <4> HIDE DEF vals
      <4> QED BY <2>4, <4>1
    <3> QED BY <3>1, <3>2
  <2>6. \A d \in Dim : vals[d] \in Named1(d)
    BY <2>5, ItemNames DEF r
  <2> QED BY <1>2, <2>1, <2>6 DEF r
<1>4. CASE q.form # "compact"
  <2>0. IsFeature(r) /\ FeatureFormed(q, r)
    BY <1>1, <1>4 DEF WellFormed, r
  <2>1. IdOf(q, r) \in Device
    <3>1. FeatureId(q, r) # NONE
      BY <2>0 DEF FeatureFormed
    <3>2. FeatureId(q, r) \in Device \union {NONE}
      BY <2>0 DEF IsFeature, FeatureId
    <3> QED BY <1>4, <3>1, <3>2 DEF IdOf
  <2>2. \A d \in Dim : Nothing[d] = ABSENT
    BY DEF Nothing
  <2>3. \A d \in Dim : vals[d] = ABSENT \/ vals[d] \in Seq(Value)
    <3>1. vals = IF r.props = NONE THEN Nothing ELSE r.props.dims
      BY <1>4 DEF ValsOf, PeekedVals
    <3>2. r.props # NONE => \A d \in Dim : r.props.dims[d] = ABSENT \/ r.props.dims[d] \in Seq(Value)
      BY <2>0 DEF IsFeature, IsNamed
    <3> HIDE DEF vals
    <3> QED BY <2>2, <3>1, <3>2
  <2>4. \A d \in Dim : vals[d] \in Named1(d)
    BY <2>3, ItemNames DEF r
  <2> QED BY <1>2, <2>1, <2>4 DEF r
<1> QED BY <1>3, <1>4

\* What waits to be resolved.
LEMMA ItemIs ==
    ASSUME NEW r \in Item
    PROVE  /\ r.dev \in Device /\ r.patch \in BOOLEAN /\ \A d \in Dim : r.vals[d] \in Named1(d)
           /\ r.bare \in BOOLEAN /\ (r.bare => r.vals = Nothing)
<1>1. PICK q \in Batches : \E n \in {m \in DOMAIN q.items : WellFormed(q, q.items[m])} : r = Taken(q, q.items[n])
  BY DEF Item
<1>2. PICK n \in DOMAIN q.items : WellFormed(q, q.items[n]) /\ r = Taken(q, q.items[n])
  BY <1>1
<1>3. /\ r.dev = IdOf(q, q.items[n]) /\ r.patch = IsPatch(q, q.items[n]) /\ r.vals = ValsOf(q, q.items[n])
      /\ r.bare = IsBare(q, q.items[n])
  BY <1>2 DEF Taken
<1>4. IsBare(q, q.items[n]) \in BOOLEAN /\ (IsBare(q, q.items[n]) => ValsOf(q, q.items[n]) = Nothing)
  BY DEF IsBare
<1> QED BY <1>2, <1>3, <1>4, TakenIs

\* A query that resolved its cell would resolve the same one after labels are added.
LEMMA QueryStays ==
    ASSUME NEW t \in Table, NEW u \in Table, Extends(t, u), NEW sel \in Selections, QueryCell(t, sel) # NONE
    PROVE  QueryCell(u, sel) = QueryCell(t, sel)
<1>1. DOMAIN sel \subseteq Dim /\ \A d \in DOMAIN sel : sel[d] \in Value
  <2>1. PICK sh \in Range(Shapes) : sel \in [Range(sh) -> Value]
    BY DEF Selections
  <2>2. Range(sh) \subseteq Dim
    <3>1. PICK j \in DOMAIN Shapes : Shapes[j] = sh
      BY DEF Range
    <3> QED BY <3>1, ShapeType, RangeOfSeq
  <2> QED BY <2>1, <2>2
<1>2. \A d \in DOMAIN sel : Known(t, d, sel[d])
  BY DEF QueryCell
<1>3. ASSUME NEW d \in DOMAIN sel
      PROVE  Known(u, d, sel[d]) /\ Slot(u, d, sel[d]) = Slot(t, d, sel[d])
  <2>1. /\ Meaning(d, sel[d]) \in Range(Names(t, d))
        /\ Slot(t, d, sel[d]) = Place(t, d, Meaning(d, sel[d]))
    BY <1>1, <1>2, SlotIsPlace
  <2>2. /\ Meaning(d, sel[d]) \in Range(Names(u, d))
        /\ Place(u, d, Meaning(d, sel[d])) = Place(t, d, Meaning(d, sel[d]))
    BY <1>1, <2>1, PlaceStays
  <2>3. Known(u, d, sel[d])
    <3>1. CASE IsDynamic(d)
      BY <2>2, <3>1 DEF Known, Meaning, Names
    <3>2. CASE ~ IsDynamic(d)
      BY <1>2, <3>2 DEF Known
    <3> QED BY <3>1, <3>2
  <2>4. Slot(u, d, sel[d]) = Place(u, d, Meaning(d, sel[d]))
    BY <1>1, <2>3, SlotIsPlace
  <2> QED BY <2>1, <2>2, <2>3, <2>4
<1>4. [d \in DOMAIN sel |-> Slot(u, d, sel[d])] = [d \in DOMAIN sel |-> Slot(t, d, sel[d])]
  BY <1>3
<1> QED BY <1>2, <1>3, <1>4 DEF QueryCell

\* A record that was right is read back as it was.
LEMMA RestoredIs ==
    ASSUME NEW t \in Table, NEW rec \in Rec(t) \union {NONE}
    PROVE  Restored(rec) = rec
<1>1. CASE rec = NONE
  BY <1>1 DEF Restored
<1>2. CASE rec # NONE
  <2>1. /\ rec = [cells |-> rec.cells, held |-> rec.held] /\ rec.held \in Holdable(t)
        /\ rec.cells = Emitted(Places(t, rec.held))
    BY <1>2 DEF Rec
  <2>2. \A c \in rec.cells : c < Cells
    BY <2>1, PlacesType, EmittedIs
  <2>3. {c \in rec.cells : c < Cells} = rec.cells
    BY <2>2
  <2>4. Restored(rec) = [rec EXCEPT !.cells = rec.cells]
    BY <1>2, <2>3 DEF Restored
  <2>5. [rec EXCEPT !.cells = rec.cells] = rec
    BY <2>1
  <2> QED BY <2>4, <2>5
<1> QED BY <1>1, <1>2

\* Added labels disturb nothing.
LEMMA LabelsGrow ==
    ASSUME NEW t \in Table, NEW u \in Table, Extends(t, u)
    PROVE  /\ filed \in Recs(t) => filed \in Recs(u)
           /\ (copied # NONE => copied.records \in Recs(t)) => (copied # NONE => copied.records \in Recs(u))
           /\ \A s \in Seq(Out(t)) : s \in Seq(Out(u))
<1>1. Recs(t) \subseteq Recs(u) /\ Out(t) \subseteq Out(u)
  BY RecStays
<1> QED BY <1>1, SeqMonotonic

-----------------------------------------------------------------------------
(* The invariant *)

LEMMA DInvInit == Init => DInv
<1> SUFFICES ASSUME Init PROVE DInv
  OBVIOUS
<1>1. labels \in Table /\ file.labels \in Table
  BY NoLabelsIs DEF Init, NoFile
<1>2. filed \in Recs(labels) /\ file.records \in Recs(file.labels)
  BY DEF Init, Recs, NoFile
<1>3. ReqOK
  <2>1. \A S : <<>> \in Seq(S)
    OBVIOUS
  <2> QED BY <2>1 DEF Init, NoReq, ReqOK
<1>4. CopyOK /\ AskedOK
  BY DEF Init, CopyOK, AskedOK
<1> QED BY <1>1, <1>2, <1>3, <1>4 DEF DInv, FileOK

\* What the batch under way is.
LEMMA ReqIs ==
    ASSUME ReqOK
    PROVE  /\ req = [pc |-> req.pc, partial |-> req.partial, todo |-> req.todo, got |-> req.got]
           /\ req.pc \in {"idle", "resolving", "patching"} /\ req.partial \in BOOLEAN
           /\ req.todo \in Seq(Item) /\ req.got \in Seq(Out(labels))
<1> DEFINE S == Seq(Item)
           T == Seq(Out(labels))
<1>1. req \in [pc : {"idle", "resolving", "patching"}, partial : BOOLEAN, todo : S, got : T]
  BY DEF ReqOK
<1> HIDE DEF S, T
<1>2. /\ req = [pc |-> req.pc, partial |-> req.partial, todo |-> req.todo, got |-> req.got]
      /\ req.pc \in {"idle", "resolving", "patching"} /\ req.partial \in BOOLEAN
      /\ req.todo \in S /\ req.got \in T
  BY <1>1
<1> QED BY <1>2 DEF S, T

LEMMA NoReqIs == \A t : NoReq \in [pc : {"idle", "resolving", "patching"}, partial : BOOLEAN,
                                   todo : Seq(Item), got : Seq(Out(t))]
<1>1. \A S : <<>> \in Seq(S)
  OBVIOUS
<1> QED BY <1>1 DEF NoReq

\* A batch is taken in.
LEMMA SubmitKeeps ==
    ASSUME DInv, NEW q \in Batches, NEW partial \in BOOLEAN, Submit(q, partial)
    PROVE  DInv'
<1> DEFINE kept == WellFormedOf(q, q.items)
           todo == [n \in DOMAIN kept |-> Taken(q, kept[n])]
<1>1. req' = [pc |-> "resolving", partial |-> partial, got |-> <<>>, todo |-> todo]
      /\ UNCHANGED <<labels, filed, asked, copied, file>>
  BY DEF Submit, WellFormedOf
<1>2. kept \in Seq({r \in Range(q.items) : WellFormed(q, r)})
  BY RequestAssumption, WellFormedType
<1>3. \A r \in Range(q.items) : WellFormed(q, r) => Taken(q, r) \in Item
  BY DEF Item, Range
<1>4. todo \in Seq(Item)
  <2> DEFINE S == {r \in Range(q.items) : WellFormed(q, r)}
  <2>1. \A r \in S : Taken(q, r) \in Item
    BY <1>3
  <2>2. kept \in Seq(S)
    BY <1>2
  <2> HIDE DEF kept, S
  <2>3. Len(kept) \in Nat /\ DOMAIN kept = 1..Len(kept) /\ \A i \in 1..Len(kept) : kept[i] \in S
    BY <2>2
  <2> QED BY <2>1, <2>3
<1>5. ReqOK'
  <2> HIDE DEF todo
  <2>1. <<>> \in Seq(Out(labels))
    OBVIOUS
  <2>2. req' \in [pc : {"idle", "resolving", "patching"}, partial : BOOLEAN,
                  todo : Seq(Item), got : Seq(Out(labels))]
    BY <1>1, <1>4, <2>1
  <2> QED BY <1>1, <2>2 DEF ReqOK
<1> QED BY <1>1, <1>5 DEF DInv, CopyOK, FileOK, AskedOK

\* The next report is resolved: the labels grow, and what it resolved to is right.
LEMMA ResolveReportKeeps == ASSUME DInv, ResolveReport PROVE DInv'
<1> DEFINE r == Head(req.todo)
           res == Resolve(labels, r.vals)
           keep == r.bare
           out == [dev |-> r.dev, patch |-> r.patch, keep |-> keep,
                   cells |-> res.cells, held |-> Meant(r.vals)]
<1>1. /\ req.todo # <<>>
      /\ labels' = IF keep THEN labels ELSE res.labels
      /\ req' = IF keep \/ res.ok THEN [req EXCEPT !.todo = Tail(@), !.got = Append(@, out)]
                ELSE IF req.partial THEN [req EXCEPT !.todo = Tail(@)]
                ELSE NoReq
      /\ UNCHANGED <<filed, asked, copied, file>>
  BY DEF ResolveReport
<1>2. /\ labels \in Table /\ filed \in Recs(labels) /\ CopyOK /\ FileOK /\ AskedOK
      /\ req = [pc |-> req.pc, partial |-> req.partial, todo |-> req.todo, got |-> req.got]
      /\ req.pc \in {"idle", "resolving", "patching"} /\ req.partial \in BOOLEAN
      /\ req.todo \in Seq(Item) /\ req.got \in Seq(Out(labels))
  BY ReqIs DEF DInv
<1>3. r \in Item /\ Tail(req.todo) \in Seq(Item)
  BY <1>1, <1>2, HeadTailProperties
<1>4. /\ r.dev \in Device /\ r.patch \in BOOLEAN /\ \A d \in Dim : r.vals[d] \in Named1(d)
      /\ keep \in BOOLEAN /\ (keep => r.vals = Nothing)
  <2> HIDE DEF r
  <2> QED BY <1>3, ItemIs
<1>5. /\ res.labels \in Table /\ Extends(labels, res.labels) /\ res.cells \in SUBSET Nat
      /\ res.ok \/ (\A d \in Dim : r.vals[d] = ABSENT) =>
            [cells |-> res.cells, held |-> Meant(r.vals)] \in Rec(res.labels)
      /\ (\A d \in Dim : r.vals[d] = ABSENT) => res.labels = labels
  <2> HIDE DEF r
  <2> QED BY <1>2, <1>4, ResolveIs
<1>6. keep => \A d \in Dim : r.vals[d] = ABSENT
  <2> HIDE DEF r, keep
  <2> QED BY <1>4 DEF Nothing
<1> HIDE DEF r
<1>7. labels' = res.labels /\ labels' \in Table /\ Extends(labels, labels')
  <2> HIDE DEF res
  <2> QED BY <1>1, <1>5, <1>6
<1>8. ASSUME keep \/ res.ok PROVE out \in Out(labels')
  <2>1. [cells |-> res.cells, held |-> Meant(r.vals)] \in Rec(labels')
    <3> HIDE DEF res
    <3> QED BY <1>5, <1>6, <1>7, <1>8
  <2>2. Meant(r.vals) \in [Dim -> SUBSET Text]
    <3> HIDE DEF res
    <3> QED BY <2>1 DEF Rec, Holdable
  <2>3. keep \in BOOLEAN
    BY <1>4
  <2> HIDE DEF res, keep
  <2> QED BY <1>4, <1>5, <2>1, <2>2, <2>3 DEF Out
<1> HIDE DEF out, res, keep
<1>9. req.got \in Seq(Out(labels')) /\ filed \in Recs(labels') /\ (copied # NONE => copied.records \in Recs(labels'))
  BY <1>2, <1>7, LabelsGrow DEF CopyOK
<1>10. ReqOK'
  <2> DEFINE S == Seq(Item)
             T == Seq(Out(labels'))
  <2>1. req' \in [pc : {"idle", "resolving", "patching"}, partial : BOOLEAN, todo : S, got : T]
    <3>1. CASE keep \/ res.ok
      <4>1. Append(req.got, out) \in T
        BY <1>8, <1>9, <3>1, AppendProperties
      <4>2. req' = [pc |-> req.pc, partial |-> req.partial, todo |-> Tail(req.todo), got |-> Append(req.got, out)]
        BY <1>1, <1>2, <3>1
      <4>3. Tail(req.todo) \in S
        BY <1>3
      <4> HIDE DEF S, T
      <4> QED BY <1>2, <4>1, <4>2, <4>3
    <3>2. CASE ~ (keep \/ res.ok) /\ req.partial
      <4>1. req' = [pc |-> req.pc, partial |-> req.partial, todo |-> Tail(req.todo), got |-> req.got]
        BY <1>1, <1>2, <3>2
      <4>2. Tail(req.todo) \in S /\ req.got \in T
        BY <1>3, <1>9
      <4> HIDE DEF S, T
      <4> QED BY <1>2, <4>1, <4>2
    <3>3. CASE ~ (keep \/ res.ok) /\ ~ req.partial
      <4>1. req' = NoReq
        BY <1>1, <3>3
      <4> QED BY <4>1, NoReqIs
    <3> QED BY <3>1, <3>2, <3>3
  <2> QED BY <2>1 DEF ReqOK
<1>11. AskedOK'
  <2> SUFFICES ASSUME asked # NONE
               PROVE  /\ asked.sel \in Selections
                      /\ asked.cell = QueryCell(labels', asked.sel)
                      /\ asked.cell # NONE
    BY <1>1 DEF AskedOK
  <2>1. /\ asked.sel \in Selections /\ asked.cell = QueryCell(labels, asked.sel)
        /\ asked.cell # NONE
    BY <1>2 DEF AskedOK
  <2>2. QueryCell(labels', asked.sel) = QueryCell(labels, asked.sel)
    BY <1>2, <1>7, <2>1, QueryStays
  <2> QED BY <2>1, <2>2
<1>12. filed' \in Recs(labels') /\ CopyOK' /\ FileOK'
  BY <1>1, <1>2, <1>9 DEF CopyOK, FileOK
<1> QED BY <1>7, <1>10, <1>11, <1>12 DEF DInv

\* The positions of the batch are filed.
LEMMA ApplyKeeps == ASSUME DInv, Apply PROVE DInv'
<1> DEFINE patches == Patches(req.got)
<1>1. /\ filed' = FilingAll(filed, Positions(req.got))
      /\ req' = IF patches = <<>> THEN NoReq ELSE [req EXCEPT !.pc = "patching", !.got = patches]
      /\ UNCHANGED <<labels, asked, copied, file>>
  BY DEF Apply, Positions, Patches, FilingAll
<1>2. /\ labels \in Table /\ filed \in Recs(labels) /\ CopyOK /\ FileOK /\ AskedOK
      /\ req = [pc |-> req.pc, partial |-> req.partial, todo |-> req.todo, got |-> req.got]
      /\ req.pc \in {"idle", "resolving", "patching"} /\ req.partial \in BOOLEAN
      /\ req.todo \in Seq(Item) /\ req.got \in Seq(Out(labels))
  BY ReqIs DEF DInv
<1>3. Positions(req.got) \in Seq(Out(labels)) /\ patches \in Seq(Out(labels))
  BY <1>2, PositionsType, PatchesType
<1>4. filed' \in Recs(labels)
  BY <1>1, <1>2, <1>3, FilingType
<1> HIDE DEF patches
<1>5. ReqOK'
  <2> DEFINE S == Seq(Item)
             T == Seq(Out(labels))
  <2>1. req' \in [pc : {"idle", "resolving", "patching"}, partial : BOOLEAN, todo : S, got : T]
    <3>1. CASE patches = <<>>
      <4>1. req' = NoReq
        BY <1>1, <3>1
      <4> QED BY <4>1, NoReqIs
    <3>2. CASE patches # <<>>
      <4>1. req' = [pc |-> "patching", partial |-> req.partial, todo |-> req.todo, got |-> patches]
        BY <1>1, <1>2, <3>2
      <4>2. req.todo \in S /\ patches \in T
        BY <1>2, <1>3
      <4> HIDE DEF S, T
      <4> QED BY <1>2, <4>1, <4>2
    <3> QED BY <3>1, <3>2
  <2> QED BY <1>1, <2>1 DEF ReqOK
<1> QED BY <1>1, <1>2, <1>4, <1>5 DEF DInv, CopyOK, FileOK, AskedOK

\* The patches of the batch are.
LEMMA ApplyPatchesKeeps == ASSUME DInv, ApplyPatches PROVE DInv'
<1>1. /\ filed' = PatchingAll(filed, req.got)
      /\ req' = NoReq
      /\ UNCHANGED <<labels, asked, copied, file>>
  BY DEF ApplyPatches, PatchingAll
<1>2. filed' \in Recs(labels)
  <2>1. labels \in Table /\ filed \in Recs(labels) /\ req.got \in Seq(Out(labels))
    BY ReqIs DEF DInv
  <2> QED BY <1>1, <2>1, PatchingType
<1>3. ReqOK'
  BY <1>1, NoReqIs DEF ReqOK
<1> QED BY <1>1, <1>2, <1>3 DEF DInv, CopyOK, FileOK, AskedOK

\* A device goes.
LEMMA VanishKeeps == ASSUME DInv, NEW dev \in Device, Vanish(dev) PROVE DInv'
<1>1. filed' = [filed EXCEPT ![dev] = NONE] /\ UNCHANGED <<labels, req, asked, copied, file>>
  BY DEF Vanish
<1>2. filed' \in Recs(labels)
  BY <1>1 DEF DInv, Recs
<1> QED BY <1>1, <1>2 DEF DInv, ReqOK, CopyOK, FileOK, AskedOK

\* Queries and snapshots.
LEMMA ReadersKeep ==
    ASSUME DInv, (\E sel \in Selections : Ask(sel)) \/ Answer \/ CopyRecords \/ WriteSnapshot
    PROVE  DInv'
<1>1. CASE \E sel \in Selections : Ask(sel)
  <2>1. PICK sel \in Selections : Ask(sel)
    BY <1>1
  <2>2. /\ asked' = [sel |-> sel, cell |-> QueryCell(labels, sel)] /\ QueryCell(labels, sel) # NONE
        /\ UNCHANGED <<labels, filed, req, copied, file>>
    BY <2>1 DEF Ask
  <2>3. asked'.sel = sel /\ asked'.cell = QueryCell(labels, sel)
    BY <2>2
  <2>4. AskedOK'
    BY <2>2, <2>3 DEF AskedOK
  <2> QED BY <2>2, <2>4 DEF DInv, ReqOK, CopyOK, FileOK
<1>2. CASE Answer
  BY <1>2 DEF Answer, DInv, ReqOK, CopyOK, FileOK, AskedOK
<1>3. CASE CopyRecords
  <2>1. copied'.records = filed /\ UNCHANGED <<labels, filed, req, asked, file>>
    BY <1>3 DEF CopyRecords
  <2> QED BY <2>1 DEF DInv, ReqOK, CopyOK, FileOK, AskedOK
<1>4. CASE WriteSnapshot
  <2>1. /\ file'.records = copied.records /\ file'.labels = labels /\ copied # NONE /\ copied' = NONE
        /\ UNCHANGED <<labels, filed, req, asked>>
    BY <1>4 DEF WriteSnapshot
  <2>2. FileOK'
    BY <2>1 DEF DInv, CopyOK, FileOK
  <2>3. CopyOK'
    BY <2>1 DEF CopyOK
  <2> QED BY <2>1, <2>2, <2>3 DEF DInv, ReqOK, AskedOK
<1> QED BY <1>1, <1>2, <1>3, <1>4

\* A process starts with the labels of the snapshot, each in the slot it had.
LEMMA RestartReads ==
    ASSUME DInv, NEW young \in SUBSET Device, Restart(young)
    PROVE  labels' = file.labels
<1>1. labels' = [d \in Dim |-> IF IsDynamic(d)
                               THEN SubSeq(file.labels[d], 1, Min({Len(file.labels[d]), Size(d)}))
                               ELSE <<>>]
  BY DEF Restart
<1>2. file.labels \in Table
  BY DEF DInv, FileOK
<1>3. ASSUME NEW d \in Dim, IsDynamic(d)
      PROVE  SubSeq(file.labels[d], 1, Min({Len(file.labels[d]), Size(d)})) = file.labels[d]
  <2> DEFINE l == file.labels[d]
  <2>1. l \in Seq(Value) /\ Len(l) \in Nat /\ Len(l) <= Size(d) /\ Size(d) \in Nat
    BY <1>2, <1>3, SizeIsPositive DEF Table
  <2> HIDE DEF l
  <2>2. Min({Len(l), Size(d)}) = Len(l)
    BY <2>1 DEF Min
  <2>3. SubSeq(l, 1, Len(l)) = l
    BY <2>1
  <2>4. SubSeq(l, 1, Min({Len(l), Size(d)})) = l
    BY <2>2, <2>3
  <2> QED BY <2>4 DEF l
<1>4. \A d \in Dim : ~ IsDynamic(d) => file.labels[d] = <<>>
  BY <1>2 DEF Table
<1>5. file.labels = [d \in Dim |-> file.labels[d]]
  BY <1>2 DEF Table
<1>6. \A d \in Dim : labels'[d] = file.labels[d]
  BY <1>1, <1>3, <1>4
<1>7. labels' = [d \in Dim |-> labels'[d]]
  BY <1>1
<1> QED BY <1>5, <1>6, <1>7

\* The records it reads are right under them.
LEMMA RestartKeeps == ASSUME DInv, NEW young \in SUBSET Device, Restart(young) PROVE DInv'
<1>1. /\ filed' = [dev \in Device |-> IF dev \in young THEN Restored(file.records[dev]) ELSE NONE]
      /\ req' = NoReq /\ asked' = NONE /\ copied' = NONE /\ file' = file
  BY DEF Restart
<1>2. file.labels \in Table /\ file.records \in Recs(file.labels)
  BY DEF DInv, FileOK
<1>3. labels' = file.labels
  BY RestartReads
<1>4. filed' \in Recs(labels')
  <2>1. \A dev \in Device : file.records[dev] \in Rec(file.labels) \union {NONE}
    BY <1>2 DEF Recs
  <2>2. \A dev \in Device : Restored(file.records[dev]) \in Rec(file.labels) \union {NONE}
    BY <1>2, <2>1, RestoredIs
  <2> QED BY <1>1, <1>3, <2>2 DEF Recs
<1>5. ReqOK'
  BY <1>1, NoReqIs DEF ReqOK
<1> QED BY <1>1, <1>2, <1>3, <1>4, <1>5 DEF DInv, CopyOK, FileOK, AskedOK

LEMMA DInvNext == DInv /\ [Next]_vars => DInv'
<1> SUFFICES ASSUME DInv, [Next]_vars PROVE DInv'
  OBVIOUS
<1>1. CASE \E q \in Batches, partial \in BOOLEAN : Submit(q, partial)
  BY <1>1, SubmitKeeps
<1>2. CASE ResolveReport
  BY <1>2, ResolveReportKeeps
<1>3. CASE Apply \/ ApplyPatches
  BY <1>3, ApplyKeeps, ApplyPatchesKeeps
<1>4. CASE \E dev \in Device : Vanish(dev)
  BY <1>4, VanishKeeps
<1>5. CASE (\E sel \in Selections : Ask(sel)) \/ Answer \/ CopyRecords \/ WriteSnapshot
  BY <1>5, ReadersKeep
<1>6. CASE \E young \in SUBSET Device : Restart(young)
  BY <1>6, RestartKeeps
<1>7. CASE UNCHANGED vars
  BY <1>7 DEF vars, DInv, ReqOK, CopyOK, FileOK, AskedOK
<1> QED BY <1>1, <1>2, <1>3, <1>4, <1>5, <1>6, <1>7 DEF Next

\* Every label has one slot for ever, every record's cells are the cells of what the
\* device holds, and so are those of a report under way, a copy and the file.
THEOREM DInvHolds == Spec => []DInv
BY DInvInit, DInvNext, PTL DEF Spec

-----------------------------------------------------------------------------
(* The properties *)

\* Every value with a slot in t was named by a well formed item that got to it.
Reached(t) ==
    \A d \in Dim : \A v \in Range(t[d]) :
       \E q \in Batches : \E n \in DOMAIN q.items :
          WellFormed(q, q.items[n]) /\ GetsTo(t, ValsOf(q, q.items[n]), d, v)

\* The same of the tables in memory and of those on disk.
LInv == Reached(labels) /\ Reached(file.labels)

\* Resolving the next report keeps it so.
LEMMA ResolveReportReaches == ASSUME DInv, LInv, ResolveReport PROVE Reached(labels')
<1> DEFINE r == Head(req.todo)
<1>1. labels' = labels \/ labels' = Resolve(labels, r.vals).labels
  BY DEF ResolveReport
<1>2. labels \in Table /\ r \in Item
  BY ReqIs, HeadTailProperties DEF DInv, ResolveReport
<1> HIDE DEF r
<1>3. PICK q \in Batches : \E n \in {m \in DOMAIN q.items : WellFormed(q, q.items[m])} : r = Taken(q, q.items[n])
  BY <1>2 DEF Item
<1>4. PICK n \in DOMAIN q.items : WellFormed(q, q.items[n]) /\ r.vals = ValsOf(q, q.items[n])
  BY <1>3 DEF Taken
<1>5. CASE labels' = labels
  BY <1>5 DEF LInv
<1>6. CASE labels' = Resolve(labels, r.vals).labels
  <2>1. labels' \in Table /\ Extends(labels, labels')
    BY <1>2, <1>6, ItemIs, ResolveIs
  <2>2. \A d \in Dim : \A v \in Range(labels'[d]) : v \in Range(labels[d]) \/ GetsTo(labels', r.vals, d, v)
    BY <1>2, <1>6, ItemIs, ResolveGives
  <2> SUFFICES ASSUME NEW d \in Dim, NEW v \in Range(labels'[d])
               PROVE  \E p \in Batches : \E m \in DOMAIN p.items :
                         WellFormed(p, p.items[m]) /\ GetsTo(labels', ValsOf(p, p.items[m]), d, v)
    BY DEF Reached
  <2>3. CASE v \in Range(labels[d])
    <3>1. PICK p \in Batches : \E m \in DOMAIN p.items :
             WellFormed(p, p.items[m]) /\ GetsTo(labels, ValsOf(p, p.items[m]), d, v)
      BY <2>3 DEF LInv, Reached
    <3>2. PICK m \in DOMAIN p.items :
             WellFormed(p, p.items[m]) /\ GetsTo(labels, ValsOf(p, p.items[m]), d, v)
      BY <3>1
    <3>3. GetsTo(labels', ValsOf(p, p.items[m]), d, v)
      BY <1>2, <2>1, <3>2, GetsToStays
    <3> QED BY <3>2, <3>3
  <2>4. CASE GetsTo(labels', r.vals, d, v)
    BY <1>4, <2>4
  <2> QED BY <2>2, <2>3, <2>4
<1> QED BY <1>1, <1>5, <1>6

\* So does every step: labels come to memory and to disk from nowhere else.
LEMMA LInvNext == ASSUME DInv, LInv, [Next]_vars PROVE LInv'
<1>1. CASE ResolveReport
  <2>1. file' = file
    BY <1>1 DEF ResolveReport
  <2> QED BY <1>1, <2>1, ResolveReportReaches DEF LInv
<1>2. CASE WriteSnapshot
  <2>1. labels' = labels /\ file'.labels = labels
    BY <1>2 DEF WriteSnapshot
  <2> QED BY <2>1 DEF LInv
<1>3. ASSUME NEW young \in SUBSET Device, Restart(young) PROVE LInv'
  <2>1. labels' = file.labels /\ file' = file
    BY <1>3, RestartReads DEF Restart
  <2> QED BY <2>1 DEF LInv
<1>4. CASE UNCHANGED <<labels, file>>
  BY <1>4 DEF LInv
<1> QED BY <1>1, <1>2, <1>3, <1>4
        DEF Next, vars, Submit, Apply, ApplyPatches, Vanish, Ask, Answer, CopyRecords

\* A value has a slot only when a well formed item named it and nothing that the item
\* names before it is refused, and no dimension has more than its capacity: an item
\* that is refused may leave slots taken, but none for what comes after its first
\* error (positions, cells_for, Interning::get).
THEOREM SlotsEndAtErrorHolds == Spec => []SlotsEndAtError
<1>1. DInv /\ LInv => SlotsEndAtError
  <2> SUFFICES ASSUME DInv, LInv, NEW d \in Dim, IsDynamic(d)
               PROVE  Len(labels[d]) <= Size(d)
    BY DEF SlotsEndAtError, LInv, Reached
  <2> QED BY DEF DInv, Table
<1>2. Init => LInv
  <2>1. Range(<<>>) = {}
    BY DEF Range
  <2> QED BY <2>1 DEF Init, NoFile, NoLabels, LInv, Reached
<1>3. DInv /\ LInv /\ [Next]_vars => LInv'
  BY LInvNext
<1> QED BY <1>1, <1>2, <1>3, DInvHolds, PTL DEF Spec

\* A selection that names a value without a slot names one no device can hold.
LEMMA UnknownIsUnheld ==
    ASSUME NEW t \in Table, NEW rec \in Rec(t), NEW sel \in Selections, QueryCell(t, sel) = NONE
    PROVE  \E d \in DOMAIN sel : Meaning(d, sel[d]) \notin rec.held[d]
<1>1. PICK sh \in Range(Shapes) : sel \in [Range(sh) -> Value]
                                  /\ \A d \in Range(sh) : IsDynamic(d) \/ Declared(d, sel[d])
  BY DEF Selections
<1>2. PICK j \in DOMAIN Shapes : Shapes[j] = sh
  BY DEF Range
<1>3. DOMAIN sel \subseteq Dim /\ DOMAIN sel = Range(sh)
  BY <1>1, <1>2, ShapeType, RangeOfSeq
<1>4. \E d \in DOMAIN sel : ~ Known(t, d, sel[d])
  <2> SUFFICES ASSUME \A d \in DOMAIN sel : Known(t, d, sel[d]) PROVE FALSE
    OBVIOUS
  <2> DEFINE i == CHOOSE i \in DOMAIN Shapes : Range(Shapes[i]) = DOMAIN sel
             f == [d \in DOMAIN sel |-> Slot(t, d, sel[d])]
  <2>1. QueryCell(t, sel) = CellOf(i, f)
    BY DEF QueryCell
  <2>2. i \in DOMAIN Shapes /\ Range(Shapes[i]) = DOMAIN sel
    BY <1>2, <1>3
  <2>3. \A d \in DOMAIN sel : f[d] \in Nat /\ f[d] < Size(d)
    <3>1. ASSUME NEW d \in DOMAIN sel PROVE f[d] \in Nat /\ f[d] < Size(d)
      <4>1. d \in Dim /\ sel[d] \in Value /\ Known(t, d, sel[d]) /\ f[d] = Slot(t, d, sel[d])
        BY <1>1, <1>3
      <4> HIDE DEF f, i
      <4> QED BY <4>1, SlotIsPlace, PlaceType
    <3> QED BY <3>1
  <2>4. f \in Choice(i)
    <3> HIDE DEF i
    <3> QED BY <2>2, <2>3 DEF Choice
  <2>5. CellOf(i, f) \in Nat
    <3> HIDE DEF i, f
    <3> QED BY <2>2, <2>4, CellInRange
  <2> HIDE DEF i, f
  <2> QED BY <2>1, <2>5, ValueAssumption
<1>5. PICK d \in DOMAIN sel : ~ Known(t, d, sel[d])
  BY <1>4
<1>6. IsDynamic(d) /\ sel[d] \notin Range(t[d]) /\ d \in Dim
  BY <1>1, <1>3, <1>5 DEF Known
<1>7. rec.held[d] \subseteq Range(t[d])
  BY <1>6 DEF Rec, Holdable, Names
<1>8. Meaning(d, sel[d]) = sel[d]
  BY <1>6 DEF Meaning
<1> QED BY <1>6, <1>7, <1>8

\* A filter shows just the devices that hold what it selects (query_cell, filter_cell
\* and what cells_for gave the devices).
THEOREM FilterExactHolds == Spec => []FilterExact
<1>1. DInv => FilterExact
  <2> SUFFICES ASSUME DInv, NEW sel \in Selections
               PROVE  Holding(sel) = IF QueryCell(labels, sel) = NONE THEN {} ELSE Filtered(QueryCell(labels, sel))
    BY DEF FilterExact
  <2>1. labels \in Table /\ \A dev \in Device : filed[dev] # NONE => filed[dev] \in Rec(labels)
    BY DEF DInv, Recs
  <2>2. CASE QueryCell(labels, sel) = NONE
    BY <2>1, <2>2, UnknownIsUnheld DEF Holding
  <2>3. CASE QueryCell(labels, sel) # NONE
    BY <2>1, <2>3, CellFindsHeld DEF Holding, Filtered
  <2> QED BY <2>2, <2>3
<1> QED BY <1>1, DInvHolds, PTL

\* So does one that resolved its cell before other labels were taken.
THEOREM UnderWayExactHolds == Spec => []UnderWayExact
<1>1. DInv => UnderWayExact
  <2> SUFFICES ASSUME DInv, asked # NONE PROVE Filtered(asked.cell) = Holding(asked.sel)
    BY DEF UnderWayExact
  <2>1. labels \in Table /\ \A dev \in Device : filed[dev] # NONE => filed[dev] \in Rec(labels)
    BY DEF DInv, Recs
  <2>2. /\ asked.sel \in Selections /\ asked.cell = QueryCell(labels, asked.sel)
        /\ asked.cell # NONE
    BY DEF DInv, AskedOK
  <2> QED BY <2>1, <2>2, CellFindsHeld DEF Holding, Filtered
<1> QED BY <1>1, DInvHolds, PTL

=============================================================================
