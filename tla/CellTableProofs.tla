-------------------------- MODULE CellTableProofs --------------------------
(***************************************************************************)
(* Proofs about CellTable, for any finite sets of ids and cells, any       *)
(* coordinates and any number of operations: SlotsSound and                *)
(* EntriesAccounted hold in every state, those in the middle of a repair   *)
(* included.                                                               *)
(*                                                                         *)
(* SlotsSound follows the free list through par and is not inductive.      *)
(* What is shown inductive says that some sequence lists the free slots    *)
(* (ListsFree), so that giving out a slot takes its head off and giving    *)
(* one back puts one on; that no live slot has a parent that is given      *)
(* back needs that a detached device has no children left but those the    *)
(* repair will still come to (Detached).                                   *)
(*                                                                         *)
(* EntriesAccounted follows the chains of the pool, and no step of the     *)
(* table could be argued about through walks.  What every step preserves   *)
(* speaks of single entries (Chained): whose chain each is on, which is    *)
(* before it, and a depth that grows along the links, so that a chain      *)
(* cannot close on itself.  Taking an entry, releasing one and dropping a  *)
(* slot all move one entry to the front of another chain, for which there  *)
(* is one lemma (Rechained); that a walk then meets a whole chain, once    *)
(* and in order, is FollowLists.  While drop_slot runs, the head of the    *)
(* slot still names an entry that is free already: its steps are sound     *)
(* for a table whose chain begins further on (Beheaded).                   *)
(*                                                                         *)
(* The prover has no induction over sequences, and CHOOSE defines what a   *)
(* fold returns: each fold is the last of a trace of steps (FoldSteps).    *)
(***************************************************************************)
EXTENDS CellTable, FiniteSetTheorems, WellFoundedInduction, TLAPS

Shaped ==
    /\ made \in Nat
    /\ made <= Cardinality(Id)
    /\ DOMAIN ids \subseteq Id
    /\ DOMAIN ext = Slot
    /\ DOMAIN par = Slot
    /\ Live \subseteq 0..(made - 1)

Named ==
    /\ \A i \in DOMAIN ids : ids[i] \in Live /\ ext[ids[i]] = i
    /\ \A s \in Live : ext[s] \in DOMAIN ids /\ ids[ext[s]] = s

Parented == \A s \in Live : par[s] \in Live \union {NONE}

Detached ==
    /\ job.dev # NONE => job.dev \in Live
    /\ job.kids \subseteq Live
    /\ \A s \in Live : par[s] = job.dev /\ job.dev # NONE => s \in job.kids

\* A queue of slots, each linked to the next through p, from head.
Linked(q, head, p) ==
    /\ head = IF q = <<>> THEN NONE ELSE q[1]
    /\ \A i \in 1..Len(q) : p[q[i]] = IF i = Len(q) THEN NONE ELSE q[i + 1]

\* q lists the slots that were given and are not live, once each.
ListsFree(q) ==
    /\ q \in Seq(0..(made - 1))
    /\ IsInjective(q)
    /\ ToSet(q) = (0..(made - 1)) \ Live
    /\ Linked(q, free, par)

SInv == Shaped /\ Named /\ Parented /\ Detached /\ \E q \in Seq(Nat) : ListsFree(q)

-----------------------------------------------------------------------------
\* Slots are numbers, and NONE is not one of them.
LEMMA SlotIsNat == Cardinality(Id) \in Nat /\ Slot \subseteq Nat /\ NONE \notin Slot
BY IdAssumption, CoordinateAssumption, FS_CardinalityType DEF Slot

\* There is room for every slot that was given.
LEMMA MadeIsSlots ==
    ASSUME Shaped
    PROVE  0..(made - 1) \subseteq Slot /\ NONE \notin 0..(made - 1) /\ NONE \notin Live
<1>1. Cardinality(Id) \in Nat /\ NONE \notin Slot
  BY SlotIsNat
<1>2. made \in Nat /\ made <= Cardinality(Id) /\ Live \subseteq 0..(made - 1)
  BY DEF Shaped
<1>3. 0..(made - 1) \subseteq 0..(Cardinality(Id) - 1)
  BY <1>1, <1>2
<1>4. 0..(made - 1) \subseteq Slot
  BY <1>3 DEF Slot
<1> QED BY <1>1, <1>2, <1>4

\* A list of free slots is no longer than the slots ever given.
LEMMA ShortList ==
    ASSUME NEW q, ListsFree(q), made \in Nat
    PROVE  Len(q) \in Nat /\ Len(q) <= made
<1>1. Len(q) \in Nat /\ q \in [1..Len(q) -> 0..(made - 1)]
  BY DEF ListsFree
<1>2. q \in Injection(1..Len(q), 0..(made - 1))
  BY <1>1 DEF ListsFree, Injection, IsInjective
<1>3. IsFiniteSet(0..(made - 1)) /\ Cardinality(0..(made - 1)) = made
  BY FS_Interval
<1>4. Cardinality(1..Len(q)) = Len(q)
  BY <1>1, FS_Interval
<1> QED BY <1>1, <1>2, <1>3, <1>4, FS_Injection

\* The walk along par from the head finds exactly the list that is known to exist, by
\* induction along the walk; so FreeSlots is a list of free slots.
LEMMA FreeSlotsAre ==
    ASSUME NEW q, ListsFree(q), Shaped
    PROVE  FreeSlots = q
<1> DEFINE Body(f) == [k \in 0..made |->
              IF k = 0 THEN <<>>
              ELSE LET seen == f[k - 1]
                       next == IF seen = <<>> THEN free ELSE par[Last(seen)]
                   IN  IF next = NONE THEN seen ELSE Append(seen, next)]
           G == [k \in 0..made |-> SubSeq(q, 1, IF k <= Len(q) THEN k ELSE Len(q))]
<1>1. made \in Nat /\ Len(q) \in Nat /\ Len(q) <= made /\ q \in Seq(0..(made - 1))
  BY ShortList DEF Shaped, ListsFree
<1>2. NONE \notin 0..(made - 1)
  BY MadeIsSlots
<1>3. ASSUME NEW k \in 0..made, k # 0, NEW s, s = SubSeq(q, 1, IF k - 1 <= Len(q) THEN k - 1 ELSE Len(q)),
             NEW next, next = IF s = <<>> THEN free ELSE par[Last(s)]
      PROVE  G[k] = IF next = NONE THEN s ELSE Append(s, next)
  <2>1. CASE k <= Len(q)
    <3>1. s = SubSeq(q, 1, k - 1) /\ Len(s) = k - 1 /\ G[k] = SubSeq(q, 1, k)
      BY <1>1, <1>3, <2>1
    <3>2. next = q[k]
      <4>1. CASE k = 1
        <5>1. s = <<>> /\ q # <<>>
          BY <1>1, <3>1, <4>1, <2>1
        <5> QED BY <5>1, <4>1, <1>3 DEF ListsFree, Linked
      <4>2. CASE k # 1
        <5> HIDE DEF G, Body
        <5>3. k \in Nat /\ k - 1 \in 1..Len(q) /\ k - 1 # Len(q)
          BY <1>1, <4>2, <2>1, <1>3
        <5>4. Len(s) = k - 1 /\ s = SubSeq(q, 1, k - 1)
          BY <3>1
        <5>5. s # <<>> /\ s[k - 1] = q[k - 1]
          BY <5>3, <5>4, <1>1
        <5>1. k - 1 \in 1..Len(q) /\ k - 1 # Len(q) /\ s # <<>> /\ Last(s) = q[k - 1]
          BY <5>3, <5>4, <5>5 DEF Last
        <5>2. par[q[k - 1]] = q[(k - 1) + 1]
          BY <5>1 DEF ListsFree, Linked
        <5> QED BY <5>1, <5>2, <1>3
      <4> QED BY <4>1, <4>2
    <3>3. next # NONE
      <4>1. k \in 1..Len(q)
        BY <1>1, <1>3, <2>1
      <4>2. q[k] \in 0..(made - 1)
        BY <4>1, <1>1
      <4> HIDE DEF G, Body
      <4> QED BY <3>2, <4>2, <1>2
    <3>4. SubSeq(q, 1, k) = Append(SubSeq(q, 1, k - 1), q[k])
      BY <1>1, <2>1, <1>3
    <3> QED BY <3>1, <3>2, <3>3, <3>4
  <2>2. CASE k > Len(q)
    <3>1. s = q /\ G[k] = q
      BY <1>1, <1>3, <2>2
    <3>2. next = NONE
      <4>1. CASE q = <<>>
        BY <4>1, <3>1, <1>3 DEF ListsFree, Linked
      <4>2. CASE q # <<>>
        <5>1. Len(q) \in 1..Len(q) /\ Last(s) = q[Len(q)]
          BY <1>1, <3>1, <4>2 DEF Last
        <5>2. par[q[Len(q)]] = NONE
          BY <5>1 DEF ListsFree, Linked
        <5> QED BY <5>1, <5>2, <4>2, <3>1, <1>3
      <4> QED BY <4>1, <4>2
    <3> QED BY <3>1, <3>2
  <2> QED BY <2>1, <2>2, <1>1
<1>4. G[0] = <<>>
  BY <1>1
<1>5. G = Body(G)
  <2>1. ASSUME NEW k \in 0..made PROVE G[k] = Body(G)[k]
    <3>1. CASE k = 0
      BY <3>1, <1>4
    <3>2. CASE k # 0
      <4>1. k - 1 \in 0..made
        BY <1>1, <3>2
      <4>2. G[k - 1] = SubSeq(q, 1, IF k - 1 <= Len(q) THEN k - 1 ELSE Len(q))
        BY <4>1
      <4> HIDE DEF G
      <4> QED BY <4>2, <3>2, <1>3
    <3> QED BY <3>1, <3>2
  <2> QED BY <2>1
<1>6. ASSUME NEW f, f = Body(f) PROVE f = G
  <2> HIDE DEF G
  <2> DEFINE Bad == {k \in 0..made : f[k] # G[k]}
  <2>1. Bad = {}
    <3> SUFFICES ASSUME Bad # {} PROVE FALSE
      OBVIOUS
    <3>1. PICK k \in Bad : \A m \in Bad : ~ (<<m, k>> \in OpToRel(<, Nat))
      <4>1. Bad \subseteq Nat
        BY <1>1
      <4> HIDE DEF Bad
      <4> QED BY <4>1, WFMin, NatLessThanWellFounded
    <3>2. \A m \in 0..made : m < k => f[m] = G[m]
      <4>1. k \in 0..made /\ k \in Nat
        <5>1. k \in Bad
          BY <3>1
        <5>2. k \in 0..made
          <6> HIDE DEF Body
          <6> QED BY <5>1
        <5> QED BY <5>2, <1>1
      <4>2. SUFFICES ASSUME NEW m \in 0..made, m < k, f[m] # G[m] PROVE FALSE
        OBVIOUS
      <4>3. m \in Bad /\ m \in Nat
        BY <4>2, <1>1
      <4> HIDE DEF Bad, Body
      <4>4. <<m, k>> \in OpToRel(<, Nat)
        BY <4>1, <4>2, <4>3 DEF OpToRel
      <4> QED BY <3>1, <4>3, <4>4
    <3>3. k # 0
      <4>1. f[0] = <<>>
        BY <1>6, <1>1
      <4> QED BY <4>1, <1>4
    <3>4. k - 1 \in 0..made /\ k - 1 < k
      BY <3>3, <1>1
    <3>5. f[k - 1] = G[k - 1]
      BY <3>2, <3>4
    <3>6. Body(f)[k] = Body(G)[k]
      BY <3>5
    <3>7. f[k] = Body(f)[k]
      BY <1>6
    <3>8. G[k] = Body(G)[k]
      BY <1>5
    <3> QED BY <3>6, <3>7, <3>8
  <2>2. f = [k \in 0..made |-> f[k]]
    <3>1. DOMAIN Body(f) = 0..made /\ Body(f) = [k \in 0..made |-> Body(f)[k]]
      OBVIOUS
    <3> HIDE DEF Body
    <3> QED BY <3>1, <1>6
  <2>3. G = [k \in 0..made |-> G[k]]
    BY DEF G
  <2>4. \A k \in 0..made : f[k] = G[k]
    BY <2>1
  <2> QED BY <2>2, <2>3, <2>4
<1>7. (CHOOSE f : f = Body(f)) = G
  <2> HIDE DEF Body, G
  <2> QED BY <1>5, <1>6
<1>8. FreeSlots = (CHOOSE f : f = Body(f))[made]
  BY DEF FreeSlots, Follow
<1>9. FreeSlots = G[made]
  BY <1>7, <1>8
<1>10. G[made] = SubSeq(q, 1, Len(q))
  BY <1>1
<1>11. SubSeq(q, 1, Len(q)) = q
  BY <1>1
<1> QED BY <1>9, <1>10, <1>11

-----------------------------------------------------------------------------
(* The free list *)

\* The head of the list is a free slot; without one, every slot given is live.
LEMMA HeadIsFree ==
    ASSUME NEW q, ListsFree(q), Shaped
    PROVE  /\ free # NONE => q # <<>> /\ free = q[1] /\ free \in (0..(made - 1)) \ Live
           /\ free = NONE => q = <<>> /\ Live = 0..(made - 1)
<1>1. q \in Seq(0..(made - 1)) /\ ToSet(q) = (0..(made - 1)) \ Live
  BY DEF ListsFree
<1>2. NONE \notin 0..(made - 1) /\ Live \subseteq 0..(made - 1)
  BY MadeIsSlots DEF Shaped
<1>3. free = IF q = <<>> THEN NONE ELSE q[1]
  BY DEF ListsFree, Linked
<1>4. CASE q = <<>>
  <2>1. free = NONE
    BY <1>3, <1>4
  <2>2. ToSet(q) = {}
    BY <1>4 DEF ToSet
  <2> QED BY <2>1, <2>2, <1>1, <1>2, <1>4
<1>5. CASE q # <<>>
  <2>1. 1 \in DOMAIN q /\ free = q[1]
    BY <1>1, <1>3, <1>5
  <2>2. q[1] \in ToSet(q)
    BY <2>1 DEF ToSet
  <2> QED BY <2>1, <2>2, <1>1, <1>2, <1>5
<1> QED BY <1>4, <1>5

\* alloc_slot takes the head off the list.
LEMMA Popped ==
    ASSUME NEW q, ListsFree(q), Shaped, free # NONE, free' = par[free], made' = made,
           Live' = Live \union {free}, \A s \in 0..(made - 1) : s # free => par'[s] = par[s]
    PROVE  ListsFree(Tail(q))'
<1>1. made \in Nat /\ q \in Seq(0..(made - 1)) /\ q # <<>> /\ free = q[1] /\ free \in (0..(made - 1)) \ Live
  BY HeadIsFree DEF Shaped, ListsFree
<1>2. ToSet(q) = (0..(made - 1)) \ Live /\ \A i, j \in 1..Len(q) : q[i] = q[j] => i = j
  BY <1>1 DEF ListsFree, IsInjective
<1> DEFINE r == Tail(q)
<1>3. /\ r \in Seq(0..(made - 1))
      /\ Len(r) \in Nat /\ Len(q) \in Nat /\ Len(r) = Len(q) - 1
      /\ \A i \in 1..Len(r) : r[i] = q[i + 1]
  BY <1>1
<1> HIDE DEF r
<1>4. IsInjective(r)
  <2> SUFFICES ASSUME NEW i \in 1..Len(r), NEW j \in 1..Len(r), r[i] = r[j] PROVE i = j
    BY <1>3 DEF IsInjective
  <2>1. i + 1 \in 1..Len(q) /\ j + 1 \in 1..Len(q) /\ q[i + 1] = q[j + 1]
    BY <1>3
  <2>2. i + 1 = j + 1
    BY <2>1, <1>2
  <2> QED BY <2>2
<1>5. ToSet(r) = ToSet(q) \ {free}
  <2>1. ASSUME NEW s \in ToSet(r) PROVE s \in ToSet(q) \ {free}
    <3>1. PICK i \in 1..Len(r) : s = r[i]
      BY <1>3 DEF ToSet
    <3>2. i + 1 \in 1..Len(q) /\ 1 \in 1..Len(q) /\ i + 1 # 1 /\ s = q[i + 1]
      BY <3>1, <1>3
    <3>3. q[i + 1] # q[1]
      BY <3>2, <1>2
    <3>4. s \in ToSet(q)
      BY <3>2, <1>1 DEF ToSet
    <3> QED BY <3>2, <3>3, <3>4, <1>1
  <2>2. ASSUME NEW s \in ToSet(q) \ {free} PROVE s \in ToSet(r)
    <3>1. PICK i \in 1..Len(q) : s = q[i]
      BY <1>1 DEF ToSet
    <3>2. i # 1
      BY <3>1, <1>1, <2>2
    <3>3. i - 1 \in 1..Len(r) /\ (i - 1) + 1 = i
      BY <3>2, <1>3
    <3>4. r[i - 1] = s
      BY <3>1, <3>3, <1>3
    <3> QED BY <3>3, <3>4, <1>3 DEF ToSet
  <2> QED BY <2>1, <2>2
<1>6. ToSet(r) = (0..(made' - 1)) \ Live'
  BY <1>5, <1>2, <1>1
<1>7. /\ free' = IF r = <<>> THEN NONE ELSE r[1]
      /\ \A i \in 1..Len(r) : par'[r[i]] = IF i = Len(r) THEN NONE ELSE r[i + 1]
  <2>1. \A i \in 1..Len(q) : par[q[i]] = IF i = Len(q) THEN NONE ELSE q[i + 1]
    BY DEF ListsFree, Linked
  <2>2. free' = IF r = <<>> THEN NONE ELSE r[1]
    <3>1. 1 \in 1..Len(q)
      BY <1>1, <1>3
    <3>2. free' = IF 1 = Len(q) THEN NONE ELSE q[1 + 1]
      BY <2>1, <3>1, <1>1
    <3>3. CASE Len(q) = 1
      <4>1. r = <<>>
        BY <3>3, <1>3
      <4> QED BY <4>1, <3>2, <3>3
    <3>4. CASE Len(q) # 1
      <4>1. r # <<>> /\ 1 \in 1..Len(r)
        BY <3>4, <3>1, <1>3
      <4>2. r[1] = q[1 + 1]
        BY <4>1, <1>3
      <4> QED BY <4>1, <4>2, <3>2, <3>4
    <3> QED BY <3>3, <3>4
  <2>3. ASSUME NEW i \in 1..Len(r)
        PROVE  par'[r[i]] = IF i = Len(r) THEN NONE ELSE r[i + 1]
    <3>1. r[i] = q[i + 1] /\ i + 1 \in 1..Len(q)
      BY <1>3
    <3>2. r[i] \in 0..(made - 1) /\ r[i] # free
      <4>1. r[i] \in ToSet(r)
        BY <1>3 DEF ToSet
      <4> QED BY <4>1, <1>5, <1>2
    <3>3. par'[r[i]] = IF i + 1 = Len(q) THEN NONE ELSE q[(i + 1) + 1]
      BY <3>1, <3>2, <2>1
    <3>4. CASE i = Len(r)
      BY <3>3, <3>4, <1>3
    <3>5. CASE i # Len(r)
      <4>1. i + 1 \in 1..Len(r) /\ i + 1 # Len(q)
        BY <3>5, <1>3
      <4>2. r[i + 1] = q[(i + 1) + 1]
        BY <4>1, <1>3
      <4> QED BY <4>1, <4>2, <3>3, <3>5
    <3> QED BY <3>4, <3>5
  <2> QED BY <2>2, <2>3
<1> QED BY <1>3, <1>4, <1>6, <1>7 DEF r, ListsFree, Linked

\* free_slot puts a slot in front of the list.
LEMMA Pushed ==
    ASSUME NEW q, ListsFree(q), Shaped, NEW d \in Live, free' = d, par'[d] = free, made' = made,
           Live' = Live \ {d}, \A s \in 0..(made - 1) : s # d => par'[s] = par[s]
    PROVE  ListsFree(<<d>> \o q)'
<1>1. made \in Nat /\ q \in Seq(0..(made - 1)) /\ d \in 0..(made - 1)
  BY DEF Shaped, ListsFree
<1>2. ToSet(q) = (0..(made - 1)) \ Live /\ \A i, j \in 1..Len(q) : q[i] = q[j] => i = j
  BY <1>1 DEF ListsFree, IsInjective
<1> DEFINE r == <<d>> \o q
<1>3. /\ r \in Seq(0..(made - 1))
      /\ Len(r) \in Nat /\ Len(q) \in Nat /\ Len(r) = Len(q) + 1
      /\ r[1] = d
      /\ \A i \in 1..Len(q) : r[i + 1] = q[i]
  BY <1>1
<1> HIDE DEF r
<1>4. \A i \in 1..Len(r) : i = 1 \/ (i - 1 \in 1..Len(q) /\ r[i] = q[i - 1])
  <2> SUFFICES ASSUME NEW i \in 1..Len(r), i # 1 PROVE i - 1 \in 1..Len(q) /\ r[i] = q[i - 1]
    OBVIOUS
  <2>1. i - 1 \in 1..Len(q) /\ (i - 1) + 1 = i
    BY <1>3
  <2> QED BY <2>1, <1>3
<1>5. \A i \in 1..Len(q) : q[i] # d
  <2>1. \A i \in 1..Len(q) : q[i] \in ToSet(q)
    BY <1>1 DEF ToSet
  <2> QED BY <2>1, <1>2
<1>6. IsInjective(r)
  <2> SUFFICES ASSUME NEW i \in 1..Len(r), NEW j \in 1..Len(r), r[i] = r[j] PROVE i = j
    BY <1>3 DEF IsInjective
  <2>1. CASE i = 1 \/ j = 1
    BY <2>1, <1>3, <1>4, <1>5
  <2>2. CASE i # 1 /\ j # 1
    <3>1. i - 1 \in 1..Len(q) /\ j - 1 \in 1..Len(q) /\ q[i - 1] = q[j - 1]
      BY <2>2, <1>4
    <3>2. i - 1 = j - 1
      BY <3>1, <1>2
    <3> QED BY <3>2
  <2> QED BY <2>1, <2>2
<1>7. ToSet(r) = (0..(made' - 1)) \ Live'
  <2>1. ToSet(r) = ToSet(q) \union {d}
    <3>1. ASSUME NEW s \in ToSet(r) PROVE s \in ToSet(q) \union {d}
      <4>1. PICK i \in 1..Len(r) : s = r[i]
        BY <1>3 DEF ToSet
      <4>2. CASE i = 1
        BY <4>1, <4>2, <1>3
      <4>3. CASE i # 1
        <5>1. i - 1 \in 1..Len(q) /\ s = q[i - 1]
          BY <4>1, <4>3, <1>4
        <5> QED BY <5>1, <1>1 DEF ToSet
      <4> QED BY <4>2, <4>3
    <3>2. ASSUME NEW s \in ToSet(q) PROVE s \in ToSet(r)
      <4>1. PICK i \in 1..Len(q) : s = q[i]
        BY <1>1 DEF ToSet
      <4>2. i + 1 \in 1..Len(r) /\ r[i + 1] = s
        BY <4>1, <1>3
      <4> QED BY <4>2, <1>3 DEF ToSet
    <3>3. d \in ToSet(r)
      <4>1. 1 \in 1..Len(r)
        BY <1>3
      <4> QED BY <4>1, <1>3 DEF ToSet
    <3> QED BY <3>1, <3>2, <3>3
  <2> QED BY <2>1, <1>1, <1>2
<1>8. /\ free' = IF r = <<>> THEN NONE ELSE r[1]
      /\ \A i \in 1..Len(r) : par'[r[i]] = IF i = Len(r) THEN NONE ELSE r[i + 1]
  <2>1. /\ free = IF q = <<>> THEN NONE ELSE q[1]
        /\ \A i \in 1..Len(q) : par[q[i]] = IF i = Len(q) THEN NONE ELSE q[i + 1]
    BY DEF ListsFree, Linked
  <2>2. r # <<>>
    BY <1>3
  <2>3. ASSUME NEW i \in 1..Len(r)
        PROVE  par'[r[i]] = IF i = Len(r) THEN NONE ELSE r[i + 1]
    <3>1. CASE i = 1
      <4>1. par'[r[i]] = free
        BY <3>1, <1>3
      <4>2. CASE q = <<>>
        <5>1. Len(r) = 1
          BY <4>2, <1>3
        <5> QED BY <5>1, <4>1, <4>2, <3>1, <2>1
      <4>3. CASE q # <<>>
        <5>1. 1 \in 1..Len(q)
          BY <4>3, <1>1
        <5>2. r[1 + 1] = q[1] /\ Len(r) # 1
          BY <5>1, <1>3
        <5> QED BY <5>2, <4>1, <4>3, <3>1, <2>1
      <4> QED BY <4>2, <4>3
    <3>2. CASE i # 1
      <4>1. i - 1 \in 1..Len(q) /\ r[i] = q[i - 1]
        BY <3>2, <1>4
      <4>2. q[i - 1] # d /\ q[i - 1] \in 0..(made - 1)
        BY <4>1, <1>5, <1>1
      <4>3. par'[r[i]] = IF i - 1 = Len(q) THEN NONE ELSE q[(i - 1) + 1]
        BY <4>1, <4>2, <2>1
      <4>4. CASE i = Len(r)
        BY <4>3, <4>4, <1>3
      <4>5. CASE i # Len(r)
        <5>1. i \in 1..Len(q) /\ (i - 1) + 1 = i /\ i - 1 # Len(q)
          BY <4>5, <3>2, <1>3
        <5>2. r[i + 1] = q[i]
          BY <5>1, <1>3
        <5> QED BY <5>1, <5>2, <4>3, <4>5
      <4> QED BY <4>4, <4>5
    <3> QED BY <3>1, <3>2
  <2> QED BY <2>2, <2>3, <1>3
<1> QED BY <1>1, <1>3, <1>6, <1>7, <1>8 DEF r, ListsFree, Linked

\* alloc_slot with no free slot gives out one more.
LEMMA Grown ==
    ASSUME NEW q, ListsFree(q), Shaped, free = NONE, free' = NONE, made' = made + 1,
           Live' = Live \union {made}
    PROVE  ListsFree(<<>>)'
<1>1. Live = 0..(made - 1) /\ made \in Nat
  BY HeadIsFree DEF Shaped
<1>2. (0..(made' - 1)) \ Live' = {}
  BY <1>1
<1>3. IsInjective(<<>>) /\ ToSet(<<>>) = {} /\ <<>> \in Seq(0..(made' - 1))
  BY DEF IsInjective, ToSet
<1> QED BY <1>2, <1>3 DEF ListsFree, Linked

\* What moves live slots only leaves the list alone.
LEMMA ListKept ==
    ASSUME NEW q, ListsFree(q), free' = free, made' = made, Live' = Live,
           \A s \in (0..(made - 1)) \ Live : par'[s] = par[s]
    PROVE  ListsFree(q)'
<1>1. q \in Seq(0..(made - 1)) /\ ToSet(q) = (0..(made - 1)) \ Live
  BY DEF ListsFree
<1>2. \A i \in 1..Len(q) : q[i] \in ToSet(q)
  BY <1>1 DEF ToSet
<1>3. \A i \in 1..Len(q) : par'[q[i]] = par[q[i]]
  BY <1>1, <1>2
<1> QED BY <1>3 DEF ListsFree, Linked

-----------------------------------------------------------------------------
(* The operations *)

\* An index without devices.
LEMMA InitSInv == Init => SInv
<1> SUFFICES ASSUME Init PROVE SInv
  OBVIOUS
<1>1. /\ made = 0 /\ free = NONE /\ DOMAIN ids = {} /\ Live = {} /\ DOMAIN ext = Slot /\ DOMAIN par = Slot
      /\ job = Idle
  BY DEF Init, Live
<1>2. Cardinality(Id) \in Nat
  BY SlotIsNat
<1>3. Shaped
  BY <1>1, <1>2 DEF Shaped
<1>4. Named /\ Parented
  BY <1>1 DEF Named, Parented
<1>5. Detached
  BY <1>1 DEF Detached, Idle
<1>6. ListsFree(<<>>)
  <2>1. (0..(made - 1)) \ Live = {}
    BY <1>1
  <2>2. IsInjective(<<>>) /\ ToSet(<<>>) = {} /\ <<>> \in Seq(0..(made - 1))
    BY DEF IsInjective, ToSet
  <2> QED BY <2>1, <2>2, <1>1 DEF ListsFree, Linked
<1>7. <<>> \in Seq(Nat)
  OBVIOUS
<1> QED BY <1>3, <1>4, <1>5, <1>6, <1>7 DEF SInv

\* More slots include the ones before.
LEMMA Wider ==
    ASSUME NEW a \in Nat, NEW b \in Nat, a <= b
    PROVE  0..(a - 1) \subseteq 0..(b - 1)
OBVIOUS

\* An id that is not registered finds a slot: as many as there are ids are enough.
LEMMA RoomForOne ==
    ASSUME Shaped, Named, NEW i \in Id, i \notin DOMAIN ids, free = NONE,
           NEW q, ListsFree(q)
    PROVE  made + 1 <= Cardinality(Id)
<1> DEFINE f == [s \in Live |-> ext[s]]
<1>1. Live = 0..(made - 1) /\ made \in Nat
  BY HeadIsFree DEF Shaped
<1>2. f \in Injection(Live, Id \ {i})
  <2>1. \A s \in Live : ext[s] \in Id \ {i}
    BY DEF Named, Shaped
  <2>2. \A s, u \in Live : ext[s] = ext[u] => s = u
    BY DEF Named
  <2> QED BY <2>1, <2>2 DEF Injection, IsInjective
<1>3. IsFiniteSet(Id \ {i}) /\ Cardinality(Id \ {i}) = Cardinality(Id) - 1 /\ Cardinality(Id) \in Nat
  BY IdAssumption, FS_RemoveElement, FS_CardinalityType
<1>4. Cardinality(Live) <= Cardinality(Id \ {i})
  <2> HIDE DEF f
  <2> QED BY <1>2, <1>3, FS_Injection
<1>5. Cardinality(Live) = made
  BY <1>1, FS_Interval
<1> QED BY <1>1, <1>3, <1>4, <1>5

\* insert: a slot from the list, or one more.
LEMMA InsertSInv ==
    ASSUME SInv, NEW i \in Id, NEW at, NEW cs, NEW q \in Live \union {NONE}, Insert(i, at, cs, q)
    PROVE  SInv'
<1> DEFINE d == NewSlot
<1>0. Shaped /\ Named /\ Parented /\ Detached
  BY DEF SInv
<1>1. PICK l \in Seq(Nat) : ListsFree(l)
  BY DEF SInv
<1>2. /\ job = Idle /\ job' = job /\ i \notin DOMAIN ids
      /\ ids' = With(ids, i, d)
      /\ ext' = [ext EXCEPT ![d] = i]
      /\ free' = IF free # NONE THEN par[free] ELSE NONE
      /\ made' = IF free # NONE THEN made ELSE made + 1
      /\ cells' = With(cells, d, cs)
      /\ par' = [par EXCEPT ![d] = q]
  BY DEF Insert, Allocate
<1>3. /\ made \in Nat /\ made <= Cardinality(Id) /\ DOMAIN ids \subseteq Id /\ DOMAIN ext = Slot
      /\ DOMAIN par = Slot /\ Live \subseteq 0..(made - 1)
  BY <1>0 DEF Shaped
<1>4. Cardinality(Id) \in Nat /\ NONE \notin Slot /\ 0..(made - 1) \subseteq Slot
  BY <1>0, SlotIsNat, MadeIsSlots
<1>5. d \notin Live /\ d \in 0..(made' - 1) /\ d \in Slot /\ made' \in Nat /\ made' <= Cardinality(Id) /\ made <= made'
  <2>1. CASE free # NONE
    <3>1. d = free /\ made' = made
      BY <2>1, <1>2 DEF NewSlot
    <3> QED BY <3>1, <2>1, <1>0, <1>1, <1>3, <1>4, HeadIsFree
  <2>2. CASE free = NONE
    <3>1. d = made /\ made' = made + 1
      BY <2>2, <1>2 DEF NewSlot
    <3>2. made + 1 <= Cardinality(Id)
      BY <2>2, <1>0, <1>1, <1>2, RoomForOne
    <3>3. d \notin 0..(made - 1) /\ d \in 0..(made' - 1)
      BY <3>1, <1>3
    <3>4. d \in Slot
      BY <3>1, <3>2, <1>3, <1>4 DEF Slot
    <3> QED BY <3>1, <3>2, <3>3, <3>4, <1>3
  <2> QED BY <2>1, <2>2
<1> HIDE DEF d
<1>6. Live' = Live \union {d}
  BY <1>2 DEF Live, With
<1>7. DOMAIN ids' = DOMAIN ids \union {i} /\ ids'[i] = d /\ \A j \in DOMAIN ids : ids'[j] = ids[j]
  BY <1>2 DEF With
<1>8. DOMAIN ext' = Slot /\ ext'[d] = i /\ \A s \in Slot \ {d} : ext'[s] = ext[s]
  BY <1>2, <1>3, <1>5
<1>9. DOMAIN par' = Slot /\ par'[d] = q /\ \A s \in Slot \ {d} : par'[s] = par[s]
  BY <1>2, <1>3, <1>5
<1>10. Shaped'
  <2>1. Live' \subseteq 0..(made' - 1)
    <3>1. 0..(made - 1) \subseteq 0..(made' - 1)
      <4>1. made \in Nat /\ made' \in Nat /\ made <= made'
        BY <1>3, <1>5
      <4> QED BY <4>1, Wider
    <3> QED BY <3>1, <1>3, <1>5, <1>6
  <2> QED BY <2>1, <1>5, <1>3, <1>7, <1>8, <1>9 DEF Shaped
<1>11. Live \subseteq Slot \ {d}
  BY <1>3, <1>4, <1>5
<1>12. Named'
  <2>1. ASSUME NEW j \in DOMAIN ids' PROVE ids'[j] \in Live' /\ ext'[ids'[j]] = j
    BY <1>0, <1>6, <1>7, <1>8, <1>11 DEF Named
  <2>2. ASSUME NEW s \in Live' PROVE ext'[s] \in DOMAIN ids' /\ ids'[ext'[s]] = s
    BY <1>0, <1>6, <1>7, <1>8, <1>11 DEF Named
  <2> QED BY <2>1, <2>2 DEF Named
<1>13. Parented'
  BY <1>0, <1>6, <1>9, <1>11 DEF Parented
<1>14. Detached'
  BY <1>2 DEF Detached, Idle
<1>15. \E r \in Seq(Nat) : ListsFree(r)'
  <2>1. CASE free # NONE
    <3>1. d = free
      BY <2>1 DEF d, NewSlot
    <3>2. ListsFree(Tail(l))'
      BY <2>1, <3>1, <1>0, <1>1, <1>2, <1>4, <1>6, <1>9, Popped
    <3>3. l # <<>>
      BY <2>1, <1>0, <1>1, HeadIsFree
    <3>4. Tail(l) \in Seq(Nat)
      BY <3>3
    <3> QED BY <3>2, <3>4
  <2>2. CASE free = NONE
    <3>1. d = made
      BY <2>2 DEF d, NewSlot
    <3>2. ListsFree(<<>>)'
      BY <2>2, <3>1, <1>0, <1>1, <1>2, <1>6, Grown
    <3>3. <<>> \in Seq(Nat)
      OBVIOUS
    <3> QED BY <3>2, <3>3
  <2> QED BY <2>1, <2>2
<1> QED BY <1>10, <1>12, <1>13, <1>14, <1>15 DEF SInv

\* What leaves slots, devices and the free list as they are.
LEMMA SlotsKept ==
    ASSUME SInv, UNCHANGED slots, Live' = Live, DOMAIN par' = DOMAIN par,
           \A s \in (0..(made - 1)) \ Live : par'[s] = par[s],
           Parented', Detached'
    PROVE  SInv'
<1>1. PICK l \in Seq(Nat) : ListsFree(l)
  BY DEF SInv
<1>2. ListsFree(l)'
  BY <1>1, ListKept DEF slots
<1>3. Shaped' /\ Named'
  BY DEF SInv, Shaped, Named, slots
<1> QED BY <1>1, <1>2, <1>3 DEF SInv

\* A report that leaves the forest alone.
LEMMA MoveFastSInv ==
    ASSUME SInv, NEW d, NEW at, NEW cs, MoveFast(d, at, cs)
    PROVE  SInv'
<1>1. UNCHANGED <<slots, par, job>> /\ Live' = Live
  BY DEF MoveFast, Live
<1>2. Parented' /\ Detached'
  BY <1>1 DEF SInv, Parented, Detached
<1> QED BY <1>1, <1>2, SlotsKept

\* The device that is detached stays, and its children become the repair's work.
LEMMA BeginUnlinkSInv ==
    ASSUME SInv, NEW d, NEW cs, NEW to, BeginUnlink(d, cs, to)
    PROVE  SInv'
<1>1. /\ UNCHANGED <<slots, par>> /\ Live' = Live /\ d \in Live
      /\ job' = [dev |-> d, kids |-> {k \in Live : par[k] = d}, to |-> to]
  BY DEF BeginUnlink, Live
<1>2. Parented'
  BY <1>1 DEF SInv, Parented
<1>3. Detached'
  BY <1>1 DEF Detached
<1> QED BY <1>1, <1>2, <1>3, SlotsKept

\* A child comes under a device that stays.
LEMMA RehomeChildSInv ==
    ASSUME SInv, NEW k \in Live, NEW q \in Live \union {NONE}, RehomeChild(k, q)
    PROVE  SInv'
<1>1. /\ UNCHANGED <<slots, cells>> /\ Live' = Live
      /\ q # job.dev /\ par' = [par EXCEPT ![k] = q]
      /\ job' = [job EXCEPT !.kids = @ \ {k}]
  BY DEF RehomeChild, Live
<1>2. k \in DOMAIN par /\ Live \subseteq DOMAIN par
  BY MadeIsSlots DEF SInv, Shaped
<1>3. par'[k] = q /\ \A s \in Live : s # k => par'[s] = par[s]
  BY <1>1, <1>2
<1>4. Parented'
  BY <1>1, <1>3 DEF SInv, Parented
<1>5. Detached'
  BY <1>1, <1>3 DEF SInv, Detached
<1>6. DOMAIN par' = DOMAIN par /\ \A s \in (0..(made - 1)) \ Live : par'[s] = par[s]
  BY <1>1, MadeIsSlots DEF SInv, Shaped
<1> QED BY <1>1, <1>4, <1>5, <1>6, SlotsKept

\* The moved device is linked again.
LEMMA FinishMoveSInv ==
    ASSUME SInv, NEW q \in Live \union {NONE}, FinishMove(q)
    PROVE  SInv'
<1>1. /\ UNCHANGED <<slots, cells>> /\ Live' = Live /\ job.dev # NONE /\ job' = Idle
      /\ par' = [par EXCEPT ![job.dev] = q]
  BY DEF FinishMove, Live
<1>2. job.dev \in Live /\ Live \subseteq DOMAIN par
  BY <1>1, MadeIsSlots DEF SInv, Shaped, Detached
<1>3. Parented'
  BY <1>1, <1>2 DEF SInv, Parented
<1>4. Detached'
  BY <1>1 DEF Detached, Idle
<1>5. DOMAIN par' = DOMAIN par /\ \A s \in (0..(made - 1)) \ Live : par'[s] = par[s]
  BY <1>1, <1>2
<1> QED BY <1>1, <1>3, <1>4, <1>5, SlotsKept

\* The slot is given back: no live device has it as parent any more.
LEMMA FinishRemoveSInv ==
    ASSUME SInv, FinishRemove
    PROVE  SInv'
<1>d. PICK d : d = job.dev
  OBVIOUS
<1>0. Shaped /\ Named /\ Parented /\ Detached
  BY DEF SInv
<1>1. PICK l \in Seq(Nat) : ListsFree(l)
  BY DEF SInv
<1>2. /\ d # NONE /\ job.kids = {} /\ job' = Idle
      /\ ids' = Without(ids, ext[d])
      /\ ext' = [ext EXCEPT ![d] = NONE]
      /\ free' = d /\ par' = [par EXCEPT ![d] = free] /\ made' = made
      /\ cells' = Without(cells, d)
  BY <1>d DEF FinishRemove, FreeSlot
<1>3. /\ made \in Nat /\ made <= Cardinality(Id) /\ DOMAIN ids \subseteq Id /\ DOMAIN ext = Slot
      /\ DOMAIN par = Slot /\ Live \subseteq 0..(made - 1) /\ 0..(made - 1) \subseteq Slot
  BY <1>0, MadeIsSlots DEF Shaped
<1>4. d \in Live /\ \A s \in Live : par[s] # d
  BY <1>d, <1>0, <1>2 DEF Detached
<1>5. Live' = Live \ {d}
  BY <1>2 DEF Live, Without
<1>6. DOMAIN ids' = DOMAIN ids \ {ext[d]} /\ \A i \in DOMAIN ids \ {ext[d]} : ids'[i] = ids[i]
  BY <1>2 DEF Without
<1>7. DOMAIN ext' = Slot /\ \A s \in Slot \ {d} : ext'[s] = ext[s] /\ par'[s] = par[s]
  BY <1>2, <1>3
<1>8. DOMAIN par' = Slot /\ par'[d] = free
  BY <1>2, <1>3, <1>4
<1>9. Shaped'
  BY <1>2, <1>3, <1>5, <1>6, <1>7, <1>8 DEF Shaped
<1>10. Live \subseteq Slot
  BY <1>3
<1>11. Named'
  <2>1. ASSUME NEW i \in DOMAIN ids' PROVE ids'[i] \in Live' /\ ext'[ids'[i]] = i
    <3>1. i \in DOMAIN ids /\ i # ext[d] /\ ids'[i] = ids[i]
      BY <1>6
    <3>2. ids[i] \in Live /\ ext[ids[i]] = i
      BY <3>1, <1>0 DEF Named
    <3> QED BY <3>1, <3>2, <1>5, <1>7, <1>10
  <2>2. ASSUME NEW s \in Live' PROVE ext'[s] \in DOMAIN ids' /\ ids'[ext'[s]] = s
    <3>1. s \in Live /\ s # d /\ ext'[s] = ext[s]
      BY <1>5, <1>7, <1>10
    <3>2. ext[s] \in DOMAIN ids /\ ids[ext[s]] = s /\ ids[ext[d]] = d
      BY <3>1, <1>0, <1>4 DEF Named
    <3> QED BY <3>1, <3>2, <1>6
  <2> QED BY <2>1, <2>2 DEF Named
<1>12. Parented'
  BY <1>0, <1>4, <1>5, <1>7, <1>10 DEF Parented
<1>13. Detached'
  BY <1>2 DEF Detached, Idle
<1>14. ListsFree(<<d>> \o l)'
  <2>1. \A s \in 0..(made - 1) : s # d => par'[s] = par[s]
    BY <1>3, <1>7
  <2>2. free' = d /\ made' = made /\ Shaped
    BY <1>0, <1>2
  <2> QED BY <2>1, <2>2, <1>1, <1>4, <1>5, <1>8, Pushed
<1>15. <<d>> \o l \in Seq(Nat)
  <2>1. d \in Nat
    BY <1>3, <1>4
  <2> QED BY <2>1
<1>16. \E r \in Seq(Nat) : ListsFree(r)'
  BY <1>14, <1>15
<1> QED BY <1>9, <1>11, <1>12, <1>13, <1>16 DEF SInv

\* Every step keeps the invariant.
LEMMA NextSInv == SInv /\ [Next]_vars => SInv'
<1> SUFFICES ASSUME SInv, [Next]_vars PROVE SInv'
  OBVIOUS
<1>1. ASSUME NEW at \in X, NEW cs \in CellSets, NEW i \in Id, NEW q \in Live \union {NONE},
             Insert(i, at, cs, q)
      PROVE  SInv'
  BY <1>1, InsertSInv
<1>2. ASSUME NEW at \in X, NEW cs \in CellSets, NEW i \in DOMAIN ids, MoveFast(ids[i], at, cs)
      PROVE  SInv'
  BY <1>2, MoveFastSInv
<1>3. ASSUME NEW at \in X, NEW cs \in CellSets, NEW i \in DOMAIN ids, MoveSlow(ids[i], at, cs)
      PROVE  SInv'
  BY <1>3, BeginUnlinkSInv DEF MoveSlow
<1>4. ASSUME NEW i \in DOMAIN ids, RemoveDevice(ids[i]) PROVE SInv'
  BY <1>4, BeginUnlinkSInv DEF RemoveDevice
<1>5. ASSUME NEW k \in Live, NEW q \in Live \union {NONE}, RehomeChild(k, q) PROVE SInv'
  BY <1>5, RehomeChildSInv
<1>6. CASE FinishRemove
  BY <1>6, FinishRemoveSInv
<1>7. ASSUME NEW q \in Live \union {NONE}, FinishMove(q) PROVE SInv'
  BY <1>7, FinishMoveSInv
<1>8. CASE UNCHANGED vars
  <2>1. UNCHANGED <<slots, par, job>> /\ Live' = Live
    BY <1>8 DEF vars, Live
  <2>2. Parented' /\ Detached'
    BY <2>1 DEF SInv, Parented, Detached
  <2> QED BY <2>1, <2>2, SlotsKept
<1> QED BY <1>1, <1>2, <1>3, <1>4, <1>5, <1>6, <1>7, <1>8 DEF Next

-----------------------------------------------------------------------------
\* Some sequence lists the free slots, ids and slots name each other, and the children of a
\* detached device are the ones the repair still has to move: in every state.
THEOREM SpecSInv == Spec => []SInv
BY InitSInv, NextSInv, PTL DEF Spec

\* The free list that exists is the one par holds.
LEMMA SInvSound == SInv => SlotsSound
<1> SUFFICES ASSUME SInv PROVE SlotsSound
  OBVIOUS
<1>1. PICK q \in Seq(Nat) : ListsFree(q)
  BY DEF SInv
<1>2. FreeSlots = q
  BY <1>1, FreeSlotsAre DEF SInv
<1>3. IsInjective(q) /\ ToSet(q) = (0..(made - 1)) \ Live
  BY <1>1 DEF ListsFree
<1>4. Live \subseteq 0..(made - 1)
  BY DEF SInv, Shaped
<1> QED BY <1>2, <1>3, <1>4 DEF SInv, Named, Parented, SlotsSound

\* Ids and slots name each other, every slot ever given is live or on the free list once,
\* and no parent is a free slot, whatever was inserted, moved and removed.
THEOREM SlotsStaySound == Spec => []SlotsSound
BY SpecSInv, SInvSound, PTL

-----------------------------------------------------------------------------
(* Folds *)

\* A set of numbers that has any has a least one.
LEMMA LeastOf ==
    ASSUME NEW S, S \subseteq Nat, S # {}
    PROVE  \E k \in S : \A m \in S : k <= m
<1>1. PICK k \in S : \A m \in S : ~ (<<m, k>> \in OpToRel(<, Nat))
  BY WFMin, NatLessThanWellFounded
<1>2. \A m \in S : ~ (m < k)
  BY <1>1 DEF OpToRel
<1> QED BY <1>2

\* The greatest of the numbers up to one.
LEMMA MaxOfSome ==
    ASSUME NEW n \in Nat, NEW s \in SUBSET (1..n), s # {}
    PROVE  Max(s) \in s /\ \A z \in s : z <= Max(s)
<1> DEFINE Away == {n - z : z \in s}
<1>1. Away \subseteq Nat /\ Away # {}
  <2>1. \A z \in s : z \in 1..n
    OBVIOUS
  <2>2. \A z \in 1..n : n - z \in Nat
    OBVIOUS
  <2> QED BY <2>1, <2>2
<1>2. PICK k \in Away : \A m \in Away : k <= m
  <2> HIDE DEF Away
  <2> QED BY <1>1, LeastOf
<1>3. PICK y \in s : k = n - y
  BY <1>2
<1>4. \A z \in s : y >= z
  BY <1>2, <1>3
<1> QED BY <1>3, <1>4 DEF Max

\* step says how each element changes what was accumulated.  There is a function of
\* the sets of positions that does it, the greatest position last.
Walks(base, n, step, f) ==
    \A s \in SUBSET (1..n) :
       f[s] = IF s = {} THEN base ELSE step[Max(s)][f[s \ {Max(s)}]]

LEMMA WalkExists ==
    ASSUME NEW A, NEW base \in A, NEW n \in Nat, NEW step \in [1..n -> [A -> A]]
    PROVE  \E f \in [SUBSET (1..n) -> A] : Walks(base, n, step, f)
<1> DEFINE Has(m) == \E f \in [SUBSET (1..m) -> A] : Walks(base, m, step, f)
           Bad == {m \in 0..n : ~ Has(m)}
<1> SUFFICES ASSUME Bad # {} PROVE FALSE
  <2>1. n \in 0..n
    OBVIOUS
  <2>2. Has(n) => \E f \in [SUBSET (1..n) -> A] : Walks(base, n, step, f)
    OBVIOUS
  <2> HIDE DEF Has
  <2>3. Bad = {} => Has(n)
    BY <2>1
  <2> QED BY <2>2, <2>3
<1>1. PICK m \in Bad : \A k \in Bad : m <= k
  <2>1. Bad \subseteq Nat
    OBVIOUS
  <2> HIDE DEF Bad
  <2> QED BY <2>1, LeastOf
<1>2. m \in 0..n /\ ~ Has(m)
  BY <1>1
<1>3. CASE m = 0
  <2>1. 1..m = {}
    BY <1>3
  <2> DEFINE f == [s \in SUBSET (1..m) |-> base]
  <2>2. f \in [SUBSET (1..m) -> A] /\ Walks(base, m, step, f)
    BY <2>1 DEF Walks
  <2> HIDE DEF f
  <2> QED BY <2>2, <1>2
<1>4. CASE m # 0
  <2>0. m \in Nat
    BY <1>2
  <2>1. m - 1 \in 0..n /\ m \in 1..n
    BY <1>2, <1>4
  <2>2. Has(m - 1)
    <3> HIDE DEF Has
    <3>1. m - 1 \notin Bad
      <4>1. ~ (m <= m - 1)
        BY <2>1
      <4> QED BY <1>1, <4>1
    <3> QED BY <2>1, <3>1
  <2>3. PICK f \in [SUBSET (1..m-1) -> A] : Walks(base, m - 1, step, f)
    BY <2>2
  <2> DEFINE g == [s \in SUBSET (1..m) |-> IF m \in s THEN step[m][f[s \ {m}]] ELSE f[s]]
  <2>4. \A s \in SUBSET (1..m) : s \ {m} \in SUBSET (1..m-1) /\ (m \notin s => s \in SUBSET (1..m-1))
    BY <2>1
  <2>5. g \in [SUBSET (1..m) -> A]
    BY <2>1, <2>4
  <2>6. ASSUME NEW s \in SUBSET (1..m)
        PROVE  g[s] = IF s = {} THEN base ELSE step[Max(s)][g[s \ {Max(s)}]]
    <3>1. CASE m \in s
      <4>1. Max(s) = m
        <5>1. Max(s) \in s /\ \A z \in s : z <= Max(s)
          BY <2>0, <3>1, MaxOfSome
        <5>2. Max(s) \in 1..m /\ m <= Max(s)
          BY <3>1, <5>1
        <5> QED BY <2>0, <5>2
      <4>2. g[s \ {m}] = f[s \ {m}]
        OBVIOUS
      <4> QED BY <3>1, <4>1, <4>2
    <3>2. CASE m \notin s /\ s # {}
      <4>1. s \in SUBSET (1..m-1)
        BY <2>4, <3>2
      <4>2. Max(s) \in s
        BY <2>0, <3>2, MaxOfSome
      <4>3. f[s] = step[Max(s)][f[s \ {Max(s)}]]
        BY <2>3, <3>2, <4>1 DEF Walks
      <4>4. g[s] = f[s] /\ g[s \ {Max(s)}] = f[s \ {Max(s)}]
        BY <3>2
      <4> QED BY <3>2, <4>3, <4>4
    <3>3. CASE s = {}
      <4>1. s \in SUBSET (1..m-1) /\ m \notin s
        BY <3>3
      <4>2. f[s] = base
        BY <2>3, <3>3, <4>1 DEF Walks
      <4> QED BY <3>3, <4>1, <4>2
    <3> QED BY <3>1, <3>2, <3>3
  <2>7. Walks(base, m, step, g)
    <3> HIDE DEF g
    <3> QED BY <2>6 DEF Walks
  <2> HIDE DEF g
  <2> QED BY <1>2, <2>5, <2>7
<1> QED BY <1>3, <1>4

\* What is accumulated after each of the first n elements.
Traces(A, base, n, step, g) ==
    g \in [0..n -> A] /\ g[0] = base /\ \A k \in 1..n : g[k] = step[k][g[k-1]]

\* h goes from the first k - 1 positions to the first k by a step, if it is in A there.
Goes(A, n, step, h) == \A k \in 1..n : h[1..k-1] \in A => h[1..k] = step[k][h[1..k-1]]

\* What a walk has after each position, one after the other.
LEMMA WalkSteps ==
    ASSUME NEW A, NEW base \in A, NEW n \in Nat, NEW step \in [1..n -> [A -> A]],
           NEW h, h[{}] = base, Goes(A, n, step, h)
    PROVE  \E g : Traces(A, base, n, step, g) /\ g[n] = h[1..n]
<1> DEFINE Bad == {k \in 0..n : h[1..k] \notin A}
           g == [k \in 0..n |-> h[1..k]]
<1>1. h[1..0] = base
  <2>1. 1..0 = {}
    OBVIOUS
  <2> QED BY <2>1
<1>2. Bad = {}
  <2> SUFFICES ASSUME Bad # {} PROVE FALSE
    OBVIOUS
  <2>1. PICK k \in Bad : \A m \in Bad : k <= m
    <3>1. Bad \subseteq Nat
      OBVIOUS
    <3> HIDE DEF Bad
    <3> QED BY <3>1, LeastOf
  <2>2. k \in 0..n /\ h[1..k] \notin A /\ k # 0
    BY <1>1
  <2>3. k - 1 \in 0..n /\ k \in 1..n /\ k - 1 \notin Bad
    BY <2>1, <2>2
  <2>4. h[1..k-1] \in A
    BY <2>3
  <2>5. h[1..k] = step[k][h[1..k-1]]
    BY <2>3, <2>4 DEF Goes
  <2> QED BY <2>2, <2>3, <2>4, <2>5
<1>3. g \in [0..n -> A]
  BY <1>2
<1>4. \A k \in 1..n : g[k] = step[k][g[k-1]]
  <2> SUFFICES ASSUME NEW k \in 1..n PROVE g[k] = step[k][g[k-1]]
    OBVIOUS
  <2>1. k - 1 \in 0..n /\ k \in 0..n
    OBVIOUS
  <2> QED BY <2>1, <1>2 DEF Goes
<1>5. g[0] = base /\ g[n] = h[1..n]
  BY <1>1
<1> HIDE DEF g
<1> QED BY <1>3, <1>4, <1>5 DEF Traces

\* h follows step from one set of positions to the next as long as it stays in A.
Follows(A, n, step, h) ==
    \A z \in SUBSET (1..n) : z # {} /\ h[z \ {Max(z)}] \in A =>
                                h[z] = step[Max(z)][h[z \ {Max(z)}]]

\* The first k positions, the last of which is k.
LEMMA FirstPositions ==
    ASSUME NEW n \in Nat, NEW k \in 1..n
    PROVE  1..k \in SUBSET (1..n) /\ 1..k # {} /\ Max(1..k) = k /\ (1..k) \ {k} = 1..k-1
<1>1. 1..k \in SUBSET (1..n) /\ k \in 1..k
  OBVIOUS
<1>2. Max(1..k) \in 1..k /\ k <= Max(1..k)
  BY <1>1, MaxOfSome
<1> QED BY <1>1, <1>2

\* h goes from base through n steps in A: it is what the definition of a fold chooses.
Folds(A, base, n, step, h) ==
    /\ base \in A /\ n \in Nat /\ step \in [1..n -> [A -> A]]
    /\ h[{}] = base /\ Follows(A, n, step, h)

\* A fold over a list of n elements goes through them one after the other.
LEMMA FoldSteps ==
    ASSUME NEW A, NEW base, NEW n, NEW step, NEW h, Folds(A, base, n, step, h)
    PROVE  \E g : Traces(A, base, n, step, g) /\ g[n] = h[1..n]
<1>0. base \in A /\ n \in Nat /\ step \in [1..n -> [A -> A]] /\ h[{}] = base /\ Follows(A, n, step, h)
  BY DEF Folds
<1>1. ASSUME NEW k \in 1..n, h[1..k-1] \in A PROVE h[1..k] = step[k][h[1..k-1]]
  <2>1. 1..k \in SUBSET (1..n) /\ 1..k # {} /\ Max(1..k) = k /\ (1..k) \ {k} = 1..k-1
    BY <1>0, FirstPositions
  <2> QED BY <1>0, <1>1, <2>1 DEF Follows
<1>2. Goes(A, n, step, h)
  BY <1>1 DEF Goes
<1> QED BY <1>0, <1>2, WalkSteps

\* Where the greatest of some positions is.
LEMMA MaxIsIn ==
    ASSUME NEW n \in Nat, NEW z \in SUBSET (1..n), z # {}
    PROVE  Max(z) \in 1..n /\ z \ {Max(z)} \in SUBSET (1..n)
BY MaxOfSome

-----------------------------------------------------------------------------
(* Walks along links *)

\* What a walk has seen when it has gone one node further.
Further(start, link, end, seen) ==
    LET at == IF seen = <<>> THEN start ELSE link[Last(seen)]
    IN  IF at = end THEN seen ELSE Append(seen, at)

\* first tells what a walk has seen after each of n steps.
Walked(start, link, end, n, first) ==
    first = [k \in 0..n |-> IF k = 0 THEN <<>> ELSE Further(start, link, end, first[k - 1])]

LEMMA WalkedExists ==
    ASSUME NEW start, NEW link, NEW end, NEW n \in Nat
    PROVE  \E first : Walked(start, link, end, n, first)
<1> DEFINE Has(m) == \E f : Walked(start, link, end, m, f)
           Bad == {m \in Nat : ~ Has(m)}
<1> SUFFICES ASSUME Bad # {} PROVE FALSE
  <2> HIDE DEF Has
  <2>1. Bad = {} => Has(n)
    OBVIOUS
  <2> QED BY <2>1 DEF Has
<1>1. PICK m \in Bad : \A k \in Bad : m <= k
  <2>1. Bad \subseteq Nat
    OBVIOUS
  <2> HIDE DEF Bad
  <2> QED BY <2>1, LeastOf
<1>2. m \in Nat /\ ~ Has(m)
  BY <1>1
<1>3. CASE m = 0
  <2> DEFINE f == [k \in 0..m |-> <<>>]
  <2>1. f = [k \in 0..m |-> IF k = 0 THEN <<>> ELSE Further(start, link, end, f[k - 1])]
    BY <1>3
  <2> HIDE DEF f
  <2> QED BY <2>1, <1>2 DEF Walked
<1>4. CASE m # 0
  <2>1. m - 1 \in Nat /\ m - 1 < m
    BY <1>2, <1>4
  <2>2. Has(m - 1)
    <3>1. m - 1 \notin Bad
      <4> HIDE DEF Bad
      <4> QED BY <1>1, <1>2, <2>1
    <3> HIDE DEF Has
    <3> QED BY <2>1, <3>1
  <2>3. PICK f : Walked(start, link, end, m - 1, f)
    BY <2>2
  <2> DEFINE g == [k \in 0..m |-> IF k = m THEN Further(start, link, end, f[m - 1]) ELSE f[k]]
  <2>4. \A k \in 0..(m - 1) : f[k] = IF k = 0 THEN <<>> ELSE Further(start, link, end, f[k - 1])
    BY <2>1, <2>3 DEF Walked
  <2>5. ASSUME NEW k \in 0..m PROVE g[k] = IF k = 0 THEN <<>> ELSE Further(start, link, end, g[k - 1])
    <3>1. CASE k = m
      <4>1. m - 1 \in 0..m /\ m - 1 # m /\ m \in 0..m
        BY <1>2, <2>1
      <4>2. g[m - 1] = f[m - 1]
        BY <4>1
      <4> HIDE DEF Has, Bad
      <4> QED BY <3>1, <4>1, <4>2, <1>4
    <3>2. CASE k # m
      <4>1. k \in 0..(m - 1) /\ (k # 0 => k - 1 \in 0..m /\ k - 1 # m)
        BY <3>2, <1>2
      <4>2. g[k] = f[k] /\ (k # 0 => g[k - 1] = f[k - 1])
        BY <3>2, <4>1
      <4> HIDE DEF g
      <4> QED BY <2>4, <4>1, <4>2
    <3> QED BY <3>1, <3>2
  <2>6. g = [k \in 0..m |-> g[k]]
    OBVIOUS
  <2> HIDE DEF g
  <2>7. Walked(start, link, end, m, g)
    BY <2>5, <2>6 DEF Walked
  <2> QED BY <2>7, <1>2
<1> QED BY <1>3, <1>4

\* Follow takes the steps of a walk, one after the other.
LEMMA FollowWalks ==
    ASSUME NEW start, NEW link, NEW end, NEW n \in Nat
    PROVE  \E first : /\ first[0] = <<>>
                      /\ \A k \in 1..n : first[k] = Further(start, link, end, first[k - 1])
                      /\ Follow(start, link, end, n) = first[n]
<1> DEFINE f == CHOOSE f : Walked(start, link, end, n, f)
<1>1. Walked(start, link, end, n, f)
  BY WalkedExists
<1>2. Follow(start, link, end, n) = f[n]
  BY DEF Follow, Walked, Further
<1> HIDE DEF f
<1>3. \A k \in 0..n : f[k] = IF k = 0 THEN <<>> ELSE Further(start, link, end, f[k - 1])
  BY <1>1 DEF Walked
<1>4. 0 \in 0..n
  OBVIOUS
<1> QED BY <1>2, <1>3, <1>4

-----------------------------------------------------------------------------
(* Chains *)

\* Who may hold an entry: a slot, or nobody.
Owner == Slot \union {NONE}

\* The entries D are chained: nx is the next of each and st the first of each owner, own
\* says whose chain an entry is on; bk is the entry before it, and d grows along a chain.
Chained(D, nx, st, own, bk, d) ==
    /\ own \in [D -> Owner] /\ bk \in [D -> D \union {EMPTY}] /\ d \in [D -> Nat]
    /\ \A e \in D : nx[e] = EMPTY \/ (nx[e] \in D /\ own[nx[e]] = own[e] /\ bk[nx[e]] = e /\ d[e] < d[nx[e]])
    /\ \A e \in D : IF bk[e] = EMPTY THEN st[own[e]] = e ELSE own[bk[e]] = own[e] /\ nx[bk[e]] = e
    /\ \A o \in Owner : st[o] = EMPTY \/ (st[o] \in D /\ own[st[o]] = o /\ bk[st[o]] = EMPTY)

\* What bk and d are when e goes to the front of o's chain.
BackAfter(D, nx, st, bk, e, o) ==
    [f \in D |-> IF f = e THEN EMPTY ELSE IF f = st[o] THEN e ELSE IF f = nx[e] THEN bk[e] ELSE bk[f]]
DepthAfter(D, d, e) == [f \in D |-> IF f = e THEN 0 ELSE d[f] + 1]

\* An owner without a first entry has none.
LEMMA NoFirstNone ==
    ASSUME NEW D, D \subseteq Nat, NEW nx, NEW st, NEW own, NEW bk, NEW d,
           Chained(D, nx, st, own, bk, d), NEW o \in Owner, st[o] = EMPTY
    PROVE  \A e \in D : own[e] # o
<1> DEFINE Mine == {e \in D : own[e] = o}
           Depths == {d[e] : e \in Mine}
<1> SUFFICES ASSUME Mine # {} PROVE FALSE
  OBVIOUS
<1>0. \A e \in D : d[e] \in Nat
  BY DEF Chained
<1>1. Depths \subseteq Nat /\ Depths # {}
  BY <1>0
<1>2. PICK k \in Depths : \A m \in Depths : k <= m
  <2> HIDE DEF Depths
  <2> QED BY <1>1, LeastOf
<1>3. PICK e \in Mine : k = d[e]
  BY <1>2
<1>4. bk[e] # EMPTY
  BY DEF Chained, EMPTY
<1>5. bk[e] \in D /\ own[bk[e]] = o /\ nx[bk[e]] = e
  BY <1>4 DEF Chained
<1>6. d[bk[e]] < d[e]
  <2>1. EMPTY \notin D
    BY DEF EMPTY
  <2> QED BY <1>5, <2>1 DEF Chained
<1>7. d[bk[e]] \in Depths /\ d[bk[e]] \in Nat /\ d[e] \in Nat
  BY <1>0, <1>5
<1> QED BY <1>2, <1>3, <1>6, <1>7

\* An entry that leaves its chain for the front of another one leaves both linked.
LEMMA Rechained ==
    ASSUME NEW D, D \subseteq Nat, NEW nx, NEW st, NEW own, NEW bk, NEW d,
           Chained(D, nx, st, own, bk, d), NEW e \in D, NEW o \in Owner, own[e] # o,
           NEW nx1, \A f \in D : nx1[f] = IF f = e THEN st[o] ELSE IF f = bk[e] THEN nx[e] ELSE nx[f],
           NEW st1, \A p \in Owner : st1[p] = IF p = o THEN e
                                              ELSE IF p = own[e] /\ bk[e] = EMPTY THEN nx[e] ELSE st[p]
    PROVE  Chained(D, nx1, st1, [own EXCEPT ![e] = o], BackAfter(D, nx, st, bk, e, o), DepthAfter(D, d, e))
<1> DEFINE own1 == [own EXCEPT ![e] = o]
           bk1 == BackAfter(D, nx, st, bk, e, o)
           d1 == DepthAfter(D, d, e)
<1>0. EMPTY \notin D
  BY DEF EMPTY
<1>1. own \in [D -> Owner] /\ bk \in [D -> D \union {EMPTY}] /\ d \in [D -> Nat]
  BY DEF Chained
<1>2. \A f \in D : nx[f] = EMPTY \/ (nx[f] \in D /\ own[nx[f]] = own[f] /\ bk[nx[f]] = f /\ d[f] < d[nx[f]])
  BY DEF Chained
<1>3. \A f \in D : IF bk[f] = EMPTY THEN st[own[f]] = f ELSE own[bk[f]] = own[f] /\ nx[bk[f]] = f
  BY DEF Chained
<1>4. \A p \in Owner : st[p] = EMPTY \/ (st[p] \in D /\ own[st[p]] = p /\ bk[st[p]] = EMPTY)
  BY DEF Chained
<1>5. own1 \in [D -> Owner] /\ \A f \in D : own1[f] = IF f = e THEN o ELSE own[f]
  BY <1>1
<1>6. \A f \in D : bk1[f] = IF f = e THEN EMPTY ELSE IF f = st[o] THEN e ELSE IF f = nx[e] THEN bk[e] ELSE bk[f]
  BY DEF BackAfter
<1>7. bk1 \in [D -> D \union {EMPTY}]
  BY <1>1 DEF BackAfter
<1>8. d1 \in [D -> Nat] /\ \A f \in D : d1[f] = IF f = e THEN 0 ELSE d[f] + 1
  BY <1>1 DEF DepthAfter
<1> HIDE DEF own1, bk1, d1
<1>9. ASSUME NEW f \in D
      PROVE  nx1[f] = EMPTY \/ (nx1[f] \in D /\ own1[nx1[f]] = own1[f] /\ bk1[nx1[f]] = f /\ d1[f] < d1[nx1[f]])
  <2>1. CASE f = e
    <3>1. nx1[f] = st[o]
      BY <2>1
    <3>2. CASE st[o] = EMPTY
      BY <3>1, <3>2
    <3>3. CASE st[o] # EMPTY
      <4>1. st[o] \in D /\ own[st[o]] = o /\ st[o] # e
        BY <1>4, <3>3
      <4>2. own1[st[o]] = o /\ bk1[st[o]] = e /\ d1[st[o]] = d[st[o]] + 1 /\ own1[f] = o /\ d1[f] = 0
        BY <4>1, <1>5, <1>6, <1>8, <2>1
      <4>3. d[st[o]] \in Nat
        BY <1>1, <4>1
      <4> QED BY <3>1, <4>1, <4>2, <4>3, <2>1
    <3> QED BY <3>2, <3>3
  <2>2. CASE f # e /\ f = bk[e]
    <3>1. nx1[f] = nx[e] /\ own[f] = own[e] /\ nx[f] = e /\ own1[f] = own[e]
      BY <2>2, <1>0, <1>3, <1>5
    <3>2. CASE nx[e] = EMPTY
      BY <3>1, <3>2
    <3>3. CASE nx[e] # EMPTY
      <4>1. nx[e] \in D /\ own[nx[e]] = own[e] /\ bk[nx[e]] = e /\ d[e] < d[nx[e]] /\ d[f] < d[e]
        BY <3>3, <3>1, <1>2, <1>0
      <4>5. d[f] \in Nat /\ d[e] \in Nat /\ d[nx[e]] \in Nat
        BY <4>1, <1>1
      <4>2. nx[e] # e /\ d[f] + 1 < d[nx[e]] + 1
        BY <4>1, <4>5
      <4>3. nx[e] # st[o]
        BY <4>1, <1>4, <1>0
      <4>4. own1[nx[e]] = own[e] /\ bk1[nx[e]] = f /\ d1[nx[e]] = d[nx[e]] + 1 /\ d1[f] = d[f] + 1
        BY <4>1, <4>2, <4>3, <1>5, <1>6, <1>8, <2>2
      <4> QED BY <3>1, <4>1, <4>2, <4>4
    <3> QED BY <3>2, <3>3
  <2>3. CASE f # e /\ f # bk[e]
    <3>1. nx1[f] = nx[f] /\ own1[f] = own[f] /\ d1[f] = d[f] + 1
      BY <2>3, <1>5, <1>8
    <3>2. CASE nx[f] = EMPTY
      BY <3>1, <3>2
    <3>3. CASE nx[f] # EMPTY
      <4>1. nx[f] \in D /\ own[nx[f]] = own[f] /\ bk[nx[f]] = f /\ d[f] < d[nx[f]]
        BY <3>3, <1>2
      <4>2. nx[f] # e
        BY <4>1, <2>3
      <4>3. nx[f] # st[o] /\ nx[f] # nx[e]
        BY <4>1, <1>0, <1>2, <1>4, <2>3
      <4>4. own1[nx[f]] = own[f] /\ bk1[nx[f]] = f /\ d1[nx[f]] = d[nx[f]] + 1
        BY <4>1, <4>2, <4>3, <1>5, <1>6, <1>8
      <4>5. d[f] \in Nat /\ d[nx[f]] \in Nat
        BY <4>1, <1>1
      <4> QED BY <3>1, <4>1, <4>4, <4>5
    <3> QED BY <3>2, <3>3
  <2> QED BY <2>1, <2>2, <2>3
<1>10. ASSUME NEW f \in D
       PROVE  IF bk1[f] = EMPTY THEN st1[own1[f]] = f ELSE own1[bk1[f]] = own1[f] /\ nx1[bk1[f]] = f
  <2>1. CASE f = e
    BY <2>1, <1>5, <1>6
  <2>2. CASE f # e /\ f = st[o]
    <3>1. own[f] = o /\ bk1[f] = e /\ own1[f] = o /\ own1[e] = o /\ nx1[e] = f
      BY <2>2, <1>0, <1>4, <1>5, <1>6
    <3> QED BY <3>1, <1>0
  <2>3. CASE f # e /\ f # st[o] /\ f = nx[e]
    <3>1. bk1[f] = bk[e] /\ own1[f] = own[f] /\ own[f] = own[e] /\ bk[f] = e
      BY <2>3, <1>0, <1>2, <1>5, <1>6
    <3>2. CASE bk[e] = EMPTY
      BY <3>1, <3>2, <2>3, <1>1
    <3>3. CASE bk[e] # EMPTY
      <4>1. bk[e] \in D /\ own[bk[e]] = own[e] /\ nx[bk[e]] = e
        BY <3>3, <1>1, <1>3
      <4>2. bk[e] # e
        <5>1. d[bk[e]] < d[e] /\ d[e] \in Nat
          BY <4>1, <1>0, <1>1, <1>2
        <5> QED BY <5>1
      <4>3. own1[bk[e]] = own[e] /\ nx1[bk[e]] = f
        BY <4>1, <4>2, <1>5, <2>3
      <4> QED BY <3>1, <3>3, <4>3
    <3> QED BY <3>2, <3>3
  <2>4. CASE f # e /\ f # st[o] /\ f # nx[e]
    <3>1. bk1[f] = bk[f] /\ own1[f] = own[f] /\ own[f] \in Owner
      BY <2>4, <1>1, <1>5, <1>6
    <3>2. CASE bk[f] = EMPTY
      <4>1. st[own[f]] = f
        BY <3>2, <1>3
      <4>2. own[f] # o /\ ~ (own[f] = own[e] /\ bk[e] = EMPTY)
        <5>1. own[f] = own[e] /\ bk[e] = EMPTY => f = e
          BY <4>1, <1>3
        <5> QED BY <4>1, <5>1, <2>4
      <4>3. st1[own[f]] = f
        BY <4>1, <4>2, <3>1
      <4> QED BY <3>1, <3>2, <4>3
    <3>3. CASE bk[f] # EMPTY
      <4>1. bk[f] \in D /\ own[bk[f]] = own[f] /\ nx[bk[f]] = f
        BY <3>3, <1>1, <1>3
      <4>2. bk[f] # e /\ bk[f] # bk[e]
        <5>1. bk[f] = bk[e] => nx[bk[e]] = e
          BY <3>3, <1>3
        <5> QED BY <4>1, <5>1, <2>4
      <4>3. own1[bk[f]] = own[f] /\ nx1[bk[f]] = f
        BY <4>1, <4>2, <1>5
      <4> QED BY <3>1, <3>3, <4>3
    <3> QED BY <3>2, <3>3
  <2> QED BY <2>1, <2>2, <2>3, <2>4
<1>11. ASSUME NEW p \in Owner
       PROVE  st1[p] = EMPTY \/ (st1[p] \in D /\ own1[st1[p]] = p /\ bk1[st1[p]] = EMPTY)
  <2>1. CASE p = o
    BY <2>1, <1>5, <1>6
  <2>2. CASE p # o /\ p = own[e] /\ bk[e] = EMPTY
    <3>1. st1[p] = nx[e]
      BY <2>2
    <3>2. CASE nx[e] = EMPTY
      BY <3>1, <3>2
    <3>3. CASE nx[e] # EMPTY
      <4>1. nx[e] \in D /\ own[nx[e]] = p /\ bk[nx[e]] = e /\ d[e] < d[nx[e]] /\ d[e] \in Nat
        BY <3>3, <2>2, <1>1, <1>2
      <4>2. nx[e] # e /\ nx[e] # st[o]
        BY <4>1, <2>2, <1>0, <1>4
      <4>3. own1[nx[e]] = p /\ bk1[nx[e]] = EMPTY
        BY <4>1, <4>2, <2>2, <1>5, <1>6
      <4> QED BY <3>1, <4>1, <4>3
    <3> QED BY <3>2, <3>3
  <2>3. CASE p # o /\ ~ (p = own[e] /\ bk[e] = EMPTY)
    <3>1. st1[p] = st[p]
      BY <2>3
    <3>2. CASE st[p] # EMPTY
      <4>1. st[p] \in D /\ own[st[p]] = p /\ bk[st[p]] = EMPTY
        BY <3>2, <1>4
      <4>2. st[p] # e /\ st[p] # st[o]
        BY <4>1, <2>3, <1>0, <1>4
      <4>3. st[p] # nx[e]
        BY <4>1, <1>0, <1>2
      <4>4. own1[st[p]] = p /\ bk1[st[p]] = EMPTY
        BY <4>1, <4>2, <4>3, <1>5, <1>6
      <4> QED BY <3>1, <4>1, <4>4
    <3> QED BY <3>1, <3>2
  <2> QED BY <2>1, <2>2, <2>3
<1> QED BY <1>5, <1>7, <1>8, <1>9, <1>10, <1>11 DEF Chained, own1, bk1, d1

\* A new entry that nobody holds is a chain of one.
LEMMA ChainedGrows ==
    ASSUME NEW D, D \subseteq Nat, NEW nx, NEW st, NEW own, NEW bk, NEW d,
           Chained(D, nx, st, own, bk, d), st[NONE] = EMPTY, NEW m \in Nat, m \notin D
    PROVE  Chained(D \union {m}, [f \in D \union {m} |-> IF f = m THEN EMPTY ELSE nx[f]],
                   [p \in Owner |-> IF p = NONE THEN m ELSE st[p]],
                   [f \in D \union {m} |-> IF f = m THEN NONE ELSE own[f]],
                   [f \in D \union {m} |-> IF f = m THEN EMPTY ELSE bk[f]],
                   [f \in D \union {m} |-> IF f = m THEN 0 ELSE d[f]])
<1> DEFINE E == D \union {m}
           nx1 == [f \in D \union {m} |-> IF f = m THEN EMPTY ELSE nx[f]]
           st1 == [p \in Owner |-> IF p = NONE THEN m ELSE st[p]]
           own1 == [f \in D \union {m} |-> IF f = m THEN NONE ELSE own[f]]
           bk1 == [f \in D \union {m} |-> IF f = m THEN EMPTY ELSE bk[f]]
           d1 == [f \in D \union {m} |-> IF f = m THEN 0 ELSE d[f]]
<1>0. EMPTY \notin E /\ NONE \in Owner
  BY DEF EMPTY, Owner
<1>1. \A e \in D : own[e] # NONE /\ own[e] \in Owner
  <2>1. \A e \in D : own[e] # NONE
    BY <1>0, NoFirstNone
  <2> QED BY <2>1 DEF Chained
<1>2. own1 \in [E -> Owner] /\ bk1 \in [E -> E \union {EMPTY}] /\ d1 \in [E -> Nat]
  BY <1>0 DEF Chained
<1>3. ASSUME NEW e \in E
      PROVE  nx1[e] = EMPTY \/ (nx1[e] \in E /\ own1[nx1[e]] = own1[e] /\ bk1[nx1[e]] = e /\ d1[e] < d1[nx1[e]])
  BY DEF Chained
<1>4. ASSUME NEW e \in E
      PROVE  IF bk1[e] = EMPTY THEN st1[own1[e]] = e ELSE own1[bk1[e]] = own1[e] /\ nx1[bk1[e]] = e
  <2>1. CASE e = m
    BY <2>1, <1>0
  <2>2. CASE e # m
    <3>1. e \in D /\ bk1[e] = bk[e] /\ own1[e] = own[e] /\ own[e] # NONE /\ own[e] \in Owner
      BY <2>2, <1>1
    <3>2. CASE bk[e] = EMPTY
      BY <3>1, <3>2 DEF Chained
    <3>3. CASE bk[e] # EMPTY
      <4>1. bk[e] \in D /\ own[bk[e]] = own[e] /\ nx[bk[e]] = e
        BY <3>1, <3>3 DEF Chained
      <4> QED BY <3>1, <3>3, <4>1
    <3> QED BY <3>2, <3>3
  <2> QED BY <2>1, <2>2
<1>5. ASSUME NEW p \in Owner
      PROVE  st1[p] = EMPTY \/ (st1[p] \in E /\ own1[st1[p]] = p /\ bk1[st1[p]] = EMPTY)
  BY DEF Chained
<1> HIDE DEF nx1, st1, own1, bk1, d1
<1>6. Chained(E, nx1, st1, own1, bk1, d1)
  BY <1>2, <1>3, <1>4, <1>5 DEF Chained
<1> QED BY <1>6 DEF nx1, st1, own1, bk1, d1

\* L is the chain of o.
Lists(L, D, nx, st, own, bk, o) ==
    /\ L \in Seq(D) /\ IsInjective(L)
    /\ ToSet(L) = {e \in D : own[e] = o}
    /\ st[o] = IF L = <<>> THEN EMPTY ELSE L[1]
    /\ \A i \in 1..Len(L) : /\ nx[L[i]] = IF i = Len(L) THEN EMPTY ELSE L[i + 1]
                            /\ bk[L[i]] = IF i = 1 THEN EMPTY ELSE L[i - 1]

\* What k steps along the chain of o have seen.
Ran(seen, k, D, nx, st, own, o) ==
    /\ seen \in Seq({e \in D : own[e] = o})
    /\ Len(seen) <= k
    /\ seen # <<>> => seen[1] = st[o]
    /\ \A i \in 1..(Len(seen) - 1) : seen[i + 1] = nx[seen[i]]
    /\ Len(seen) = k \/ (IF seen = <<>> THEN st[o] ELSE nx[Last(seen)]) = EMPTY

LEMMA RanOn ==
    ASSUME NEW D, NEW nx, NEW st, NEW own, NEW bk, NEW d, Chained(D, nx, st, own, bk, d),
           NEW o \in Owner, NEW k \in Nat \ {0}, NEW seen, Ran(seen, k - 1, D, nx, st, own, o)
    PROVE  Ran(Further(st[o], nx, EMPTY, seen), k, D, nx, st, own, o)
<1> DEFINE Mine == {e \in D : own[e] = o}
<1>1. seen \in Seq(Mine) /\ Len(seen) \in Nat /\ Len(seen) <= k - 1
  BY DEF Ran
<1>2. PICK at : at = IF seen = <<>> THEN st[o] ELSE nx[Last(seen)]
  OBVIOUS
<1>3. CASE at = EMPTY
  <2>1. Further(st[o], nx, EMPTY, seen) = seen
    BY <1>2, <1>3 DEF Further
  <2> QED BY <2>1, <1>1, <1>2, <1>3 DEF Ran
<1>4. CASE at # EMPTY
  <2>1. Further(st[o], nx, EMPTY, seen) = Append(seen, at)
    BY <1>2, <1>4 DEF Further
  <2>2. Len(seen) = k - 1
    BY <1>2, <1>4 DEF Ran
  <2>3. at \in Mine
    <3>1. CASE seen = <<>>
      BY <3>1, <1>2, <1>4 DEF Chained
    <3>2. CASE seen # <<>>
      <4>1. Last(seen) \in Mine
        BY <3>2, <1>1 DEF Last
      <4> QED BY <3>2, <4>1, <1>2, <1>4 DEF Chained
    <3> QED BY <3>1, <3>2
  <2> DEFINE more == Append(seen, at)
  <2>4. more \in Seq(Mine) /\ Len(more) = k /\ more[k] = at /\ \A i \in 1..(k - 1) : more[i] = seen[i]
    BY <1>1, <2>2, <2>3
  <2> HIDE DEF more
  <2>5. more[1] = st[o]
    <3>1. CASE seen = <<>>
      <4>1. k = 1
        BY <3>1, <2>2
      <4> QED BY <3>1, <4>1, <2>4, <1>2
    <3>2. CASE seen # <<>>
      <4>1. 1 \in 1..(k - 1)
        BY <3>2, <1>1, <2>2
      <4>2. seen[1] = st[o]
        BY <3>2 DEF Ran
      <4> QED BY <4>1, <4>2, <2>4
    <3> QED BY <3>1, <3>2
  <2>6. ASSUME NEW i \in 1..(k - 1) PROVE more[i + 1] = nx[more[i]]
    <3>1. CASE i = k - 1
      <4>1. seen # <<>> /\ Last(seen) = seen[i]
        BY <3>1, <1>1, <2>2 DEF Last
      <4>2. more[i + 1] = at /\ more[i] = seen[i]
        BY <3>1, <2>4
      <4> QED BY <4>1, <4>2, <1>2
    <3>2. CASE i # k - 1
      <4>1. i \in 1..(Len(seen) - 1) /\ i + 1 \in 1..(k - 1)
        BY <3>2, <2>2
      <4>2. seen[i + 1] = nx[seen[i]]
        BY <4>1 DEF Ran
      <4> QED BY <4>1, <4>2, <2>4
    <3> QED BY <3>1, <3>2
  <2>7. Ran(more, k, D, nx, st, own, o)
    BY <2>4, <2>5, <2>6 DEF Ran
  <2> QED BY <2>1, <2>7 DEF more
<1> QED BY <1>3, <1>4

\* Along a chain the depth grows.
LEMMA RanDeeper ==
    ASSUME NEW D, NEW nx, NEW st, NEW own, NEW bk, NEW d, Chained(D, nx, st, own, bk, d), D \subseteq Nat,
           NEW o \in Owner, NEW k \in Nat, NEW seen, Ran(seen, k, D, nx, st, own, o)
    PROVE  \A i, j \in 1..Len(seen) : i < j => d[seen[i]] < d[seen[j]]
<1> SUFFICES ASSUME NEW i \in 1..Len(seen) PROVE \A j \in 1..Len(seen) : i < j => d[seen[i]] < d[seen[j]]
  OBVIOUS
<1> DEFINE Bad == {j \in 1..Len(seen) : i < j /\ ~ (d[seen[i]] < d[seen[j]])}
<1> SUFFICES ASSUME Bad # {} PROVE FALSE
  OBVIOUS
<1>0. seen \in Seq({e \in D : own[e] = o}) /\ d \in [D -> Nat]
  BY DEF Ran, Chained
<1>1. Len(seen) \in Nat /\ \A j \in 1..Len(seen) : seen[j] \in D /\ d[seen[j]] \in Nat
  BY <1>0
<1>2. PICK j \in Bad : \A l \in Bad : j <= l
  <2>1. Bad \subseteq Nat
    OBVIOUS
  <2> HIDE DEF Bad
  <2> QED BY <2>1, LeastOf
<1>3. j \in 1..Len(seen) /\ i < j /\ ~ (d[seen[i]] < d[seen[j]])
  BY <1>2
<1>4. j - 1 \in 1..Len(seen) /\ j - 1 \in 1..(Len(seen) - 1) /\ (j - 1) + 1 = j /\ j - 1 \notin Bad
  BY <1>1, <1>2, <1>3
<1>5. seen[j] = nx[seen[j - 1]]
  BY <1>4 DEF Ran
<1>6. EMPTY \notin D
  BY DEF EMPTY
<1>7. d[seen[j - 1]] < d[seen[j]]
  <2>1. PICK e : e = seen[j - 1]
    OBVIOUS
  <2>2. e \in D /\ nx[e] \in D /\ seen[j] = nx[e]
    BY <2>1, <1>1, <1>3, <1>4, <1>5
  <2>3. d[e] < d[nx[e]]
    BY <2>2, <1>6 DEF Chained
  <2> QED BY <2>1, <2>2, <2>3
<1>8. i = j - 1 \/ d[seen[i]] < d[seen[j - 1]]
  BY <1>3, <1>4
<1>9. d[seen[i]] \in Nat /\ d[seen[j]] \in Nat /\ d[seen[j - 1]] \in Nat
  BY <1>1, <1>3, <1>4
<1> QED BY <1>3, <1>7, <1>8, <1>9

\* The walk from the first entry of an owner meets its chain.
LEMMA FollowLists ==
    ASSUME NEW m \in Nat, NEW D, D = 0..(m - 1), NEW nx, NEW st, NEW own, NEW bk, NEW d,
           Chained(D, nx, st, own, bk, d), NEW o \in Owner
    PROVE  Lists(Follow(st[o], nx, EMPTY, m), D, nx, st, own, bk, o)
<1>0. D \subseteq Nat /\ EMPTY \notin D
  BY DEF EMPTY
<1>1. PICK f : /\ f[0] = <<>>
               /\ \A k \in 1..m : f[k] = Further(st[o], nx, EMPTY, f[k - 1])
               /\ Follow(st[o], nx, EMPTY, m) = f[m]
  BY FollowWalks
<1> DEFINE Bad == {k \in 0..m : ~ Ran(f[k], k, D, nx, st, own, o)}
<1>2. Bad = {}
  <2> SUFFICES ASSUME Bad # {} PROVE FALSE
    OBVIOUS
  <2>1. PICK k \in Bad : \A l \in Bad : k <= l
    <3>1. Bad \subseteq Nat
      OBVIOUS
    <3> HIDE DEF Bad
    <3> QED BY <3>1, LeastOf
  <2>2. k \in 0..m /\ ~ Ran(f[k], k, D, nx, st, own, o)
    BY <2>1
  <2>3. k # 0
    <3>1. Ran(<<>>, 0, D, nx, st, own, o)
      BY DEF Ran
    <3> QED BY <3>1, <2>2, <1>1
  <2>4. k \in 1..m /\ k - 1 \in 0..m /\ k - 1 \notin Bad /\ k \in Nat \ {0}
    BY <2>1, <2>2, <2>3
  <2>5. Ran(f[k - 1], k - 1, D, nx, st, own, o)
    BY <2>4
  <2>6. f[k] = Further(st[o], nx, EMPTY, f[k - 1])
    BY <1>1, <2>4
  <2> HIDE DEF Bad
  <2> QED BY <2>2, <2>4, <2>5, <2>6, RanOn
<1>3. PICK L : L = Follow(st[o], nx, EMPTY, m)
  OBVIOUS
<1>4. Ran(L, m, D, nx, st, own, o)
  <2>1. m \in 0..m
    OBVIOUS
  <2>2. Ran(f[m], m, D, nx, st, own, o)
    BY <2>1, <1>2
  <2> QED BY <2>2, <1>1, <1>3
<1> HIDE DEF Bad
<1> DEFINE Mine == {e \in D : own[e] = o}
<1>5. L \in Seq(Mine) /\ Len(L) \in Nat /\ Len(L) <= m /\ DOMAIN L = 1..Len(L)
  BY <1>4 DEF Ran
<1>6. \A i \in 1..Len(L) : L[i] \in Mine /\ L[i] \in D /\ d[L[i]] \in Nat
  BY <1>5 DEF Chained
<1>7. \A i, j \in 1..Len(L) : i < j => d[L[i]] < d[L[j]]
  BY <1>0, <1>4, RanDeeper
<1>8. \A i, j \in 1..Len(L) : L[i] = L[j] => i = j
  <2> SUFFICES ASSUME NEW i \in 1..Len(L), NEW j \in 1..Len(L), L[i] = L[j] PROVE i = j
    OBVIOUS
  <2>1. i \in Int /\ j \in Int /\ d[L[i]] \in Nat
    BY <1>6
  <2>2. ~ (i < j) /\ ~ (j < i)
    BY <2>1, <1>7
  <2> QED BY <2>1, <2>2
<1>9. L # <<>> => L[1] = st[o]
  BY <1>4 DEF Ran
<1>10. \A i \in 1..(Len(L) - 1) : L[i + 1] = nx[L[i]]
  BY <1>4 DEF Ran
<1>11. Len(L) = m \/ (IF L = <<>> THEN st[o] ELSE nx[Last(L)]) = EMPTY
  BY <1>4 DEF Ran
<1>12. Mine \subseteq ToSet(L)
  <2> DEFINE Missed == {e \in Mine : e \notin ToSet(L)}
             Depths == {d[e] : e \in Missed}
  <2> SUFFICES ASSUME Missed # {} PROVE FALSE
    OBVIOUS
  <2>0. \A e \in Missed : e \in D /\ own[e] = o /\ d[e] \in Nat /\ e \notin ToSet(L)
    BY DEF Chained
  <2>1. Depths \subseteq Nat /\ Depths # {}
    BY <2>0
  <2>2. PICK k \in Depths : \A l \in Depths : k <= l
    <3> HIDE DEF Depths
    <3> QED BY <2>1, LeastOf
  <2>3. PICK e \in Missed : k = d[e]
    BY <2>2
  <2>4. e \in D /\ own[e] = o /\ d[e] \in Nat
    BY <2>0
  <2>5. \A i \in 1..Len(L) : L[i] # e
    <3>1. \A i \in 1..Len(L) : L[i] \in ToSet(L)
      BY <1>5 DEF ToSet
    <3> QED BY <3>1, <2>0
  <2>6. Len(L) # m
    <3> SUFFICES ASSUME Len(L) = m PROVE FALSE
      OBVIOUS
    <3>1. L \in Injection(1..m, D \ {e})
      <4>1. L \in [1..m -> D \ {e}]
        BY <1>5, <1>6, <2>5
      <4> QED BY <4>1, <1>8 DEF Injection, IsInjective
    <3>2. IsFiniteSet(D) /\ Cardinality(D) = m
      BY FS_Interval
    <3>3. IsFiniteSet(D \ {e}) /\ Cardinality(D \ {e}) = m - 1
      <4>1. e \in D
        BY <2>4
      <4> HIDE DEF Mine, Missed, Depths
      <4>2. IsFiniteSet(D \ {e})
        BY <3>2, FS_RemoveElement
      <4>3. Cardinality(D \ {e}) = Cardinality(D) - 1
        BY <3>2, <4>1, FS_RemoveElement
      <4> QED BY <3>2, <4>2, <4>3
    <3>4. IsFiniteSet(1..m) /\ Cardinality(1..m) = m
      BY FS_Interval
    <3>5. m <= m - 1
      BY <3>1, <3>3, <3>4, FS_Injection
    <3> QED BY <3>5
  <2>7. (IF L = <<>> THEN st[o] ELSE nx[Last(L)]) = EMPTY
    BY <2>6, <1>11
  <2>8. CASE bk[e] = EMPTY
    <3>1. st[o] = e
      BY <2>4, <2>8 DEF Chained
    <3>2. L # <<>>
      BY <3>1, <2>4, <2>7, <1>0
    <3>3. 1 \in 1..Len(L) /\ L[1] = e
      BY <3>1, <3>2, <1>5, <1>9
    <3> QED BY <3>3, <2>5
  <2>9. CASE bk[e] # EMPTY
    <3>1. PICK b : b = bk[e]
      OBVIOUS
    <3>2. b \in D /\ own[b] = o /\ nx[b] = e
      BY <3>1, <2>4, <2>9 DEF Chained
    <3>3. d[b] < d[e] /\ d[b] \in Nat
      BY <3>2, <2>4, <1>0 DEF Chained
    <3>4. b \in ToSet(L)
      <4>1. b \in Missed => d[b] \in Depths
        OBVIOUS
      <4>2. ~ (d[e] <= d[b])
        BY <3>3, <2>4
      <4>3. b \notin Missed
        BY <4>1, <4>2, <2>2, <2>3
      <4> QED BY <4>3, <3>2
    <3>5. PICK i \in 1..Len(L) : b = L[i]
      BY <3>4, <1>5 DEF ToSet
    <3>6. CASE i = Len(L)
      <4>1. L # <<>> /\ Last(L) = b
        BY <3>5, <3>6, <1>5 DEF Last
      <4> QED BY <4>1, <2>7, <3>2, <2>4, <1>0
    <3>7. CASE i # Len(L)
      <4>1. i \in 1..(Len(L) - 1) /\ i + 1 \in 1..Len(L)
        <5>1. Len(L) \in Nat /\ i \in 1..Len(L)
          BY <1>5
        <5> HIDE DEF Mine, Missed, Depths
        <5> QED BY <5>1, <3>7
      <4>2. L[i + 1] = e
        BY <4>1, <3>2, <3>5, <1>10
      <4> QED BY <4>1, <4>2, <2>5
    <3> QED BY <3>6, <3>7
  <2> QED BY <2>8, <2>9
<1>13. ToSet(L) = Mine
  BY <1>12, <1>5, <1>6 DEF ToSet
<1>14. st[o] = IF L = <<>> THEN EMPTY ELSE L[1]
  <2>1. CASE L = <<>>
    <3>1. st[o] # EMPTY => st[o] \in Mine
      BY DEF Chained
    <3>2. ToSet(L) = {}
      BY <2>1 DEF ToSet
    <3> QED BY <2>1, <3>1, <3>2, <1>13
  <2> QED BY <2>1, <1>9
<1>15. ASSUME NEW i \in 1..Len(L) PROVE bk[L[i]] = IF i = 1 THEN EMPTY ELSE L[i - 1]
  <2>1. CASE i = 1
    <3>1. L # <<>> /\ L[i] = st[o] /\ L[i] \in D
      BY <2>1, <1>5, <1>6, <1>9
    <3> QED BY <2>1, <3>1, <1>0 DEF Chained
  <2>2. CASE i # 1
    <3>1. i - 1 \in 1..(Len(L) - 1) /\ i - 1 \in 1..Len(L) /\ (i - 1) + 1 = i
      BY <2>2, <1>5
    <3>2. L[i] = nx[L[i - 1]] /\ L[i] \in D /\ L[i - 1] \in D
      BY <3>1, <1>6, <1>10
    <3>3. bk[nx[L[i - 1]]] = L[i - 1]
      BY <3>2, <1>0 DEF Chained
    <3> QED BY <3>2, <3>3, <2>2
  <2> QED BY <2>1, <2>2
<1>16. ASSUME NEW i \in 1..Len(L) PROVE nx[L[i]] = IF i = Len(L) THEN EMPTY ELSE L[i + 1]
  <2>1. CASE i = Len(L)
    <3> SUFFICES ASSUME nx[L[i]] # EMPTY PROVE FALSE
      BY <2>1
    <3>1. L[i] \in D /\ own[L[i]] = o
      BY <1>6
    <3>2. nx[L[i]] \in Mine /\ bk[nx[L[i]]] = L[i]
      BY <3>1 DEF Chained
    <3>3. PICK j \in 1..Len(L) : nx[L[i]] = L[j]
      BY <3>2, <1>5, <1>13 DEF ToSet
    <3>4. L[i] = IF j = 1 THEN EMPTY ELSE L[j - 1]
      BY <3>2, <3>3, <1>15
    <3>5. j # 1 /\ L[j - 1] = L[i]
      BY <3>1, <3>4, <1>0
    <3>6. j - 1 \in 1..Len(L) /\ j - 1 # i
      BY <3>5, <2>1, <1>5
    <3> QED BY <3>5, <3>6, <1>8
  <2>2. CASE i # Len(L)
    <3>1. i \in 1..(Len(L) - 1)
      <4>1. Len(L) \in Nat
        BY <1>5
      <4> HIDE DEF Mine
      <4> QED BY <4>1, <2>2
    <3> QED BY <3>1, <2>2, <1>10
  <2> QED BY <2>1, <2>2
<1>17. L \in Seq(D) /\ IsInjective(L)
  <2>1. L \in Seq(D)
    BY <1>5
  <2> QED BY <2>1, <1>5, <1>8 DEF IsInjective
<1>18. Lists(L, D, nx, st, own, bk, o)
  BY <1>13, <1>14, <1>15, <1>16, <1>17 DEF Lists
<1> QED BY <1>3, <1>18

-----------------------------------------------------------------------------
(* Tables *)

Rec == [cell : Cell \union {NONE}, n : Int, x : Int, next : Int, prev : Int]
Pools == UNION {[0..(m - 1) -> Rec] : m \in Nat}
Aggs == UNION {[K -> Nat] : K \in SUBSET (Slot \X Cell)}
Table == [pool : Pools, head : [Slot -> Int], free : Int, agg : Aggs]

\* The links of a table: the next of each entry, and the first of each owner, of nobody
\* the first free one.
Nexts(t) == [i \in DOMAIN t.pool |-> t.pool[i].next]
Firsts(t) == [o \in Owner |-> IF o = NONE THEN t.free ELSE t.head[o]]

\* The directory has the entries that somebody holds, by holder and cell.
Directed(t, own) ==
    /\ \A k \in DOMAIN t.agg : /\ t.agg[k] \in DOMAIN t.pool
                               /\ own[t.agg[k]] = k[1] /\ t.pool[t.agg[k]].cell = k[2]
    /\ \A e \in DOMAIN t.pool : own[e] # NONE =>
          <<own[e], t.pool[e].cell>> \in DOMAIN t.agg /\ t.agg[<<own[e], t.pool[e].cell>>] = e

\* Back links lead to the entry before, those of free entries and of one more owner apart.
Backed(t, own, bk, loose) ==
    \A e \in DOMAIN t.pool : own[e] # NONE /\ own[e] # loose => t.pool[e].prev = bk[e]

\* The pool has no more entries than can occur at once.
Roomy(t) == Cardinality(DOMAIN t.pool) <= Cardinality(Id) * Cardinality(Cell)

HoldsWith(t, loose, own, bk, d) ==
    /\ Chained(DOMAIN t.pool, Nexts(t), Firsts(t), own, bk, d)
    /\ Directed(t, own) /\ Backed(t, own, bk, loose)

SoundBut(t, loose) == Roomy(t) /\ \E own, bk, d : HoldsWith(t, loose, own, bk, d)
SoundTables == {t \in Table : SoundBut(t, NONE)}

\* A pool is numbered from zero.
LEMMA PoolIs ==
    /\ \A p \in Pools : \E m \in Nat : DOMAIN p = 0..(m - 1) /\ p \in [0..(m - 1) -> Rec]
    /\ \A m \in Nat : [0..(m - 1) -> Rec] \subseteq Pools
BY DEF Pools

LEMMA AggIs ==
    /\ \A a \in Aggs : DOMAIN a \in SUBSET (Slot \X Cell) /\ a \in [DOMAIN a -> Nat]
    /\ \A K \in SUBSET (Slot \X Cell) : [K -> Nat] \subseteq Aggs
BY DEF Aggs

LEMMA TableIs ==
    ASSUME NEW t \in Table
    PROVE  /\ t.pool \in Pools /\ t.head \in [Slot -> Int] /\ t.free \in Int /\ t.agg \in Aggs
           /\ DOMAIN t.pool \subseteq Nat /\ \A e \in DOMAIN t.pool : t.pool[e] \in Rec
           /\ EMPTY \notin DOMAIN t.pool
<1>1. t.pool \in Pools /\ t.head \in [Slot -> Int] /\ t.free \in Int /\ t.agg \in Aggs
  BY DEF Table
<1>2. PICK m \in Nat : DOMAIN t.pool = 0..(m - 1) /\ t.pool \in [0..(m - 1) -> Rec]
  BY <1>1, PoolIs
<1> QED BY <1>1, <1>2 DEF EMPTY

\* What a change of one field of an entry leaves.
LEMMA RecIs ==
    ASSUME NEW r \in Rec
    PROVE  r.cell \in Cell \union {NONE} /\ r.n \in Int /\ r.x \in Int /\ r.next \in Int /\ r.prev \in Int
BY DEF Rec

LEMMA RecPrev ==
    ASSUME NEW r \in Rec, NEW v \in Int, NEW q, q = [r EXCEPT !.prev = v]
    PROVE  /\ q \in Rec /\ q.prev = v
           /\ q.cell = r.cell /\ q.n = r.n /\ q.x = r.x /\ q.next = r.next
BY DEF Rec

LEMMA RecNext ==
    ASSUME NEW r \in Rec, NEW v \in Int, NEW q, q = [r EXCEPT !.next = v]
    PROVE  /\ q \in Rec /\ q.next = v
           /\ q.cell = r.cell /\ q.n = r.n /\ q.x = r.x /\ q.prev = r.prev
BY DEF Rec

LEMMA RecN ==
    ASSUME NEW r \in Rec, NEW v \in Int, NEW q, q = [r EXCEPT !.n = v]
    PROVE  /\ q \in Rec /\ q.n = v
           /\ q.cell = r.cell /\ q.x = r.x /\ q.next = r.next /\ q.prev = r.prev
BY DEF Rec

LEMMA RecX ==
    ASSUME NEW r \in Rec, NEW v \in Int, NEW q, q = [r EXCEPT !.x = v]
    PROVE  /\ q \in Rec /\ q.x = v
           /\ q.cell = r.cell /\ q.n = r.n /\ q.next = r.next /\ q.prev = r.prev
BY DEF Rec

LEMMA RecFreed ==
    ASSUME NEW r \in Rec, NEW v \in Int
    PROVE  Freed(r, v) \in Rec /\ Freed(r, v).next = v
BY DEF Rec, Freed, EMPTY

\* There are entries for some of the slots and cells.
LEMMA KeysFinite ==
    /\ IsFiniteSet(Slot \X Cell) /\ Cardinality(Slot \X Cell) = Cardinality(Id) * Cardinality(Cell)
    /\ Cardinality(Id) \in Nat /\ Cardinality(Cell) \in Nat
<1>1. Cardinality(Id) \in Nat /\ Cardinality(Cell) \in Nat /\ IsFiniteSet(Cell)
  BY IdAssumption, CellSetsAssumption, FS_CardinalityType
<1>2. IsFiniteSet(Slot) /\ Cardinality(Slot) = Cardinality(Id)
  <2>1. IsFiniteSet(0..(Cardinality(Id) - 1))
    BY <1>1, FS_Interval
  <2>2. Cardinality(0..(Cardinality(Id) - 1)) = Cardinality(Id)
    BY <1>1, FS_Interval
  <2> QED BY <2>1, <2>2 DEF Slot
<1>3. IsFiniteSet(Slot \X Cell)
  BY <1>1, <1>2, FS_Product
<1>4. Cardinality(Slot \X Cell) = Cardinality(Slot) * Cardinality(Cell)
  BY <1>1, <1>2, FS_Product
<1> QED BY <1>1, <1>2, <1>3, <1>4

\* Another pool with the same numbers.
LEMMA PoolLike ==
    ASSUME NEW p \in Pools, NEW q, DOMAIN q = DOMAIN p, q = [f \in DOMAIN q |-> q[f]],
           \A f \in DOMAIN p : q[f] \in Rec
    PROVE  q \in Pools
<1>1. PICK m \in Nat : DOMAIN p = 0..(m - 1) /\ p \in [0..(m - 1) -> Rec]
  BY PoolIs
<1>2. q \in [0..(m - 1) -> Rec]
  BY <1>1
<1> QED BY <1>2, PoolIs

\* Where the chains of a table begin.
LEMMA FirstsAre ==
    ASSUME NEW t
    PROVE  /\ NONE \in Owner /\ Firsts(t)[NONE] = t.free
           /\ \A s \in Slot : s \in Owner /\ s # NONE /\ Firsts(t)[s] = t.head[s]
BY SlotIsNat DEF Owner, Firsts

\* entry, when there is a free one: it comes to the front of the chain of s.
LEMMA EntryReuses ==
    ASSUME NEW t \in Table, SoundBut(t, NONE), NEW s \in Slot, NEW c \in Cell,
           <<s, c>> \notin DOMAIN t.agg, t.free # EMPTY
    PROVE  LET u == Entry(t, s, c) IN u \in SoundTables /\ <<s, c>> \in DOMAIN u.agg
<1>1. PICK own, bk, d : HoldsWith(t, NONE, own, bk, d)
  BY DEF SoundBut
<1>2. PICK D : D = DOMAIN t.pool
  OBVIOUS
<1>3. PICK e : e = t.free
  OBVIOUS
<1>4. PICK h : h = t.head[s]
  OBVIOUS
<1>5. PICK u : u = Entry(t, s, c)
  OBVIOUS
<1>6. /\ t.pool \in Pools /\ t.head \in [Slot -> Int] /\ t.agg \in Aggs
      /\ D \subseteq Nat /\ EMPTY \notin D /\ \A f \in D : t.pool[f] \in Rec
  BY <1>2, TableIs
<1>7. Chained(D, Nexts(t), Firsts(t), own, bk, d)
  BY <1>1, <1>2 DEF HoldsWith
<1>8. /\ NONE \in Owner /\ s \in Owner /\ s # NONE
      /\ Firsts(t)[NONE] = e /\ Firsts(t)[s] = h
  BY <1>3, <1>4, FirstsAre
<1>9. e \in D /\ own[e] = NONE /\ bk[e] = EMPTY
  BY <1>3, <1>7, <1>8 DEF Chained
<1>10. h = EMPTY \/ (h \in D /\ own[h] = s /\ h # e)
  BY <1>7, <1>8, <1>9 DEF Chained
<1>11. h \in Int /\ e \in Int /\ t.pool[e].next \in Int
  BY <1>4, <1>6, <1>9, RecIs
<1> DEFINE new == [cell |-> c, n |-> 0, x |-> 0, next |-> h, prev |-> EMPTY]
           p == With(t.pool, e, new)
<1>12. new \in Rec /\ new.next = h /\ new.prev = EMPTY /\ new.cell = c
  BY <1>11 DEF Rec, EMPTY
<1>13. /\ u.pool = IF h = EMPTY THEN p ELSE [p EXCEPT ![h].prev = e]
       /\ u.head = [t.head EXCEPT ![s] = e]
       /\ u.free = t.pool[e].next
       /\ u.agg = With(t.agg, <<s, c>>, e)
       /\ u = [pool |-> u.pool, head |-> u.head, free |-> u.free, agg |-> u.agg]
  BY <1>3, <1>4, <1>5 DEF Entry
<1> HIDE DEF new
<1>14. DOMAIN p = D /\ p[e] = new /\ \A f \in D : f # e => p[f] = t.pool[f]
  BY <1>2, <1>9 DEF With
<1> HIDE DEF p
<1>15. DOMAIN u.pool = D /\ \A f \in D : f # h => u.pool[f] = p[f]
  BY <1>13, <1>14
<1>16. h # EMPTY => u.pool[h] = [p[h] EXCEPT !.prev = e]
  BY <1>10, <1>13, <1>14
<1>17. u.pool[e] = new
  BY <1>6, <1>9, <1>10, <1>14, <1>15
<1>18. ASSUME NEW f \in D, f # e
       PROVE  /\ u.pool[f] \in Rec /\ u.pool[f].next = t.pool[f].next /\ u.pool[f].cell = t.pool[f].cell
              /\ u.pool[f].prev = IF f = h THEN e ELSE t.pool[f].prev
  <2>1. t.pool[f] \in Rec /\ p[f] = t.pool[f]
    BY <1>6, <1>14, <1>18
  <2>2. CASE f = h
    <3>1. u.pool[f] = [t.pool[f] EXCEPT !.prev = e]
      BY <2>1, <2>2, <1>6, <1>16
    <3>2. PICK q : q = [t.pool[f] EXCEPT !.prev = e]
      OBVIOUS
    <3>3. q \in Rec /\ q.prev = e /\ q.next = t.pool[f].next /\ q.cell = t.pool[f].cell
      BY <2>1, <3>2, <1>11, RecPrev
    <3> QED BY <3>1, <3>2, <3>3, <2>2
  <2>3. CASE f # h
    BY <2>1, <2>3, <1>15
  <2> QED BY <2>2, <2>3
<1>19. u \in Table
  <2>1. u.pool \in Pools
    <3>1. u.pool = [f \in DOMAIN u.pool |-> u.pool[f]]
      <4>1. p = [f \in DOMAIN p |-> p[f]]
        BY DEF p, With
      <4> QED BY <1>13, <4>1
    <3>2. \A f \in D : u.pool[f] \in Rec
      BY <1>12, <1>17, <1>18
    <3> QED BY <3>1, <3>2, <1>2, <1>6, <1>15, PoolLike
  <2>2. u.head \in [Slot -> Int] /\ u.free \in Int
    BY <1>6, <1>11, <1>13
  <2>3. u.agg \in Aggs
    <3>1. DOMAIN t.agg \in SUBSET (Slot \X Cell) /\ t.agg \in [DOMAIN t.agg -> Nat] /\ e \in Nat
      BY <1>6, <1>9, AggIs
    <3>2. DOMAIN t.agg \union {<<s, c>>} \in SUBSET (Slot \X Cell)
      BY <3>1
    <3>3. u.agg \in [DOMAIN t.agg \union {<<s, c>>} -> Nat]
      BY <3>1, <1>13 DEF With
    <3> QED BY <3>2, <3>3, AggIs
  <2> QED BY <2>1, <2>2, <2>3, <1>13 DEF Table
<1>20. \A f \in D : Nexts(u)[f] = IF f = e THEN Firsts(t)[s] ELSE IF f = bk[e] THEN Nexts(t)[e] ELSE Nexts(t)[f]
  BY <1>2, <1>6, <1>8, <1>9, <1>12, <1>15, <1>17, <1>18 DEF Nexts
<1>21. \A o \in Owner : Firsts(u)[o] = IF o = s THEN e ELSE IF o = own[e] /\ bk[e] = EMPTY THEN Nexts(t)[e] ELSE Firsts(t)[o]
  BY <1>2, <1>6, <1>8, <1>9, <1>13 DEF Nexts, Firsts, Owner
<1> DEFINE own1 == [own EXCEPT ![e] = s]
           bk1 == BackAfter(D, Nexts(t), Firsts(t), bk, e, s)
           d1 == DepthAfter(D, d, e)
<1>22. Chained(D, Nexts(u), Firsts(u), own1, bk1, d1)
  BY <1>6, <1>7, <1>8, <1>9, <1>20, <1>21, Rechained
<1>23. own1[e] = s /\ \A f \in D : f # e => own1[f] = own[f]
  BY <1>7, <1>9 DEF Chained
<1>24. /\ bk1[e] = EMPTY
       /\ \A f \in D : f # e => bk1[f] = IF f = h THEN e ELSE IF f = Nexts(t)[e] THEN bk[e] ELSE bk[f]
  BY <1>8, <1>9 DEF BackAfter
<1> HIDE DEF own1, bk1, d1
<1>25. DOMAIN u.agg = DOMAIN t.agg \union {<<s, c>>} /\ u.agg[<<s, c>>] = e
       /\ \A k \in DOMAIN t.agg : k # <<s, c>> /\ u.agg[k] = t.agg[k]
  BY <1>13 DEF With
<1>26. Directed(u, own1)
  <2>1. ASSUME NEW k \in DOMAIN u.agg
        PROVE  u.agg[k] \in D /\ own1[u.agg[k]] = k[1] /\ u.pool[u.agg[k]].cell = k[2]
    <3>1. CASE k = <<s, c>>
      BY <3>1, <1>9, <1>12, <1>17, <1>23, <1>25
    <3>2. CASE k # <<s, c>>
      <4>1. k \in DOMAIN t.agg /\ u.agg[k] = t.agg[k]
        BY <3>2, <1>25
      <4>2. t.agg[k] \in D /\ own[t.agg[k]] = k[1] /\ t.pool[t.agg[k]].cell = k[2]
        BY <4>1, <1>1, <1>2 DEF HoldsWith, Directed
      <4>3. k[1] \in Slot
        BY <4>1, <1>6, AggIs
      <4>4. t.agg[k] # e
        BY <4>2, <4>3, <1>9, SlotIsNat
      <4> QED BY <4>1, <4>2, <4>4, <1>18, <1>23
    <3> QED BY <3>1, <3>2
  <2>2. ASSUME NEW f \in D, own1[f] # NONE
        PROVE  <<own1[f], u.pool[f].cell>> \in DOMAIN u.agg /\ u.agg[<<own1[f], u.pool[f].cell>>] = f
    <3>1. CASE f = e
      BY <3>1, <1>12, <1>17, <1>23, <1>25
    <3>2. CASE f # e
      <4>1. own1[f] = own[f] /\ u.pool[f].cell = t.pool[f].cell
        BY <3>2, <1>18, <1>23
      <4>2. <<own[f], t.pool[f].cell>> \in DOMAIN t.agg /\ t.agg[<<own[f], t.pool[f].cell>>] = f
        BY <4>1, <2>2, <1>1, <1>2 DEF HoldsWith, Directed
      <4> QED BY <4>1, <4>2, <1>25
    <3> QED BY <3>1, <3>2
  <2> QED BY <2>1, <2>2, <1>15 DEF Directed
<1>27. Backed(u, own1, bk1, NONE)
  <2> SUFFICES ASSUME NEW f \in D, own1[f] # NONE PROVE u.pool[f].prev = bk1[f]
    BY <1>15 DEF Backed
  <2>1. CASE f = e
    BY <2>1, <1>12, <1>17, <1>24
  <2>2. CASE f # e
    <3>1. own[f] # NONE
      BY <2>2, <1>23
    <3>2. t.pool[f].prev = bk[f]
      BY <3>1, <1>1, <1>2 DEF HoldsWith, Backed
    <3>3. f # Nexts(t)[e]
      BY <3>1, <1>6, <1>7, <1>9 DEF Chained
    <3> QED BY <2>2, <3>2, <3>3, <1>18, <1>24
  <2> QED BY <2>1, <2>2
<1>28. Roomy(u)
  BY <1>2, <1>15 DEF SoundBut, Roomy
<1>29. HoldsWith(u, NONE, own1, bk1, d1)
  BY <1>15, <1>22, <1>26, <1>27 DEF HoldsWith
<1>30. SoundBut(u, NONE)
  BY <1>28, <1>29 DEF SoundBut
<1> QED BY <1>5, <1>19, <1>25, <1>30 DEF SoundTables

\* A table whose pool has one more entry, which is free.
Fresh == [cell |-> NONE, n |-> 0, x |-> 0, next |-> EMPTY, prev |-> EMPTY]
Enlarged(t) ==
    LET m == Cardinality(DOMAIN t.pool)
    IN  [pool |-> With(t.pool, m, Fresh), head |-> t.head, free |-> m, agg |-> t.agg]

\* An entry that is not free is one of those in the directory.
LEMMA PoolFits ==
    ASSUME NEW t \in Table, NEW own, Directed(t, own),
           \A e \in DOMAIN t.pool : own[e] # NONE /\ own[e] \in Owner,
           NEW k \in Slot \X Cell, k \notin DOMAIN t.agg
    PROVE  Cardinality(DOMAIN t.pool) < Cardinality(Id) * Cardinality(Cell)
<1>1. PICK D : D = DOMAIN t.pool
  OBVIOUS
<1> DEFINE f == [e \in D |-> <<own[e], t.pool[e].cell>>]
           Others == (Slot \X Cell) \ {k}
<1>2. \A e \in D : f[e] \in DOMAIN t.agg /\ t.agg[f[e]] = e
  BY <1>1 DEF Directed
<1>3. DOMAIN t.agg \subseteq Others
  BY TableIs, AggIs
<1>4. f \in Injection(D, Others)
  <2>1. f \in [D -> Others]
    BY <1>2, <1>3
  <2>2. \A a, b \in D : f[a] = f[b] => a = b
    BY <1>2
  <2> HIDE DEF f, Others
  <2> QED BY <2>1, <2>2 DEF Injection, IsInjective
<1>5. IsFiniteSet(Others) /\ Cardinality(Others) = Cardinality(Id) * Cardinality(Cell) - 1
  <2>1. IsFiniteSet(Slot \X Cell) /\ Cardinality(Slot \X Cell) = Cardinality(Id) * Cardinality(Cell)
    BY KeysFinite
  <2>2. IsFiniteSet((Slot \X Cell) \ {k})
    BY <2>1, FS_RemoveElement
  <2>3. Cardinality((Slot \X Cell) \ {k}) = Cardinality(Slot \X Cell) - 1
    BY <2>1, FS_RemoveElement
  <2> QED BY <2>1, <2>2, <2>3
<1> HIDE DEF f, Others
<1>6. Cardinality(D) <= Cardinality(Others)
  BY <1>4, <1>5, FS_Injection
<1>7. Cardinality(D) \in Nat
  <2>1. PICK m \in Nat : D = 0..(m - 1)
    BY <1>1, TableIs, PoolIs
  <2>2. IsFiniteSet(0..(m - 1))
    BY <2>1, FS_Interval
  <2> QED BY <2>1, <2>2, FS_CardinalityType
<1>8. Cardinality(Id) * Cardinality(Cell) \in Nat
  BY KeysFinite
<1> QED BY <1>1, <1>5, <1>6, <1>7, <1>8

\* The pool is extended only when there is no free entry, and then has room.
LEMMA EnlargedSound ==
    ASSUME NEW t \in Table, SoundBut(t, NONE), t.free = EMPTY,
           NEW k \in Slot \X Cell, k \notin DOMAIN t.agg
    PROVE  Enlarged(t) \in SoundTables
<1>1. PICK own, bk, d : HoldsWith(t, NONE, own, bk, d)
  BY DEF SoundBut
<1>2. PICK m \in Nat : DOMAIN t.pool = 0..(m - 1) /\ t.pool \in [0..(m - 1) -> Rec]
  BY TableIs, PoolIs
<1>3. PICK D : D = DOMAIN t.pool
  OBVIOUS
<1>4. PICK u : u = Enlarged(t)
  OBVIOUS
<1>5. D \subseteq Nat /\ m \notin D /\ D \union {m} = 0..m /\ m \in 0..m
  BY <1>2, <1>3
<1>6. Cardinality(DOMAIN t.pool) = m /\ Cardinality(0..m) = m + 1
  <2>1. Cardinality(0..(m - 1)) = m
    BY FS_Interval
  <2>2. Cardinality(0..m) = m + 1
    BY FS_Interval
  <2> QED BY <2>1, <2>2, <1>2
<1>7. u = [pool |-> With(t.pool, m, Fresh), head |-> t.head, free |-> m, agg |-> t.agg]
  BY <1>4, <1>6 DEF Enlarged
<1>8. /\ u.head = t.head /\ u.free = m /\ u.agg = t.agg
      /\ u.pool = [f \in D \union {m} |-> IF f = m THEN Fresh ELSE t.pool[f]]
      /\ u = [pool |-> u.pool, head |-> u.head, free |-> u.free, agg |-> u.agg]
  BY <1>3, <1>7 DEF With
<1>9. DOMAIN u.pool = D \union {m} /\ u.pool[m] = Fresh /\ \A f \in D : u.pool[f] = t.pool[f]
  BY <1>5, <1>8
<1>10. Fresh \in Rec /\ Fresh.next = EMPTY
  BY DEF Fresh, Rec, EMPTY
<1>11. u \in Table
  <2>1. u.pool \in [0..((m + 1) - 1) -> Rec]
    <3>1. (m + 1) - 1 = m
      OBVIOUS
    <3>2. \A f \in 0..m : u.pool[f] \in Rec
      BY <1>2, <1>3, <1>5, <1>9, <1>10
    <3>3. u.pool \in [0..m -> Rec]
      BY <3>2, <1>5, <1>8
    <3> QED BY <3>1, <3>3
  <2>2. u.pool \in Pools
    <3>1. m + 1 \in Nat
      OBVIOUS
    <3> QED BY <2>1, <3>1, PoolIs
  <2>3. u.head \in [Slot -> Int] /\ u.free \in Int /\ u.agg \in Aggs
    BY <1>8, TableIs
  <2> QED BY <2>2, <2>3, <1>8 DEF Table
<1>12. Chained(D, Nexts(t), Firsts(t), own, bk, d)
  BY <1>1, <1>3 DEF HoldsWith
<1>13. Firsts(t)[NONE] = EMPTY /\ NONE \in Owner
  BY FirstsAre
<1>14. \A e \in D : own[e] # NONE /\ own[e] \in Owner
  <2>1. \A e \in D : own[e] # NONE
    BY <1>5, <1>12, <1>13, NoFirstNone
  <2> QED BY <2>1, <1>12 DEF Chained
<1> DEFINE E == D \union {m}
           own1 == [f \in D \union {m} |-> IF f = m THEN NONE ELSE own[f]]
           bk1 == [f \in D \union {m} |-> IF f = m THEN EMPTY ELSE bk[f]]
           d1 == [f \in D \union {m} |-> IF f = m THEN 0 ELSE d[f]]
<1>15. Nexts(u) = [f \in D \union {m} |-> IF f = m THEN EMPTY ELSE Nexts(t)[f]]
  <2>1. Nexts(u) = [f \in D \union {m} |-> u.pool[f].next]
    BY <1>9 DEF Nexts
  <2>2. \A f \in D \union {m} : u.pool[f].next = IF f = m THEN EMPTY ELSE Nexts(t)[f]
    BY <1>3, <1>9, <1>10 DEF Nexts
  <2> QED BY <2>1, <2>2
<1>16. Firsts(u) = [p \in Owner |-> IF p = NONE THEN m ELSE Firsts(t)[p]]
  BY <1>8 DEF Firsts
<1>17. Chained(E, Nexts(u), Firsts(u), own1, bk1, d1)
  BY <1>5, <1>12, <1>13, <1>15, <1>16, ChainedGrows
<1>18. own1[m] = NONE /\ \A f \in D : f # m /\ own1[f] = own[f] /\ bk1[f] = bk[f]
  BY <1>5
<1> HIDE DEF own1, bk1, d1
<1>19. Directed(u, own1)
  <2>1. ASSUME NEW j \in DOMAIN u.agg
        PROVE  u.agg[j] \in E /\ own1[u.agg[j]] = j[1] /\ u.pool[u.agg[j]].cell = j[2]
    <3>1. j \in DOMAIN t.agg /\ u.agg[j] = t.agg[j]
      BY <1>8
    <3>2. t.agg[j] \in D /\ own[t.agg[j]] = j[1] /\ t.pool[t.agg[j]].cell = j[2]
      BY <3>1, <1>1, <1>3 DEF HoldsWith, Directed
    <3> QED BY <3>1, <3>2, <1>9, <1>18
  <2>2. ASSUME NEW f \in E, own1[f] # NONE
        PROVE  <<own1[f], u.pool[f].cell>> \in DOMAIN u.agg /\ u.agg[<<own1[f], u.pool[f].cell>>] = f
    <3>1. f \in D /\ own1[f] = own[f] /\ u.pool[f] = t.pool[f]
      BY <2>2, <1>9, <1>18
    <3>2. <<own[f], t.pool[f].cell>> \in DOMAIN t.agg /\ t.agg[<<own[f], t.pool[f].cell>>] = f
      BY <3>1, <2>2, <1>1, <1>3 DEF HoldsWith, Directed
    <3> QED BY <3>1, <3>2, <1>8
  <2> QED BY <2>1, <2>2, <1>9 DEF Directed
<1>20. Backed(u, own1, bk1, NONE)
  <2> SUFFICES ASSUME NEW f \in E, own1[f] # NONE PROVE u.pool[f].prev = bk1[f]
    BY <1>9 DEF Backed
  <2>1. f \in D /\ own[f] # NONE /\ bk1[f] = bk[f] /\ u.pool[f] = t.pool[f]
    BY <1>9, <1>18
  <2> QED BY <2>1, <1>1, <1>3 DEF HoldsWith, Backed
<1>21. Roomy(u)
  <2>1. Directed(t, own)
    BY <1>1 DEF HoldsWith
  <2>2. m < Cardinality(Id) * Cardinality(Cell)
    BY <2>1, <1>3, <1>6, <1>14, PoolFits
  <2>3. Cardinality(Id) * Cardinality(Cell) \in Nat
    BY KeysFinite
  <2>4. Cardinality(DOMAIN u.pool) = m + 1
    BY <1>5, <1>6, <1>9
  <2> QED BY <2>2, <2>3, <2>4 DEF Roomy
<1>22. HoldsWith(u, NONE, own1, bk1, d1)
  BY <1>9, <1>17, <1>19, <1>20 DEF HoldsWith
<1>23. SoundBut(u, NONE)
  BY <1>21, <1>22 DEF SoundBut
<1> QED BY <1>4, <1>11, <1>23 DEF SoundTables

\* entry puts an entry for a slot and a cell where there is none, and the table stays sound.
LEMMA EntrySound ==
    ASSUME NEW t \in SoundTables, NEW s \in Slot, NEW c \in Cell
    PROVE  Entry(t, s, c) \in SoundTables /\ <<s, c>> \in DOMAIN Entry(t, s, c).agg
<1>0. t \in Table /\ SoundBut(t, NONE)
  BY DEF SoundTables
<1>1. CASE <<s, c>> \in DOMAIN t.agg
  BY <1>1 DEF Entry
<1>2. CASE <<s, c>> \notin DOMAIN t.agg /\ t.free # EMPTY
  BY <1>0, <1>2, EntryReuses
<1>3. CASE <<s, c>> \notin DOMAIN t.agg /\ t.free = EMPTY
  <2>1. PICK u : u = Enlarged(t)
    OBVIOUS
  <2>2. u \in SoundTables
    BY <2>1, <1>0, <1>3, EnlargedSound
  <2>3. u \in Table /\ SoundBut(u, NONE)
    BY <2>2 DEF SoundTables
  <2>4. PICK m \in Nat : DOMAIN t.pool = 0..(m - 1) /\ t.pool \in [0..(m - 1) -> Rec]
    BY <1>0, TableIs, PoolIs
  <2>5. Cardinality(DOMAIN t.pool) = m
    BY <2>4, FS_Interval
  <2>6. u.pool = With(t.pool, m, Fresh) /\ u.head = t.head /\ u.free = m /\ u.agg = t.agg
    BY <2>1, <2>5 DEF Enlarged
  <2>7. u.free # EMPTY /\ <<s, c>> \notin DOMAIN u.agg
    BY <2>6, <1>3 DEF EMPTY
  <2>8. Entry(u, s, c) \in SoundTables /\ <<s, c>> \in DOMAIN Entry(u, s, c).agg
    BY <2>3, <2>7, EntryReuses
  <2>9. \A r : With(u.pool, m, r) = With(t.pool, m, r)
    BY <2>6 DEF With
  <2>10. u.pool[m].next = EMPTY
    BY <2>6 DEF With, Fresh
  <2>11. Entry(u, s, c) = Entry(t, s, c)
    BY <2>5, <2>6, <2>7, <2>9, <2>10, <1>3 DEF Entry
  <2> QED BY <2>8, <2>11
<1> QED BY <1>1, <1>2, <1>3

\* Counts and sums do not matter to the links.
LEMMA CountsAside ==
    ASSUME NEW t \in Table, NEW loose, SoundBut(t, loose), NEW u,
           u = [pool |-> u.pool, head |-> u.head, free |-> u.free, agg |-> u.agg],
           u.head = t.head, u.free = t.free, u.agg = t.agg,
           DOMAIN u.pool = DOMAIN t.pool, u.pool = [f \in DOMAIN u.pool |-> u.pool[f]],
           \A f \in DOMAIN t.pool : /\ u.pool[f] \in Rec
                                    /\ u.pool[f].cell = t.pool[f].cell
                                    /\ u.pool[f].next = t.pool[f].next
                                    /\ u.pool[f].prev = t.pool[f].prev
    PROVE  u \in Table /\ SoundBut(u, loose)
<1>1. PICK own, bk, d : HoldsWith(t, loose, own, bk, d)
  BY DEF SoundBut
<1>2. u \in Table
  <2>1. u.pool \in Pools
    BY TableIs, PoolLike
  <2>2. u.head \in [Slot -> Int] /\ u.free \in Int /\ u.agg \in Aggs
    BY TableIs
  <2> QED BY <2>1, <2>2 DEF Table
<1>3. Nexts(u) = Nexts(t) /\ Firsts(u) = Firsts(t)
  BY DEF Nexts, Firsts
<1>4. Directed(u, own)
  <2>1. ASSUME NEW k \in DOMAIN u.agg
        PROVE  u.agg[k] \in DOMAIN u.pool /\ own[u.agg[k]] = k[1] /\ u.pool[u.agg[k]].cell = k[2]
    <3>1. t.agg[k] \in DOMAIN t.pool /\ own[t.agg[k]] = k[1] /\ t.pool[t.agg[k]].cell = k[2]
      BY <1>1 DEF HoldsWith, Directed
    <3> QED BY <3>1
  <2>2. ASSUME NEW f \in DOMAIN u.pool, own[f] # NONE
        PROVE  <<own[f], u.pool[f].cell>> \in DOMAIN u.agg /\ u.agg[<<own[f], u.pool[f].cell>>] = f
    <3>1. <<own[f], t.pool[f].cell>> \in DOMAIN t.agg /\ t.agg[<<own[f], t.pool[f].cell>>] = f
      BY <2>2, <1>1 DEF HoldsWith, Directed
    <3> QED BY <3>1
  <2> QED BY <2>1, <2>2 DEF Directed
<1>5. Backed(u, own, bk, loose)
  BY <1>1 DEF HoldsWith, Backed
<1>6. HoldsWith(u, loose, own, bk, d)
  BY <1>1, <1>3, <1>4, <1>5 DEF HoldsWith
<1>7. Roomy(u)
  BY DEF SoundBut, Roomy
<1> QED BY <1>2, <1>6, <1>7 DEF SoundBut

\* release: an entry of s goes to the front of the free list, out of the directory.
LEMMA ReleaseSound ==
    ASSUME NEW t \in SoundTables, NEW s \in Slot, NEW c \in Cell, <<s, c>> \in DOMAIN t.agg
    PROVE  Release(t, s, t.agg[<<s, c>>]) \in SoundTables
<1>0. t \in Table /\ SoundBut(t, NONE)
  BY DEF SoundTables
<1>1. PICK own, bk, d : HoldsWith(t, NONE, own, bk, d)
  BY <1>0 DEF SoundBut
<1>2. PICK D : D = DOMAIN t.pool
  OBVIOUS
<1>3. PICK e : e = t.agg[<<s, c>>]
  OBVIOUS
<1>4. PICK r : r = t.pool[e]
  OBVIOUS
<1>5. PICK u : u = Release(t, s, e)
  OBVIOUS
<1>6. /\ t.pool \in Pools /\ t.head \in [Slot -> Int] /\ t.free \in Int /\ t.agg \in Aggs
      /\ D \subseteq Nat /\ EMPTY \notin D /\ \A f \in D : t.pool[f] \in Rec
  BY <1>0, <1>2, TableIs
<1>7. Chained(D, Nexts(t), Firsts(t), own, bk, d)
  BY <1>1, <1>2 DEF HoldsWith
<1>8. NONE \in Owner /\ s \in Owner /\ s # NONE /\ Firsts(t)[NONE] = t.free /\ Firsts(t)[s] = t.head[s]
  BY FirstsAre
<1>9. e \in D /\ own[e] = s /\ r.cell = c
  BY <1>1, <1>2, <1>3, <1>4 DEF HoldsWith, Directed
<1>10. r.prev = bk[e] /\ Nexts(t)[e] = r.next /\ r \in Rec /\ r.next \in Int /\ r.prev \in Int
  <2>1. r.prev = bk[e]
    BY <1>1, <1>2, <1>4, <1>8, <1>9 DEF HoldsWith, Backed
  <2> QED BY <2>1, <1>2, <1>4, <1>6, <1>9, RecIs DEF Nexts
<1>11. bk[e] = EMPTY \/ (bk[e] \in D /\ own[bk[e]] = s /\ Nexts(t)[bk[e]] = e)
  BY <1>7, <1>9 DEF Chained
<1>12. r.next = EMPTY \/ (r.next \in D /\ own[r.next] = s /\ bk[r.next] = e /\ d[e] < d[r.next])
  BY <1>7, <1>9, <1>10 DEF Chained
<1>13. d \in [D -> Nat] /\ own \in [D -> Owner]
  BY <1>7 DEF Chained
<1>14. r.next # e
  <2>1. d[e] \in Nat /\ e # EMPTY
    BY <1>6, <1>9, <1>13
  <2> QED BY <2>1, <1>12
<1>15. bk[e] # e
  <2>1. bk[e] \in D => d[bk[e]] < d[e]
    BY <1>6, <1>7, <1>9, <1>11 DEF Chained
  <2> QED BY <2>1, <1>9, <1>13
<1>16. bk[e] = EMPTY \/ bk[e] # r.next
  <2>1. bk[e] \in D => d[bk[e]] < d[e]
    BY <1>6, <1>7, <1>9, <1>11 DEF Chained
  <2> QED BY <2>1, <1>9, <1>11, <1>12, <1>13
<1> DEFINE p == IF r.prev = EMPTY THEN t.pool ELSE [t.pool EXCEPT ![r.prev].next = r.next]
           q == IF r.next = EMPTY THEN p ELSE [p EXCEPT ![r.next].prev = r.prev]
<1>17. /\ u.pool = [q EXCEPT ![e] = Freed(@, t.free)]
       /\ u.head = IF r.prev = EMPTY THEN [t.head EXCEPT ![s] = r.next] ELSE t.head
       /\ u.free = e
       /\ u.agg = Without(t.agg, <<s, c>>)
       /\ u = [pool |-> u.pool, head |-> u.head, free |-> u.free, agg |-> u.agg]
  BY <1>4, <1>5, <1>9 DEF Release
<1>18. /\ DOMAIN p = D
       /\ \A f \in D : p[f] = IF r.prev # EMPTY /\ f = r.prev THEN [t.pool[f] EXCEPT !.next = r.next] ELSE t.pool[f]
  BY <1>2
<1> HIDE DEF p
<1>19. /\ DOMAIN q = D
       /\ \A f \in D : q[f] = IF r.next # EMPTY /\ f = r.next THEN [p[f] EXCEPT !.prev = r.prev] ELSE p[f]
  BY <1>18
<1> HIDE DEF q
<1>20. DOMAIN u.pool = D /\ u.pool[e] = Freed(q[e], t.free) /\ \A f \in D : f # e => u.pool[f] = q[f]
  BY <1>9, <1>17, <1>19
<1>21. ASSUME NEW f \in D
       PROVE  /\ q[f] \in Rec /\ q[f].cell = t.pool[f].cell
              /\ q[f].next = IF f = r.prev THEN r.next ELSE t.pool[f].next
              /\ q[f].prev = IF f = r.next THEN r.prev ELSE t.pool[f].prev
  <2>1. t.pool[f] \in Rec /\ f # EMPTY
    BY <1>6
  <2>2. p[f] \in Rec /\ p[f].cell = t.pool[f].cell /\ p[f].prev = t.pool[f].prev
        /\ p[f].next = IF f = r.prev THEN r.next ELSE t.pool[f].next
    <3>1. CASE f = r.prev
      <4>1. PICK z : z = [t.pool[f] EXCEPT !.next = r.next]
        OBVIOUS
      <4>2. p[f] = z
        BY <3>1, <4>1, <2>1, <1>18
      <4>3. z \in Rec /\ z.next = r.next /\ z.cell = t.pool[f].cell /\ z.prev = t.pool[f].prev
        BY <4>1, <2>1, <1>10, RecNext
      <4> QED BY <3>1, <4>2, <4>3
    <3>2. CASE f # r.prev
      BY <3>2, <2>1, <1>18
    <3> QED BY <3>1, <3>2
  <2>3. CASE f = r.next
    <3>1. PICK z : z = [p[f] EXCEPT !.prev = r.prev]
      OBVIOUS
    <3>2. q[f] = z
      BY <2>3, <3>1, <2>1, <1>19
    <3>3. z \in Rec /\ z.prev = r.prev /\ z.cell = p[f].cell /\ z.next = p[f].next
      BY <3>1, <2>2, <1>10, RecPrev
    <3> QED BY <2>2, <2>3, <3>2, <3>3
  <2>4. CASE f # r.next
    BY <2>2, <2>4, <1>19
  <2> QED BY <2>3, <2>4
<1>22. Freed(q[e], t.free) \in Rec /\ Freed(q[e], t.free).next = t.free
  BY <1>6, <1>9, <1>21, RecFreed
<1>23. u \in Table
  <2>1. u.pool \in Pools
    <3>1. u.pool = [f \in DOMAIN u.pool |-> u.pool[f]]
      BY <1>17
    <3>2. \A f \in D : u.pool[f] \in Rec
      BY <1>20, <1>21, <1>22
    <3> QED BY <3>1, <3>2, <1>2, <1>6, <1>20, PoolLike
  <2>2. u.head \in [Slot -> Int] /\ u.free \in Int
    BY <1>6, <1>9, <1>10, <1>17
  <2>3. u.agg \in Aggs
    <3>1. DOMAIN t.agg \in SUBSET (Slot \X Cell) /\ t.agg \in [DOMAIN t.agg -> Nat]
      BY <1>6, AggIs
    <3>2. DOMAIN t.agg \ {<<s, c>>} \in SUBSET (Slot \X Cell)
      BY <3>1
    <3>3. u.agg \in [DOMAIN t.agg \ {<<s, c>>} -> Nat]
      BY <3>1, <1>17 DEF Without
    <3> QED BY <3>2, <3>3, AggIs
  <2> QED BY <2>1, <2>2, <2>3, <1>17 DEF Table
<1>24. \A f \in D : Nexts(u)[f] = IF f = e THEN Firsts(t)[NONE] ELSE IF f = bk[e] THEN Nexts(t)[e] ELSE Nexts(t)[f]
  <2> SUFFICES ASSUME NEW f \in D
               PROVE  Nexts(u)[f] = IF f = e THEN Firsts(t)[NONE] ELSE IF f = bk[e] THEN Nexts(t)[e] ELSE Nexts(t)[f]
    OBVIOUS
  <2>1. Nexts(u)[f] = u.pool[f].next /\ Nexts(t)[f] = t.pool[f].next
    BY <1>2, <1>20 DEF Nexts
  <2>2. CASE f = e
    BY <2>1, <2>2, <1>8, <1>20, <1>22
  <2>3. CASE f # e
    BY <2>1, <2>3, <1>10, <1>20, <1>21
  <2> QED BY <2>2, <2>3
<1>25. \A o \in Owner : Firsts(u)[o] = IF o = NONE THEN e
                                       ELSE IF o = own[e] /\ bk[e] = EMPTY THEN Nexts(t)[e] ELSE Firsts(t)[o]
  BY <1>6, <1>9, <1>10, <1>17 DEF Firsts, Owner
<1> DEFINE own1 == [own EXCEPT ![e] = NONE]
           bk1 == BackAfter(D, Nexts(t), Firsts(t), bk, e, NONE)
           d1 == DepthAfter(D, d, e)
<1>26. Chained(D, Nexts(u), Firsts(u), own1, bk1, d1)
  BY <1>6, <1>7, <1>8, <1>9, <1>24, <1>25, Rechained
<1>27. own1[e] = NONE /\ \A f \in D : f # e => own1[f] = own[f]
  BY <1>9, <1>13
<1>28. \A f \in D : f # e /\ f # Firsts(t)[NONE] => bk1[f] = IF f = r.next THEN bk[e] ELSE bk[f]
  BY <1>10 DEF BackAfter
<1> HIDE DEF own1, bk1, d1
<1>29. DOMAIN u.agg = DOMAIN t.agg \ {<<s, c>>} /\ \A k \in DOMAIN u.agg : u.agg[k] = t.agg[k]
  BY <1>17 DEF Without
<1>30. Directed(u, own1)
  <2>1. ASSUME NEW k \in DOMAIN u.agg
        PROVE  u.agg[k] \in D /\ own1[u.agg[k]] = k[1] /\ u.pool[u.agg[k]].cell = k[2]
    <3>1. k \in DOMAIN t.agg /\ k # <<s, c>> /\ u.agg[k] = t.agg[k] /\ k = <<k[1], k[2]>>
      <4>1. DOMAIN t.agg \subseteq Slot \X Cell
        BY <1>6, AggIs
      <4> QED BY <4>1, <1>29
    <3>2. t.agg[k] \in D /\ own[t.agg[k]] = k[1] /\ t.pool[t.agg[k]].cell = k[2]
      BY <3>1, <1>1, <1>2 DEF HoldsWith, Directed
    <3>3. t.agg[k] # e
      BY <3>1, <3>2, <1>4, <1>9
    <3> QED BY <3>1, <3>2, <3>3, <1>20, <1>21, <1>27
  <2>2. ASSUME NEW f \in D, own1[f] # NONE
        PROVE  <<own1[f], u.pool[f].cell>> \in DOMAIN u.agg /\ u.agg[<<own1[f], u.pool[f].cell>>] = f
    <3>1. f # e /\ own1[f] = own[f] /\ u.pool[f].cell = t.pool[f].cell
      BY <2>2, <1>20, <1>21, <1>27
    <3>2. <<own[f], t.pool[f].cell>> \in DOMAIN t.agg /\ t.agg[<<own[f], t.pool[f].cell>>] = f
      BY <3>1, <2>2, <1>1, <1>2 DEF HoldsWith, Directed
    <3>3. <<own[f], t.pool[f].cell>> # <<s, c>>
      BY <3>1, <3>2, <1>3
    <3> QED BY <3>1, <3>2, <3>3, <1>29
  <2> QED BY <2>1, <2>2, <1>20 DEF Directed
<1>31. Backed(u, own1, bk1, NONE)
  <2> SUFFICES ASSUME NEW f \in D, own1[f] # NONE PROVE u.pool[f].prev = bk1[f]
    BY <1>20 DEF Backed
  <2>1. f # e /\ own[f] # NONE
    BY <1>27
  <2>2. t.pool[f].prev = bk[f]
    BY <2>1, <1>1, <1>2 DEF HoldsWith, Backed
  <2>3. f # Firsts(t)[NONE]
    BY <2>1, <1>6, <1>7, <1>8 DEF Chained
  <2> QED BY <2>1, <2>2, <2>3, <1>10, <1>20, <1>21, <1>28
<1>32. Roomy(u)
  BY <1>0, <1>2, <1>20 DEF SoundBut, Roomy
<1>33. HoldsWith(u, NONE, own1, bk1, d1)
  BY <1>20, <1>26, <1>30, <1>31 DEF HoldsWith
<1>34. SoundBut(u, NONE)
  BY <1>32, <1>33 DEF SoundBut
<1> QED BY <1>3, <1>5, <1>23, <1>34 DEF SoundTables

\* Another entry at the same place in the same chain.
LEMMA EntryReplaced ==
    ASSUME NEW t \in SoundTables, NEW e \in DOMAIN t.pool, NEW w \in Rec,
           w.cell = t.pool[e].cell, w.next = t.pool[e].next, w.prev = t.pool[e].prev,
           NEW u, u = [t EXCEPT !.pool = [t.pool EXCEPT ![e] = w]]
    PROVE  u \in SoundTables /\ u.agg = t.agg /\ DOMAIN u.pool = DOMAIN t.pool /\ u.pool[e] = w
<1>0. t \in Table /\ SoundBut(t, NONE)
  BY DEF SoundTables
<1>1. PICK p : p = [t.pool EXCEPT ![e] = w]
  OBVIOUS
<1>2. DOMAIN p = DOMAIN t.pool /\ p[e] = w /\ \A f \in DOMAIN t.pool : f # e => p[f] = t.pool[f]
  BY <1>1
<1>3. p = [f \in DOMAIN p |-> p[f]]
  BY <1>1
<1>4. u = [pool |-> p, head |-> t.head, free |-> t.free, agg |-> t.agg]
  BY <1>0, <1>1 DEF Table
<1>5. u.pool = p /\ u.head = t.head /\ u.free = t.free /\ u.agg = t.agg
  BY <1>4
<1>6. \A f \in DOMAIN t.pool : /\ p[f] \in Rec
                               /\ p[f].cell = t.pool[f].cell
                               /\ p[f].next = t.pool[f].next
                               /\ p[f].prev = t.pool[f].prev
  BY <1>0, <1>2, TableIs
<1>7. u \in Table /\ SoundBut(u, NONE)
  BY <1>0, <1>2, <1>3, <1>4, <1>5, <1>6, CountsAside
<1> QED BY <1>2, <1>5, <1>7 DEF SoundTables

\* An entry whose count and sum are written.
Written(t, e, n, dx) == [t EXCEPT !.pool[e].n = n, !.pool[e].x = dx]

LEMMA WrittenSound ==
    ASSUME NEW t \in SoundTables, NEW e \in DOMAIN t.pool, NEW n \in Int, NEW dx \in Int
    PROVE  Written(t, e, n, dx) \in SoundTables /\ Written(t, e, n, dx).agg = t.agg
<1>u. PICK u : u = Written(t, e, n, dx)
  OBVIOUS
<1>1. PICK r : r = t.pool[e]
  OBVIOUS
<1>2. r \in Rec
  BY <1>1, TableIs DEF SoundTables
<1>3. PICK v : v = [r EXCEPT !.n = n]
  OBVIOUS
<1>4. v \in Rec /\ v.cell = r.cell /\ v.next = r.next /\ v.prev = r.prev
  BY <1>2, <1>3, RecN
<1>5. PICK t1 : t1 = [t EXCEPT !.pool = [t.pool EXCEPT ![e] = v]]
  OBVIOUS
<1>6. t1 \in SoundTables /\ t1.agg = t.agg /\ DOMAIN t1.pool = DOMAIN t.pool /\ t1.pool[e] = v
  BY <1>1, <1>4, <1>5, EntryReplaced
<1>7. PICK w : w = [v EXCEPT !.x = dx]
  OBVIOUS
<1>8. w \in Rec /\ w.cell = v.cell /\ w.next = v.next /\ w.prev = v.prev
  BY <1>4, <1>7, RecX
<1>9. u = [t1 EXCEPT !.pool = [t1.pool EXCEPT ![e] = w]]
  BY <1>u, <1>1, <1>3, <1>5, <1>6, <1>7 DEF Written
<1>10. e \in DOMAIN t1.pool /\ w.cell = t1.pool[e].cell /\ w.next = t1.pool[e].next /\ w.prev = t1.pool[e].prev
  BY <1>6, <1>8
<1>11. PICK t2 : t2 = [t1 EXCEPT !.pool = [t1.pool EXCEPT ![e] = w]]
  OBVIOUS
<1>12. t2 \in SoundTables /\ t2.agg = t1.agg
  BY <1>6, <1>8, <1>10, <1>11, EntryReplaced
<1> QED BY <1>u, <1>6, <1>9, <1>11, <1>12

\* bump: an entry is found or put, counted up or down, and released when nothing is left.
LEMMA BumpSound ==
    ASSUME NEW t \in SoundTables, NEW s \in Slot, NEW c \in Cell, NEW n \in Int, NEW dx \in Int
    PROVE  Bump(t, s, c, n, dx) \in SoundTables
<1>1. PICK u : u = Entry(t, s, c)
  OBVIOUS
<1>2. u \in SoundTables /\ <<s, c>> \in DOMAIN u.agg
  BY <1>1, EntrySound
<1>3. PICK e : e = u.agg[<<s, c>>]
  OBVIOUS
<1>4. u \in Table /\ e \in DOMAIN u.pool
  BY <1>2, <1>3 DEF SoundTables, SoundBut, HoldsWith, Directed
<1>5. u.pool[e] \in Rec
  BY <1>4, TableIs
<1>6. u.pool[e].n + n \in Int /\ u.pool[e].x + dx \in Int
  BY <1>5, RecIs
<1>7. PICK v : v = [u EXCEPT !.pool[e].n = @ + n, !.pool[e].x = @ + dx]
  OBVIOUS
<1>8. v = [u EXCEPT !.pool[e].n = u.pool[e].n + n, !.pool[e].x = u.pool[e].x + dx]
  BY <1>4, <1>5, <1>7 DEF Table, Rec
<1>9. v \in SoundTables /\ v.agg = u.agg
  <2>1. PICK nn : nn = u.pool[e].n + n
    OBVIOUS
  <2>2. PICK xx : xx = u.pool[e].x + dx
    OBVIOUS
  <2>3. v = Written(u, e, nn, xx)
    BY <2>1, <2>2, <1>8 DEF Written
  <2>4. nn \in Int /\ xx \in Int
    BY <2>1, <2>2, <1>6
  <2> QED BY <2>3, <2>4, <1>2, <1>4, WrittenSound
<1>10. Release(v, s, e) \in SoundTables
  <2>1. <<s, c>> \in DOMAIN v.agg /\ v.agg[<<s, c>>] = e
    BY <1>2, <1>3, <1>9
  <2>2. Release(v, s, v.agg[<<s, c>>]) \in SoundTables
    BY <2>1, <1>9, ReleaseSound
  <2> QED BY <2>1, <2>2
<1>11. Bump(t, s, c, n, dx) = IF v.pool[e].n = 0 THEN Release(v, s, e) ELSE v
  BY <1>1, <1>3, <1>7 DEF Bump
<1> QED BY <1>9, <1>10, <1>11

\* drop_slot leaves the head of s where it was until it is done.  A table whose chain of s
\* begins at h instead.
Beheaded(t, s, h) == [pool |-> t.pool, head |-> [t.head EXCEPT ![s] = h], free |-> t.free, agg |-> t.agg]

LEMMA BeheadedIs ==
    ASSUME NEW t \in Table, NEW s \in Slot, NEW h \in Int
    PROVE  /\ Beheaded(t, s, h) \in Table
           /\ Beheaded(t, s, h).pool = t.pool /\ Beheaded(t, s, h).free = t.free /\ Beheaded(t, s, h).agg = t.agg
           /\ Beheaded(t, s, h).head[s] = h
           /\ \A p \in Slot : p # s => Beheaded(t, s, h).head[p] = t.head[p]
BY DEF Beheaded, Table

LEMMA DropIs ==
    ASSUME NEW t \in Table, NEW s \in Slot, NEW e \in Nat
    PROVE  /\ Drop(t, s, e) \in Table
           /\ Drop(t, s, e).head = t.head /\ Drop(t, s, e).free = e
           /\ Drop(t, s, e).agg = Without(t.agg, <<s, t.pool[e].cell>>)
           /\ DOMAIN Drop(t, s, e).pool = DOMAIN t.pool
           /\ \A f \in DOMAIN t.pool : Drop(t, s, e).pool[f] = IF f = e THEN Freed(t.pool[f], t.free) ELSE t.pool[f]
<1>1. PICK p : p = [t.pool EXCEPT ![e] = Freed(@, t.free)]
  OBVIOUS
<1>2. PICK a : a = Without(t.agg, <<s, t.pool[e].cell>>)
  OBVIOUS
<1>3. Drop(t, s, e) = [pool |-> p, head |-> t.head, free |-> e, agg |-> a]
  BY <1>1, <1>2 DEF Drop
<1>4. /\ t.pool \in Pools /\ t.head \in [Slot -> Int] /\ t.free \in Int /\ t.agg \in Aggs
      /\ \A f \in DOMAIN t.pool : t.pool[f] \in Rec
  BY TableIs
<1>5. /\ DOMAIN p = DOMAIN t.pool /\ p = [f \in DOMAIN p |-> p[f]]
      /\ \A f \in DOMAIN t.pool : p[f] = IF f = e THEN Freed(t.pool[f], t.free) ELSE t.pool[f]
  BY <1>1
<1>6. p \in Pools
  <2>1. \A f \in DOMAIN t.pool : p[f] \in Rec
    BY <1>4, <1>5, RecFreed
  <2> QED BY <2>1, <1>4, <1>5, PoolLike
<1>7. a \in Aggs
  <2>1. DOMAIN t.agg \in SUBSET (Slot \X Cell) /\ t.agg \in [DOMAIN t.agg -> Nat]
    BY <1>4, AggIs
  <2>2. PICK K : K = DOMAIN t.agg \ {<<s, t.pool[e].cell>>}
    OBVIOUS
  <2>3. K \in SUBSET (Slot \X Cell) /\ a \in [K -> Nat]
    BY <2>1, <2>2, <1>2 DEF Without
  <2> QED BY <2>3, AggIs
<1>8. Drop(t, s, e) \in Table
  BY <1>3, <1>4, <1>6, <1>7 DEF Table
<1> QED BY <1>2, <1>3, <1>5, <1>8

\* One entry of s, the first that is left, goes to the free list.
LEMMA DropSound ==
    ASSUME NEW t \in Table, NEW s \in Slot, NEW e \in Nat, SoundBut(Beheaded(t, s, e), s)
    PROVE  SoundBut(Beheaded(Drop(t, s, e), s, t.pool[e].next), s) /\ e \in DOMAIN t.pool
<1>1. PICK v : v = Beheaded(t, s, e)
  OBVIOUS
<1>2. /\ v \in Table /\ v.pool = t.pool /\ v.free = t.free /\ v.agg = t.agg /\ v.head[s] = e
      /\ \A p \in Slot : p # s => v.head[p] = t.head[p]
  <2>1. e \in Int
    OBVIOUS
  <2>2. /\ Beheaded(t, s, e) \in Table
        /\ Beheaded(t, s, e).pool = t.pool /\ Beheaded(t, s, e).free = t.free /\ Beheaded(t, s, e).agg = t.agg
    BY <2>1, BeheadedIs
  <2>3. Beheaded(t, s, e).head[s] = e /\ \A p \in Slot : p # s => Beheaded(t, s, e).head[p] = t.head[p]
    BY <2>1, BeheadedIs
  <2> QED BY <2>2, <2>3, <1>1
<1>3. PICK own, bk, d : HoldsWith(v, s, own, bk, d)
  BY <1>1 DEF SoundBut
<1>4. PICK D : D = DOMAIN t.pool
  OBVIOUS
<1>5. D \subseteq Nat /\ EMPTY \notin D /\ \A f \in D : t.pool[f] \in Rec
  BY <1>4, TableIs
<1>6. Chained(D, Nexts(v), Firsts(v), own, bk, d)
  BY <1>2, <1>3, <1>4 DEF HoldsWith
<1>7. NONE \in Owner /\ s \in Owner /\ s # NONE /\ Firsts(v)[NONE] = t.free /\ Firsts(v)[s] = e
  BY <1>2, FirstsAre
<1>8. e # EMPTY /\ e \in D /\ own[e] = s /\ bk[e] = EMPTY
  <2>1. e # EMPTY
    BY DEF EMPTY
  <2> QED BY <2>1, <1>6, <1>7 DEF Chained
<1>9. PICK h : h = t.pool[e].next
  OBVIOUS
<1>10. h \in Int /\ Nexts(v)[e] = h
  BY <1>2, <1>4, <1>5, <1>8, <1>9, RecIs DEF Nexts
<1>11. PICK w : w = Drop(t, s, e)
  OBVIOUS
<1>12. /\ w \in Table /\ w.head = t.head /\ w.free = e /\ w.agg = Without(t.agg, <<s, t.pool[e].cell>>)
       /\ DOMAIN w.pool = D
       /\ \A f \in D : w.pool[f] = IF f = e THEN Freed(t.pool[f], t.free) ELSE t.pool[f]
  BY <1>4, <1>11, DropIs
<1>13. PICK u : u = Beheaded(w, s, h)
  OBVIOUS
<1>14. /\ u.pool = w.pool /\ u.free = e /\ u.agg = w.agg /\ u.head[s] = h
       /\ \A p \in Slot : p # s => u.head[p] = t.head[p]
  <2>1. Beheaded(w, s, h).pool = w.pool /\ Beheaded(w, s, h).free = w.free /\ Beheaded(w, s, h).agg = w.agg
    BY <1>10, <1>12, BeheadedIs
  <2>2. Beheaded(w, s, h).head[s] = h /\ \A p \in Slot : p # s => Beheaded(w, s, h).head[p] = w.head[p]
    BY <1>10, <1>12, BeheadedIs
  <2> QED BY <2>1, <2>2, <1>12, <1>13
<1>15. Freed(t.pool[e], t.free).next = t.free
  BY DEF Freed
<1>16. \A f \in D : Nexts(u)[f] = IF f = e THEN Firsts(v)[NONE] ELSE IF f = bk[e] THEN Nexts(v)[e] ELSE Nexts(v)[f]
  BY <1>2, <1>4, <1>5, <1>7, <1>8, <1>12, <1>14, <1>15 DEF Nexts
<1>17. \A o \in Owner : Firsts(u)[o] = IF o = NONE THEN e
                                       ELSE IF o = own[e] /\ bk[e] = EMPTY THEN Nexts(v)[e] ELSE Firsts(v)[o]
  <2> SUFFICES ASSUME NEW o \in Owner
               PROVE  Firsts(u)[o] = IF o = NONE THEN e
                                     ELSE IF o = own[e] /\ bk[e] = EMPTY THEN Nexts(v)[e] ELSE Firsts(v)[o]
    OBVIOUS
  <2>1. CASE o = NONE
    BY <2>1, <1>14, FirstsAre
  <2>2. CASE o # NONE
    <3>1. o \in Slot
      BY <2>2 DEF Owner
    <3>2. Firsts(u)[o] = u.head[o] /\ Firsts(v)[o] = v.head[o]
      BY <3>1, FirstsAre
    <3> QED BY <3>1, <3>2, <2>2, <1>2, <1>8, <1>10, <1>14
  <2> QED BY <2>1, <2>2
<1> DEFINE own1 == [own EXCEPT ![e] = NONE]
           bk1 == BackAfter(D, Nexts(v), Firsts(v), bk, e, NONE)
           d1 == DepthAfter(D, d, e)
<1>18. Chained(D, Nexts(u), Firsts(u), own1, bk1, d1)
  BY <1>5, <1>6, <1>7, <1>8, <1>16, <1>17, Rechained
<1>19. own1[e] = NONE /\ \A f \in D : f # e => own1[f] = own[f]
  BY <1>6, <1>8 DEF Chained
<1>20. \A f \in D : f # e /\ f # Firsts(v)[NONE] /\ f # h => bk1[f] = bk[f]
  BY <1>10 DEF BackAfter
<1> HIDE DEF own1, bk1, d1
<1>21. PICK c : c = t.pool[e].cell
  OBVIOUS
<1>22. <<s, c>> \in DOMAIN t.agg /\ t.agg[<<s, c>>] = e
  BY <1>2, <1>3, <1>4, <1>7, <1>8, <1>21 DEF HoldsWith, Directed
<1>23. DOMAIN u.agg = DOMAIN t.agg \ {<<s, c>>} /\ \A k \in DOMAIN u.agg : u.agg[k] = t.agg[k]
  BY <1>12, <1>14, <1>21 DEF Without
<1>24. Directed(u, own1)
  <2>1. ASSUME NEW k \in DOMAIN u.agg
        PROVE  u.agg[k] \in D /\ own1[u.agg[k]] = k[1] /\ u.pool[u.agg[k]].cell = k[2]
    <3>1. k \in DOMAIN t.agg /\ k # <<s, c>> /\ u.agg[k] = t.agg[k] /\ k = <<k[1], k[2]>>
      <4>1. DOMAIN t.agg \subseteq Slot \X Cell
        BY TableIs, AggIs
      <4> QED BY <4>1, <1>23
    <3>2. t.agg[k] \in D /\ own[t.agg[k]] = k[1] /\ t.pool[t.agg[k]].cell = k[2]
      BY <3>1, <1>2, <1>3, <1>4 DEF HoldsWith, Directed
    <3>3. t.agg[k] # e
      BY <3>1, <3>2, <1>8, <1>21
    <3> QED BY <3>1, <3>2, <3>3, <1>12, <1>14, <1>19
  <2>2. ASSUME NEW f \in D, own1[f] # NONE
        PROVE  <<own1[f], u.pool[f].cell>> \in DOMAIN u.agg /\ u.agg[<<own1[f], u.pool[f].cell>>] = f
    <3>1. f # e /\ own1[f] = own[f] /\ u.pool[f].cell = t.pool[f].cell
      BY <2>2, <1>12, <1>14, <1>19
    <3>2. <<own[f], t.pool[f].cell>> \in DOMAIN t.agg /\ t.agg[<<own[f], t.pool[f].cell>>] = f
      BY <3>1, <2>2, <1>2, <1>3, <1>4 DEF HoldsWith, Directed
    <3>3. <<own[f], t.pool[f].cell>> # <<s, c>>
      BY <3>1, <3>2, <1>22
    <3> QED BY <3>1, <3>2, <3>3, <1>23
  <2> QED BY <2>1, <2>2, <1>12, <1>14 DEF Directed
<1>25. Backed(u, own1, bk1, s)
  <2> SUFFICES ASSUME NEW f \in D, own1[f] # NONE, own1[f] # s PROVE u.pool[f].prev = bk1[f]
    BY <1>12, <1>14 DEF Backed
  <2>1. f # e /\ own[f] # NONE /\ own[f] # s /\ u.pool[f] = t.pool[f]
    BY <1>12, <1>14, <1>19
  <2>2. t.pool[f].prev = bk[f]
    BY <2>1, <1>2, <1>3, <1>4 DEF HoldsWith, Backed
  <2>3. f # Firsts(v)[NONE]
    BY <2>1, <1>5, <1>6, <1>7 DEF Chained
  <2>4. f # h
    BY <2>1, <1>5, <1>6, <1>8, <1>10 DEF Chained
  <2> QED BY <2>1, <2>2, <2>3, <2>4, <1>20
<1>26. Roomy(u)
  BY <1>1, <1>2, <1>4, <1>12, <1>14 DEF SoundBut, Roomy
<1>27. HoldsWith(u, s, own1, bk1, d1)
  BY <1>12, <1>14, <1>18, <1>24, <1>25 DEF HoldsWith
<1>28. SoundBut(u, s)
  BY <1>26, <1>27 DEF SoundBut
<1> QED BY <1>4, <1>8, <1>9, <1>11, <1>13, <1>28

-----------------------------------------------------------------------------
(* Lists of changes *)

\* What bump adds to the entry of a cell.
Delta == [cell : Cell, n : Int, x : Int]

\* set_self, one cell.
LEMMA PutSound ==
    ASSUME NEW t \in SoundTables, NEW s \in Slot, NEW c \in Cell, NEW at \in Int
    PROVE  Put(t, s, c, at) \in SoundTables
<1>1. PICK u : u = Entry(t, s, c)
  OBVIOUS
<1>2. u \in SoundTables /\ <<s, c>> \in DOMAIN u.agg
  BY <1>1, EntrySound
<1>3. PICK e : e = u.agg[<<s, c>>]
  OBVIOUS
<1>4. e \in DOMAIN u.pool
  BY <1>2, <1>3 DEF SoundTables, SoundBut, HoldsWith, Directed
<1>5. Written(u, e, 1, at) \in SoundTables
  BY <1>2, <1>4, WrittenSound
<1>6. Put(t, s, c, at) = Written(u, e, 1, at)
  BY <1>1, <1>3 DEF Put, Written
<1> QED BY <1>5, <1>6

\* bump, for every cell of a list.
LEMMA BumpAllSound ==
    ASSUME NEW t \in SoundTables, NEW s \in Slot, NEW deltas \in Seq(Delta)
    PROVE  BumpAll(t, s, deltas) \in SoundTables
<1> DEFINE A == SoundTables
           base == t
           n == Len(deltas)
           step == [k \in 1..n |-> [a \in A |-> Bump(a, s, deltas[k].cell, deltas[k].n, deltas[k].x)]]
           Is(i) == i = [z \in SUBSET (1..n) |->
                            IF z = {} THEN base ELSE Bump(i[z \ {Max(z)}], s, deltas[Max(z)].cell, deltas[Max(z)].n, deltas[Max(z)].x)]
           h == CHOOSE i : Is(i)
<1>1. n \in Nat /\ DOMAIN deltas = 1..n /\ \A k \in 1..n : deltas[k] \in Delta
  OBVIOUS
<1>2. base \in A /\ \A k \in 1..n : \A a \in A : Bump(a, s, deltas[k].cell, deltas[k].n, deltas[k].x) \in A
  <2>1. \A k \in 1..n : deltas[k].cell \in Cell /\ deltas[k].n \in Int /\ deltas[k].x \in Int
    BY <1>1 DEF Delta
  <2> HIDE DEF n
  <2> QED BY <2>1, BumpSound
<1>3. step \in [1..n -> [A -> A]]
  <2> HIDE DEF n, A
  <2> QED BY <1>2
<1>4. PICK f \in [SUBSET (1..n) -> A] : Walks(base, n, step, f)
  <2> HIDE DEF A, base, n, step
  <2> QED BY <1>1, <1>2, <1>3, WalkExists
<1>5. \A z \in SUBSET (1..n) : z # {} => Max(z) \in 1..n /\ z \ {Max(z)} \in SUBSET (1..n)
  <2> HIDE DEF n
  <2> QED BY <1>1, MaxIsIn
<1>6. Is(f)
  <2>1. ASSUME NEW z \in SUBSET (1..n), z # {}
        PROVE  f[z] = Bump(f[z \ {Max(z)}], s, deltas[Max(z)].cell, deltas[Max(z)].n, deltas[Max(z)].x)
    <3>1. PICK m : m = Max(z)
      OBVIOUS
    <3> HIDE DEF A, n, base
    <3>2. m \in 1..n /\ f[z \ {m}] \in A
      BY <1>5, <2>1, <3>1
    <3>3. f[z] = step[m][f[z \ {m}]]
      <4> HIDE DEF step
      <4> QED BY <1>4, <2>1, <3>1 DEF Walks
    <3> QED BY <3>1, <3>2, <3>3
  <2>2. f[{}] = base
    <3> HIDE DEF A, n, step, base
    <3> QED BY <1>4 DEF Walks
  <2> HIDE DEF A, n, base
  <2> QED BY <2>1, <2>2
<1>7. Is(h)
  <2> HIDE DEF Is
  <2> QED BY <1>6
<1>8. BumpAll(t, s, deltas) = h[1..n]
  <2> HIDE DEF n
  <2> QED BY <1>1 DEF FoldLeft, MapThenFoldSet, BumpAll
<1>9. h[{}] = base /\ Follows(A, n, step, h)
  <2>1. h[{}] = base /\ \A z \in SUBSET (1..n) : z # {} => h[z] = Bump(h[z \ {Max(z)}], s, deltas[Max(z)].cell, deltas[Max(z)].n, deltas[Max(z)].x)
    <3> HIDE DEF h, n, A, base
    <3> QED BY <1>7
  <2>2. ASSUME NEW z \in SUBSET (1..n), z # {}, h[z \ {Max(z)}] \in A
        PROVE  h[z] = step[Max(z)][h[z \ {Max(z)}]]
    <3> HIDE DEF h, n, A, base
    <3> QED BY <1>5, <2>1, <2>2
  <2> HIDE DEF h, n, A, base, step
  <2> QED BY <2>1, <2>2 DEF Follows
<1>10. PICK g : Traces(A, base, n, step, g) /\ g[n] = h[1..n]
  <2>1. n \in Nat /\ base \in A
    BY <1>1, <1>2
  <2> HIDE DEF h, n, step, A, base
  <2>2. Folds(A, base, n, step, h)
    BY <1>3, <1>9, <2>1 DEF Folds
  <2> QED BY <2>2, FoldSteps
<1>11. g[n] \in A
  <2> HIDE DEF n, A, base, step, h
  <2> QED BY <1>1, <1>10 DEF Traces
<1> QED BY <1>8, <1>11, <1>10

\* bump, for every cell of a list and every slot of a chain.
LEMMA BumpChainSound ==
    ASSUME NEW t \in SoundTables, NEW chain \in Seq(Slot), NEW deltas \in Seq(Delta)
    PROVE  BumpChain(t, chain, deltas) \in SoundTables
<1> DEFINE A == SoundTables
           base == t
           n == Len(chain)
           step == [k \in 1..n |-> [a \in A |-> BumpAll(a, chain[k], deltas)]]
           Is(i) == i = [z \in SUBSET (1..n) |->
                            IF z = {} THEN base ELSE BumpAll(i[z \ {Max(z)}], chain[Max(z)], deltas)]
           h == CHOOSE i : Is(i)
<1>1. n \in Nat /\ DOMAIN chain = 1..n /\ \A k \in 1..n : chain[k] \in Slot
  OBVIOUS
<1>2. base \in A /\ \A k \in 1..n : \A a \in A : BumpAll(a, chain[k], deltas) \in A
  <2> HIDE DEF n
  <2> QED BY <1>1, BumpAllSound
<1>3. step \in [1..n -> [A -> A]]
  <2> HIDE DEF n, A
  <2> QED BY <1>2
<1>4. PICK f \in [SUBSET (1..n) -> A] : Walks(base, n, step, f)
  <2> HIDE DEF A, base, n, step
  <2> QED BY <1>1, <1>2, <1>3, WalkExists
<1>5. \A z \in SUBSET (1..n) : z # {} => Max(z) \in 1..n /\ z \ {Max(z)} \in SUBSET (1..n)
  <2> HIDE DEF n
  <2> QED BY <1>1, MaxIsIn
<1>6. Is(f)
  <2>1. ASSUME NEW z \in SUBSET (1..n), z # {}
        PROVE  f[z] = BumpAll(f[z \ {Max(z)}], chain[Max(z)], deltas)
    <3>1. PICK m : m = Max(z)
      OBVIOUS
    <3> HIDE DEF A, n, base
    <3>2. m \in 1..n /\ f[z \ {m}] \in A
      BY <1>5, <2>1, <3>1
    <3>3. f[z] = step[m][f[z \ {m}]]
      <4> HIDE DEF step
      <4> QED BY <1>4, <2>1, <3>1 DEF Walks
    <3> QED BY <3>1, <3>2, <3>3
  <2>2. f[{}] = base
    <3> HIDE DEF A, n, step, base
    <3> QED BY <1>4 DEF Walks
  <2> HIDE DEF A, n, base
  <2> QED BY <2>1, <2>2
<1>7. Is(h)
  <2> HIDE DEF Is
  <2> QED BY <1>6
<1>8. BumpChain(t, chain, deltas) = h[1..n]
  <2> HIDE DEF n
  <2> QED BY <1>1 DEF FoldLeft, MapThenFoldSet, BumpChain
<1>9. h[{}] = base /\ Follows(A, n, step, h)
  <2>1. h[{}] = base /\ \A z \in SUBSET (1..n) : z # {} => h[z] = BumpAll(h[z \ {Max(z)}], chain[Max(z)], deltas)
    <3> HIDE DEF h, n, A, base
    <3> QED BY <1>7
  <2>2. ASSUME NEW z \in SUBSET (1..n), z # {}, h[z \ {Max(z)}] \in A
        PROVE  h[z] = step[Max(z)][h[z \ {Max(z)}]]
    <3> HIDE DEF h, n, A, base
    <3> QED BY <1>5, <2>1, <2>2
  <2> HIDE DEF h, n, A, base, step
  <2> QED BY <2>1, <2>2 DEF Follows
<1>10. PICK g : Traces(A, base, n, step, g) /\ g[n] = h[1..n]
  <2>1. n \in Nat /\ base \in A
    BY <1>1, <1>2
  <2> HIDE DEF h, n, step, A, base
  <2>2. Folds(A, base, n, step, h)
    BY <1>3, <1>9, <2>1 DEF Folds
  <2> QED BY <2>2, FoldSteps
<1>11. g[n] \in A
  <2> HIDE DEF n, A, base, step, h
  <2> QED BY <1>1, <1>10 DEF Traces
<1> QED BY <1>8, <1>11, <1>10

\* What set_self puts after it dropped what there was.
LEMMA PutsSound ==
    ASSUME NEW t \in SoundTables, NEW s \in Slot, NEW at \in Int, NEW own \in Seq(Cell)
    PROVE  FoldLeft(LAMBDA u, c : Put(u, s, c, at), t, own) \in SoundTables
<1> DEFINE A == SoundTables
           base == t
           n == Len(own)
           step == [k \in 1..n |-> [a \in A |-> Put(a, s, own[k], at)]]
           Is(i) == i = [z \in SUBSET (1..n) |->
                            IF z = {} THEN base ELSE Put(i[z \ {Max(z)}], s, own[Max(z)], at)]
           h == CHOOSE i : Is(i)
<1>1. n \in Nat /\ DOMAIN own = 1..n /\ \A k \in 1..n : own[k] \in Cell
  OBVIOUS
<1>2. base \in A /\ \A k \in 1..n : \A a \in A : Put(a, s, own[k], at) \in A
  <2> HIDE DEF n
  <2> QED BY <1>1, PutSound
<1>3. step \in [1..n -> [A -> A]]
  <2> HIDE DEF n, A
  <2> QED BY <1>2
<1>4. PICK f \in [SUBSET (1..n) -> A] : Walks(base, n, step, f)
  <2> HIDE DEF A, base, n, step
  <2> QED BY <1>1, <1>2, <1>3, WalkExists
<1>5. \A z \in SUBSET (1..n) : z # {} => Max(z) \in 1..n /\ z \ {Max(z)} \in SUBSET (1..n)
  <2> HIDE DEF n
  <2> QED BY <1>1, MaxIsIn
<1>6. Is(f)
  <2>1. ASSUME NEW z \in SUBSET (1..n), z # {}
        PROVE  f[z] = Put(f[z \ {Max(z)}], s, own[Max(z)], at)
    <3>1. PICK m : m = Max(z)
      OBVIOUS
    <3> HIDE DEF A, n, base
    <3>2. m \in 1..n /\ f[z \ {m}] \in A
      BY <1>5, <2>1, <3>1
    <3>3. f[z] = step[m][f[z \ {m}]]
      <4> HIDE DEF step
      <4> QED BY <1>4, <2>1, <3>1 DEF Walks
    <3> QED BY <3>1, <3>2, <3>3
  <2>2. f[{}] = base
    <3> HIDE DEF A, n, step, base
    <3> QED BY <1>4 DEF Walks
  <2> HIDE DEF A, n, base
  <2> QED BY <2>1, <2>2
<1>7. Is(h)
  <2> HIDE DEF Is
  <2> QED BY <1>6
<1>8. FoldLeft(LAMBDA u, c : Put(u, s, c, at), t, own) = h[1..n]
  <2> HIDE DEF n
  <2> QED BY <1>1 DEF FoldLeft, MapThenFoldSet
<1>9. h[{}] = base /\ Follows(A, n, step, h)
  <2>1. h[{}] = base /\ \A z \in SUBSET (1..n) : z # {} => h[z] = Put(h[z \ {Max(z)}], s, own[Max(z)], at)
    <3> HIDE DEF h, n, A, base
    <3> QED BY <1>7
  <2>2. ASSUME NEW z \in SUBSET (1..n), z # {}, h[z \ {Max(z)}] \in A
        PROVE  h[z] = step[Max(z)][h[z \ {Max(z)}]]
    <3> HIDE DEF h, n, A, base
    <3> QED BY <1>5, <2>1, <2>2
  <2> HIDE DEF h, n, A, base, step
  <2> QED BY <2>1, <2>2 DEF Follows
<1>10. PICK g : Traces(A, base, n, step, g) /\ g[n] = h[1..n]
  <2>1. n \in Nat /\ base \in A
    BY <1>1, <1>2
  <2> HIDE DEF h, n, step, A, base
  <2>2. Folds(A, base, n, step, h)
    BY <1>3, <1>9, <2>1 DEF Folds
  <2> QED BY <2>2, FoldSteps
<1>11. g[n] \in A
  <2> HIDE DEF n, A, base, step, h
  <2> QED BY <1>1, <1>10 DEF Traces
<1> QED BY <1>8, <1>11, <1>10

\* The drops of drop_slot, one after the other.
LEMMA DropsTrace ==
    ASSUME NEW t \in Table, NEW s \in Slot, NEW held \in Seq(Nat)
    PROVE  \E g : /\ g \in [0..Len(held) -> Table] /\ g[0] = t
                  /\ \A k \in 1..Len(held) : g[k] = Drop(g[k - 1], s, held[k])
                  /\ g[Len(held)] = FoldLeft(LAMBDA u, e : Drop(u, s, e), t, held)
<1> DEFINE A == Table
           base == t
           n == Len(held)
           step == [k \in 1..n |-> [a \in A |-> Drop(a, s, held[k])]]
           Is(i) == i = [z \in SUBSET (1..n) |->
                            IF z = {} THEN base ELSE Drop(i[z \ {Max(z)}], s, held[Max(z)])]
           h == CHOOSE i : Is(i)
<1>1. n \in Nat /\ DOMAIN held = 1..n /\ \A k \in 1..n : held[k] \in Nat
  OBVIOUS
<1>2. base \in A /\ \A k \in 1..n : \A a \in A : Drop(a, s, held[k]) \in A
  <2> HIDE DEF n
  <2> QED BY <1>1, DropIs
<1>3. step \in [1..n -> [A -> A]]
  <2> HIDE DEF n, A
  <2> QED BY <1>2
<1>4. PICK f \in [SUBSET (1..n) -> A] : Walks(base, n, step, f)
  <2> HIDE DEF A, base, n, step
  <2> QED BY <1>1, <1>2, <1>3, WalkExists
<1>5. \A z \in SUBSET (1..n) : z # {} => Max(z) \in 1..n /\ z \ {Max(z)} \in SUBSET (1..n)
  <2> HIDE DEF n
  <2> QED BY <1>1, MaxIsIn
<1>6. Is(f)
  <2>1. ASSUME NEW z \in SUBSET (1..n), z # {}
        PROVE  f[z] = Drop(f[z \ {Max(z)}], s, held[Max(z)])
    <3>1. PICK m : m = Max(z)
      OBVIOUS
    <3> HIDE DEF A, n, base
    <3>2. m \in 1..n /\ f[z \ {m}] \in A
      BY <1>5, <2>1, <3>1
    <3>3. f[z] = step[m][f[z \ {m}]]
      <4> HIDE DEF step
      <4> QED BY <1>4, <2>1, <3>1 DEF Walks
    <3> QED BY <3>1, <3>2, <3>3
  <2>2. f[{}] = base
    <3> HIDE DEF A, n, step, base
    <3> QED BY <1>4 DEF Walks
  <2> HIDE DEF A, n, base
  <2> QED BY <2>1, <2>2
<1>7. Is(h)
  <2> HIDE DEF Is
  <2> QED BY <1>6
<1>8. FoldLeft(LAMBDA u, e : Drop(u, s, e), t, held) = h[1..n]
  <2> HIDE DEF n
  <2> QED BY <1>1 DEF FoldLeft, MapThenFoldSet
<1>9. h[{}] = base /\ Follows(A, n, step, h)
  <2>1. h[{}] = base /\ \A z \in SUBSET (1..n) : z # {} => h[z] = Drop(h[z \ {Max(z)}], s, held[Max(z)])
    <3> HIDE DEF h, n, A, base
    <3> QED BY <1>7
  <2>2. ASSUME NEW z \in SUBSET (1..n), z # {}, h[z \ {Max(z)}] \in A
        PROVE  h[z] = step[Max(z)][h[z \ {Max(z)}]]
    <3> HIDE DEF h, n, A, base
    <3> QED BY <1>5, <2>1, <2>2
  <2> HIDE DEF h, n, A, base, step
  <2> QED BY <2>1, <2>2 DEF Follows
<1>10. PICK g : Traces(A, base, n, step, g) /\ g[n] = h[1..n]
  <2>1. n \in Nat /\ base \in A
    BY <1>1, <1>2
  <2> HIDE DEF h, n, step, A, base
  <2>2. Folds(A, base, n, step, h)
    BY <1>3, <1>9, <2>1 DEF Folds
  <2> QED BY <2>2, FoldSteps
<1>11. g \in [0..n -> A] /\ g[0] = base /\ g[n] = FoldLeft(LAMBDA u, e : Drop(u, s, e), t, held)
  BY <1>8, <1>10 DEF Traces
<1>12. \A k \in 1..n : g[k] = Drop(g[k - 1], s, held[k])
  <2> SUFFICES ASSUME NEW k \in 1..n PROVE g[k] = Drop(g[k - 1], s, held[k])
    OBVIOUS
  <2>1. g[k] = step[k][g[k - 1]]
    BY <1>10 DEF Traces
  <2>2. k - 1 \in 0..n
    BY <1>1
  <2>3. g[k - 1] \in A
    <3> HIDE DEF n, A, base, step, h
    <3> QED BY <1>11, <2>2
  <2> HIDE DEF n, A, base, h
  <2> QED BY <2>1, <2>3
<1> HIDE DEF h, step
<1> QED BY <1>11, <1>12

-----------------------------------------------------------------------------
(* The chain of a slot *)

\* The entries of s, in the order in which they are found.
Holds(L, t, s) ==
    /\ L \in Seq(DOMAIN t.pool) /\ IsInjective(L)
    /\ t.head[s] = IF L = <<>> THEN EMPTY ELSE L[1]
    /\ \A i \in 1..Len(L) : /\ t.pool[L[i]].next = IF i = Len(L) THEN EMPTY ELSE L[i + 1]
                            /\ t.pool[L[i]].cell \in Cell
                            /\ <<s, t.pool[L[i]].cell>> \in DOMAIN t.agg

\* The walk along the links of a table finds the chain of an owner.
LEMMA ListIs ==
    ASSUME NEW t \in Table, NEW own, NEW bk, NEW d, HoldsWith(t, NONE, own, bk, d), NEW o \in Owner
    PROVE  Lists(List(t, Firsts(t)[o]), DOMAIN t.pool, Nexts(t), Firsts(t), own, bk, o)
<1>1. PICK m \in Nat : DOMAIN t.pool = 0..(m - 1) /\ t.pool \in [0..(m - 1) -> Rec]
  BY TableIs, PoolIs
<1>2. Cardinality(DOMAIN t.pool) = m
  BY <1>1, FS_Interval
<1>3. List(t, Firsts(t)[o]) = Follow(Firsts(t)[o], Nexts(t), EMPTY, m)
  BY <1>2 DEF List, Nexts
<1>4. PICK D : D = DOMAIN t.pool
  OBVIOUS
<1>5. D = 0..(m - 1) /\ Chained(D, Nexts(t), Firsts(t), own, bk, d)
  BY <1>1, <1>4 DEF HoldsWith
<1>6. Lists(Follow(Firsts(t)[o], Nexts(t), EMPTY, m), D, Nexts(t), Firsts(t), own, bk, o)
  BY <1>5, FollowLists
<1> QED BY <1>3, <1>4, <1>6

LEMMA HoldsList ==
    ASSUME NEW t \in SoundTables, NEW s \in Slot
    PROVE  Holds(List(t, t.head[s]), t, s)
<1>0. t \in Table /\ SoundBut(t, NONE)
  BY DEF SoundTables
<1>1. PICK own, bk, d : HoldsWith(t, NONE, own, bk, d)
  BY <1>0 DEF SoundBut
<1>2. s \in Owner /\ s # NONE /\ Firsts(t)[s] = t.head[s]
  BY FirstsAre
<1>3. PICK L : L = List(t, t.head[s])
  OBVIOUS
<1>4. Lists(L, DOMAIN t.pool, Nexts(t), Firsts(t), own, bk, s)
  <2>1. Lists(List(t, Firsts(t)[s]), DOMAIN t.pool, Nexts(t), Firsts(t), own, bk, s)
    BY <1>0, <1>1, <1>2, ListIs
  <2> QED BY <2>1, <1>2, <1>3
<1>5. L \in Seq(DOMAIN t.pool) /\ IsInjective(L) /\ ToSet(L) = {e \in DOMAIN t.pool : own[e] = s}
      /\ t.head[s] = IF L = <<>> THEN EMPTY ELSE L[1]
  BY <1>2, <1>4 DEF Lists
<1>6. ASSUME NEW i \in 1..Len(L)
      PROVE  /\ t.pool[L[i]].next = IF i = Len(L) THEN EMPTY ELSE L[i + 1]
             /\ <<s, t.pool[L[i]].cell>> \in DOMAIN t.agg
  <2>1. L[i] \in ToSet(L)
    BY <1>5 DEF ToSet
  <2>2. L[i] \in DOMAIN t.pool /\ own[L[i]] = s
    BY <2>1, <1>5
  <2>3. Nexts(t)[L[i]] = IF i = Len(L) THEN EMPTY ELSE L[i + 1]
    BY <1>4 DEF Lists
  <2>4. Nexts(t)[L[i]] = t.pool[L[i]].next
    BY <2>2 DEF Nexts
  <2>5. <<own[L[i]], t.pool[L[i]].cell>> \in DOMAIN t.agg
    BY <2>2, <1>1, <1>2 DEF HoldsWith, Directed
  <2> QED BY <2>2, <2>3, <2>4, <2>5
<1>7. ASSUME NEW i \in 1..Len(L) PROVE t.pool[L[i]].cell \in Cell
  <2>1. DOMAIN t.agg \subseteq Slot \X Cell
    BY <1>0, TableIs, AggIs
  <2> QED BY <2>1, <1>6
<1> QED BY <1>3, <1>5, <1>6, <1>7 DEF Holds

\* What is left of a list after its first k.
RestOf(L, k) == IF k < Len(L) THEN L[k + 1] ELSE EMPTY

\* drop_slot: the chain of s goes to the free list, first entry first.
LEMMA DropSlotSound ==
    ASSUME NEW t \in SoundTables, NEW s \in Slot
    PROVE  DropSlot(t, s) \in SoundTables
<1>0. t \in Table /\ SoundBut(t, NONE)
  BY DEF SoundTables
<1>1. PICK L : L = List(t, t.head[s])
  OBVIOUS
<1>2. Holds(L, t, s)
  BY <1>1, HoldsList
<1>3. DOMAIN t.pool \subseteq Nat /\ EMPTY \notin DOMAIN t.pool
  BY <1>0, TableIs
<1>4. L \in Seq(DOMAIN t.pool) /\ L \in Seq(Nat) /\ Len(L) \in Nat
      /\ \A i, j \in 1..Len(L) : L[i] = L[j] => i = j
  BY <1>2, <1>3 DEF Holds, IsInjective
<1>5. PICK n \in Nat : n = Len(L)
  BY <1>4
<1>d. PICK dropped : dropped = FoldLeft(LAMBDA u, e : Drop(u, s, e), t, L)
  OBVIOUS
<1>6. PICK g : /\ g \in [0..n -> Table] /\ g[0] = t
               /\ \A k \in 1..n : g[k] = Drop(g[k - 1], s, L[k])
               /\ g[n] = dropped
  <2>1. \E g : /\ g \in [0..Len(L) -> Table] /\ g[0] = t
               /\ \A k \in 1..Len(L) : g[k] = Drop(g[k - 1], s, L[k])
               /\ g[Len(L)] = FoldLeft(LAMBDA u, e : Drop(u, s, e), t, L)
    BY <1>0, <1>4, DropsTrace
  <2> QED BY <2>1, <1>5, <1>d
<1> DEFINE Kept(k) == /\ g[k].head = t.head /\ DOMAIN g[k].pool = DOMAIN t.pool
                      /\ SoundBut(Beheaded(g[k], s, RestOf(L, k)), s)
                      /\ \A j \in (k + 1)..n : g[k].pool[L[j]] = t.pool[L[j]]
<1>7. Kept(0)
  <2>1. RestOf(L, 0) = t.head[s]
    <3>1. CASE L = <<>>
      BY <3>1, <1>2 DEF RestOf, Holds
    <3>2. CASE L # <<>>
      <4>1. 0 < Len(L)
        BY <3>2, <1>4
      <4> QED BY <3>2, <4>1, <1>2 DEF RestOf, Holds
    <3> QED BY <3>1, <3>2
  <2>2. t.head \in [Slot -> Int]
    BY <1>0, TableIs
  <2>3. [t.head EXCEPT ![s] = t.head[s]] = t.head
    BY <2>2
  <2>4. Beheaded(t, s, t.head[s]) = t
    BY <2>3, <1>0 DEF Beheaded, Table
  <2>5. SoundBut(t, s)
    BY <1>0 DEF SoundBut, HoldsWith, Backed
  <2> QED BY <2>1, <2>4, <2>5, <1>6
<1>8. ASSUME NEW k \in 1..n, Kept(k - 1) PROVE Kept(k)
  <2>1. PICK e \in Nat : e = L[k]
    BY <1>4, <1>5
  <2>2. PICK u \in Table : u = g[k - 1]
    <3>1. k - 1 \in 0..n
      OBVIOUS
    <3> HIDE DEF Kept
    <3> QED BY <3>1, <1>6
  <2>3. e \in DOMAIN t.pool
    BY <2>1, <1>4, <1>5
  <2>4. RestOf(L, k - 1) = e
    <3>1. k - 1 < n /\ (k - 1) + 1 = k
      OBVIOUS
    <3> HIDE DEF Kept
    <3> QED BY <3>1, <2>1, <1>5 DEF RestOf
  <2>6. g[k] = Drop(u, s, e)
    BY <2>1, <2>2, <1>6
  <2>7. SoundBut(Beheaded(u, s, e), s) /\ u.head = t.head /\ DOMAIN u.pool = DOMAIN t.pool
    BY <2>2, <2>4, <1>8
  <2>8. \A j \in k..n : u.pool[L[j]] = t.pool[L[j]]
    <3>1. \A j \in ((k - 1) + 1)..n : g[k - 1].pool[L[j]] = t.pool[L[j]]
      BY <1>8
    <3>2. (k - 1) + 1 = k
      OBVIOUS
    <3> HIDE DEF Kept
    <3> QED BY <3>1, <3>2, <2>2
  <2> HIDE DEF Kept
  <2>9. u.pool[e].next = RestOf(L, k)
    <3>1. k \in k..n /\ k \in 1..Len(L)
      BY <1>5
    <3>2. u.pool[e].next = IF k = Len(L) THEN EMPTY ELSE L[k + 1]
      BY <3>1, <2>1, <2>8, <1>2 DEF Holds
    <3>3. k < Len(L) <=> k # Len(L)
      BY <3>1, <1>5
    <3> QED BY <3>2, <3>3 DEF RestOf
  <2>10. SoundBut(Beheaded(g[k], s, RestOf(L, k)), s)
    <3>1. SoundBut(Beheaded(Drop(u, s, e), s, u.pool[e].next), s)
      BY <2>3, <2>7, DropSound
    <3> QED BY <3>1, <2>6, <2>9
  <2>11. g[k].head = t.head /\ DOMAIN g[k].pool = DOMAIN t.pool
         /\ \A f \in DOMAIN t.pool : f # e => g[k].pool[f] = u.pool[f]
    <3>1. Drop(u, s, e).head = u.head
      BY DEF Drop
    <3>2. Drop(u, s, e).pool = [u.pool EXCEPT ![e] = Freed(@, u.free)]
      BY DEF Drop
    <3> QED BY <3>1, <3>2, <2>6, <2>7
  <2>12. ASSUME NEW j \in (k + 1)..n PROVE g[k].pool[L[j]] = t.pool[L[j]]
    <3>1. j \in k..n /\ j \in 1..Len(L) /\ k \in 1..Len(L) /\ j # k
      BY <1>5
    <3>2. L[j] # e /\ L[j] \in DOMAIN t.pool
      BY <3>1, <2>1, <1>4
    <3> QED BY <3>1, <3>2, <2>8, <2>11
  <2> QED BY <2>10, <2>11, <2>12 DEF Kept
<1>9. Kept(n)
  <2> DEFINE Bad == {k \in 0..n : ~ Kept(k)}
  <2> SUFFICES ASSUME Bad # {} PROVE FALSE
    <3>1. n \in 0..n
      OBVIOUS
    <3> HIDE DEF Kept
    <3> QED BY <3>1
  <2> HIDE DEF Kept
  <2>1. PICK k \in Bad : \A l \in Bad : k <= l
    <3>1. Bad \subseteq Nat
      OBVIOUS
    <3> HIDE DEF Bad
    <3> QED BY <3>1, LeastOf
  <2>2. k \in 0..n /\ ~ Kept(k) /\ k # 0
    BY <2>1, <1>7
  <2>3. k \in 1..n /\ k - 1 \in 0..n /\ k - 1 \notin Bad
    <3>1. k \in 1..n /\ k - 1 \in 0..n /\ ~ (k <= k - 1)
      BY <2>2
    <3> HIDE DEF Bad
    <3> QED BY <3>1, <2>1
  <2> QED BY <2>2, <2>3, <1>8
<1>10. PICK u : u = g[n]
  OBVIOUS
<1>11. u \in Table /\ n \in 0..n
  <2>1. n \in 0..n
    OBVIOUS
  <2> HIDE DEF Kept
  <2> QED BY <2>1, <1>6, <1>10
<1>12. PICK v : v = Beheaded(u, s, EMPTY)
  OBVIOUS
<1>13. SoundBut(v, s)
  <2>1. RestOf(L, n) = EMPTY
    BY <1>5 DEF RestOf
  <2> QED BY <2>1, <1>9, <1>10, <1>12
<1> HIDE DEF Kept
<1>14. EMPTY \in Int
  BY DEF EMPTY
<1>15. v \in Table /\ v.head[s] = EMPTY
  <2>1. Beheaded(u, s, EMPTY) \in Table /\ Beheaded(u, s, EMPTY).head[s] = EMPTY
    BY <1>11, <1>14, BeheadedIs
  <2> QED BY <2>1, <1>12
<1>16. SoundBut(v, NONE)
  <2>1. PICK own, bk, d : HoldsWith(v, s, own, bk, d)
    BY <1>13 DEF SoundBut
  <2>2. PICK D : D = DOMAIN v.pool
    OBVIOUS
  <2>3. Chained(D, Nexts(v), Firsts(v), own, bk, d) /\ D \subseteq Nat
    BY <2>1, <2>2, <1>15, TableIs DEF HoldsWith
  <2>4. s \in Owner /\ Firsts(v)[s] = EMPTY
    BY <1>15, FirstsAre
  <2>5. \A e \in D : own[e] # s
    BY <2>3, <2>4, NoFirstNone
  <2>6. Backed(v, own, bk, NONE)
    BY <2>1, <2>2, <2>5 DEF HoldsWith, Backed
  <2>7. HoldsWith(v, NONE, own, bk, d)
    BY <2>1, <2>6 DEF HoldsWith
  <2> QED BY <2>7, <1>13 DEF SoundBut
<1>17. DropSlot(t, s) = v
  <2>1. DropSlot(t, s) = [u EXCEPT !.head[s] = EMPTY]
    BY <1>1, <1>d, <1>6, <1>10 DEF DropSlot
  <2> QED BY <2>1, <1>11, <1>12 DEF Beheaded, Table
<1> QED BY <1>15, <1>16, <1>17 DEF SoundTables

-----------------------------------------------------------------------------
(* What the operations do to the table *)

\* The cells of a device, one after the other.
LEMMA CellsListed ==
    ASSUME NEW cs \in SUBSET Cell
    PROVE  SetToSeq(cs) \in Seq(Cell)
<1>1. IsFiniteSet(cs)
  BY CellSetsAssumption, FS_Subset
<1>2. PICK n \in Nat : n = Cardinality(cs)
  BY <1>1, FS_CardinalityType
<1>3. ExistsBijection(1..n, cs)
  BY <1>1, <1>2, FS_CardinalityType
<1>4. \E f \in [1..n -> cs] : IsInjective(f)
  BY <1>3 DEF ExistsBijection, Bijection, Injection, IsInjective
<1>5. SetToSeq(cs) \in [1..n -> cs]
  BY <1>2, <1>4 DEF SetToSeq
<1> QED BY <1>5

\* set_self keeps the table sound.
LEMMA SetSelfSound ==
    ASSUME NEW t \in SoundTables, NEW s \in Slot, NEW cs \in SUBSET Cell, NEW at \in Int
    PROVE  SetSelf(t, s, cs, at) \in SoundTables
<1>1. DropSlot(t, s) \in SoundTables
  BY DropSlotSound
<1>2. PICK u \in SoundTables : u = DropSlot(t, s)
  BY <1>1
<1>3. PICK own \in Seq(Cell) : own = SetToSeq(cs)
  BY CellsListed
<1>4. FoldLeft(LAMBDA v, c : Put(v, s, c, at), u, own) \in SoundTables
  BY PutsSound
<1> QED BY <1>2, <1>3, <1>4 DEF SetSelf

\* walk keeps the table sound.
LEMMA WalkSound ==
    ASSUME NEW t \in SoundTables, NEW chain \in Seq(Slot), NEW cs \in SUBSET Cell,
           NEW n \in Int, NEW dx \in Int
    PROVE  Walk(t, chain, cs, n, dx) \in SoundTables
<1>1. PICK own \in Seq(Cell) : own = SetToSeq(cs)
  BY CellsListed
<1>2. PICK deltas : deltas = [i \in DOMAIN own |-> [cell |-> own[i], n |-> n, x |-> dx]]
  OBVIOUS
<1>3. deltas \in Seq(Delta)
  <2>1. Len(own) \in Nat /\ DOMAIN own = 1..Len(own) /\ \A i \in 1..Len(own) : own[i] \in Cell
    OBVIOUS
  <2>2. \A i \in 1..Len(own) : [cell |-> own[i], n |-> n, x |-> dx] \in Delta
    BY <2>1 DEF Delta
  <2>3. deltas \in [1..Len(own) -> Delta]
    BY <2>1, <2>2, <1>2
  <2> QED BY <2>1, <2>3
<1>4. BumpChain(t, chain, deltas) \in SoundTables
  BY <1>3, BumpChainSound
<1> QED BY <1>1, <1>2, <1>4 DEF Walk

\* move_subtree keeps the table sound: what it adds is in cells that s occupies.
LEMMA MoveSubtreeSound ==
    ASSUME NEW t \in SoundTables, NEW chain \in Seq(Slot), NEW s \in Slot, NEW sign \in {1, -1}
    PROVE  MoveSubtree(t, chain, s, sign) \in SoundTables
<1>1. PICK held : held = List(t, t.head[s])
  OBVIOUS
<1>2. held \in Seq(DOMAIN t.pool) /\ \A i \in 1..Len(held) : t.pool[held[i]].cell \in Cell
  BY <1>1, HoldsList DEF Holds
<1>3. PICK deltas : deltas = [i \in DOMAIN held |->
                                LET r == t.pool[held[i]]
                                IN  [cell |-> r.cell, n |-> sign * r.n, x |-> sign * r.x]]
  OBVIOUS
<1>4. deltas \in Seq(Delta)
  <2>1. Len(held) \in Nat /\ DOMAIN held = 1..Len(held) /\ \A i \in 1..Len(held) : held[i] \in DOMAIN t.pool
    BY <1>2
  <2>2. ASSUME NEW i \in 1..Len(held), NEW r, r = t.pool[held[i]]
        PROVE  [cell |-> r.cell, n |-> sign * r.n, x |-> sign * r.x] \in Delta
    <3>1. r \in Rec
      BY <2>1, <2>2, TableIs DEF SoundTables
    <3>2. r.n \in Int /\ r.x \in Int
      BY <3>1, RecIs
    <3>3. r.cell \in Cell
      BY <2>2, <1>2
    <3>4. sign * r.n \in Int /\ sign * r.x \in Int
      BY <3>2
    <3> QED BY <3>3, <3>4 DEF Delta
  <2>3. deltas \in [1..Len(held) -> Delta]
    BY <2>1, <2>2, <1>3
  <2> QED BY <2>1, <2>3
<1>5. BumpChain(t, chain, deltas) \in SoundTables
  BY <1>4, BumpChainSound
<1> QED BY <1>1, <1>3, <1>5 DEF MoveSubtree

\* A walk from a member of a set that is closed under the links stays in it.
LEMMA FollowStays ==
    ASSUME NEW S, NEW p, \A v \in S : p[v] \in S \union {NONE}, NEW start \in S \union {NONE}, NEW n \in Nat
    PROVE  Follow(start, p, NONE, n) \in Seq(S)
<1>1. PICK f : /\ f[0] = <<>>
               /\ \A k \in 1..n : f[k] = Further(start, p, NONE, f[k - 1])
               /\ Follow(start, p, NONE, n) = f[n]
  BY FollowWalks
<1> DEFINE Bad == {k \in 0..n : f[k] \notin Seq(S)}
<1> SUFFICES ASSUME Bad # {} PROVE FALSE
  <2>1. n \in 0..n
    OBVIOUS
  <2> QED BY <2>1, <1>1
<1>2. PICK k \in Bad : \A l \in Bad : k <= l
  <2>1. Bad \subseteq Nat
    OBVIOUS
  <2> HIDE DEF Bad
  <2> QED BY <2>1, LeastOf
<1>3. k \in 0..n /\ f[k] \notin Seq(S) /\ k # 0
  <2>1. <<>> \in Seq(S)
    OBVIOUS
  <2> QED BY <2>1, <1>1, <1>2
<1>4. k \in 1..n /\ k - 1 \in 0..n /\ ~ (k <= k - 1)
  BY <1>3
<1>5. f[k - 1] \in Seq(S)
  BY <1>2, <1>4
<1> HIDE DEF Bad
<1>6. PICK seen \in Seq(S) : seen = f[k - 1]
  BY <1>5
<1>7. f[k] = Further(start, p, NONE, seen)
  BY <1>1, <1>4, <1>6
<1>8. PICK at : at = IF seen = <<>> THEN start ELSE p[Last(seen)]
  OBVIOUS
<1>9. at \in S \union {NONE}
  <2>1. seen # <<>> => Last(seen) \in S
    BY DEF Last
  <2> QED BY <2>1, <1>8
<1>10. f[k] = IF at = NONE THEN seen ELSE Append(seen, at)
  BY <1>7, <1>8 DEF Further
<1> QED BY <1>3, <1>9, <1>10

\* Ancestors are live devices.
LEMMA AncestorsLive ==
    ASSUME SInv, NEW s \in Live \union {NONE}
    PROVE  Ancestors(s) \in Seq(Slot)
<1>1. made \in Nat /\ Live \subseteq Slot /\ \A v \in Live : par[v] \in Live \union {NONE}
  BY MadeIsSlots DEF SInv, Shaped, Parented
<1>2. Ancestors(s) \in Seq(Live)
  BY <1>1, FollowStays DEF Ancestors
<1> QED BY <1>1, <1>2

-----------------------------------------------------------------------------
(* The table stays sound *)

Placed == /\ x \in [Slot -> X \union {NONE}]
          /\ \A s \in Live : x[s] \in X /\ cells[s] \in SUBSET Cell

JobOK == /\ job \in [dev : Slot \union {NONE}, kids : SUBSET Slot, to : X \union {NONE}]
         /\ job.dev = NONE => job.kids = {}

TInv == sparse \in SoundTables /\ Placed /\ JobOK

\* A table without entries.
LEMMA EmptySound == Init => sparse \in SoundTables
<1> SUFFICES ASSUME Init PROVE sparse \in SoundTables
  OBVIOUS
<1>1. sparse = [pool |-> <<>>, head |-> [s \in Slot |-> EMPTY], free |-> EMPTY, agg |-> <<>>]
  BY DEF Init
<1>2. DOMAIN sparse.pool = {} /\ DOMAIN sparse.agg = {} /\ sparse.free = EMPTY
      /\ sparse.head = [s \in Slot |-> EMPTY]
  BY <1>1
<1>3. sparse \in Table
  <2>1. sparse.pool \in Pools
    <3>1. sparse.pool \in [0..(0 - 1) -> Rec]
      BY <1>1
    <3> QED BY <3>1, PoolIs
  <2>2. sparse.agg \in Aggs
    <3>1. sparse.agg \in [{} -> Nat] /\ {} \in SUBSET (Slot \X Cell)
      BY <1>1
    <3> QED BY <3>1, AggIs
  <2> QED BY <2>1, <2>2, <1>1, <1>2 DEF Table, EMPTY
<1>4. Roomy(sparse)
  <2>1. Cardinality({}) = 0
    BY FS_EmptySet
  <2>2. Cardinality(Id) \in Nat /\ Cardinality(Cell) \in Nat
    BY KeysFinite
  <2>3. 0 <= Cardinality(Id) * Cardinality(Cell)
    <3>1. PICK a \in Nat : a = Cardinality(Id)
      BY <2>2
    <3>2. PICK b \in Nat : b = Cardinality(Cell)
      BY <2>2
    <3>3. 0 <= a * b
      OBVIOUS
    <3> QED BY <3>1, <3>2, <3>3
  <2> QED BY <2>1, <2>3, <1>2 DEF Roomy
<1>5. HoldsWith(sparse, NONE, <<>>, <<>>, <<>>)
  <2>1. \A o \in Owner : Firsts(sparse)[o] = EMPTY
    BY <1>2 DEF Firsts, Owner
  <2>2. Chained({}, Nexts(sparse), Firsts(sparse), <<>>, <<>>, <<>>)
    BY <2>1 DEF Chained
  <2>3. Directed(sparse, <<>>) /\ Backed(sparse, <<>>, <<>>, NONE)
    BY <1>2 DEF Directed, Backed
  <2> QED BY <2>2, <2>3, <1>2 DEF HoldsWith
<1>6. SoundBut(sparse, NONE)
  BY <1>4, <1>5 DEF SoundBut
<1> QED BY <1>3, <1>6 DEF SoundTables

LEMMA InitTInv == Init => TInv
<1> SUFFICES ASSUME Init PROVE TInv
  OBVIOUS
<1>1. sparse \in SoundTables
  BY EmptySound
<1>2. Live = {} /\ x = [s \in Slot |-> NONE] /\ job = [dev |-> NONE, kids |-> {}, to |-> NONE]
  BY DEF Init, Live, Idle
<1>3. Placed /\ JobOK
  BY <1>2 DEF Placed, JobOK
<1> QED BY <1>1, <1>3 DEF TInv

\* What a live device carries.
LEMMA PlacedIs ==
    ASSUME SInv, Placed
    PROVE  /\ Live \subseteq Slot /\ DOMAIN x = Slot
           /\ \A s \in Live : x[s] \in X /\ x[s] \in Int /\ -x[s] \in Int /\ cells[s] \in SUBSET Cell
<1>1. Live \subseteq Slot
  BY MadeIsSlots DEF SInv, Shaped
<1>2. \A v \in X : v \in Int /\ -v \in Int
  BY CoordinateAssumption
<1> QED BY <1>1, <1>2 DEF Placed

\* recell keeps the table sound.
LEMMA RefiledSound ==
    ASSUME SInv, TInv, NEW d \in Live, NEW cs \in SUBSET Cell
    PROVE  Refiled(d, cs) \in SoundTables
<1>1. sparse \in SoundTables /\ x[d] \in Int /\ -x[d] \in Int /\ cells[d] \in SUBSET Cell
  BY PlacedIs DEF TInv
<1>2. PICK chain \in Seq(Slot) : chain = Ancestors(d)
  BY AncestorsLive
<1>3. PICK a \in Int : a = x[d]
  BY <1>1
<1>4. PICK b \in Int : b = -x[d]
  BY <1>1
<1>5. PICK own \in SUBSET Cell : own = cells[d]
  BY <1>1
<1>6. Walk(sparse, chain, own, -1, b) \in SoundTables
  <2>1. -1 \in Int
    OBVIOUS
  <2> QED BY <2>1, <1>1, WalkSound
<1>7. Walk(Walk(sparse, chain, own, -1, b), chain, cs, 1, a) \in SoundTables
  BY <1>6, WalkSound
<1> QED BY <1>1, <1>2, <1>3, <1>4, <1>5, <1>7 DEF Refiled

\* insert: a slot is given its cells and its mass enters the chain above it.
LEMMA InsertTInv ==
    ASSUME SInv, SInv', TInv, NEW i \in Id, NEW at \in X, NEW cs \in CellSets, NEW q \in Live \union {NONE},
           Insert(i, at, cs, q)
    PROVE  TInv'
<1>1. PICK d : d = NewSlot
  OBVIOUS
<1>2. /\ cells' = With(cells, d, cs) /\ x' = [x EXCEPT ![d] = at] /\ job' = job
      /\ sparse' = MoveSubtree(SetSelf(sparse, d, cs, at), Ancestors(q), d, 1)
  BY <1>1 DEF Insert
<1>3. Live' = Live \union {d} /\ cells'[d] = cs /\ \A s \in Live : s # d => cells'[s] = cells[s]
  BY <1>2 DEF Live, With
<1>4. d \in Slot
  <2>1. Live' \subseteq Slot
    BY MadeIsSlots, SlotIsNat DEF SInv, Shaped, Live, Slot
  <2> QED BY <2>1, <1>3
<1>5. at \in Int /\ cs \in SUBSET Cell
  BY CoordinateAssumption, CellSetsAssumption
<1>6. sparse' \in SoundTables
  <2>1. sparse \in SoundTables
    BY DEF TInv
  <2>2. SetSelf(sparse, d, cs, at) \in SoundTables
    BY <2>1, <1>4, <1>5, SetSelfSound
  <2>3. PICK chain \in Seq(Slot) : chain = Ancestors(q)
    BY AncestorsLive
  <2>4. MoveSubtree(SetSelf(sparse, d, cs, at), chain, d, 1) \in SoundTables
    BY <2>2, <1>4, MoveSubtreeSound
  <2> QED BY <2>3, <2>4, <1>2
<1>7. Placed'
  <2>1. x \in [Slot -> X \union {NONE}] /\ \A s \in Live : x[s] \in X /\ cells[s] \in SUBSET Cell
    BY DEF TInv, Placed
  <2>2. x' \in [Slot -> X \union {NONE}]
    BY <2>1, <1>2
  <2>3. ASSUME NEW s \in Live' PROVE x'[s] \in X /\ cells'[s] \in SUBSET Cell
    BY <2>1, <1>2, <1>3, <1>4, <1>5
  <2> QED BY <2>2, <2>3 DEF Placed
<1>8. JobOK'
  BY <1>2 DEF TInv, JobOK
<1> QED BY <1>6, <1>7, <1>8 DEF TInv

\* A report that leaves the device where it is in the forest.
LEMMA MoveFastTInv ==
    ASSUME SInv, TInv, NEW d, NEW at \in X, NEW cs \in CellSets, MoveFast(d, at, cs)
    PROVE  TInv'
<1>1. /\ d \in Live /\ cells' = [cells EXCEPT ![d] = cs] /\ x' = [x EXCEPT ![d] = at] /\ job' = job
      /\ sparse' = IF at = x[d] THEN Refiled(d, cs)
                   ELSE Walk(Refiled(d, cs), Ancestors(d), cs, 0, at - x[d])
  BY DEF MoveFast
<1>2. at \in Int /\ cs \in SUBSET Cell
  BY CoordinateAssumption, CellSetsAssumption
<1>3. Live' = Live /\ Live \subseteq Slot /\ \A s \in Live : cells'[s] = IF s = d THEN cs ELSE cells[s]
  BY <1>1, PlacedIs DEF TInv, Live
<1>4. sparse' \in SoundTables
  <2>1. Refiled(d, cs) \in SoundTables
    BY <1>1, <1>2, RefiledSound
  <2>2. PICK chain \in Seq(Slot) : chain = Ancestors(d)
    BY <1>1, AncestorsLive
  <2>3. PICK dx \in Int : dx = at - x[d]
    BY <1>1, <1>2, PlacedIs DEF TInv
  <2>4. Walk(Refiled(d, cs), chain, cs, 0, dx) \in SoundTables
    BY <2>1, <1>2, WalkSound
  <2> QED BY <2>1, <2>2, <2>3, <2>4, <1>1
<1>5. Placed'
  <2>1. x \in [Slot -> X \union {NONE}] /\ \A s \in Live : x[s] \in X /\ cells[s] \in SUBSET Cell
    BY DEF TInv, Placed
  <2>2. x' \in [Slot -> X \union {NONE}]
    BY <2>1, <1>1
  <2>3. ASSUME NEW s \in Live' PROVE x'[s] \in X /\ cells'[s] \in SUBSET Cell
    BY <2>1, <1>1, <1>2, <1>3
  <2> QED BY <2>2, <2>3 DEF Placed
<1>6. JobOK'
  BY <1>1 DEF TInv, JobOK
<1> QED BY <1>4, <1>5, <1>6 DEF TInv

\* A device's own mass leaves its ancestors.
LEMMA BeginUnlinkTInv ==
    ASSUME SInv, TInv, NEW d, NEW cs \in SUBSET Cell, NEW to \in X \union {NONE}, BeginUnlink(d, cs, to)
    PROVE  TInv'
<1>1. /\ d \in Live /\ cells' = [cells EXCEPT ![d] = cs] /\ x' = x
      /\ job' = [dev |-> d, kids |-> {k \in Live : par[k] = d}, to |-> to]
      /\ sparse' = Walk(Refiled(d, cs), Ancestors(par[d]), cs, -1, -x[d])
  BY DEF BeginUnlink
<1>2. Live' = Live /\ Live \subseteq Slot /\ \A s \in Live : cells'[s] = IF s = d THEN cs ELSE cells[s]
  BY <1>1, PlacedIs DEF TInv, Live
<1>3. sparse' \in SoundTables
  <2>1. Refiled(d, cs) \in SoundTables
    BY <1>1, RefiledSound
  <2>2. PICK chain \in Seq(Slot) : chain = Ancestors(par[d])
    <3>1. par[d] \in Live \union {NONE}
      BY <1>1 DEF SInv, Parented
    <3> QED BY <3>1, AncestorsLive
  <2>3. PICK dx \in Int : dx = -x[d]
    BY <1>1, PlacedIs DEF TInv
  <2>4. Walk(Refiled(d, cs), chain, cs, -1, dx) \in SoundTables
    <3>1. -1 \in Int
      OBVIOUS
    <3> QED BY <3>1, <2>1, WalkSound
  <2> QED BY <2>2, <2>3, <2>4, <1>1
<1>4. Placed'
  BY <1>1, <1>2 DEF TInv, Placed
<1>5. JobOK'
  <2>1. d # NONE
    BY <1>1, <1>2, SlotIsNat
  <2> QED BY <2>1, <1>1, <1>2 DEF JobOK
<1> QED BY <1>3, <1>4, <1>5 DEF TInv

\* A child's subtree leaves one chain and joins another.
LEMMA RehomeChildTInv ==
    ASSUME SInv, TInv, NEW k \in Live, NEW q \in Live \union {NONE}, RehomeChild(k, q)
    PROVE  TInv'
<1>1. /\ k \in job.kids /\ cells' = cells /\ x' = x /\ job' = [job EXCEPT !.kids = @ \ {k}]
      /\ sparse' = MoveSubtree(MoveSubtree(sparse, Ancestors(par[job.dev]), k, -1), Ancestors(q), k, 1)
  BY DEF RehomeChild
<1>2. sparse' \in SoundTables
  <2>1. sparse \in SoundTables /\ k \in Slot
    BY PlacedIs DEF TInv
  <2>2. PICK up \in Seq(Slot) : up = Ancestors(par[job.dev])
    <3>1. job.dev # NONE
      BY <1>1 DEF TInv, JobOK
    <3>2. par[job.dev] \in Live \union {NONE}
      BY <3>1 DEF SInv, Detached, Parented
    <3> QED BY <3>2, AncestorsLive
  <2>3. PICK chain \in Seq(Slot) : chain = Ancestors(q)
    BY AncestorsLive
  <2>4. MoveSubtree(sparse, up, k, -1) \in SoundTables
    BY <2>1, MoveSubtreeSound
  <2>5. MoveSubtree(MoveSubtree(sparse, up, k, -1), chain, k, 1) \in SoundTables
    BY <2>1, <2>4, MoveSubtreeSound
  <2> QED BY <2>2, <2>3, <2>5, <1>1
<1>3. Placed'
  BY <1>1 DEF TInv, Placed, Live
<1>4. JobOK'
  BY <1>1 DEF TInv, JobOK
<1> QED BY <1>2, <1>3, <1>4 DEF TInv

\* A removed device leaves nothing behind.
LEMMA FinishRemoveTInv ==
    ASSUME SInv, TInv, FinishRemove
    PROVE  TInv'
<1>1. PICK d : d = job.dev
  OBVIOUS
<1>2. /\ d # NONE /\ cells' = Without(cells, d) /\ x' = [x EXCEPT ![d] = NONE] /\ job' = Idle
      /\ sparse' = DropSlot(SetSelf(sparse, d, cells[d], x[d]), d)
  BY <1>1 DEF FinishRemove
<1>3. d \in Live /\ d \in Slot
  BY <1>1, <1>2, PlacedIs DEF SInv, Detached, TInv
<1>4. sparse' \in SoundTables
  <2>1. sparse \in SoundTables /\ x[d] \in Int /\ cells[d] \in SUBSET Cell
    BY <1>3, PlacedIs DEF TInv
  <2>2. SetSelf(sparse, d, cells[d], x[d]) \in SoundTables
    <3>1. PICK a \in Int : a = x[d]
      BY <2>1
    <3>2. SetSelf(sparse, d, cells[d], a) \in SoundTables
      BY <2>1, <1>3, SetSelfSound
    <3> QED BY <3>1, <3>2
  <2> QED BY <2>2, <1>2, <1>3, DropSlotSound
<1>5. Live' = Live \ {d} /\ \A s \in Live' : cells'[s] = cells[s]
  BY <1>2 DEF Live, Without
<1>6. Placed'
  <2>1. x \in [Slot -> X \union {NONE}] /\ \A s \in Live : x[s] \in X /\ cells[s] \in SUBSET Cell
    BY DEF TInv, Placed
  <2>2. x' \in [Slot -> X \union {NONE}] /\ \A s \in Slot : s # d => x'[s] = x[s]
    BY <2>1, <1>2
  <2>3. Live \subseteq Slot
    BY PlacedIs DEF TInv
  <2> QED BY <2>1, <2>2, <2>3, <1>5 DEF Placed
<1>7. JobOK'
  BY <1>2 DEF JobOK, Idle
<1> QED BY <1>4, <1>6, <1>7 DEF TInv

\* A moved device carries its mass to the chain above its new place.
LEMMA FinishMoveTInv ==
    ASSUME SInv, TInv, NEW q \in Live \union {NONE}, FinishMove(q)
    PROVE  TInv'
<1>1. PICK d : d = job.dev
  OBVIOUS
<1>2. /\ d # NONE /\ job.to # NONE /\ cells' = cells /\ x' = [x EXCEPT ![d] = job.to] /\ job' = Idle
      /\ sparse' = MoveSubtree(SetSelf(SetSelf(sparse, d, cells[d], x[d]), d, cells[d], job.to), Ancestors(q), d, 1)
  BY <1>1 DEF FinishMove
<1>3. d \in Live /\ d \in Slot
  BY <1>1, <1>2, PlacedIs DEF SInv, Detached, TInv
<1>4. job.to \in X /\ job.to \in Int
  <2>1. job.to \in X
    BY <1>2 DEF TInv, JobOK
  <2>2. \A v \in X : v \in Int
    BY CoordinateAssumption
  <2> QED BY <2>1, <2>2
<1>5. sparse' \in SoundTables
  <2>1. sparse \in SoundTables /\ x[d] \in Int /\ cells[d] \in SUBSET Cell
    BY <1>3, PlacedIs DEF TInv
  <2>2. PICK a \in Int : a = x[d]
    BY <2>1
  <2>3. PICK b \in Int : b = job.to
    BY <1>4
  <2>4. SetSelf(sparse, d, cells[d], a) \in SoundTables
    BY <2>1, <1>3, SetSelfSound
  <2>5. SetSelf(SetSelf(sparse, d, cells[d], a), d, cells[d], b) \in SoundTables
    BY <2>1, <2>4, <1>3, SetSelfSound
  <2>6. PICK chain \in Seq(Slot) : chain = Ancestors(q)
    BY AncestorsLive
  <2>7. MoveSubtree(SetSelf(SetSelf(sparse, d, cells[d], a), d, cells[d], b), chain, d, 1) \in SoundTables
    BY <2>5, <1>3, MoveSubtreeSound
  <2> QED BY <2>2, <2>3, <2>6, <2>7, <1>2
<1>6. Placed'
  <2>1. x \in [Slot -> X \union {NONE}] /\ \A s \in Live : x[s] \in X /\ cells[s] \in SUBSET Cell
    BY DEF TInv, Placed
  <2>2. x' \in [Slot -> X \union {NONE}] /\ \A s \in Slot : x'[s] = IF s = d THEN job.to ELSE x[s]
    BY <2>1, <1>2, <1>4
  <2>3. Live' = Live /\ Live \subseteq Slot
    BY <1>2, PlacedIs DEF TInv, Live
  <2> QED BY <2>1, <2>2, <2>3, <1>2, <1>4 DEF Placed
<1>7. JobOK'
  BY <1>2 DEF JobOK, Idle
<1> QED BY <1>5, <1>6, <1>7 DEF TInv

\* Every step keeps the table sound.
LEMMA NextTInv == SInv /\ SInv' /\ TInv /\ [Next]_vars => TInv'
<1> SUFFICES ASSUME SInv, SInv', TInv, [Next]_vars PROVE TInv'
  OBVIOUS
<1>0. \A cs \in CellSets : cs \in SUBSET Cell
  BY CellSetsAssumption
<1>1. ASSUME NEW at \in X, NEW cs \in CellSets, NEW i \in Id, NEW q \in Live \union {NONE},
             Insert(i, at, cs, q)
      PROVE  TInv'
  BY <1>1, InsertTInv
<1>2. ASSUME NEW at \in X, NEW cs \in CellSets, NEW i \in DOMAIN ids, MoveFast(ids[i], at, cs)
      PROVE  TInv'
  BY <1>2, MoveFastTInv
<1>3. ASSUME NEW at \in X, NEW cs \in CellSets, NEW i \in DOMAIN ids, MoveSlow(ids[i], at, cs)
      PROVE  TInv'
  BY <1>0, <1>3, BeginUnlinkTInv DEF MoveSlow
<1>4. ASSUME NEW i \in DOMAIN ids, RemoveDevice(ids[i]) PROVE TInv'
  <2>1. PICK cs \in SUBSET Cell : cs = cells[ids[i]]
    BY <1>4, PlacedIs DEF RemoveDevice, TInv
  <2>2. BeginUnlink(ids[i], cs, NONE)
    BY <2>1, <1>4 DEF RemoveDevice
  <2> QED BY <2>2, BeginUnlinkTInv
<1>5. ASSUME NEW k \in Live, NEW q \in Live \union {NONE}, RehomeChild(k, q) PROVE TInv'
  BY <1>5, RehomeChildTInv
<1>6. CASE FinishRemove
  BY <1>6, FinishRemoveTInv
<1>7. ASSUME NEW q \in Live \union {NONE}, FinishMove(q) PROVE TInv'
  BY <1>7, FinishMoveTInv
<1>8. CASE UNCHANGED vars
  BY <1>8 DEF vars, TInv, Placed, JobOK, Live
<1> QED BY <1>1, <1>2, <1>3, <1>4, <1>5, <1>6, <1>7, <1>8 DEF Next

\* The lists that a sound table's links run along hold every entry once.
LEMMA SoundAccounts == sparse \in SoundTables => EntriesAccounted
<1> SUFFICES ASSUME sparse \in SoundTables PROVE EntriesAccounted
  OBVIOUS
<1>1. PICK t : t = sparse
  OBVIOUS
<1>2. t \in Table /\ SoundBut(t, NONE)
  BY <1>1 DEF SoundTables
<1>3. PICK own, bk, d : HoldsWith(t, NONE, own, bk, d)
  BY <1>2 DEF SoundBut
<1>4. PICK D : D = DOMAIN t.pool
  OBVIOUS
<1>5. own \in [D -> Owner]
  BY <1>3, <1>4 DEF HoldsWith, Chained
<1>6. DOMAIN t.agg \subseteq Slot \X Cell
  BY <1>2, TableIs, AggIs
<1> DEFINE chain == [s \in Slot |-> List(t, t.head[s])]
<1>7. ASSUME NEW s \in Slot
      PROVE  Lists(chain[s], D, Nexts(t), Firsts(t), own, bk, s)
  <2>1. s \in Owner /\ Firsts(t)[s] = t.head[s]
    BY FirstsAre
  <2>2. Lists(List(t, Firsts(t)[s]), D, Nexts(t), Firsts(t), own, bk, s)
    BY <2>1, <1>2, <1>3, <1>4, ListIs
  <2> QED BY <2>1, <2>2
<1>8. Lists(List(t, t.free), D, Nexts(t), Firsts(t), own, bk, NONE)
  <2>1. NONE \in Owner /\ Firsts(t)[NONE] = t.free
    BY FirstsAre
  <2>2. Lists(List(t, Firsts(t)[NONE]), D, Nexts(t), Firsts(t), own, bk, NONE)
    BY <2>1, <1>2, <1>3, <1>4, ListIs
  <2> QED BY <2>1, <2>2
<1> HIDE DEF chain
<1>9. ASSUME NEW s \in Slot, NEW i \in DOMAIN chain[s], NEW e, e = chain[s][i]
      PROVE  /\ <<s, t.pool[e].cell>> \in DOMAIN t.agg /\ t.agg[<<s, t.pool[e].cell>>] = e
             /\ t.pool[e].prev = IF i = 1 THEN EMPTY ELSE chain[s][i - 1]
  <2>1. PICK L : L = chain[s]
    OBVIOUS
  <2>2. Lists(L, D, Nexts(t), Firsts(t), own, bk, s)
    BY <2>1, <1>7
  <2>3. L \in Seq(D) /\ ToSet(L) = {f \in D : own[f] = s}
    BY <2>2 DEF Lists
  <2>4. i \in 1..Len(L) /\ e = L[i] /\ e \in ToSet(L)
    BY <2>1, <2>3, <1>9 DEF ToSet
  <2>5. e \in D /\ own[e] = s /\ s # NONE
    BY <2>3, <2>4, FirstsAre
  <2>6. bk[e] = IF i = 1 THEN EMPTY ELSE L[i - 1]
    BY <2>2, <2>4 DEF Lists
  <2>7. t.pool[e].prev = bk[e]
    BY <2>5, <1>3, <1>4 DEF HoldsWith, Backed
  <2>8. <<own[e], t.pool[e].cell>> \in DOMAIN t.agg /\ t.agg[<<own[e], t.pool[e].cell>>] = e
    BY <2>5, <1>3, <1>4 DEF HoldsWith, Directed
  <2> QED BY <2>1, <2>5, <2>6, <2>7, <2>8
<1>10. ASSUME NEW k \in DOMAIN t.agg PROVE t.agg[k] \in D /\ own[t.agg[k]] = k[1] /\ k[1] \in Slot
  BY <1>3, <1>4, <1>6 DEF HoldsWith, Directed
<1>11. ASSUME NEW k \in DOMAIN t.agg PROVE t.agg[k] \in ToSet(chain[k[1]])
  <2>1. ToSet(chain[k[1]]) = {f \in D : own[f] = k[1]}
    BY <1>7, <1>10 DEF Lists
  <2> QED BY <2>1, <1>10
<1>12. PICK inUse : inUse = {t.agg[k] : k \in DOMAIN t.agg}
  OBVIOUS
<1>13. inUse = {f \in D : own[f] # NONE}
  <2>1. ASSUME NEW f \in inUse PROVE f \in D /\ own[f] # NONE
    <3>1. PICK k \in DOMAIN t.agg : f = t.agg[k]
      BY <1>12
    <3> QED BY <3>1, <1>10, SlotIsNat
  <2>2. ASSUME NEW f \in D, own[f] # NONE PROVE f \in inUse
    <3>1. <<own[f], t.pool[f].cell>> \in DOMAIN t.agg /\ t.agg[<<own[f], t.pool[f].cell>>] = f
      BY <2>2, <1>3, <1>4 DEF HoldsWith, Directed
    <3> QED BY <3>1, <1>12
  <2> QED BY <2>1, <2>2
<1>14. ToSet(List(t, t.free)) = {f \in D : own[f] = NONE}
  BY <1>8 DEF Lists
<1>15. inUse \union ToSet(List(t, t.free)) = D /\ inUse \cap ToSet(List(t, t.free)) = {}
  BY <1>13, <1>14
<1>16. Cardinality(DOMAIN t.pool) <= Cardinality(Id) * Cardinality(Cell)
  BY <1>2 DEF SoundBut, Roomy
<1> QED BY <1>1, <1>4, <1>9, <1>11, <1>12, <1>15, <1>16 DEF EntriesAccounted, chain

-----------------------------------------------------------------------------
\* In every state the links of the pool run along chains that are linked both ways, the
\* directory has what the chains hold, and nothing is filed that is no cell.
THEOREM SpecTInv == Spec => []TInv
<1>1. Init /\ [][Next]_vars => []SInv
  BY SpecSInv DEF Spec
<1> QED BY <1>1, InitTInv, NextTInv, PTL DEF Spec

\* Every entry of the pool is on the chain of one device or on the free list, once, and the
\* directory finds it, in the middle of a repair and however often slots and entries were
\* recycled; the pool never outgrows the devices times the cells.
THEOREM EntriesStayAccounted == Spec => []EntriesAccounted
<1>1. TInv => EntriesAccounted
  BY SoundAccounts DEF TInv
<1> QED BY <1>1, SpecTInv, PTL
=============================================================================
