--------------------------- MODULE NetTreeProofs ---------------------------
(***************************************************************************)
(* The invariants of the hierarchy of nets, proved for every set of        *)
(* devices and positions, every number of levels and every radius and      *)
(* slack.  The nets need only that a squared distance is a symmetric       *)
(* integer; the radius bound, that squares obey the parallelogram law.     *)
(***************************************************************************)
EXTENDS TreeVerify, WellFoundedInduction, TLAPS

USE DEF Level, Leaf, Dead

\* Squared distance is an integer and does not depend on the order of its ends.
LEMMA D2Symmetric ==
    ASSUME NEW p \in Pos, NEW q \in Pos
    PROVE  D2(p, q) \in Int /\ D2(p, q) = D2(q, p)
<1>1. p[1] \in Int /\ p[2] \in Int /\ q[1] \in Int /\ q[2] \in Int
  BY PosAssumption
<1>2. ASSUME NEW a \in Int, NEW b \in Int
      PROVE  (a - b) * (a - b) \in Int /\ (a - b) * (a - b) = (b - a) * (b - a)
  <2>1. b - a = -(a - b)
    OBVIOUS
  <2>2. QED BY <2>1
<1> QED BY <1>1, <1>2 DEF D2

\* A placement leaves the placed device out of reach of every center of every
\* level it becomes a center of, provided the levels the sweep skipped were
\* already clear of it.
LEMMA PlacementIsSeparated ==
    ASSUME TypeOK,
           NEW lst \in [Level -> SUBSET live], NEW s \in Dev, NEW p \in Pos,
           NEW from \in Int, NEW l \in 0..Leaf, NEW q,
           Descend(lst, s, p, from, l, q),
           \A z \in Level : z > from =>
              \A c \in lst[z] \ {s} : D2(pos[c], p) > R2[z]
    PROVE  \A z \in Level : z >= l =>
              \A c \in lst[z] \ {s} : D2(pos[c], p) > R2[z]
<1> SUFFICES ASSUME NEW z \in Level, z >= l, z <= from, NEW c \in lst[z] \ {s}
             PROVE  D2(pos[c], p) > R2[z]
  BY ZoomAssumption
<1>1. Within(lst, z, p, s) = {}
  BY ZoomAssumption DEF Descend
<1>2. ~ (D2(pos[c], p) <= R2[z])
  BY <1>1 DEF Within
<1>3. D2(pos[c], p) \in Int /\ R2[z] \in Int
  BY D2Symmetric, RadiusAssumption DEF TypeOK
<1> QED BY <1>2, <1>3

\* A placement makes a root of level 0 or finds a parent that is a center of the
\* level above and covers the device.
LEMMA PlacementIsCovered ==
    ASSUME NEW lst \in [Level -> SUBSET live], NEW s \in Dev, NEW p \in Pos,
           NEW from \in Int, NEW l \in 0..Leaf, NEW q,
           Descend(lst, s, p, from, l, q), TypeOK, from >= 0
    PROVE  /\ l <= from + 1
           /\ \/ l = 0 /\ q = NONE
              \/ /\ l >= 1 /\ l - 1 \in Level
                 /\ q \in lst[l - 1] /\ q # s
                 /\ D2(pos[q], p) <= H2[l - 1]
<1>1. CASE l = 0 /\ q = NONE
  BY <1>1
<1>2. CASE ~ (l = 0 /\ q = NONE)
  <2>1. /\ l \in 1..((IF from > MaxZoom THEN MaxZoom ELSE from) + 1)
        /\ IsNearest(q, Within(lst, l - 1, p, s), p)
    BY <1>2 DEF Descend
  <2>2. l - 1 \in Level /\ l <= from + 1
    BY <2>1, ZoomAssumption
  <2>3. q \in lst[l - 1] \ {s} /\ D2(pos[q], p) <= R2[l - 1]
    BY <2>1 DEF IsNearest, Within
  <2>4. D2(pos[q], p) \in Int /\ R2[l - 1] \in Int /\ H2[l - 1] \in Int
    BY <2>2, <2>3, D2Symmetric, RadiusAssumption DEF TypeOK
  <2>5. D2(pos[q], p) <= H2[l - 1]
    BY <2>2, <2>3, <2>4, RadiusAssumption
  <2> QED BY <2>1, <2>2, <2>3, <2>5
<1> QED BY <1>1, <1>2

-----------------------------------------------------------------------------
(* One lemma per action: the inductive invariant is preserved *)

\* The empty index.
LEMMA InitIInv == Init => IInv
<1> SUFFICES ASSUME Init PROVE IInv
  OBVIOUS
<1>1. TypeOK
  BY ZoomAssumption DEF Init, TypeOK, Idle
<1>2. JobOK /\ GridListsCenters /\ Separation /\ Covering
  BY <1>1 DEF Init, JobOK, GridListsCenters, Separation, Covering, Placed, Idle
<1> QED BY <1>1, <1>2 DEF IInv

\* Inserting a device leaves every net separated and covered.
LEMMA InsertIInv ==
    ASSUME IInv, NEW d \in Dev, NEW p \in Pos, Insert(d, p)
    PROVE  IInv'
<1> USE DEF IInv
<1>1. PICK l \in 0..Leaf, q \in Dev \union {NONE} :
          /\ Descend(listed, d, p, MaxZoom, l, q)
          /\ tz' = [tz EXCEPT ![d] = l]
          /\ par' = [par EXCEPT ![d] = q]
          /\ listed' = ListedFrom(listed, d, l)
  BY DEF Insert, Link
<1>2. /\ job = Idle /\ job' = Idle /\ d \notin live
      /\ live' = live \union {d}
      /\ pos' = [pos EXCEPT ![d] = p]
  BY DEF Insert
<1>3. listed \in [Level -> SUBSET live]
  BY DEF GridListsCenters, Placed, TypeOK
<1>4. \A z \in Level : z >= l => \A c \in listed[z] \ {d} : D2(pos[c], p) > R2[z]
  BY <1>1, <1>3, ZoomAssumption, PlacementIsSeparated
<1>5. \/ l = 0 /\ q = NONE
      \/ /\ l >= 1 /\ l - 1 \in Level
         /\ q \in listed[l - 1] /\ q # d
         /\ D2(pos[q], p) <= H2[l - 1]
  BY <1>1, <1>3, ZoomAssumption, PlacementIsCovered
<1>6. TypeOK'
  BY <1>1, <1>2 DEF TypeOK, ListedFrom
<1>7. JobOK'
  BY <1>2, NoneAssumption DEF JobOK, Idle
<1>8. job.dev = NONE /\ job.kids = {} /\ Placed = live /\ Placed' = live'
  BY <1>2, NoneAssumption DEF Idle, Placed, TypeOK
<1>9. GridListsCenters'
  BY <1>1, <1>2, <1>8, ZoomAssumption DEF GridListsCenters, ListedFrom, TypeOK
<1>10. Separation'
  <2> SUFFICES ASSUME NEW z \in Level, NEW a \in listed'[z], NEW b \in listed'[z], a # b
               PROVE  D2(pos'[a], pos'[b]) > R2[z]
    BY DEF Separation
  <2>1. a \in live' /\ b \in live' /\ pos'[a] \in Pos /\ pos'[b] \in Pos
    BY <1>6, <1>9 DEF TypeOK, GridListsCenters, Placed
  <2>2. CASE a # d /\ b # d
    BY <2>1, <2>2, <1>1, <1>2 DEF Separation, ListedFrom, TypeOK
  <2>3. CASE a = d
    <3>1. z >= l /\ b \in listed[z] \ {d}
      BY <2>3, <1>1, <1>2, <1>3 DEF ListedFrom
    <3>2. D2(pos[b], p) > R2[z] /\ pos'[b] = pos[b] /\ pos'[a] = p
      BY <3>1, <2>3, <1>2, <1>4 DEF TypeOK
    <3> QED BY <3>2, <2>1, D2Symmetric
  <2>4. CASE b = d
    <3>1. z >= l /\ a \in listed[z] \ {d}
      BY <2>4, <1>1, <1>2, <1>3 DEF ListedFrom
    <3> QED BY <3>1, <2>4, <1>2, <1>4, <1>3 DEF TypeOK
  <2> QED BY <2>2, <2>3, <2>4
<1>11. Covering'
  <2> SUFFICES ASSUME NEW e \in live'
               PROVE  \/ par'[e] = NONE /\ tz'[e] = 0
                      \/ /\ par'[e] \in live'
                         /\ tz'[par'[e]] < tz'[e]
                         /\ D2(pos'[par'[e]], pos'[e]) <= H2[tz'[e] - 1]
    BY <1>8 DEF Covering
  <2>1. job'.dev = NONE /\ job'.kids = {}
    BY <1>2 DEF Idle
  <2>2. CASE e = d
    <3>1. CASE l = 0 /\ q = NONE
      BY <3>1, <2>2, <1>1, <1>2 DEF TypeOK
    <3>2. CASE ~ (l = 0 /\ q = NONE)
      <4>1. q \in live /\ tz[q] <= l - 1 /\ tz[q] \in 0..Leaf
        BY <3>2, <1>5, <1>8 DEF GridListsCenters, TypeOK
      <4>2. par'[e] = q /\ tz'[e] = l /\ tz'[q] = tz[q] /\ pos'[q] = pos[q] /\ pos'[e] = p
        BY <4>1, <2>2, <1>1, <1>2 DEF TypeOK
      <4> QED BY <4>1, <4>2, <3>2, <1>5, <1>2, <2>1, NoneAssumption DEF TypeOK
    <3> QED BY <3>1, <3>2
  <2>3. CASE e # d
    <3>1. e \in live /\ par'[e] = par[e] /\ tz'[e] = tz[e] /\ pos'[e] = pos[e]
      BY <2>3, <1>1, <1>2 DEF TypeOK
    <3>2. par[e] \in live => /\ par[e] # d /\ tz'[par[e]] = tz[par[e]]
                             /\ pos'[par[e]] = pos[par[e]] /\ par[e] # NONE
      BY <1>1, <1>2, NoneAssumption DEF TypeOK
    <3> QED BY <3>1, <3>2, <1>2, <1>8, <2>1 DEF Covering
  <2> QED BY <2>2, <2>3
<1> QED BY <1>6, <1>7, <1>9, <1>10, <1>11

\* A fast move keeps its place in the hierarchy without breaking any net.
LEMMA MoveFastIInv ==
    ASSUME IInv, NEW d \in Dev, NEW p \in Pos, MoveFast(d, p)
    PROVE  IInv'
<1> USE DEF IInv
<1>1. /\ job = Idle /\ job' = job /\ d \in live /\ live' = live
      /\ pos' = [pos EXCEPT ![d] = p] /\ tz' = tz /\ par' = par /\ listed' = listed
      /\ StaysLegal(d, p)
  BY DEF MoveFast
<1>2. TypeOK' /\ JobOK'
  BY <1>1, NoneAssumption DEF TypeOK, JobOK, Idle
<1>3. job.dev = NONE /\ job.kids = {} /\ Placed = live /\ Placed' = live
  BY <1>1, NoneAssumption DEF Idle, Placed, TypeOK
<1>4. GridListsCenters'
  BY <1>1, <1>3 DEF GridListsCenters
<1>5. ASSUME NEW z \in Level, d \in listed[z], NEW c \in listed[z], c # d
      PROVE  D2(pos[c], p) > R2[z]
  <2>1. z \in tz[d]..MaxZoom
    BY <1>5, <1>1, <1>3, ZoomAssumption DEF GridListsCenters, TypeOK
  <2>2. ~ (D2(pos[c], p) <= R2[z])
    BY <2>1, <1>5, <1>1 DEF StaysLegal, Within
  <2>3. pos[c] \in Pos
    BY <1>5, <1>3 DEF GridListsCenters, TypeOK
  <2> QED BY <2>2, <2>3, D2Symmetric, RadiusAssumption
<1>6. Separation'
  <2> SUFFICES ASSUME NEW z \in Level, NEW a \in listed[z], NEW b \in listed[z], a # b
               PROVE  D2(pos'[a], pos'[b]) > R2[z]
    BY <1>1 DEF Separation
  <2>1. a \in live /\ b \in live /\ pos[a] \in Pos /\ pos[b] \in Pos
    BY <1>3 DEF TypeOK, GridListsCenters
  <2>2. CASE a # d /\ b # d
    BY <2>1, <2>2, <1>1 DEF Separation, TypeOK
  <2>3. CASE a = d
    BY <2>1, <2>3, <1>1, <1>5, D2Symmetric DEF TypeOK
  <2>4. CASE b = d
    BY <2>1, <2>4, <1>1, <1>5 DEF TypeOK
  <2> QED BY <2>2, <2>3, <2>4
<1>7. Covering'
  <2> SUFFICES ASSUME NEW e \in live, par[e] \in live
               PROVE  D2(pos'[par[e]], pos'[e]) <= H2[tz[e] - 1]
    BY <1>1, <1>3 DEF Covering
  <2>1. /\ tz[par[e]] < tz[e] /\ par[e] # NONE
        /\ D2(pos[par[e]], pos[e]) <= H2[tz[e] - 1]
        /\ pos[e] \in Pos /\ pos[par[e]] \in Pos
    BY <1>3, NoneAssumption DEF Covering, TypeOK
  <2>2. CASE e = d
    BY <2>1, <2>2, <1>1 DEF StaysLegal, TypeOK
  <2>3. CASE par[e] = d /\ e # d
    <3>1. D2(pos[e], p) <= H2[tz[e] - 1]
      BY <2>3, <1>1 DEF StaysLegal, Children
    <3> QED BY <3>1, <2>1, <2>3, <1>1, D2Symmetric DEF TypeOK
  <2>4. CASE par[e] # d /\ e # d
    BY <2>1, <2>4, <1>1 DEF TypeOK
  <2> QED BY <2>2, <2>3, <2>4
<1> QED BY <1>2, <1>4, <1>6, <1>7

\* Detaching a device takes it out of the grid and leaves its children as the
\* ones to be re-homed.
LEMMA BeginUnlinkIInv ==
    ASSUME IInv, job = Idle, NEW d \in live, NEW to \in Pos \union {NONE},
           BeginUnlink(d, to)
    PROVE  IInv'
<1> USE DEF IInv
<1>1. /\ listed' = Unlisted(listed, d)
      /\ job' = [dev |-> d, kids |-> Children(d), to |-> to]
      /\ live' = live /\ pos' = pos /\ tz' = tz /\ par' = par
  BY DEF BeginUnlink
<1>2. d \in Dev /\ d # NONE /\ tz[d] \in 0..Leaf
  BY NoneAssumption DEF TypeOK
<1>3. job.dev = NONE /\ job.kids = {} /\ Placed = live /\ Placed' = live \ {d}
  BY <1>1, NoneAssumption DEF Idle, Placed, TypeOK
<1>4. TypeOK'
  BY <1>1, <1>2 DEF TypeOK, Unlisted, Children
<1>5. d \notin Children(d)
  BY <1>2, <1>3 DEF Children, Covering, TypeOK
<1>6. JobOK'
  BY <1>1, <1>2, <1>3, <1>5 DEF JobOK, Children
<1>7. GridListsCenters'
  BY <1>1, <1>2, <1>3, ZoomAssumption DEF GridListsCenters, Unlisted, TypeOK
<1>8. Separation'
  BY <1>1 DEF Separation, Unlisted
<1>9. Covering'
  BY <1>1, <1>3 DEF Covering
<1> QED BY <1>4, <1>6, <1>7, <1>8, <1>9

\* Re-homing a child: the levels the sweep skips are the ones the child was
\* already a center of, so they are clear of it; the level it gets is no finer
\* than the one it had, so its own children stay below it.
LEMMA RehomeChildIInv ==
    ASSUME IInv, NEW c \in Dev, RehomeChild(c)
    PROVE  IInv'
<1> USE DEF IInv
<1> DEFINE lst == Unlisted(listed, c)
<1>1. PICK l \in 0..Leaf, q \in Dev \union {NONE} :
          /\ Descend(lst, c, pos[c], tz[c] - 1, l, q)
          /\ tz' = [tz EXCEPT ![c] = l]
          /\ par' = [par EXCEPT ![c] = q]
          /\ listed' = ListedFrom(lst, c, l)
  BY DEF RehomeChild, Link
<1>2. /\ c \in job.kids /\ live' = live /\ pos' = pos
      /\ job' = [job EXCEPT !.kids = @ \ {c}]
  BY DEF RehomeChild, IsNextKid
<1>3. /\ job.dev # NONE /\ job.dev \in live /\ job.dev \in Dev
      /\ c \in live /\ c # job.dev /\ c \in Placed
  BY <1>2, NoneAssumption DEF JobOK, Idle, Placed, TypeOK
<1>4. /\ job'.dev = job.dev /\ job'.kids = job.kids \ {c} /\ Placed' = Placed
  BY <1>2 DEF TypeOK, Placed
<1>5. par[c] = job.dev /\ tz[c] \in 1..Leaf /\ pos[c] \in Pos
  BY <1>2, <1>3, NoneAssumption DEF JobOK, Covering, TypeOK
<1>6. /\ lst \in [Level -> SUBSET live]
      /\ \A z \in Level : lst[z] = listed[z] \ {c}
  BY <1>3, ZoomAssumption DEF Unlisted, GridListsCenters, Placed, TypeOK
<1> HIDE DEF lst
<1>7. \A z \in Level : z > tz[c] - 1 => \A b \in lst[z] \ {c} : D2(pos[b], pos[c]) > R2[z]
  BY <1>3, <1>5, <1>6 DEF Separation, GridListsCenters, TypeOK
<1>8. \A z \in Level : z >= l => \A b \in lst[z] \ {c} : D2(pos[b], pos[c]) > R2[z]
  <2>1. PICK f \in Int : f = tz[c] - 1
    BY <1>5
  <2>2. \A z \in Level : z > f => \A b \in lst[z] \ {c} : D2(pos[b], pos[c]) > R2[z]
    BY <2>1, <1>7
  <2>3. Descend(lst, c, pos[c], f, l, q)
    BY <2>1, <1>1
  <2> QED BY <2>2, <2>3, <1>5, <1>6, PlacementIsSeparated
<1>9. /\ l <= tz[c]
      /\ \/ l = 0 /\ q = NONE
         \/ /\ l >= 1 /\ l - 1 \in Level
            /\ q \in lst[l - 1] /\ q # c
            /\ D2(pos[q], pos[c]) <= H2[l - 1]
  <2>1. PICK f \in Int : f = tz[c] - 1 /\ f >= 0 /\ f + 1 = tz[c]
    BY <1>5
  <2>2. Descend(lst, c, pos[c], f, l, q)
    BY <2>1, <1>1
  <2>3. /\ l <= f + 1
        /\ \/ l = 0 /\ q = NONE
           \/ /\ l >= 1 /\ l - 1 \in Level
              /\ q \in lst[l - 1] /\ q # c
              /\ D2(pos[q], pos[c]) <= H2[l - 1]
    BY <2>1, <2>2, <1>5, <1>6, PlacementIsCovered
  <2> QED BY <2>1, <2>3
<1>10. TypeOK'
  BY <1>1, <1>2, <1>6 DEF TypeOK, ListedFrom
<1>11. JobOK'
  <2>1. q # job.dev
    BY <1>3, <1>6, <1>9, NoneAssumption DEF GridListsCenters, Placed
  <2> QED BY <2>1, <1>1, <1>2, <1>3, <1>4 DEF JobOK, TypeOK, Placed
<1>12. GridListsCenters'
  BY <1>1, <1>3, <1>4, <1>6, ZoomAssumption DEF GridListsCenters, ListedFrom, TypeOK, Placed
<1>13. Separation'
  <2> SUFFICES ASSUME NEW z \in Level, NEW a \in listed'[z], NEW b \in listed'[z], a # b
               PROVE  D2(pos[a], pos[b]) > R2[z]
    BY <1>2 DEF Separation
  <2>1. a \in live /\ b \in live /\ pos[a] \in Pos /\ pos[b] \in Pos
    BY <1>2, <1>12, <1>10 DEF TypeOK, GridListsCenters, Placed
  <2>2. CASE a # c /\ b # c
    BY <2>1, <2>2, <1>1, <1>6 DEF Separation, ListedFrom
  <2>3. CASE a = c
    <3>1. z >= l /\ b \in lst[z] \ {c}
      BY <2>3, <1>1, <1>6 DEF ListedFrom
    <3> QED BY <3>1, <2>1, <2>3, <1>8, D2Symmetric
  <2>4. CASE b = c
    <3>1. z >= l /\ a \in lst[z] \ {c}
      BY <2>4, <1>1, <1>6 DEF ListedFrom
    <3> QED BY <3>1, <2>4, <1>8
  <2> QED BY <2>2, <2>3, <2>4
<1>14. Covering'
  <2> SUFFICES ASSUME NEW e \in Placed
               PROVE  \/ par'[e] = NONE /\ tz'[e] = 0
                      \/ /\ par'[e] \in live
                         /\ tz'[par'[e]] < tz'[e]
                         /\ D2(pos[par'[e]], pos[e]) <= H2[tz'[e] - 1]
    BY <1>2, <1>4 DEF Covering
  <2>1. CASE e = c
    <3>1. CASE l = 0 /\ q = NONE
      BY <3>1, <2>1, <1>1 DEF TypeOK
    <3>2. CASE ~ (l = 0 /\ q = NONE)
      <4>1. q \in live /\ tz[q] <= l - 1 /\ tz[q] \in 0..Leaf /\ q # job.dev
        BY <3>2, <1>6, <1>9 DEF GridListsCenters, TypeOK, Placed
      <4>2. par'[e] = q /\ tz'[e] = l /\ tz'[q] = tz[q]
        BY <4>1, <3>2, <1>9, <2>1, <1>1, <1>3 DEF TypeOK
      <4> QED BY <4>1, <4>2, <3>2, <2>1, <1>9
    <3> QED BY <3>1, <3>2
  <2>2. CASE e # c
    <3>1. par'[e] = par[e] /\ tz'[e] = tz[e]
      BY <2>2, <1>1 DEF TypeOK
    <3>2. par[e] \in live => tz'[par[e]] \in 0..Leaf /\ tz'[par[e]] <= tz[par[e]]
      BY <1>1, <1>5, <1>9 DEF TypeOK
    <3>3. par[e] \in live => tz[par[e]] \in 0..Leaf /\ tz[e] \in 0..Leaf
      BY DEF TypeOK, Placed
    <3> QED BY <3>1, <3>2, <3>3, <2>2 DEF Covering
  <2> QED BY <2>1, <2>2
<1> QED BY <1>10, <1>11, <1>12, <1>13, <1>14

\* Nothing refers to a device whose last child has been re-homed.
LEMMA FinishRemoveIInv ==
    ASSUME IInv, FinishRemove
    PROVE  IInv'
<1> USE DEF IInv
<1> DEFINE d == job.dev
<1>1. /\ d # NONE /\ job.kids = {} /\ d \in live /\ d \in Dev
      /\ live' = live \ {d} /\ listed' = listed /\ job' = Idle
      /\ pos' = [pos EXCEPT ![d] = NONE]
      /\ tz' = [tz EXCEPT ![d] = Dead]
      /\ par' = [par EXCEPT ![d] = NONE]
  BY DEF FinishRemove, JobOK, TypeOK
<1>2. TypeOK' /\ JobOK'
  BY <1>1, NoneAssumption DEF TypeOK, JobOK, Idle
<1>7. \A e \in live \ {d} : par[e] # d
  BY <1>1 DEF JobOK, Placed
<1>3. Placed' = Placed /\ Placed = live \ {d} /\ job'.dev = NONE /\ job'.kids = {}
  BY <1>1, NoneAssumption DEF Placed, Idle, TypeOK
<1>4. GridListsCenters'
  BY <1>1, <1>3 DEF GridListsCenters, TypeOK
<1>5. Separation'
  BY <1>1, <1>3 DEF Separation, GridListsCenters, TypeOK
<1>6. Covering'
  BY <1>1, <1>3, <1>7, NoneAssumption DEF Covering, TypeOK
<1> QED BY <1>2, <1>4, <1>5, <1>6

\* The repositioned device is placed like a new one; no child points at it.
LEMMA FinishMoveIInv ==
    ASSUME IInv, FinishMove
    PROVE  IInv'
<1> USE DEF IInv
<1> DEFINE d == job.dev
           p == job.to
<1>1. PICK l \in 0..Leaf, q \in Dev \union {NONE} :
          /\ Descend(listed, d, p, MaxZoom, l, q)
          /\ tz' = [tz EXCEPT ![d] = l]
          /\ par' = [par EXCEPT ![d] = q]
          /\ listed' = ListedFrom(listed, d, l)
  BY DEF FinishMove, Link
<1>2. /\ d # NONE /\ job.kids = {} /\ d \in live /\ d \in Dev /\ p \in Pos
      /\ live' = live /\ job' = Idle /\ pos' = [pos EXCEPT ![d] = p]
  BY DEF FinishMove, JobOK, TypeOK
<1>3. listed \in [Level -> SUBSET live]
  BY DEF GridListsCenters, Placed, TypeOK
<1>4. \A z \in Level : d \notin listed[z]
  BY DEF GridListsCenters, Placed
<1>5. \A e \in live \ {d} : par[e] # d
  BY <1>2 DEF JobOK, Placed
<1> HIDE DEF d, p
<1>6. \A z \in Level : z >= l => \A c \in listed[z] \ {d} : D2(pos[c], p) > R2[z]
  BY <1>1, <1>2, <1>3, ZoomAssumption, PlacementIsSeparated
<1>7. \/ l = 0 /\ q = NONE
      \/ /\ l >= 1 /\ l - 1 \in Level
         /\ q \in listed[l - 1] /\ q # d
         /\ D2(pos[q], p) <= H2[l - 1]
  BY <1>1, <1>2, <1>3, ZoomAssumption, PlacementIsCovered
<1>8. TypeOK' /\ JobOK'
  BY <1>1, <1>2, NoneAssumption DEF TypeOK, JobOK, Idle, ListedFrom
<1>9. Placed = live \ {d} /\ Placed' = live
  BY <1>2, NoneAssumption DEF Placed, Idle, TypeOK, d
<1>10. GridListsCenters'
  BY <1>1, <1>2, <1>9, ZoomAssumption DEF GridListsCenters, ListedFrom, TypeOK
<1>11. Separation'
  <2> SUFFICES ASSUME NEW z \in Level, NEW a \in listed'[z], NEW b \in listed'[z], a # b
               PROVE  D2(pos'[a], pos'[b]) > R2[z]
    BY DEF Separation
  <2>1. a \in live /\ b \in live /\ pos'[a] \in Pos /\ pos'[b] \in Pos
    BY <1>2, <1>8, <1>9, <1>10 DEF TypeOK, GridListsCenters
  <2>2. CASE a # d /\ b # d
    BY <2>1, <2>2, <1>1, <1>2 DEF Separation, ListedFrom, TypeOK
  <2>3. CASE a = d
    <3>1. z >= l /\ b \in listed[z] \ {d}
      BY <2>3, <1>1, <1>3, <1>4 DEF ListedFrom
    <3>2. D2(pos[b], p) > R2[z] /\ pos'[b] = pos[b] /\ pos'[a] = p
      BY <3>1, <2>3, <1>2, <1>6 DEF TypeOK
    <3> QED BY <3>2, <2>1, D2Symmetric
  <2>4. CASE b = d
    <3>1. z >= l /\ a \in listed[z] \ {d}
      BY <2>4, <1>1, <1>3, <1>4 DEF ListedFrom
    <3> QED BY <3>1, <2>4, <1>2, <1>3, <1>6 DEF TypeOK
  <2> QED BY <2>2, <2>3, <2>4
<1>12. Covering'
  <2> SUFFICES ASSUME NEW e \in live
               PROVE  \/ par'[e] = NONE /\ tz'[e] = 0
                      \/ /\ par'[e] \in live
                         /\ tz'[par'[e]] < tz'[e]
                         /\ D2(pos'[par'[e]], pos'[e]) <= H2[tz'[e] - 1]
    BY <1>2, <1>9 DEF Covering
  <2>1. CASE e = d
    <3>1. CASE l = 0 /\ q = NONE
      BY <3>1, <2>1, <1>1, <1>2 DEF TypeOK
    <3>2. CASE ~ (l = 0 /\ q = NONE)
      <4>1. q \in live /\ tz[q] <= l - 1 /\ tz[q] \in 0..Leaf /\ q # d
        BY <3>2, <1>7, <1>9 DEF GridListsCenters, TypeOK
      <4>2. par'[e] = q /\ tz'[e] = l /\ tz'[q] = tz[q] /\ pos'[q] = pos[q] /\ pos'[e] = p
        BY <4>1, <2>1, <1>1, <1>2 DEF TypeOK
      <4> QED BY <4>1, <4>2, <3>2, <1>7
    <3> QED BY <3>1, <3>2
  <2>2. CASE e # d
    <3>1. e \in Placed /\ par'[e] = par[e] /\ tz'[e] = tz[e] /\ pos'[e] = pos[e]
      BY <2>2, <1>1, <1>2, <1>9 DEF TypeOK
    <3>2. par[e] \in live => tz'[par[e]] = tz[par[e]] /\ pos'[par[e]] = pos[par[e]]
      BY <2>2, <1>1, <1>2, <1>5 DEF TypeOK
    <3> QED BY <3>1, <3>2 DEF Covering
  <2> QED BY <2>1, <2>2
<1> QED BY <1>8, <1>10, <1>11, <1>12

-----------------------------------------------------------------------------
(* The theorems *)

\* The inductive invariant holds in every state, between the iterations of a
\* repair as well as between operations.
THEOREM SpecIInv == Spec => []IInv
<1>1. IInv /\ [Next]_vars => IInv'
  <2> SUFFICES ASSUME IInv, [Next]_vars PROVE IInv'
    OBVIOUS
  <2>1. ASSUME NEW d \in Dev, NEW p \in Pos, Insert(d, p) PROVE IInv'
    BY <2>1, InsertIInv
  <2>2. ASSUME NEW d \in Dev, NEW p \in Pos, MoveFast(d, p) PROVE IInv'
    BY <2>2, MoveFastIInv
  <2>3. ASSUME NEW d \in Dev, NEW p \in Pos, MoveSlow(d, p) PROVE IInv'
    BY <2>3, BeginUnlinkIInv DEF MoveSlow
  <2>4. ASSUME NEW d \in Dev, RemoveDevice(d) PROVE IInv'
    BY <2>4, BeginUnlinkIInv DEF RemoveDevice
  <2>5. ASSUME NEW c \in Dev, RehomeChild(c) PROVE IInv'
    BY <2>5, RehomeChildIInv
  <2>6. CASE FinishRemove
    BY <2>6, FinishRemoveIInv
  <2>7. CASE FinishMove
    BY <2>7, FinishMoveIInv
  <2>8. CASE UNCHANGED vars
    BY <2>8 DEF vars, IInv, TypeOK, JobOK, GridListsCenters, Separation, Covering, Placed
  <2> QED BY <2>1, <2>2, <2>3, <2>4, <2>5, <2>6, <2>7, <2>8 DEF Next
<1> QED BY InitIInv, <1>1, PTL DEF Spec

\* Every value the index keeps stays in its range.
THEOREM TypeCorrect == Spec => []TypeOK
BY SpecIInv, PTL DEF IInv

\* The grid always lists exactly the centers of each level, so the assertions of
\* grid_del_at never fire and the sweep never sees a device that is gone.
THEOREM GridCoherent == Spec => []GridListsCenters
BY SpecIInv, PTL DEF IInv

\* No two centers of a level ever come within its radius.
THEOREM NetsSeparated == Spec => []Separation
BY SpecIInv, PTL DEF IInv

\* Every device is always a root of level 0 or covered from the level above.
THEOREM NetsCovering == Spec => []Covering
BY SpecIInv, PTL DEF IInv

\* While unlink re-homes the children of a device, one by one, those still to come
\* are exactly the devices it is the parent of: none lands back under it.
THEOREM JobSound == Spec => []JobOK
BY SpecIInv, PTL DEF IInv

-----------------------------------------------------------------------------
(* The radius bound *)

\* A set of numbers that has any has a least one.
LEMMA LeastOf ==
    ASSUME NEW S, S \subseteq Nat, S # {}
    PROVE  \E k \in S : \A m \in S : k <= m
<1>1. PICK k \in S : \A m \in S : ~ (<<m, k>> \in OpToRel(<, Nat))
  BY WFMin, NatLessThanWellFounded
<1>2. \A m \in S : ~ (m < k)
  BY <1>1 DEF OpToRel
<1> QED BY <1>2

\* The parallelogram law bounds the square of a sum.
LEMMA SquareOfSum ==
    ASSUME NEW x \in Int, NEW y \in Int
    PROVE  /\ (x + y) * (x + y) <= 2 * (x * x) + 2 * (y * y)
           /\ x * x \in Int /\ y * y \in Int /\ (x + y) * (x + y) \in Int
           /\ x * x >= 0
<1>1. (x + y) * (x + y) + (x - y) * (x - y) = 2 * (x * x) + 2 * (y * y)
  OBVIOUS
<1>2. (x - y) * (x - y) >= 0 /\ (x - y) * (x - y) \in Int /\ x * x >= 0
  <2>1. \A u \in Int : u * u >= 0 /\ u * u \in Int
    OBVIOUS
  <2> QED BY <2>1
<1>3. x * x \in Int /\ y * y \in Int /\ (x + y) * (x + y) \in Int
  OBVIOUS
<1> QED BY <1>1, <1>2, <1>3

\* Two steps no longer than h make one no longer than 2h.
LEMMA TwoSteps ==
    ASSUME NEW p \in Pos, NEW q \in Pos, NEW r \in Pos, NEW h \in Int, D2(p, q) <= h, D2(q, r) <= h
    PROVE  D2(p, r) <= 4 * h
<1> DEFINE a == p[1] - q[1]
           b == p[2] - q[2]
           c == q[1] - r[1]
           e == q[2] - r[2]
<1>1. p[1] \in Int /\ p[2] \in Int /\ q[1] \in Int /\ q[2] \in Int /\ r[1] \in Int /\ r[2] \in Int
  BY PosAssumption
<1>2. a \in Int /\ b \in Int /\ c \in Int /\ e \in Int /\ p[1] - r[1] = a + c /\ p[2] - r[2] = b + e
  BY <1>1
<1>3. /\ D2(p, q) = a * a + b * b /\ D2(q, r) = c * c + e * e
      /\ D2(p, r) = (a + c) * (a + c) + (b + e) * (b + e)
  BY <1>2 DEF D2
<1> HIDE DEF a, b, c, e
<1>4. /\ (a + c) * (a + c) <= 2 * (a * a) + 2 * (c * c)
      /\ (b + e) * (b + e) <= 2 * (b * b) + 2 * (e * e)
      /\ a * a \in Int /\ b * b \in Int /\ c * c \in Int /\ e * e \in Int
      /\ (a + c) * (a + c) \in Int /\ (b + e) * (b + e) \in Int
  BY <1>2, SquareOfSum
<1>5. ASSUME NEW aa \in Int, NEW bb \in Int, NEW cc \in Int, NEW ee \in Int, NEW s \in Int, NEW t \in Int,
             s <= 2 * aa + 2 * cc, t <= 2 * bb + 2 * ee, aa + bb <= h, cc + ee <= h
      PROVE  s + t <= 4 * h
  BY <1>5
<1> QED BY <1>3, <1>4, <1>5

\* The radii halve from level to level: one level up they allow twice the distance.
LEMMA CoarserAllows ==
    ASSUME NEW y \in Level, NEW z \in Level, y < z
    PROVE  4 * H2[z] <= H2[y]
<1> DEFINE Bad == {k \in Level : y < k /\ ~ (4 * H2[k] <= H2[y])}
<1>1. Bad = {}
  <2> SUFFICES ASSUME Bad # {} PROVE FALSE
    OBVIOUS
  <2>1. PICK k \in Bad : \A m \in Bad : k <= m
    <3>1. Bad \subseteq Nat
      BY ZoomAssumption
    <3> HIDE DEF Bad
    <3> QED BY <3>1, LeastOf
  <2>2. k \in Level /\ y < k /\ ~ (4 * H2[k] <= H2[y])
    OBVIOUS
  <2>3. /\ k \in Nat /\ y \in Nat /\ k - 1 \in Level /\ k - 1 < MaxZoom /\ (k - 1) + 1 = k /\ ~ (k <= k - 1)
        /\ k - 1 = y \/ y < k - 1
    BY <2>2, ZoomAssumption
  <2>4. 4 * H2[k] <= H2[k - 1] /\ H2[k] \in Nat /\ H2[k - 1] \in Nat /\ H2[y] \in Nat
    BY <2>2, <2>3, RadiusAssumption, HalvingAssumption
  <2>5. CASE k - 1 = y
    BY <2>2, <2>4, <2>5
  <2>6. CASE y < k - 1
    <3>1. 4 * H2[k - 1] <= H2[y]
      BY <2>1, <2>3, <2>6
    <3>2. \A u, v, w \in Nat : 4 * u <= v /\ 4 * v <= w => 4 * u <= w
      OBVIOUS
    <3> QED BY <2>2, <2>4, <3>1, <3>2
  <2> QED BY <2>3, <2>5, <2>6
<1> QED BY <1>1

\* Where the walk from d towards the center that represents it at level z stands
\* after n steps: a is an ancestor that is close enough.
Climbed(d, z, n, a) ==
    /\ a \in live
    /\ tz[a] > z => tz[a] <= Leaf - n /\ D2(pos[d], pos[a]) <= H2[tz[a] - 1]
    /\ tz[a] <= z => D2(pos[d], pos[a]) <= 4 * H2[z]

LEMMA ClimbStarts ==
    ASSUME TypeOK, NEW d \in live, NEW z \in Level
    PROVE  Climbed(d, z, 0, d)
<1>1. pos[d] \in Pos /\ tz[d] \in 0..Leaf /\ MaxZoom \in Nat
  BY ZoomAssumption DEF TypeOK
<1>2. D2(pos[d], pos[d]) = 0
  <2>1. pos[d][1] \in Int /\ pos[d][2] \in Int
    BY <1>1, PosAssumption
  <2> QED BY <2>1 DEF D2
<1>3. H2[z] >= 0 /\ H2[z] \in Int
  BY RadiusAssumption
<1>4. ASSUME tz[d] > z PROVE H2[tz[d] - 1] >= 0 /\ H2[tz[d] - 1] \in Int
  <2>1. tz[d] - 1 \in Level
    BY <1>1, <1>4
  <2> QED BY <2>1, RadiusAssumption
<1> QED BY <1>1, <1>2, <1>3, <1>4 DEF Climbed

LEMMA ClimbsOn ==
    ASSUME TypeOK, Covering, job = Idle, NEW d \in live, NEW z \in Level, NEW n \in 1..Leaf,
           NEW a, Climbed(d, z, n - 1, a)
    PROVE  Climbed(d, z, n, IF tz[a] <= z THEN a ELSE par[a])
<1>0. a \in live /\ tz[a] \in 0..Leaf /\ MaxZoom \in Nat /\ z \in 0..MaxZoom /\ n \in Nat
      /\ pos[a] \in Pos /\ pos[d] \in Pos
  BY ZoomAssumption DEF TypeOK, Climbed
<1>1. CASE tz[a] <= z
  BY <1>0, <1>1 DEF Climbed
<1>2. CASE ~ (tz[a] <= z)
  <2> DEFINE q == par[a]
             m == tz[a] - 1
  <2>1. tz[a] > z /\ tz[a] <= Leaf - (n - 1) /\ D2(pos[d], pos[a]) <= H2[m]
    BY <1>0, <1>2 DEF Climbed
  <2>2. q \in live /\ tz[q] < tz[a] /\ D2(pos[q], pos[a]) <= H2[m]
    <3>1. a \in Placed /\ tz[a] # 0
      BY <1>0, <1>2, NoneAssumption DEF Placed, Idle, TypeOK
    <3> QED BY <3>1 DEF Covering
  <2>3. m \in Level /\ z <= m /\ m \in Nat /\ tz[a] = m + 1
    BY <1>0, <2>1
  <2>4. tz[q] \in 0..Leaf /\ pos[q] \in Pos
    BY <2>2 DEF TypeOK
  <2> HIDE DEF q, m
  <2>5. H2[m] \in Int /\ H2[m] >= 0 /\ H2[z] \in Int /\ H2[z] >= 0
    BY <2>3, RadiusAssumption
  <2>6. D2(pos[d], pos[q]) <= 4 * H2[m] /\ D2(pos[d], pos[q]) \in Int
    <3>1. D2(pos[a], pos[q]) <= H2[m]
      BY <1>0, <2>2, <2>4, D2Symmetric
    <3> QED BY <1>0, <2>1, <2>4, <2>5, <3>1, TwoSteps, D2Symmetric
  <2>7. CASE tz[q] <= z
    <3>1. H2[m] <= H2[z]
      <4>1. CASE z = m
        BY <2>5, <4>1
      <4>2. CASE z < m
        <5>1. 4 * H2[m] <= H2[z]
          BY <2>3, <4>2, CoarserAllows
        <5> QED BY <2>5, <5>1
      <4> QED BY <1>0, <2>3, <4>1, <4>2
    <3>2. D2(pos[d], pos[q]) <= 4 * H2[z]
      BY <2>5, <2>6, <3>1
    <3>3. ~ (tz[q] > z)
      BY <1>0, <2>4, <2>7
    <3> QED BY <1>2, <2>2, <3>2, <3>3 DEF Climbed, q
  <2>8. CASE ~ (tz[q] <= z)
    <3>1. tz[q] - 1 \in Level /\ tz[q] - 1 < m /\ tz[q] <= Leaf - n /\ tz[q] > z
      BY <1>0, <2>1, <2>2, <2>3, <2>4, <2>8
    <3>2. 4 * H2[m] <= H2[tz[q] - 1] /\ H2[tz[q] - 1] \in Int
      BY <2>3, <3>1, CoarserAllows, RadiusAssumption
    <3>3. D2(pos[d], pos[q]) <= H2[tz[q] - 1]
      BY <2>5, <2>6, <3>2
    <3>4. Climbed(d, z, n, q)
      BY <2>2, <2>8, <3>1, <3>3 DEF Climbed
    <3> QED BY <1>2, <3>4 DEF q
  <2> QED BY <2>7, <2>8
<1> QED BY <1>1, <1>2

\* The first n steps of the walk.
Climbs(d, z, n, g) ==
    \A k \in 0..n : g[k] = IF k = 0 THEN d ELSE IF tz[g[k - 1]] <= z THEN g[k - 1] ELSE par[g[k - 1]]

LEMMA ClimbExists ==
    ASSUME TypeOK, Covering, job = Idle, NEW d \in live, NEW z \in Level, NEW n \in 0..Leaf
    PROVE  \E g \in [0..n -> live] : Climbs(d, z, n, g) /\ Climbed(d, z, n, g[n])
<1> DEFINE Has(m) == \E g \in [0..m -> live] : Climbs(d, z, m, g) /\ Climbed(d, z, m, g[m])
           Bad == {m \in 0..Leaf : ~ Has(m)}
<1>1. Bad = {}
  <2> SUFFICES ASSUME Bad # {} PROVE FALSE
    OBVIOUS
  <2>1. PICK m \in Bad : \A k \in Bad : m <= k
    <3>1. Bad \subseteq Nat
      BY ZoomAssumption
    <3> HIDE DEF Bad
    <3> QED BY <3>1, LeastOf
  <2>2. m \in 0..Leaf /\ ~ Has(m) /\ m \in Nat
    BY ZoomAssumption
  <2>3. CASE m = 0
    <3> DEFINE g == [k \in 0..0 |-> d]
    <3>1. g \in [0..0 -> live] /\ g[0] = d /\ \A k \in 0..0 : k = 0
      OBVIOUS
    <3> HIDE DEF g
    <3>2. Climbs(d, z, 0, g) /\ Climbed(d, z, 0, g[0])
      BY <3>1, ClimbStarts DEF Climbs
    <3> QED BY <2>2, <2>3, <3>1, <3>2
  <2>4. CASE m # 0
    <3>1. m \in 1..Leaf /\ m - 1 \in 0..Leaf /\ ~ (m <= m - 1)
      BY <2>2, <2>4, ZoomAssumption
    <3>2. Has(m - 1)
      <4> HIDE DEF Has
      <4> QED BY <2>1, <3>1
    <3>3. PICK g \in [0..m-1 -> live] : Climbs(d, z, m - 1, g) /\ Climbed(d, z, m - 1, g[m - 1])
      BY <3>2
    <3> DEFINE a == g[m - 1]
               next == IF tz[a] <= z THEN a ELSE par[a]
               h == [k \in 0..m |-> IF k = m THEN next ELSE g[k]]
    <3>4. Climbed(d, z, m, next)
      BY <3>1, <3>3, ClimbsOn
    <3>5. next \in live
      BY <3>4 DEF Climbed
    <3>6. \A k \in 0..m : k # m => k \in 0..m-1
      BY <2>2
    <3>7. \A k \in 0..m-1 : k \in 0..m /\ k # m /\ (k # 0 => k - 1 \in 0..m-1)
      BY <2>2
    <3>8. h \in [0..m -> live]
      <4> HIDE DEF next
      <4> QED BY <3>3, <3>5, <3>6
    <3>9. h[m] = next /\ h[m - 1] = a /\ \A k \in 0..m-1 : h[k] = g[k]
      <4> HIDE DEF next
      <4> QED BY <2>2, <3>1, <3>7
    <3>10. Climbs(d, z, m, h)
      <4> SUFFICES ASSUME NEW k \in 0..m
                   PROVE  h[k] = IF k = 0 THEN d ELSE IF tz[h[k - 1]] <= z THEN h[k - 1] ELSE par[h[k - 1]]
        BY DEF Climbs
      <4>1. CASE k = m
        <5> HIDE DEF h, a
        <5> QED BY <2>4, <3>9, <4>1
      <4>2. CASE k # m
        <5>1. k \in 0..m-1 /\ h[k] = g[k] /\ (k # 0 => h[k - 1] = g[k - 1])
          <6> HIDE DEF h
          <6> QED BY <3>6, <3>7, <3>9, <4>2
        <5> HIDE DEF h
        <5> QED BY <3>3, <5>1 DEF Climbs
      <4> QED BY <4>1, <4>2
    <3> HIDE DEF h, next
    <3>11. Has(m)
      BY <3>4, <3>8, <3>9, <3>10
    <3> QED BY <2>2, <3>11
  <2> QED BY <2>3, <2>4
<1>2. Has(n)
  <2> HIDE DEF Has
  <2> QED BY <1>1
<1> QED BY <1>2

\* The center that represents a device is where the walk stands in the end.
LEMMA RepIsReached ==
    ASSUME TypeOK, Covering, job = Idle, NEW d \in live, NEW z \in Level
    PROVE  \E g \in [0..Leaf -> live] :
              Climbs(d, z, Leaf, g) /\ Climbed(d, z, Leaf, g[Leaf]) /\ Rep(d, z) = g[Leaf]
<1> DEFINE Is(up) == up = [n \in 0..Leaf |-> IF n = 0 THEN d
                                            ELSE IF tz[up[n - 1]] <= z THEN up[n - 1] ELSE par[up[n - 1]]]
           top == CHOOSE up : Is(up)
<1>0. MaxZoom \in Nat /\ Leaf \in 0..Leaf
  BY ZoomAssumption
<1>1. PICK g \in [0..Leaf -> live] : Climbs(d, z, Leaf, g) /\ Climbed(d, z, Leaf, g[Leaf])
  BY <1>0, ClimbExists
<1>2. Is(g)
  BY <1>1 DEF Climbs
<1>3. Is(top)
  <2> HIDE DEF Is
  <2> QED BY <1>2
<1>4. Rep(d, z) = top[Leaf]
  BY DEF Rep
<1>5. \A n \in 0..Leaf : top[n] = IF n = 0 THEN d ELSE IF tz[top[n - 1]] <= z THEN top[n - 1] ELSE par[top[n - 1]]
  <2> HIDE DEF top
  <2> QED BY <1>3
<1> HIDE DEF top
<1> DEFINE Bad == {n \in 0..Leaf : top[n] # g[n]}
<1>6. Bad = {}
  <2> SUFFICES ASSUME Bad # {} PROVE FALSE
    OBVIOUS
  <2>1. PICK m \in Bad : \A k \in Bad : m <= k
    <3>1. Bad \subseteq Nat
      BY <1>0
    <3> HIDE DEF Bad
    <3> QED BY <3>1, LeastOf
  <2>2. m \in 0..Leaf /\ top[m] # g[m]
    OBVIOUS
  <2>3. g[m] = IF m = 0 THEN d ELSE IF tz[g[m - 1]] <= z THEN g[m - 1] ELSE par[g[m - 1]]
    BY <1>1, <2>2 DEF Climbs
  <2>4. m # 0 => m - 1 \in 0..Leaf /\ ~ (m <= m - 1)
    BY <1>0, <2>2
  <2>5. m # 0 => top[m - 1] = g[m - 1]
    BY <2>1, <2>4
  <2> QED BY <1>5, <2>2, <2>3, <2>5
<1>7. Rep(d, z) = g[Leaf]
  BY <1>0, <1>4, <1>6
<1> QED BY <1>1, <1>7

\* That center is close enough.
LEMMA RepIsClose ==
    ASSUME TypeOK, Covering, job = Idle, NEW d \in live, NEW z \in Level
    PROVE  Rep(d, z) \in live /\ tz[Rep(d, z)] <= z /\ D2(pos[d], pos[Rep(d, z)]) <= 4 * H2[z]
<1>0. MaxZoom \in Nat /\ Leaf \in 0..Leaf
  BY ZoomAssumption
<1>1. PICK g \in [0..Leaf -> live] :
         Climbs(d, z, Leaf, g) /\ Climbed(d, z, Leaf, g[Leaf]) /\ Rep(d, z) = g[Leaf]
  BY RepIsReached
<1>2. g[Leaf] \in live /\ tz[g[Leaf]] \in 0..Leaf
  BY <1>1 DEF Climbed, TypeOK
<1>3. tz[g[Leaf]] <= z
  <2>1. tz[g[Leaf]] > z => tz[g[Leaf]] <= Leaf - Leaf
    BY <1>1 DEF Climbed
  <2> HIDE DEF Leaf
  <2>2. z \in Nat /\ Leaf \in Nat /\ tz[g[Leaf]] \in Nat
    BY <1>0, <1>2 DEF Leaf
  <2> QED BY <2>1, <2>2
<1> QED BY <1>1, <1>2, <1>3 DEF Climbed

\* Between calls, at every zoom, the center that represents a device is within twice
\* the radius with its slack: the documentation's guarantee, a sum over a chain of
\* any length.
THEOREM RadiusBoundHolds == Spec => []RadiusBound
<1>1. IInv => RadiusBound
  BY RepIsClose DEF IInv, RadiusBound
<1> QED BY <1>1, SpecIInv, PTL

-----------------------------------------------------------------------------
(* The repository's own checker *)

\* With no repair under way, and radii that shrink with the level as those of
\* NetCluster::new do, verify accepts exactly the hierarchies that are covering,
\* separated and listed: comparing each pair of centers at one level is enough,
\* and no broken state of these kinds gets past it.
THEOREM VerifierExact ==
    ASSUME TypeOK, job = Idle,
           \A y, z \in Level : y <= z => R2[z] <= R2[y]
    PROVE  VerifyTree <=> Covering /\ Separation /\ GridListsCenters
<1>1. Placed = live
  BY NoneAssumption DEF Placed, Idle, TypeOK
<1>2. VerifyShape <=> Covering
  <2>1. ASSUME VerifyShape, NEW d \in live
        PROVE  \/ par[d] = NONE /\ tz[d] = 0
               \/ par[d] \in live /\ tz[par[d]] < tz[d] /\ D2(pos[par[d]], pos[d]) <= H2[tz[d] - 1]
    BY <2>1 DEF VerifyShape
  <2>2. ASSUME Covering, NEW s \in live
        PROVE  /\ tz[s] \in 0..Leaf
               /\ tz[s] = 0 => par[s] = NONE
               /\ tz[s] # 0 => /\ par[s] \in live
                               /\ tz[par[s]] < tz[s]
                               /\ D2(pos[par[s]], pos[s]) <= H2[tz[s] - 1]
    <3>1. tz[s] \in 0..Leaf /\ (par[s] \in live => tz[par[s]] \in 0..Leaf)
      BY DEF TypeOK
    <3> QED BY <3>1, <2>2, <1>1, ZoomAssumption DEF Covering
  <2> QED BY <2>1, <2>2, <1>1 DEF VerifyShape, Covering
<1>3. VerifyGrid <=> GridListsCenters
  <2>1. ASSUME VerifyGrid, NEW z \in Level, NEW d \in live, tz[d] <= z PROVE d \in listed[z]
    <3>1. d \in Centers /\ z \in tz[d]..MaxZoom
      BY <2>1, ZoomAssumption DEF Centers, TypeOK
    <3> QED BY <3>1, <2>1 DEF VerifyGrid
  <2>2. VerifyGrid => GridListsCenters
    BY <2>1, <1>1 DEF VerifyGrid, GridListsCenters
  <2>3. ASSUME GridListsCenters, NEW s \in Centers, NEW z \in tz[s]..MaxZoom PROVE s \in listed[z]
    <3>1. s \in live /\ tz[s] \in 0..Leaf
      BY DEF Centers, TypeOK
    <3>2. z \in Level /\ tz[s] <= z
      BY <3>1, ZoomAssumption
    <3> QED BY <3>1, <3>2, <2>3, <1>1 DEF GridListsCenters
  <2> QED BY <2>2, <2>3, <1>1 DEF VerifyGrid, GridListsCenters
<1>4. ASSUME GridListsCenters PROVE VerifySeparation <=> Separation
  <2>1. ASSUME VerifySeparation, NEW z \in Level, NEW a \in listed[z], NEW b \in listed[z], a # b
        PROVE  D2(pos[a], pos[b]) > R2[z]
    <3> DEFINE y == IF tz[a] < tz[b] THEN tz[b] ELSE tz[a]
    <3>1. a \in live /\ b \in live /\ tz[a] <= z /\ tz[b] <= z
      BY <1>4, <1>1 DEF GridListsCenters
    <3>2. y \in Level /\ y <= z /\ a \in Centers /\ b \in Centers
      BY <3>1, ZoomAssumption DEF Centers, TypeOK
    <3>3. D2(pos[a], pos[b]) > R2[y]
      BY <3>2, <2>1 DEF VerifySeparation
    <3>4. R2[z] <= R2[y] /\ R2[z] \in Int /\ R2[y] \in Int
      BY <3>2, RadiusAssumption
    <3>5. D2(pos[a], pos[b]) \in Int
      BY <3>1, D2Symmetric DEF TypeOK
    <3> HIDE DEF y
    <3> QED BY <3>3, <3>4, <3>5
  <2>2. ASSUME Separation, NEW a \in Centers, NEW b \in Centers, a # b
        PROVE  D2(pos[a], pos[b]) > R2[IF tz[a] < tz[b] THEN tz[b] ELSE tz[a]]
    <3> DEFINE y == IF tz[a] < tz[b] THEN tz[b] ELSE tz[a]
    <3>1. y \in Level /\ tz[a] <= y /\ tz[b] <= y /\ a \in live /\ b \in live
      BY ZoomAssumption DEF Centers, TypeOK
    <3>2. a \in listed[y] /\ b \in listed[y]
      BY <3>1, <1>4, <1>1 DEF GridListsCenters
    <3> QED BY <3>1, <3>2, <2>2 DEF Separation
  <2> QED BY <2>1, <2>2 DEF VerifySeparation, Separation
<1> QED BY <1>2, <1>3, <1>4 DEF VerifyTree

\* The invariant is all that the checker looks for in the hierarchy and the grid.
LEMMA VerifierAccepts ==
    ASSUME IInv, job = Idle
    PROVE  VerifyTree
<1>1. Placed = live
  BY NoneAssumption DEF Placed, Idle, IInv, TypeOK
<1>2. VerifyShape
  <2> SUFFICES ASSUME NEW s \in live
               PROVE  /\ tz[s] \in 0..Leaf
                      /\ tz[s] = 0 => par[s] = NONE
                      /\ tz[s] # 0 => /\ par[s] \in live
                                      /\ tz[par[s]] < tz[s]
                                      /\ D2(pos[par[s]], pos[s]) <= H2[tz[s] - 1]
    BY DEF VerifyShape
  <2>1. tz[s] \in 0..Leaf /\ (par[s] \in live => tz[par[s]] \in 0..Leaf)
    BY DEF IInv, TypeOK
  <2> QED BY <2>1, <1>1, ZoomAssumption DEF IInv, Covering
<1>3. ASSUME NEW s \in Centers, NEW z \in tz[s]..MaxZoom
      PROVE  s \in live /\ z \in Level /\ tz[s] <= z /\ s \in listed[z]
  <2>1. s \in live /\ tz[s] \in 0..Leaf
    BY DEF Centers, IInv, TypeOK
  <2>2. z \in Level /\ tz[s] <= z
    BY <2>1, ZoomAssumption
  <2> QED BY <2>1, <2>2, <1>1 DEF IInv, GridListsCenters
<1>4. VerifyGrid
  BY <1>3, <1>1 DEF VerifyGrid, IInv, GridListsCenters
<1>5. VerifySeparation
  <2> SUFFICES ASSUME NEW a \in Centers, NEW b \in Centers, a # b
               PROVE  D2(pos[a], pos[b]) > R2[IF tz[a] < tz[b] THEN tz[b] ELSE tz[a]]
    BY DEF VerifySeparation
  <2> DEFINE y == IF tz[a] < tz[b] THEN tz[b] ELSE tz[a]
  <2>1. y \in tz[a]..MaxZoom /\ y \in tz[b]..MaxZoom
    BY ZoomAssumption DEF Centers, IInv, TypeOK
  <2>2. y \in Level /\ a \in listed[y] /\ b \in listed[y]
    BY <2>1, <1>3
  <2> QED BY <2>2 DEF IInv, Separation
<1> QED BY <1>2, <1>4, <1>5 DEF VerifyTree

\* Whatever calls are made, verify finds nothing wrong with the hierarchy or the
\* grid between them.
THEOREM VerifyPasses == Spec => [](job = Idle => VerifyTree)
<1>1. IInv => (job = Idle => VerifyTree)
  BY VerifierAccepts
<1> QED BY SpecIInv, <1>1, PTL

=============================================================================
