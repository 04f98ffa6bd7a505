-------------------------- MODULE CollectionProofs --------------------------
(***************************************************************************)
(* Proofs about Collection, for any devices, items and batches: the index  *)
(* agrees with the records in every state and never needs repair, and the  *)
(* collection implements the register per device of Registry.              *)
(*                                                                         *)
(* Agreement is inductive once live devices are known to have a position.  *)
(* The register needs the times too: what a batch writes is stamped when   *)
(* its section began and no live device was heard of since (Stamped), and  *)
(* a cutoff stays one TTL behind the clock, whatever the TTL is now        *)
(* (Behind).                                                               *)
(***************************************************************************)
EXTENDS Collection, WellFoundedInduction, TLAPS

Place == {i.at : i \in Items}
Marks == {i.cells : i \in Items} \union {Default}
Pc    == {"idle", "upsert", "upserting", "patch", "patching", "reply", "error"}

\* Items at the places of a batch.
Queue == UNION {[S -> Items] : S \in SUBSET Nat}

Typed ==
    /\ seen \in [Id -> 0..NEVER]
    /\ ver \in [Id -> Nat]
    /\ at \in [Id -> Place \union {NONE}]
    /\ cells \in [Id -> Marks \union {{}}]
    /\ ttl \in Ttls
    /\ now \in Time
    /\ req \in [pc : Pc, reports : Queue, patches : Queue, stamp : Nat]
    /\ sweep \in [cutoff : Nat, victims : SUBSET Id]

Agree ==
    /\ index = Rebuilt(seen, at, cells)
    /\ repairs = FALSE
    /\ \A d \in Live : at[d] \in Place \ {NONE} /\ cells[d] \in Marks /\ seen[d] <= now

Queued ==
    /\ \A n \in DOMAIN req.reports : req.reports[n].kind = "report"
    /\ req.pc = "upserting" => DOMAIN req.reports # {}
    /\ req.pc = "patching" => DOMAIN req.patches # {}

Stamped ==
    req.pc = "upserting" => req.stamp <= now /\ \A d \in Live : seen[d] <= req.stamp

Behind ==
    /\ sweep.victims # {} => sweep.cutoff > 0
    /\ sweep.cutoff > 0 => \E t \in Ttls \ {0} : sweep.cutoff + t <= now

IInv == Typed /\ Agree /\ Queued /\ Stamped /\ Behind

\* The register, read off the records.
Promised == [d \in Id |-> IF d \in Live
                          THEN [ver |-> ver[d], seen |-> seen[d], what |-> <<at[d], cells[d]>>]
                          ELSE NONE]

-----------------------------------------------------------------------------
(* Batches *)

\* The items that are left have a first one.
LEMMA FirstIsItem ==
    ASSUME NEW items \in Queue, DOMAIN items # {}
    PROVE  /\ First(items) \in DOMAIN items
           /\ items[First(items)] \in Items
           /\ Rest(items) \in Queue
           /\ DOMAIN Rest(items) = DOMAIN items \ {First(items)}
           /\ \A n \in DOMAIN Rest(items) : Rest(items)[n] = items[n]
<1>1. PICK S \in SUBSET Nat : items \in [S -> Items]
  BY DEF Queue
<1>2. PICK n \in S : \A m \in S : ~ (<<m, n>> \in OpToRel(<, Nat))
  BY <1>1, WFMin, NatLessThanWellFounded
<1>3. \A m \in S : n <= m
  <2> SUFFICES ASSUME NEW m \in S, m < n PROVE FALSE
    BY <1>1
  <2>1. <<m, n>> \in OpToRel(<, Nat)
    BY DEF OpToRel
  <2> QED BY <1>2, <2>1
<1>4. First(items) \in DOMAIN items
  BY <1>1, <1>3 DEF First
<1>5. Rest(items) \in [S \ {First(items)} -> Items]
  BY <1>1 DEF Rest
<1> QED BY <1>1, <1>4, <1>5 DEF Queue, Rest

\* What is left to do was there before.
LEMMA RestKeepsKind ==
    ASSUME NEW items \in Queue, DOMAIN items # {}, NEW k, \A n \in DOMAIN items : items[n].kind = k
    PROVE  \A n \in DOMAIN Rest(items) : Rest(items)[n].kind = k
<1>1. \A n \in DOMAIN Rest(items) : n \in DOMAIN items /\ Rest(items)[n] = items[n]
  BY FirstIsItem
<1> QED BY <1>1

\* The request once an item is done with.
LEMMA ReportIsDone ==
    ASSUME Typed, DOMAIN req.reports # {}, req' = ReportDone
    PROVE  /\ NextReport \in Items
           /\ req' \in [pc : Pc, reports : Queue, patches : Queue, stamp : Nat]
           /\ req'.reports = Rest(req.reports) /\ req'.stamp = req.stamp
           /\ req'.pc = IF DOMAIN req'.reports = {} THEN "patch" ELSE req.pc
<1> DEFINE rest == Rest(req.reports)
           pc   == IF DOMAIN rest = {} THEN "patch" ELSE req.pc
<1>1. req \in [pc : Pc, reports : Queue, patches : Queue, stamp : Nat]
  BY DEF Typed
<1>2. NextReport \in Items /\ rest \in Queue
  BY <1>1, FirstIsItem DEF NextReport
<1>3. pc \in Pc
  BY <1>1 DEF Pc
<1>4. req' = [req EXCEPT !.reports = rest, !.pc = pc]
  BY DEF ReportDone
<1> HIDE DEF rest, pc
<1>5. /\ req' \in [pc : Pc, reports : Queue, patches : Queue, stamp : Nat]
      /\ req'.reports = rest /\ req'.stamp = req.stamp /\ req'.pc = pc
  BY <1>1, <1>2, <1>3, <1>4
<1> QED BY <1>2, <1>5 DEF rest, pc

\* ... and the same of a patch.
LEMMA PatchIsDone ==
    ASSUME Typed, DOMAIN req.patches # {}, req' = PatchDone
    PROVE  /\ NextPatch \in Items
           /\ req' \in [pc : Pc, reports : Queue, patches : Queue, stamp : Nat]
           /\ req'.reports = req.reports /\ req'.patches = Rest(req.patches)
           /\ req'.pc = IF DOMAIN req'.patches = {} THEN "reply" ELSE req.pc
<1> DEFINE rest == Rest(req.patches)
           pc   == IF DOMAIN rest = {} THEN "reply" ELSE req.pc
<1>1. req \in [pc : Pc, reports : Queue, patches : Queue, stamp : Nat]
  BY DEF Typed
<1>2. NextPatch \in Items /\ rest \in Queue
  BY <1>1, FirstIsItem DEF NextPatch
<1>3. pc \in Pc
  BY <1>1 DEF Pc
<1>4. req' = [req EXCEPT !.patches = rest, !.pc = pc]
  BY DEF PatchDone
<1> HIDE DEF rest, pc
<1>5. /\ req' \in [pc : Pc, reports : Queue, patches : Queue, stamp : Nat]
      /\ req'.reports = req.reports /\ req'.patches = rest /\ req'.pc = pc
  BY <1>1, <1>2, <1>3, <1>4
<1> QED BY <1>2, <1>5 DEF rest, pc

\* An empty request.
LEMMA NoReqTyped == NoReq \in [pc : Pc, reports : Queue, patches : Queue, stamp : Nat]
<1>1. <<>> \in [{} -> Items]
  OBVIOUS
<1>2. <<>> \in Queue
  BY <1>1 DEF Queue
<1> QED BY <1>2 DEF NoReq, Pc

\* Nothing is held before the first report.
LEMMA InitIInv == Init => IInv
<1> SUFFICES ASSUME Init PROVE IInv
  OBVIOUS
<1>1. Typed
  <2>1. NEVER \in 0..NEVER /\ now \in Time
    BY TimeAssumption DEF Init, NEVER, Time
  <2>2. sweep \in [cutoff : Nat, victims : SUBSET Id]
    BY DEF Init, NoSweep
  <2> QED BY <2>1, <2>2, NoReqTyped DEF Init, Typed
<1>2. Agree
  BY DEF Init, Agree, Rebuilt, Live
<1>3. Queued /\ Stamped /\ Behind
  BY DEF Init, Queued, Stamped, Behind, NoReq, NoSweep
<1> QED BY <1>1, <1>2, <1>3 DEF IInv

\* Steps of a request that touch no record.
LEMMA RequestMoves ==
    ASSUME IInv, UNCHANGED <<records, repairs, limits, now, sweep>>,
           req' \in [pc : Pc, reports : Queue, patches : Queue, stamp : Nat], Queued', Stamped'
    PROVE  IInv' /\ Promised' = Promised
<1>1. Typed' /\ Agree' /\ Behind'
  BY DEF IInv, Typed, Agree, Behind, records, limits, Live
<1>2. Promised' = Promised
  BY DEF Promised, records, Live
<1> QED BY <1>1, <1>2 DEF IInv

\* A batch is taken in: what is refused is set aside.
LEMMA SubmitMoves ==
    ASSUME IInv, NEW b \in Batches, NEW partial \in BOOLEAN, Submit(b, partial)
    PROVE  IInv' /\ Promised' = Promised
<1> DEFINE kept == {n \in DOMAIN b : ~ Oversized(b[n])}
           kind(k) == [n \in {m \in kept : b[m].kind = k} |-> b[n]]
<1>1. DOMAIN b \subseteq Nat /\ \A n \in DOMAIN b : b[n] \in Items
  BY BatchAssumption
<1>2. \A k : kind(k) \in Queue
  <2> TAKE k
  <2> DEFINE S == {m \in kept : b[m].kind = k}
  <2>1. kind(k) \in [S -> Items] /\ S \in SUBSET Nat
    BY <1>1
  <2> HIDE DEF S
  <2> QED BY <2>1 DEF Queue
<1>3. req' = [pc |-> "upsert", reports |-> kind("report"), patches |-> kind("patch"), stamp |-> 0]
  BY DEF Submit
<1>4. \A n \in DOMAIN kind("report") : kind("report")[n].kind = "report"
  OBVIOUS
<1> HIDE DEF kind
<1>5. req' \in [pc : Pc, reports : Queue, patches : Queue, stamp : Nat]
  BY <1>2, <1>3 DEF Pc
<1>6. Queued' /\ Stamped'
  BY <1>3, <1>4 DEF Queued, Stamped
<1> QED BY <1>5, <1>6, RequestMoves DEF Submit

\* The write lock is taken, or the request ends in an error.
LEMMA BeginMoves ==
    ASSUME IInv, BeginUpsert \/ BeginPatch \/ Reply
    PROVE  IInv' /\ Promised' = Promised
<1>1. req \in [pc : Pc, reports : Queue, patches : Queue, stamp : Nat] /\ now \in Nat
  BY DEF IInv, Typed, Time
<1>2. /\ UNCHANGED <<records, repairs, limits, now, sweep>>
      /\ \/ req' \in {NoReq, [NoReq EXCEPT !.pc = "error"]}
         \/ req' = [req EXCEPT !.pc = "upserting", !.stamp = now] /\ DOMAIN req.reports # {}
         \/ req' = [req EXCEPT !.pc = "patching"] /\ DOMAIN req.patches # {}
         \/ \E p \in {"patch", "reply"} : req' = [req EXCEPT !.pc = p]
  BY DEF BeginUpsert, BeginPatch, Reply
<1>3. CASE req' \in {NoReq, [NoReq EXCEPT !.pc = "error"]}
  <2>1. req' \in [pc : Pc, reports : Queue, patches : Queue, stamp : Nat]
    BY <1>3, NoReqTyped DEF Pc
  <2>2. Queued' /\ Stamped'
    BY <1>3 DEF NoReq, Queued, Stamped
  <2> QED BY <1>2, <2>1, <2>2, RequestMoves
<1>4. CASE req' = [req EXCEPT !.pc = "upserting", !.stamp = now] /\ DOMAIN req.reports # {}
  <2>1. /\ req' \in [pc : Pc, reports : Queue, patches : Queue, stamp : Nat]
        /\ req'.pc = "upserting" /\ req'.stamp = now /\ req'.reports = req.reports
    BY <1>1, <1>4 DEF Pc
  <2>2. Queued' /\ Stamped'
    BY <1>1, <1>2, <1>4, <2>1 DEF IInv, Queued, Stamped, Agree, Live, records
  <2> QED BY <1>2, <2>1, <2>2, RequestMoves
<1>5. CASE \/ req' = [req EXCEPT !.pc = "patching"] /\ DOMAIN req.patches # {}
           \/ \E p \in {"patch", "reply"} : req' = [req EXCEPT !.pc = p]
  <2>1. /\ req' \in [pc : Pc, reports : Queue, patches : Queue, stamp : Nat]
        /\ req'.pc # "upserting" /\ req'.reports = req.reports /\ req'.patches = req.patches
        /\ req'.pc = "patching" => DOMAIN req.patches # {}
    BY <1>1, <1>5 DEF Pc
  <2>2. Queued' /\ Stamped'
    BY <2>1 DEF IInv, Queued, Stamped
  <2> QED BY <1>2, <2>1, <2>2, RequestMoves
<1> QED BY <1>2, <1>3, <1>4, <1>5

\* An item that is stale, or of a device that is unknown, changes nothing.
LEMMA RefuseMoves ==
    ASSUME IInv, StaleReport \/ RefusePatch
    PROVE  IInv' /\ Promised' = Promised
<1>1. req.reports \in Queue /\ req.patches \in Queue
  BY DEF IInv, Typed
<1>2. CASE StaleReport
  <2>1. DOMAIN req.reports # {}
    BY <1>2 DEF StaleReport, IInv, Queued
  <2>2. /\ req' \in [pc : Pc, reports : Queue, patches : Queue, stamp : Nat]
        /\ req'.reports = Rest(req.reports) /\ req'.stamp = req.stamp
        /\ req'.pc = IF DOMAIN req'.reports = {} THEN "patch" ELSE req.pc
        /\ req.pc = "upserting"
    BY <1>2, <2>1, ReportIsDone DEF StaleReport, IInv
  <2>3. Queued'
    <3>1. \A n \in DOMAIN req'.reports : req'.reports[n].kind = "report"
      BY <1>1, <2>1, <2>2, RestKeepsKind DEF IInv, Queued
    <3> QED BY <2>2, <3>1 DEF Queued
  <2>4. Stamped'
    BY <1>2, <2>2 DEF StaleReport, IInv, Stamped, records, Live
  <2> QED BY <1>2, <2>2, <2>3, <2>4, RequestMoves DEF StaleReport
<1>3. CASE RefusePatch
  <2>1. DOMAIN req.patches # {} /\ req.pc = "patching"
    BY <1>3 DEF RefusePatch, IInv, Queued
  <2>2. /\ req' \in [pc : Pc, reports : Queue, patches : Queue, stamp : Nat]
        /\ req'.reports = req.reports /\ req'.patches = Rest(req.patches)
        /\ req'.pc = IF DOMAIN req'.patches = {} THEN "reply" ELSE req.pc
    BY <1>3, <2>1, PatchIsDone DEF RefusePatch, IInv
  <2>3. Queued' /\ Stamped'
    BY <2>1, <2>2 DEF IInv, Queued, Stamped
  <2> QED BY <1>3, <2>2, <2>3, RequestMoves DEF RefusePatch
<1> QED BY <1>2, <1>3

\* What is held of a device is something.
LEMMA HeldIsRecord ==
    ASSUME NEW v \in Nat, NEW s \in Nat, NEW p \in Place, NEW m \in Marks
    PROVE  [ver |-> v, seen |-> s, what |-> <<p, m>>] # NONE
<1>1. <<p, m>> \in Place \X Marks
  OBVIOUS
<1>2. [ver |-> v, seen |-> s, what |-> <<p, m>>] \in [ver : Nat, seen : Nat, what : Place \X Marks]
  BY <1>1
<1> QED BY <1>2, NoneAssumption DEF Place, Marks

\* Whether a device is held, read off the records.
LEMMA HeldIsLive ==
    ASSUME Typed, Agree, NEW d \in Id
    PROVE  Promised[d] # NONE <=> d \in Live
<1>1. CASE d \in Live
  <2>1. seen[d] \in Nat /\ ver[d] \in Nat
    BY TimeAssumption DEF Typed, NEVER
  <2>2. at[d] \in Place /\ cells[d] \in Marks
    BY <1>1 DEF Agree
  <2> QED BY <1>1, <2>1, <2>2, HeldIsRecord DEF Promised
<1>2. CASE d \notin Live
  BY <1>2 DEF Promised
<1> QED BY <1>1, <1>2

\* A report is taken: the records and the index say the same of the device, which
\* registers, or takes an update that supersedes what was held.
LEMMA AcceptReportMoves ==
    ASSUME IInv, AcceptReport
    PROVE  IInv' /\ \E d \in Id : Promise!Register(d) \/ Promise!Update(d)
<1>1. req.pc = "upserting" /\ DOMAIN req.reports # {} /\ req.reports \in Queue
  BY DEF AcceptReport, IInv, Queued, Typed
<1>2. PICK i \in Items : i = NextReport /\ i.kind = "report"
  BY <1>1, FirstIsItem DEF NextReport, IInv, Queued
<1>3. PICK d \in Id : d = i.id
  BY ItemAssumption
<1>4. i.ver \in Nat /\ i.at \in Place \ {NONE}
  BY <1>2, ItemAssumption DEF Place
<1> DEFINE c == RecordCells(i)
<1>5. /\ ~ Stale(i)
      /\ at' = [at EXCEPT ![d] = i.at] /\ cells' = [cells EXCEPT ![d] = c]
      /\ seen' = [seen EXCEPT ![d] = req.stamp]
      /\ ver' = [ver EXCEPT ![d] = IF i.ver > 0 THEN i.ver ELSE @]
      /\ req' = ReportDone
      /\ UNCHANGED <<limits, now, sweep>>
  BY <1>2, <1>3 DEF AcceptReport
<1>6. /\ req' \in [pc : Pc, reports : Queue, patches : Queue, stamp : Nat]
      /\ req'.reports = Rest(req.reports) /\ req'.stamp = req.stamp
      /\ req'.pc = IF DOMAIN req'.reports = {} THEN "patch" ELSE req.pc
  BY <1>1, <1>5, ReportIsDone DEF IInv
<1>7. /\ req.stamp \in Nat /\ req.stamp <= now /\ now \in 0..MaxTime
      /\ \A e \in Live : seen[e] <= req.stamp
  BY <1>1 DEF IInv, Typed, Stamped, Time
<1>8. c \in Marks
  BY <1>3 DEF RecordCells, IInv, Agree, Marks
<1> HIDE DEF c
<1>9. Typed'
  <2>1. req.stamp \in 0..NEVER
    BY <1>7, TimeAssumption DEF NEVER
  <2> QED BY <1>3, <1>4, <1>5, <1>6, <1>8, <2>1 DEF IInv, Typed, limits
<1>10. d \in Live' /\ Live' = Live \union {d}
  <2>1. req.stamp # NEVER
    BY <1>7, TimeAssumption DEF NEVER
  <2> QED BY <1>3, <1>4, <1>5, <2>1 DEF Live, IInv, Typed
<1>11. index' = Rebuilt(seen', at', cells') /\ repairs' = FALSE
  <2> DEFINE landed == [at |-> i.at, cells |-> IF d \in Live /\ i.cells = KEEP
                                               THEN index[d].cells ELSE c]
  <2>1. d \in Live /\ i.cells = KEEP => index[d].cells = c
    BY <1>3 DEF IInv, Agree, Rebuilt, Live, RecordCells, c
  <2>2. landed = [at |-> i.at, cells |-> c]
    BY <2>1
  <2>3. index' = [index EXCEPT ![d] = [at |-> i.at, cells |-> c]] /\ repairs' = repairs
    <3> DEFINE mended == landed # [at |-> i.at, cells |-> c]
    <3>1. /\ index' = IF mended THEN Rebuilt(seen', at', cells') ELSE [index EXCEPT ![d] = landed]
          /\ repairs' = (repairs \/ mended)
      BY <1>2, <1>3 DEF AcceptReport, c
    <3>2. mended = FALSE
      BY <2>2
    <3> HIDE DEF mended
    <3> QED BY <2>2, <3>1, <3>2 DEF IInv, Agree
  <2>4. \A e \in Id : index'[e] = Rebuilt(seen', at', cells')[e]
    BY <1>3, <1>4, <1>5, <1>10, <2>3 DEF IInv, Typed, Agree, Rebuilt, Live
  <2>5. index' = [e \in Id |-> index'[e]]
    BY <2>3 DEF IInv, Agree, Rebuilt
  <2> QED BY <2>3, <2>4, <2>5 DEF Rebuilt, IInv, Agree
<1>12. Agree'
  <2>1. at'[d] = i.at /\ cells'[d] = c /\ seen'[d] = req.stamp /\ now' = now
    BY <1>3, <1>5 DEF IInv, Typed
  <2>2. \A e \in Live \ {d} : at'[e] = at[e] /\ cells'[e] = cells[e] /\ seen'[e] = seen[e]
    BY <1>3, <1>5 DEF IInv, Typed, Live
  <2>3. ASSUME NEW e \in Live'
        PROVE  at'[e] \in Place \ {NONE} /\ cells'[e] \in Marks /\ seen'[e] <= now'
    BY <1>4, <1>7, <1>8, <1>10, <2>1, <2>2 DEF IInv, Agree
  <2> QED BY <1>11, <2>3 DEF Agree
<1>13. Queued'
  <2>1. \A n \in DOMAIN req'.reports : req'.reports[n].kind = "report"
    BY <1>1, <1>6, RestKeepsKind DEF IInv, Queued
  <2> QED BY <1>1, <1>6, <2>1 DEF Queued
<1>14. Stamped'
  BY <1>3, <1>4, <1>5, <1>6, <1>7, <1>10 DEF IInv, Typed, Stamped
<1>15. Behind'
  BY <1>5 DEF IInv, Behind
<1>16. Promise!Register(d) \/ Promise!Update(d)
  <2>1. \A e \in Id \ {d} : Promised'[e] = Promised[e]
    BY <1>3, <1>4, <1>5, <1>10 DEF Promised, IInv, Typed
  <2>2. Promised'[d] # NONE /\ Promised'[d].ver = ver'[d] /\ Promised'[d].seen = req.stamp
    <3>1. Promised'[d] = [ver |-> ver'[d], seen |-> req.stamp, what |-> <<i.at, c>>]
      BY <1>3, <1>4, <1>5, <1>10 DEF Promised, IInv, Typed
    <3>2. ver'[d] \in Nat /\ i.at \in Place
      BY <1>3, <1>4, <1>9 DEF Typed
    <3> QED BY <1>7, <1>8, <3>1, <3>2, HeldIsRecord
  <2>3. CASE d \notin Live
    <3>1. Promised[d] = NONE
      BY <1>3, <1>4, <2>3 DEF Promised
    <3> QED BY <1>3, <1>4, <1>5, <1>7, <2>1, <2>2, <3>1 DEF Promise!Register, Promise!Others, Promised
  <2>4. CASE d \in Live
    <3>1. Promised[d] # NONE /\ Promised[d].ver = ver[d] /\ Promised[d].seen = seen[d]
      BY <1>3, <1>4, <2>4, HeldIsLive DEF Promised, IInv
    <3>2. ver[d] = 0 \/ ver'[d] > ver[d]
      BY <1>3, <1>4, <1>5 DEF Stale, IInv, Typed
    <3>3. req.stamp \in seen[d]..now
      BY <1>3, <1>4, <1>7, <2>4, TimeAssumption DEF IInv, Typed, NEVER
    <3> QED BY <1>3, <1>4, <1>5, <2>1, <2>2, <3>1, <3>2, <3>3
        DEF Promise!Update, Promise!Supersedes, Promise!Others, Promised
  <2> QED BY <2>3, <2>4
<1>17. \E e \in Id : Promise!Register(e) \/ Promise!Update(e)
  BY <1>3, <1>4, <1>16
<1> QED BY <1>9, <1>12, <1>13, <1>14, <1>15, <1>17 DEF IInv

\* A patch is taken: it keeps the position and the time last seen, and the index is
\* handed what the records say.
LEMMA AcceptPatchMoves ==
    ASSUME IInv, AcceptPatch
    PROVE  IInv' /\ \E d \in Id : Promise!Update(d)
<1>1. req.pc = "patching" /\ DOMAIN req.patches # {} /\ req.patches \in Queue
  BY DEF AcceptPatch, IInv, Queued, Typed
<1>2. PICK i \in Items : i = NextPatch
  BY <1>1, FirstIsItem DEF NextPatch
<1>3. PICK d \in Id : d = i.id
  BY ItemAssumption
<1>4. i.ver \in Nat /\ i.cells \in Marks
  BY ItemAssumption DEF Marks
<1>5. /\ ~ Stale(i) /\ d \in Live
      /\ IF i.cells = KEEP THEN UNCHANGED <<cells, index>>
         ELSE /\ cells' = [cells EXCEPT ![d] = i.cells]
              /\ index' = [index EXCEPT ![d] = [at |-> at[d], cells |-> i.cells]]
      /\ ver' = [ver EXCEPT ![d] = IF i.ver > 0 THEN i.ver ELSE @]
      /\ req' = PatchDone
      /\ UNCHANGED <<seen, at, repairs, limits, now, sweep>>
  BY <1>2, <1>3 DEF AcceptPatch, Patchable
<1>6. /\ req' \in [pc : Pc, reports : Queue, patches : Queue, stamp : Nat]
      /\ req'.reports = req.reports /\ req'.patches = Rest(req.patches)
      /\ req'.pc = IF DOMAIN req'.patches = {} THEN "reply" ELSE req.pc
  BY <1>1, <1>5, PatchIsDone DEF IInv
<1>7. Typed'
  BY <1>3, <1>4, <1>5, <1>6 DEF IInv, Typed, limits
<1>8. Live' = Live
  BY <1>5 DEF Live
<1>9. \A e \in Id : e # d => cells'[e] = cells[e] /\ ver'[e] = ver[e]
  BY <1>3, <1>5 DEF IInv, Typed
<1>10. cells'[d] \in Marks
  BY <1>3, <1>4, <1>5 DEF IInv, Typed, Agree
<1>11. Agree'
  <2>1. \A e \in Id : index'[e] = Rebuilt(seen', at', cells')[e]
    BY <1>3, <1>5, <1>9 DEF IInv, Typed, Agree, Rebuilt, Live
  <2>2. index' = [e \in Id |-> index'[e]]
    BY <1>5 DEF IInv, Agree, Rebuilt
  <2>3. index' = Rebuilt(seen', at', cells')
    BY <2>1, <2>2 DEF Rebuilt
  <2> QED BY <1>3, <1>5, <1>8, <1>9, <1>10, <2>3 DEF IInv, Agree, Live
<1>12. Queued' /\ Stamped' /\ Behind'
  BY <1>1, <1>5, <1>6 DEF IInv, Queued, Stamped, Behind
<1>13. Promise!Update(d)
  <2>1. \A e \in Id \ {d} : Promised'[e] = Promised[e]
    BY <1>3, <1>5, <1>8, <1>9 DEF Promised
  <2>2. Promised[d] # NONE /\ Promised[d].ver = ver[d] /\ Promised[d].seen = seen[d]
    BY <1>3, <1>5, HeldIsLive DEF Promised, IInv
  <2>3. Promised'[d] # NONE /\ Promised'[d].ver = ver'[d] /\ Promised'[d].seen = seen[d]
    <3>1. Promised'[d] = [ver |-> ver'[d], seen |-> seen[d], what |-> <<at[d], cells'[d]>>]
      BY <1>3, <1>5, <1>8 DEF Promised
    <3>2. ver'[d] \in Nat /\ seen[d] \in Nat /\ at[d] \in Place
      BY <1>3, <1>5, <1>7, TimeAssumption DEF IInv, Typed, Agree, NEVER
    <3> QED BY <1>10, <3>1, <3>2, HeldIsRecord
  <2>4. ver[d] = 0 \/ ver'[d] > ver[d]
    BY <1>3, <1>4, <1>5 DEF Stale, IInv, Typed
  <2>5. seen[d] \in seen[d]..now
    BY <1>3, <1>5, TimeAssumption DEF IInv, Typed, Agree, NEVER, Time
  <2> QED BY <1>3, <1>5, <2>1, <2>2, <2>3, <2>4, <2>5
      DEF Promise!Update, Promise!Supersedes, Promise!Others, Promised
<1>14. \E e \in Id : Promise!Update(e)
  BY <1>13
<1> QED BY <1>7, <1>11, <1>12, <1>14 DEF IInv

-----------------------------------------------------------------------------
(* Removal, expiry, limits *)

\* A device that goes leaves nothing, in the index or on record.
LEMMA ForgetMoves ==
    ASSUME IInv, NEW d \in Id, Forget(d), UNCHANGED <<repairs, limits, now, req>>,
           sweep' \in [cutoff : Nat, victims : SUBSET Id],
           sweep'.cutoff = sweep.cutoff, sweep'.victims \subseteq sweep.victims
    PROVE  /\ IInv'
           /\ Promised'[d] = NONE
           /\ \A e \in Id \ {d} : Promised'[e] = Promised[e]
<1>1. Typed'
  <2>1. NEVER \in 0..NEVER
    BY TimeAssumption DEF NEVER
  <2> QED BY <2>1 DEF Forget, IInv, Typed, limits
<1>2. /\ Live' = Live \ {d}
      /\ \A e \in Id \ {d} : /\ seen'[e] = seen[e] /\ ver'[e] = ver[e] /\ at'[e] = at[e]
                             /\ cells'[e] = cells[e] /\ index'[e] = index[e]
  BY DEF Forget, IInv, Typed, Agree, Rebuilt, Live
<1>3. Agree'
  <2>1. \A e \in Id : index'[e] = Rebuilt(seen', at', cells')[e]
    BY <1>2 DEF Forget, IInv, Typed, Agree, Rebuilt, Live
  <2>2. index' = [e \in Id |-> index'[e]]
    BY DEF Forget, IInv, Agree, Rebuilt
  <2>3. index' = Rebuilt(seen', at', cells')
    BY <2>1, <2>2 DEF Rebuilt
  <2> QED BY <1>2, <2>3 DEF IInv, Agree, Live
<1>4. Queued' /\ Stamped' /\ Behind'
  BY <1>2 DEF IInv, Queued, Stamped, Behind, Live
<1>5. Promised'[d] = NONE /\ \A e \in Id \ {d} : Promised'[e] = Promised[e]
  BY <1>2 DEF Promised
<1> QED BY <1>1, <1>3, <1>4, <1>5 DEF IInv

\* A device that the index holds is one that is held.
LEMMA RemoveMoves ==
    ASSUME IInv, NEW d \in Id, Remove(d)
    PROVE  IInv' /\ Promise!Delete(d)
<1>1. IInv' /\ Promised'[d] = NONE /\ \A e \in Id \ {d} : Promised'[e] = Promised[e]
  BY ForgetMoves DEF Remove, IInv, Typed
<1>2. Promised[d] # NONE
  BY HeldIsLive DEF Remove, IInv, Agree, Rebuilt, Live
<1> QED BY <1>1, <1>2 DEF Remove, Promise!Delete, Promise!Others, Promised

\* The victims have been silent for the TTL there was, if not for the one there is.
LEMMA ScanMoves ==
    ASSUME IInv, SweepScan
    PROVE  IInv' /\ \E ds \in SUBSET Id : Promise!Suspect(ds)
<1> DEFINE cutoff == IF now > ttl THEN now - ttl ELSE 0
           ds == {d \in Live : seen[d] < cutoff}
<1>1. /\ sweep = NoSweep /\ ttl > 0 /\ sweep' = [cutoff |-> cutoff, victims |-> ds]
      /\ UNCHANGED <<records, repairs, limits, now, req>>
  BY DEF SweepScan
<1>2. ttl \in Ttls \ {0} /\ ttl \in Nat /\ now \in Nat
  BY <1>1, LimitAssumption DEF IInv, Typed, Time
<1>3. cutoff \in Nat /\ (cutoff > 0 => cutoff + ttl <= now)
  BY <1>2
<1>4. \A d \in Id : seen[d] \in Nat
  BY TimeAssumption DEF IInv, Typed, NEVER
<1>5. \A d \in ds : d \in Id /\ d \in Live /\ cutoff > 0 /\ seen[d] + ttl < now
  BY <1>2, <1>3, <1>4 DEF Live
<1> HIDE DEF cutoff
<1>6. IInv'
  <2>1. Typed'
    BY <1>1, <1>3 DEF IInv, Typed, records, limits, Live
  <2>2. Agree' /\ Queued' /\ Stamped'
    BY <1>1 DEF IInv, Agree, Queued, Stamped, records, Live
  <2>3. Behind'
    BY <1>1, <1>2, <1>3, <1>5 DEF Behind, limits
  <2> QED BY <2>1, <2>2, <2>3 DEF IInv
<1>7. PICK es \in SUBSET Id : es = ds
  BY DEF Live
<1>8. Promise!Suspect(es)
  <2>1. \A d \in es : Promised[d] # NONE /\ Promised[d].seen = seen[d]
    BY <1>5, <1>7, HeldIsLive DEF IInv, Promised
  <2>2. Promised' = Promised
    BY <1>1 DEF Promised, records, Live
  <2> QED BY <1>1, <1>2, <1>5, <1>7, <2>1, <2>2 DEF Promise!Suspect, Promise!Silent, Promised, NoSweep
<1> QED BY <1>6, <1>8

\* A victim is looked at again, and goes only if it is still silent.
LEMMA ChunkMoves ==
    ASSUME IInv, NEW d \in Id, SweepChunk(d)
    PROVE  IInv' /\ (Promise!Spare(d) \/ Promise!Expire(d))
<1>1. /\ d \in sweep.victims
      /\ sweep' = [sweep EXCEPT !.victims = @ \ {d}]
      /\ UNCHANGED <<repairs, limits, now, req>>
  BY DEF SweepChunk
<1>2. /\ sweep' \in [cutoff : Nat, victims : SUBSET Id]
      /\ sweep'.cutoff = sweep.cutoff /\ sweep'.victims = sweep.victims \ {d}
  BY <1>1 DEF IInv, Typed
<1>3. CASE StillVictim(d)
  <2>1. Forget(d)
    BY <1>3 DEF SweepChunk
  <2>2. IInv' /\ Promised'[d] = NONE /\ \A e \in Id \ {d} : Promised'[e] = Promised[e]
    BY <1>1, <1>2, <2>1, ForgetMoves
  <2>3. Promised[d] # NONE /\ Promised[d].seen = seen[d]
    BY <1>3, HeldIsLive DEF StillVictim, IInv, Promised
  <2>4. seen[d] \in Nat /\ sweep.cutoff \in Nat /\ now \in Nat /\ seen[d] < sweep.cutoff
    BY <1>3, TimeAssumption DEF StillVictim, IInv, Typed, NEVER, Time
  <2>5. PICK t \in Ttls \ {0} : sweep.cutoff + t <= now
    BY <1>1 DEF IInv, Behind
  <2>6. seen[d] + t < now
    BY <2>4, <2>5, LimitAssumption
  <2> QED BY <1>1, <1>2, <2>2, <2>3, <2>5, <2>6
      DEF Promise!Expire, Promise!Silent, Promise!Others, Promised
<1>4. CASE ~ StillVictim(d)
  <2>1. UNCHANGED records
    BY <1>4 DEF SweepChunk
  <2>2. IInv'
    BY <1>1, <1>2, <2>1
    DEF IInv, Typed, Agree, Queued, Stamped, Behind, records, limits, Live
  <2>3. Promised' = Promised
    BY <2>1 DEF Promised, records, Live
  <2> QED BY <1>1, <1>2, <2>2, <2>3 DEF Promise!Spare, Promised
<1> QED BY <1>3, <1>4

\* The end of a sweep, and new limits.
LEMMA LimitsMove ==
    ASSUME IInv, SweepDone \/ \E t \in Ttls, l \in Limits : Adopt(t, l)
    PROVE  /\ IInv' /\ Promised' = Promised
           /\ now' = now /\ sweep'.victims = sweep.victims
<1>1. sweep' \in {sweep, NoSweep} /\ sweep'.victims = sweep.victims /\ ttl' \in Ttls
      /\ UNCHANGED <<records, repairs, now, req>>
  <2>1. CASE SweepDone
    BY <2>1 DEF SweepDone, NoSweep, IInv, Typed, limits
  <2>2. ASSUME NEW t \in Ttls, NEW l \in Limits, Adopt(t, l)
        PROVE  ttl' \in Ttls /\ UNCHANGED <<records, repairs, now, req, sweep>>
    BY <2>2 DEF Adopt
  <2> QED BY <2>1, <2>2
<1>2. Typed' /\ Agree' /\ Queued' /\ Stamped' /\ Behind'
  BY <1>1 DEF IInv, Typed, Agree, Queued, Stamped, Behind, records, Live, NoSweep
<1>3. Promised' = Promised
  BY <1>1 DEF Promised, records, Live
<1> QED BY <1>1, <1>2, <1>3 DEF IInv

\* Time passes.
LEMMA TickMoves ==
    ASSUME IInv, Tick
    PROVE  IInv' /\ Promise!Tick
<1>1. /\ now' = now + 1 /\ now' \in Time /\ now \in Nat
      /\ UNCHANGED <<records, repairs, limits, req, sweep>>
  BY TimeAssumption DEF Tick, IInv, Typed, Time
<1>2. \A d \in Id : seen[d] \in Nat
  BY TimeAssumption DEF IInv, Typed, NEVER
<1>3. Typed' /\ Queued'
  BY <1>1 DEF IInv, Typed, Queued, records, limits
<1>4. Agree' /\ Stamped'
  BY <1>1, <1>2 DEF IInv, Typed, Agree, Stamped, records, Live
<1>5. Behind'
  BY <1>1, LimitAssumption DEF IInv, Typed, Behind
<1>6. Promised' = Promised
  BY <1>1 DEF Promised, records, Live
<1> QED BY <1>1, <1>3, <1>4, <1>5, <1>6 DEF IInv, Promise!Tick, Promised

-----------------------------------------------------------------------------
(* Every step *)

\* A step keeps the invariant and is a step of the register, or none.
LEMMA StepMoves == IInv /\ [Next]_vars => IInv' /\ [Promise!Next]_(Promise!vars)
<1> SUFFICES ASSUME IInv, [Next]_vars PROVE IInv' /\ [Promise!Next]_(Promise!vars)
  OBVIOUS
<1>1. ASSUME Promised' = Promised, now' = now, sweep'.victims = sweep.victims
      PROVE  UNCHANGED Promise!vars
  BY <1>1 DEF Promise!vars, Promised
<1>2. CASE \E b \in Batches, partial \in BOOLEAN : Submit(b, partial)
  BY <1>1, <1>2, SubmitMoves DEF Submit
<1>3. CASE BeginUpsert \/ BeginPatch \/ Reply \/ StaleReport \/ RefusePatch
  <2>1. IInv' /\ Promised' = Promised
    BY <1>3, BeginMoves, RefuseMoves
  <2> QED BY <1>1, <1>3, <2>1 DEF BeginUpsert, BeginPatch, Reply, StaleReport, RefusePatch
<1>4. CASE AcceptReport
  BY <1>4, AcceptReportMoves DEF Promise!Next
<1>5. CASE AcceptPatch
  BY <1>5, AcceptPatchMoves DEF Promise!Next
<1>6. ASSUME NEW d \in Id, Remove(d) PROVE IInv' /\ Promise!Next
  BY <1>6, RemoveMoves DEF Promise!Next
<1>7. CASE SweepScan
  BY <1>7, ScanMoves DEF Promise!Next
<1>8. ASSUME NEW d \in Id, SweepChunk(d) PROVE IInv' /\ Promise!Next
  BY <1>8, ChunkMoves DEF Promise!Next
<1>9. CASE SweepDone \/ \E t \in Ttls, l \in Limits : Adopt(t, l)
  BY <1>1, <1>9, LimitsMove
<1>10. CASE Tick
  BY <1>10, TickMoves DEF Promise!Next
<1>11. CASE UNCHANGED vars
  <2>1. IInv'
    BY <1>11 DEF vars, records, limits, IInv, Typed, Agree, Queued, Stamped, Behind, Live
  <2>2. Promised' = Promised
    BY <1>11 DEF vars, records, Promised, Live
  <2> QED BY <1>1, <1>11, <2>1, <2>2 DEF vars
<1> QED BY <1>2, <1>3, <1>4, <1>5, <1>6, <1>7, <1>8, <1>9, <1>10, <1>11
    DEF Next, Serving, Sweeping

\* The first state of the register.
LEMMA InitMoves == Init => Promise!Init
<1> SUFFICES ASSUME Init PROVE Promise!Init
  OBVIOUS
<1> QED BY DEF Init, Promise!Init, Live, NoSweep

\* Every state is one of agreement.
THEOREM SpecIInv == Spec => []IInv
<1> QED BY InitIInv, StepMoves, PTL DEF Spec

\* The index holds the live devices and no other, each where and as the records say,
\* and is never rebuilt (upsert, patch, forget and verify in collection.rs).
THEOREM IndexAgrees == Spec => []IndexMatchesRecords
<1>1. IInv => IndexMatchesRecords
  BY DEF IInv, Agree, IndexMatchesRecords
<1> QED BY <1>1, SpecIInv, PTL

\* Batches, sections and the two-phase sweep are a register per device.
THEOREM ServesRegistry == Spec => ImplementsRegistry
<1> QED BY InitMoves, InitIInv, StepMoves, PTL DEF Spec, ImplementsRegistry, Promise!Spec

=============================================================================
