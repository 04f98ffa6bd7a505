----------------------------- MODULE Collection -----------------------------
(***************************************************************************)
(* One collection of crates/netcluster-server/src/collection.rs and the    *)
(* part of routes.rs that applies a batch of reports to it: source         *)
(* versions, expiry, live reconfiguration, and the records beside the      *)
(* index from which it can be rebuilt.                                     *)
(*                                                                         *)
(* A batch is applied under the write gate, but not in one piece: its      *)
(* properties are checked before any lock is taken, its position reports   *)
(* are one section under the write lock and its patches another.  The      *)
(* sweep does not take the gate.  It looks for victims under a read lock   *)
(* and removes them a chunk at a time; a chunk is one device here.  A      *)
(* repeated PUT adopts limits at any moment, with no lock at all.          *)
(*                                                                         *)
(* The network may deliver any item, in any order and any number of times: *)
(* a batch is any sequence over Items.  Positions are labels; the index is *)
(* what it must agree with, a position and a set of cells per device.      *)
(***************************************************************************)
EXTENDS Naturals, Sequences, FiniteSets

CONSTANTS
    Id,        \* external device ids
    Items,     \* the reports and patches a source may send
    Batches,   \* the batches posted, as sequences of Items
    Default,   \* default_cells: the cells of a device that names no values
    Ttls,      \* values ttl_seconds may be given, 0 for no expiry
    Limits,    \* values max_props_bytes may be given
    MaxTime,   \* bound on the clock
    NONE, KEEP \* nothing; the cells of an item that names no values

Time  == 0..MaxTime
NEVER == MaxTime + 1       \* last_seen of a device that is not live

ASSUME ItemAssumption ==
    \A i \in Items :
       /\ i.id \in Id
       /\ i.kind \in {"report", "patch"}
       /\ i.kind = "report" => i.at # NONE
       /\ i.ver \in Nat        \* updated_at_ms; 0 for None
       /\ i.size \in Nat       \* bytes of props; 0 for None
\* Equal source versions must represent the same update (README, Retries).
ASSUME VersionAssumption ==
    \A i, j \in Items : i.id = j.id /\ i.ver = j.ver /\ i.ver > 0 => i = j
ASSUME BatchAssumption == Batches \subseteq Seq(Items)
ASSUME LimitAssumption == Ttls \subseteq Nat /\ Limits \subseteq Nat
ASSUME TimeAssumption == MaxTime \in Nat
\* NONE is not a record of a device.
ASSUME NoneAssumption ==
    NONE \notin [ver : Nat, seen : Nat,
               what : {i.at : i \in Items} \X ({i.cells : i \in Items} \union {Default})]

VARIABLES
    seen,    \* last_seen
    ver,     \* last_update; 0 for None
    at,      \* positions
    cells,   \* cells
    index,   \* what the index holds of each device
    repairs, \* has the index ever been rebuilt
    ttl, limit, now,
    req,     \* the batch that holds the write gate
    sweep    \* the sweep in progress

records == <<seen, ver, at, cells, index>>
limits  == <<ttl, limit>>
vars    == <<records, repairs, limits, now, req, sweep>>

\* A request under way: the items of its batch still to be done, each at its place.
NoReq   == [pc |-> "idle", reports |-> <<>>, patches |-> <<>>, stamp |-> 0]
NoSweep == [cutoff |-> 0, victims |-> {}]

Live == {d \in Id : seen[d] # NEVER}

\* A section under the write lock is open.
Locked == req.pc \in {"upserting", "patching"}

\* check_props.
Oversized(i) == i.size > limit

\* Mutant: an equal version is not a retry but an update.
StaleOlderOnly(i) == ver[i.id] > 0 /\ i.ver < ver[i.id]

\* Once a device has a version, an item must carry a newer one.
Stale(i) == ver[i.id] > 0 /\ i.ver <= ver[i.id]

\* rebuild_index: the index derived afresh from the records of the live devices.
Rebuilt(s, p, c) ==
    [d \in Id |-> IF s[d] # NEVER /\ p[d] # NONE THEN [at |-> p[d], cells |-> c[d]] ELSE NONE]

Init ==
    /\ seen = [d \in Id |-> NEVER]
    /\ ver = [d \in Id |-> 0]
    /\ at = [d \in Id |-> NONE]
    /\ cells = [d \in Id |-> {}]
    /\ index = [d \in Id |-> NONE]
    /\ repairs = FALSE
    /\ ttl \in Ttls
    /\ limit \in Limits
    /\ now = 0
    /\ req = NoReq
    /\ sweep = NoSweep

-----------------------------------------------------------------------------
(* A batch *)

\* positions: with the gate held, properties are checked before anything is
\* resolved.  Refused items are set aside when the batch is partial; otherwise
\* they fail it, and nothing happens.
Submit(batch, partial) ==
    LET kept == {n \in DOMAIN batch : ~ Oversized(batch[n])}
    IN  /\ req.pc = "idle"
        /\ partial \/ kept = DOMAIN batch
        /\ req' = [pc |-> "upsert",
                   reports |-> [n \in {m \in kept : batch[m].kind = "report"} |-> batch[n]],
                   patches |-> [n \in {m \in kept : batch[m].kind = "patch"} |-> batch[n]],
                   stamp |-> 0]
        /\ UNCHANGED <<records, repairs, limits, now, sweep>>

\* The head of upsert: check again, read the clock, take the write lock.  An
\* error answers the whole request.
BeginUpsert ==
    /\ req.pc = "upsert"
    /\ req' = IF DOMAIN req.reports = {} THEN [req EXCEPT !.pc = "patch"]
              ELSE IF \E n \in DOMAIN req.reports : Oversized(req.reports[n])
                   THEN [NoReq EXCEPT !.pc = "error"]
                   ELSE [req EXCEPT !.pc = "upserting", !.stamp = now]
    /\ UNCHANGED <<records, repairs, limits, now, sweep>>

\* Items are taken in the order of the batch.
First(items) == CHOOSE n \in DOMAIN items : \A m \in DOMAIN items : n <= m
Rest(items) == [n \in DOMAIN items \ {First(items)} |-> items[n]]
NextReport == req.reports[First(req.reports)]
NextPatch  == req.patches[First(req.patches)]

\* The request once the first of its items is done with.
ReportDone ==
    LET rest == Rest(req.reports)
    IN  [req EXCEPT !.reports = rest, !.pc = IF DOMAIN rest = {} THEN "patch" ELSE @]

StaleReport ==
    /\ req.pc = "upserting"
    /\ Stale(NextReport)
    /\ req' = ReportDone
    /\ UNCHANGED <<records, repairs, limits, now, sweep>>

\* Mutant: the record of a moved device takes the default cells when the report
\* names none.
RecordCellsDefault(i) == IF i.cells = KEEP THEN Default ELSE i.cells

\* target_cells: what the records will say.
RecordCells(i) ==
    IF i.cells # KEEP THEN i.cells
    ELSE IF i.id \in Live THEN cells[i.id]
    ELSE Default

\* The index moves a live device, leaving its cells alone when the report names
\* none, and inserts any other; then the records are written, and the index is
\* rebuilt from them should it disagree.
AcceptReport ==
    LET i == NextReport
        d == i.id
        landed == [at |-> i.at, cells |-> IF d \in Live /\ i.cells = KEEP
                                          THEN index[d].cells ELSE RecordCells(i)]
        mended == landed # [at |-> i.at, cells |-> RecordCells(i)]
    IN  /\ req.pc = "upserting"
        /\ ~ Stale(i)
        /\ at' = [at EXCEPT ![d] = i.at]
        /\ cells' = [cells EXCEPT ![d] = RecordCells(i)]
        /\ seen' = [seen EXCEPT ![d] = req.stamp]
        /\ ver' = [ver EXCEPT ![d] = IF i.ver > 0 THEN i.ver ELSE @]
        /\ index' = IF mended THEN Rebuilt(seen', at', cells')
                    ELSE [index EXCEPT ![d] = landed]
        /\ repairs' = (repairs \/ mended)
        /\ req' = ReportDone
        /\ UNCHANGED <<limits, now, sweep>>

\* The head of patch, after the reports have been applied.
BeginPatch ==
    /\ req.pc = "patch"
    /\ req' = IF DOMAIN req.patches = {} THEN [req EXCEPT !.pc = "reply"]
              ELSE IF \E n \in DOMAIN req.patches : Oversized(req.patches[n])
                   THEN [NoReq EXCEPT !.pc = "error"]
                   ELSE [req EXCEPT !.pc = "patching"]
    /\ UNCHANGED <<records, repairs, limits, now, sweep>>

PatchDone ==
    LET rest == Rest(req.patches)
    IN  [req EXCEPT !.patches = rest, !.pc = IF DOMAIN rest = {} THEN "reply" ELSE @]

\* Mutant: a device that expired may still be patched.
PatchableExpired(d) == d \in Id

\* Live, and with a position to keep.
Patchable(d) == d \in Live /\ at[d] # NONE

\* Named in "unknown", or counted as stale.
RefusePatch ==
    LET i == NextPatch
    IN  /\ req.pc = "patching"
        /\ ~ Patchable(i.id) \/ Stale(i)
        /\ req' = PatchDone
        /\ UNCHANGED <<records, repairs, limits, now, sweep>>

\* The index is handed the stored position with the new cells: a device it did
\* not hold would be inserted.  The time last seen is left alone.
AcceptPatch ==
    LET i == NextPatch
        d == i.id
    IN  /\ req.pc = "patching"
        /\ Patchable(d) /\ ~ Stale(i)
        /\ IF i.cells = KEEP THEN UNCHANGED <<cells, index>>
           ELSE /\ cells' = [cells EXCEPT ![d] = i.cells]
                /\ index' = [index EXCEPT ![d] = [at |-> at[d], cells |-> i.cells]]
        /\ ver' = [ver EXCEPT ![d] = IF i.ver > 0 THEN i.ver ELSE @]
        /\ req' = PatchDone
        /\ UNCHANGED <<seen, at, repairs, limits, now, sweep>>

\* The answer goes out and the gate is released.
Reply ==
    /\ req.pc \in {"reply", "error"}
    /\ req' = NoReq
    /\ UNCHANGED <<records, repairs, limits, now, sweep>>

-----------------------------------------------------------------------------
(* Removal, expiry, limits *)

\* What a device leaves behind when the index let go of it.
Forget(d) ==
    /\ seen' = [seen EXCEPT ![d] = NEVER]
    /\ ver' = [ver EXCEPT ![d] = 0]
    /\ at' = [at EXCEPT ![d] = NONE]
    /\ cells' = [cells EXCEPT ![d] = {}]
    /\ index' = [index EXCEPT ![d] = NONE]

\* delete_device holds the gate for its single section.
Remove(d) ==
    /\ req.pc = "idle"
    /\ index[d] # NONE
    /\ Forget(d)
    /\ UNCHANGED <<repairs, limits, now, req, sweep>>

\* sweep, first phase: the victims, under a read lock.
SweepScan ==
    /\ sweep = NoSweep
    /\ ttl > 0
    /\ ~ Locked
    /\ LET cutoff == IF now > ttl THEN now - ttl ELSE 0
       IN  sweep' = [cutoff |-> cutoff, victims |-> {d \in Live : seen[d] < cutoff}]
    /\ sweep' # NoSweep
    /\ UNCHANGED <<records, repairs, limits, now, req>>

\* Mutant: whoever was a victim at the scan still is.
VictimOfScan(d) == index[d] # NONE

\* The re-check: d may have reported since the scan, or be gone.
StillVictim(d) == d \in Live /\ seen[d] < sweep.cutoff /\ index[d] # NONE

\* Mutant: a victim that reported in time is kept on the list.
SweepChunkRetries(d) ==
    /\ d \in sweep.victims
    /\ ~ Locked
    /\ StillVictim(d)
    /\ Forget(d)
    /\ sweep' = [sweep EXCEPT !.victims = @ \ {d}]
    /\ UNCHANGED <<repairs, limits, now, req>>

\* Second phase: one victim, under the write lock.
SweepChunk(d) ==
    /\ d \in sweep.victims
    /\ ~ Locked
    /\ IF StillVictim(d) THEN Forget(d) ELSE UNCHANGED records
    /\ sweep' = [sweep EXCEPT !.victims = @ \ {d}]
    /\ UNCHANGED <<repairs, limits, now, req>>

SweepDone ==
    /\ sweep # NoSweep /\ sweep.victims = {}
    /\ sweep' = NoSweep
    /\ UNCHANGED <<records, repairs, limits, now, req>>

\* adopt.
Adopt(t, l) ==
    /\ ttl' = t /\ limit' = l
    /\ UNCHANGED <<records, repairs, now, req, sweep>>

Tick ==
    /\ now < MaxTime
    /\ now' = now + 1
    /\ UNCHANGED <<records, repairs, limits, req, sweep>>

Sweeping == SweepScan \/ SweepDone \/ \E d \in Id : SweepChunk(d)
Serving ==
    \/ BeginUpsert \/ StaleReport \/ AcceptReport
    \/ BeginPatch \/ RefusePatch \/ AcceptPatch
    \/ Reply

Next ==
    \/ \E b \in Batches, partial \in BOOLEAN : Submit(b, partial)
    \/ Serving
    \/ \E d \in Id : Remove(d)
    \/ Sweeping
    \/ \E t \in Ttls, l \in Limits : Adopt(t, l)
    \/ Tick

Spec == Init /\ [][Next]_vars

\* A batch under way runs to its end, and the sweep task keeps coming round.  It
\* must win the lock between two sections infinitely often, hence SF.
FairSpec == Spec /\ WF_vars(Serving) /\ SF_vars(Sweeping)

-----------------------------------------------------------------------------
(* Properties *)

\* verify's "source/index mismatch": the index holds the live devices and no
\* other, each at the position and in the cells on record, although the two are
\* written on different paths (a report without values leaves the index's cells
\* alone and the record's too; a patch hands the stored position back).  It does so
\* by itself: the defensive rebuild never has anything to repair.
IndexMatchesRecords == index = Rebuilt(seen, at, cells) /\ ~ repairs

\* What the sources are promised, read off the records.
Promise == INSTANCE Registry WITH
    held <- [d \in Id |-> IF d \in Live
                          THEN [ver |-> ver[d], seen |-> seen[d], what |-> <<at[d], cells[d]>>]
                          ELSE NONE],
    suspects <- sweep.victims,
    Silence <- Ttls \ {0}

\* Batches, sections and the two-phase sweep implement a register per device: an
\* update that does not supersede what is held changes nothing of it, whatever is
\* repeated or late, and no device expires that was heard of within the shortest
\* TTL ever declared, though the sweep decided on its victims earlier, under
\* another lock, and the TTL may have moved since.
ImplementsRegistry == Promise!Spec

\* Silent beyond the TTL in force.
Ghost(d) == d \in Live /\ ttl > 0 /\ seen[d] + ttl < now

\* A device that went silent does not stay on the map: it is dropped, or it
\* reports again, or the TTL is raised.
GhostsLeave == \A d \in Id : []<> ~ Ghost(d)

=============================================================================
