----------------------------- MODULE Snapshots ------------------------------
(***************************************************************************)
(* A collection, the registry it is reachable from and the file it is      *)
(* saved in: snapshot.rs, snapshot_to, export and restore in               *)
(* collection.rs, create_collection, drop_collection and force_snapshot in *)
(* routes.rs, and the life of the process in main.rs.                      *)
(*                                                                         *)
(* One name is enough: names share no state.  The name denotes, one after  *)
(* another, several collection objects ("incarnations").  A task that got  *)
(* hold of an object keeps it after the name was dropped, and the path is  *)
(* derived from the name, so tasks of two incarnations meet in the same    *)
(* two files.                                                              *)
(*                                                                         *)
(* What a collection holds is abstracted to n, the number of changes made  *)
(* to it; Dimensions has its labels.  A file is written in two halves; it  *)
(* is readable (the checksum matches) when both come from one image.       *)
(*                                                                         *)
(* A machine that goes down loses what was not synced.  The code syncs the *)
(* file it writes and never the directory, so a rename or a removal is     *)
(* seen at once by every process and lasts through a loss of power only    *)
(* when the operating system has written the directory back (SyncDir).     *)
(***************************************************************************)
EXTENDS Naturals, FiniteSets

CONSTANTS
    Snapper,    \* tasks that write snapshots: the timer, requests, ...
    Main,       \* ... and main itself, once serving has stopped
    MaxInc,     \* bound on the number of collection objects
    MaxChange,  \* bound on the changes to the objects in memory
    NONE

Inc == 1..MaxInc
Ino == 1..(Cardinality(Snapper) + 3)   \* enough: one per writer, tmp, file and kept

ASSUME SnapperAssumption == Main \in Snapper /\ IsFiniteSet(Snapper)
ASSUME BoundAssumption == MaxInc \in Nat /\ MaxChange \in Nat
ASSUME NoneAssumption ==
    NONE \notin Snapper /\ NONE \notin Ino /\ NONE \notin [of : Nat, n : Nat]

VARIABLES
    cur,       \* the registry: the object under the name, 0 for none
    next,      \* objects made so far
    obj,       \* obj[i]: what object i holds
    gate,      \* snapshot_gate of each object
    snap,      \* the snapshot each task is taking
    inode, tmp, file,   \* the disk: files, and the names they have
    kept,      \* the file of the directory as it is on the platter
    dropper,   \* a DELETE of the collection under way
    req,       \* a batch of reports: its body being read, or its job
    phase,     \* serving, draining, final, stopped or down
    asked,     \* history: has a DELETE ever been handled
    dropped,   \* history: lineages whose DELETE was answered
    saved,     \* history: n of the newest snapshot reported written, ...
    durable,   \* ... of the newest when the directory was last written back
    answered   \* ... and n when cur last acknowledged a batch, until a DELETE

mem  == <<cur, next, obj, gate, snap, dropper, req>>
disk == <<inode, tmp, file, kept>>
past == <<asked, dropped, saved, durable, answered>>
vars == <<mem, disk, phase, past>>

Empty  == [of |-> 0, n |-> 0]   \* an image: whose, and how far
Resting == [pc |-> "idle", obj |-> 0, img |-> Empty, ino |-> 0]
NoReq  == [at |-> "none", obj |-> 0, attended |-> FALSE]
Blank  == [a |-> NONE, b |-> NONE, synced |-> FALSE]

Up == phase \in {"serving", "draining", "final"}

\* read: the image in the file, NONE when there is none or it does not verify.
FileImage ==
    IF file = NONE THEN NONE
    ELSE IF inode[file].a = inode[file].b THEN inode[file].a
    ELSE NONE

\* The changes the objects in memory hold, for the bound on them.
Changes == Cardinality({c \in Inc \X (1..MaxChange) : c[2] <= obj[c[1]].n})

Init ==
    /\ cur = 0 /\ next = 0
    /\ obj = [i \in Inc |-> Empty]
    /\ gate = [i \in Inc |-> NONE]
    /\ snap = [s \in Snapper |-> Resting]
    /\ inode = [i \in Ino |-> Blank]
    /\ tmp = NONE /\ file = NONE /\ kept = NONE
    /\ dropper = 0
    /\ req = NoReq
    /\ phase = "serving"
    /\ asked = FALSE
    /\ dropped = {}
    /\ saved = 0 /\ durable = 0 /\ answered = 0

\* A file without a name is of no interest once none of the tasks writes it.
Forget(i, tasks) ==
    [inode EXCEPT ![i] = IF i \in {snap[t].ino : t \in tasks} THEN @ ELSE Blank]

-----------------------------------------------------------------------------
(* Requests *)

\* A new object under the name.
MakeObject ==
    /\ cur = 0 /\ next < MaxInc
    /\ next' = next + 1
    /\ cur' = next'
    /\ obj' = [obj EXCEPT ![next'] = [Empty EXCEPT !.of = next']]

\* create_collection.
Create ==
    /\ phase = "serving"
    /\ MakeObject
    /\ UNCHANGED <<gate, snap, dropper, req, disk, phase, past>>

\* A client connects and begins to send a batch.
Connect ==
    /\ phase = "serving"
    /\ req = NoReq
    /\ req' = [at |-> "body", obj |-> 0, attended |-> TRUE]
    /\ UNCHANGED <<cur, next, obj, gate, snap, dropper, disk, phase, past>>

\* The body is there, which may take the client for ever.  positions looks the name
\* up, or auto-creates it, and hands the batch to a job.
BeginBatch ==
    /\ Up /\ req.at = "body"
    /\ \/ cur # 0 /\ UNCHANGED <<cur, next, obj>>
       \/ MakeObject
    /\ req' = [req EXCEPT !.at = "job", !.obj = cur']
    /\ UNCHANGED <<gate, snap, dropper, disk, phase, past>>

\* There is no such collection, and auto-create is off.
NoCollection ==
    /\ Up /\ req.at = "body" /\ cur = 0
    /\ req' = NoReq
    /\ UNCHANGED <<cur, next, obj, gate, snap, dropper, disk, phase, past>>

\* The client goes away and the handler with it; a job is not told.
HangUp ==
    /\ Up
    /\ req.attended
    /\ req' = IF req.at = "job" THEN [req EXCEPT !.attended = FALSE] ELSE NoReq
    /\ UNCHANGED <<cur, next, obj, gate, snap, dropper, disk, phase, past>>

\* The batch is applied under the write lock, or nothing in it is new; it is
\* acknowledged if there still is a handler to do so.
ApplyBatch ==
    /\ Up /\ req.at = "job"
    /\ \E new \in {0, 1} :
          /\ Changes + new <= MaxChange   \* the bound
          /\ obj' = [obj EXCEPT ![req.obj].n = @ + new]
    /\ answered' = IF req.attended /\ ~ asked THEN obj'[cur].n ELSE answered
    /\ req' = NoReq
    /\ UNCHANGED <<cur, next, gate, snap, dropper, disk, phase, asked, dropped, saved, durable>>

\* drop_collection: out of the registry, then the file.
DropUnregister ==
    /\ phase = "serving"
    /\ cur # 0 /\ dropper = 0
    /\ dropper' = cur
    /\ cur' = 0
    /\ asked' = TRUE
    /\ saved' = 0 /\ durable' = 0 /\ answered' = 0
    /\ UNCHANGED <<next, obj, gate, snap, req, disk, phase, dropped>>

DropRemoveFile ==
    /\ Up /\ dropper # 0
    /\ file' = NONE
    /\ dropped' = dropped \union {obj[dropper].of}
    /\ dropper' = 0
    /\ inode' = IF file \in {NONE, kept} THEN inode ELSE Forget(file, Snapper)
    /\ UNCHANGED <<cur, next, obj, gate, snap, req, tmp, kept, phase>>
    /\ UNCHANGED <<asked, saved, durable, answered>>

-----------------------------------------------------------------------------
(* snapshot_to *)

\* snapshot_all collects the objects before it saves any; force_snapshot looks
\* the name up before the blocking job starts.  main does so once serving ended.
Collect(s) ==
    /\ IF s = Main THEN phase = "final" ELSE Up
    /\ snap[s].pc = "idle"
    /\ cur # 0
    /\ snap' = [snap EXCEPT ![s] = [pc |-> "export", obj |-> cur, img |-> Empty, ino |-> 0]]
    /\ UNCHANGED <<cur, next, obj, gate, dropper, req, disk, phase, past>>

\* Mutant: the snapshot gate is not taken.
ExportUngated(s) ==
    /\ Up /\ snap[s].pc = "export"
    /\ snap' = [snap EXCEPT ![s].pc = "create", ![s].img = obj[snap[s].obj]]
    /\ UNCHANGED <<cur, next, obj, gate, dropper, req, disk, phase, past>>

\* Take the gate and copy the records under the read lock.  (The labels are read
\* after them, under another lock; see Dimensions.)
Export(s) ==
    /\ Up /\ snap[s].pc = "export"
    /\ gate[snap[s].obj] = NONE
    /\ gate' = [gate EXCEPT ![snap[s].obj] = s]
    /\ snap' = [snap EXCEPT ![s].pc = "create", ![s].img = obj[snap[s].obj]]
    /\ UNCHANGED <<cur, next, obj, dropper, req, disk, phase, past>>

NewInode == CHOOSE i \in Ino : i \notin {file, kept} \union {snap[s].ino : s \in Snapper}

\* File::create of the temporary file: a new one, or the one there cut to nothing.
CreateTmp(s) ==
    /\ Up /\ snap[s].pc = "create"
    /\ tmp' = IF tmp # NONE THEN tmp ELSE NewInode
    /\ inode' = [inode EXCEPT ![tmp'] = Blank]
    /\ snap' = [snap EXCEPT ![s].pc = "first", ![s].ino = tmp']
    /\ UNCHANGED <<cur, next, obj, gate, dropper, req, file, kept, phase, past>>

WriteFirst(s) ==
    /\ Up /\ snap[s].pc = "first"
    /\ inode' = [inode EXCEPT ![snap[s].ino].a = snap[s].img, ![snap[s].ino].synced = FALSE]
    /\ snap' = [snap EXCEPT ![s].pc = "second"]
    /\ UNCHANGED <<cur, next, obj, gate, dropper, req, tmp, file, kept, phase, past>>

\* Mutant: flushed to the operating system, not to the disk.
WriteSecondFlushed(s) ==
    /\ Up /\ snap[s].pc = "second"
    /\ inode' = [inode EXCEPT ![snap[s].ino].b = snap[s].img, ![snap[s].ino].synced = FALSE]
    /\ snap' = [snap EXCEPT ![s].pc = "rename"]
    /\ UNCHANGED <<cur, next, obj, gate, dropper, req, tmp, file, kept, phase, past>>

\* The rest of the records and the checksum, then sync_all.
WriteSecond(s) ==
    /\ Up /\ snap[s].pc = "second"
    /\ inode' = [inode EXCEPT ![snap[s].ino].b = snap[s].img, ![snap[s].ino].synced = TRUE]
    /\ snap' = [snap EXCEPT ![s].pc = "rename"]
    /\ UNCHANGED <<cur, next, obj, gate, dropper, req, tmp, file, kept, phase, past>>

\* Mutant: an error leaves the gate taken.
DoneKeepsGate(s) ==
    /\ snap' = [snap EXCEPT ![s] = Resting]
    /\ gate' = IF file' # file THEN [gate EXCEPT ![snap[s].obj] = NONE] ELSE gate
    /\ phase' = IF s = Main THEN "stopped" ELSE phase
    /\ UNCHANGED <<cur, next, obj, dropper, req, kept, asked, dropped, durable, answered>>

\* snapshot_to returns, with a size or an error: the gate is released.
Done(s) ==
    /\ snap' = [snap EXCEPT ![s] = Resting]
    /\ gate' = [gate EXCEPT ![snap[s].obj] = IF @ = s THEN NONE ELSE @]
    /\ phase' = IF s = Main THEN "stopped" ELSE phase
    /\ UNCHANGED <<cur, next, obj, dropper, req, kept, asked, dropped, durable, answered>>

\* An error while writing (a full disk, say): the temporary file stays as it is.
FailWrite(s) ==
    /\ Up /\ snap[s].pc \in {"create", "first", "second"}
    /\ UNCHANGED <<disk, saved>>
    /\ Done(s)

\* Mutant: the file that is replaced is removed first.
RenameAfterRemove(s) ==
    /\ Up /\ snap[s].pc = "rename"
    /\ UNCHANGED inode
    /\ IF file # NONE
       THEN /\ file' = NONE
            /\ UNCHANGED <<tmp, kept, mem, phase, past>>
       ELSE /\ file' = tmp /\ tmp' = NONE
            /\ saved' = IF asked THEN 0 ELSE snap[s].img.n
            /\ Done(s)

\* Rename over the real path, which fails when the temporary file is gone.
Rename(s) ==
    /\ Up /\ snap[s].pc = "rename"
    /\ IF tmp # NONE
       THEN /\ file' = tmp /\ tmp' = NONE
            /\ inode' = IF file \in {NONE, kept} THEN inode ELSE Forget(file, Snapper \ {s})
            /\ saved' = IF ~ asked /\ snap[s].img.n > saved THEN snap[s].img.n ELSE saved
       ELSE UNCHANGED <<disk, saved>>
    /\ Done(s)

-----------------------------------------------------------------------------
(* The machine and the process *)

\* The operating system writes the directory back, at a time of its own.
SyncDir ==
    /\ kept # file
    /\ kept' = file
    /\ inode' = IF kept = NONE THEN inode ELSE Forget(kept, Snapper)
    /\ durable' = saved
    /\ UNCHANGED <<mem, tmp, file, phase, asked, dropped, saved, answered>>

\* The expiry task removes devices at any time, shutdown included.
Sweep ==
    /\ Up
    /\ cur # 0 /\ obj[cur].n > 0
    /\ Changes < MaxChange   \* the bound
    /\ obj' = [obj EXCEPT ![cur].n = @ + 1]
    /\ UNCHANGED <<cur, next, gate, snap, dropper, req, disk, phase, past>>

\* A signal: no new connections.
Signal ==
    /\ phase = "serving"
    /\ phase' = "draining"
    /\ UNCHANGED <<mem, disk, past>>

\* Mutant: the server is gone without waiting for the requests it is answering.
DrainedAtOnce ==
    /\ phase = "draining"
    /\ phase' = IF cur = 0 THEN "stopped" ELSE "final"
    /\ UNCHANGED <<mem, disk, past>>

\* The connections there are have come to an end, which a client that stalls
\* halfway through its body puts off.  It waits for no job: the handler of a client
\* that went away is dropped with its connection, the job it had started runs on.
Drained ==
    /\ phase = "draining"
    /\ ~ req.attended
    /\ phase' = IF cur = 0 THEN "stopped" ELSE "final"
    /\ UNCHANGED <<mem, disk, past>>

\* The process ends and memory is gone.  When the machine goes down with it, what is
\* left is the directory as it was on the platter, and of its files what was synced.
\* (A temporary file left over is cut to nothing before anything is written to it,
\* so it does not matter whether there is one.)  A process that stopped may be
\* started again, on a machine that went down or did not.
Crash(power) ==
    /\ phase # "down"
    /\ phase' = "down"
    /\ cur' = 0
    /\ obj' = [i \in Inc |-> Empty]
    /\ gate' = [i \in Inc |-> NONE]
    /\ snap' = [s \in Snapper |-> Resting]
    /\ dropper' = 0 /\ req' = NoReq
    /\ answered' = 0
    /\ IF power
       THEN /\ file' = kept /\ tmp' = NONE
            /\ inode' = [i \in Ino |-> IF i = kept /\ inode[i].synced THEN inode[i] ELSE Blank]
            /\ saved' = durable
            /\ dropped' = IF kept = file THEN dropped ELSE {}
       ELSE UNCHANGED <<tmp, file, inode, saved, dropped>>
    /\ UNCHANGED <<next, kept, asked, durable>>

\* restore_all: a file that does not verify is skipped.
Restart ==
    /\ phase = "down" /\ next < MaxInc
    /\ phase' = "serving"
    /\ IF FileImage = NONE THEN UNCHANGED <<cur, next, obj>>
       ELSE /\ next' = next + 1
            /\ cur' = next'
            /\ obj' = [obj EXCEPT ![next'] = FileImage]
    /\ UNCHANGED <<gate, snap, dropper, req, disk, past>>

Snapshot(s) ==
    \/ Collect(s) \/ Export(s)
    \/ CreateTmp(s) \/ WriteFirst(s) \/ WriteSecond(s)
    \/ Rename(s) \/ FailWrite(s)

Requests == Create \/ Connect \/ BeginBatch \/ NoCollection \/ HangUp \/ ApplyBatch

Next ==
    \/ Requests
    \/ DropUnregister \/ DropRemoveFile
    \/ \E s \in Snapper : Snapshot(s)
    \/ Sweep
    \/ Signal \/ Drained
    \/ SyncDir
    \/ \E power \in BOOLEAN : Crash(power)
    \/ Restart

Spec == Init /\ [][Next]_vars

\* A job that was started runs, and so does main, which wins the gate in the end:
\* the timer rests between two snapshots.  Nothing else must happen: there may be
\* no signal, no request, no crash, the directory may never be written back, and a
\* client may neither send the rest of its body nor go away.
FairSpec ==
    /\ Spec
    /\ WF_vars(ApplyBatch) /\ WF_vars(Drained)
    /\ \A s \in Snapper : WF_vars(Snapshot(s))
    /\ SF_vars(Export(Main))

-----------------------------------------------------------------------------
(* Properties *)

\* The file, once there is one, verifies whenever the process or the machine
\* may go down: "a crash halfway through leaves the previous good snapshot
\* untouched rather than a half-written one" (write, snapshot.rs).
FileIntact ==
    file # NONE => /\ FileImage # NONE
                   /\ inode[file].synced

\* So it is while the name has denoted one collection only.
FileIntactUndropped == ~ asked => FileIntact

\* A newer snapshot of an object is never overwritten by an older one of it.  (Only a
\* loss of power may bring an older one back, see SavedSurvives.)
SnapshotsAdvance ==
    [][FileImage # NONE /\ FileImage' # NONE /\ phase' # "down"
         /\ FileImage'.of = FileImage.of => FileImage'.n >= FileImage.n]_vars

\* A snapshot that was reported written is what the next start finds, or a newer
\* one, as long as nobody drops the collection: always when the process alone dies,
\* and after a loss of power if the directory had been written back since the report.
\* (If it had not, an older snapshot is back, or none: the code does not sync it.)
SavedSurvives ==
    saved > 0 => FileImage # NONE /\ FileImage.n >= saved

\* When main's own snapshot was written, every batch the collection acknowledged
\* is in it, as long as nobody drops the collection.  (More may be missing than
\* the comment before it says: the sweep and the jobs of clients that went away
\* change the collection while it is written.)
AnsweredIsSaved ==
    [][phase = "final" /\ phase' = "stopped" /\ file' # file /\ ~ asked
         => FileImage'.n >= answered]_vars

\* A signal ends the process, whoever holds the snapshot gate and whatever fails
\* meanwhile, unless a client keeps a body it never completes: reading one has no
\* timeout, and serving stops when the last connection has ended.
ShutdownEnds ==
    phase = "draining" /\ req.at # "body" ~> phase \in {"stopped", "down"}

\* "The snapshot has to go with it, or the collection resurrects at the next
\* restart and a delete quietly did not stick" (drop_collection).
DroppedStaysDropped == cur # 0 => obj[cur].of \notin dropped

=============================================================================
