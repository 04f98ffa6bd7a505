--------------------------- MODULE SnapshotsProofs ---------------------------
(***************************************************************************)
(* Proofs about Snapshots, for any number of tasks, objects and changes:   *)
(* the file never goes back to an older image of the same collection while *)
(* the machine is up, and, while no collection was dropped, it is intact,  *)
(* keeps what was reported written, through a loss of power what had been  *)
(* when the directory was written back, and ends up with everything that   *)
(* was acknowledged.                                                       *)
(*                                                                         *)
(* The inductive invariant has two halves.  Sound speaks of every state:   *)
(* tasks of different incarnations meet in the same two files, so it says  *)
(* of which lineage each half of an inode may be.  Undropped speaks of the *)
(* states before the first DELETE, where all tasks work for one object and *)
(* its gate leaves a single writer.                                        *)
(***************************************************************************)
EXTENDS Snapshots, FiniteSetTheorems, TLAPS

Image == [of : Nat, n : Nat]
Half == Image \union {NONE}
Inode == [a : Half, b : Half, synced : BOOLEAN]
Pc == {"idle", "export", "create", "first", "second", "rename"}
Request == [at : {"none", "body", "job"}, obj : 0..MaxInc, attended : BOOLEAN]
Task == [pc : Pc, obj : 0..MaxInc, img : Image, ino : Ino \union {0}]

\* s holds the gate, and s has the temporary file open.
Writer(s) == snap[s].pc \in {"create", "first", "second", "rename"}
HasFile(s) == snap[s].pc \in {"first", "second", "rename"}

Typed ==
    /\ next \in 0..MaxInc /\ cur \in 0..next
    /\ obj \in [Inc -> Image]
    /\ gate \in [Inc -> Snapper \union {NONE}]
    /\ snap \in [Snapper -> Task]
    /\ inode \in [Ino -> Inode]
    /\ {tmp, file, kept} \subseteq Ino \union {NONE}
    /\ dropper \in 0..MaxInc
    /\ req \in Request
    /\ phase \in {"serving", "draining", "final", "stopped", "down"}
    /\ asked \in BOOLEAN
    /\ saved \in Nat /\ durable \in Nat /\ answered \in Nat

\* What a task has in its hands: an object that lives, its gate, an image of it.
Tasks ==
    \A s \in Snapper :
        /\ snap[s].pc # "idle" => snap[s].obj \in Inc /\ obj[snap[s].obj].of # 0
        /\ Writer(s) => /\ gate[snap[s].obj] = s
                        /\ snap[s].img.of = obj[snap[s].obj].of
                        /\ snap[s].img.n <= obj[snap[s].obj].n
        /\ HasFile(s) => snap[s].ino \in Ino

Process ==
    /\ phase = "down" => /\ cur = 0 /\ dropper = 0 /\ req = NoReq
                         /\ \A i \in Inc : obj[i] = Empty
                         /\ \A s \in Snapper : snap[s].pc = "idle"
    /\ cur # 0 => obj[cur].of # 0
    /\ req.at = "job" => req.obj # 0
    /\ req.attended => phase \in {"serving", "draining"}
    /\ ~ asked /\ req.obj # 0 => req.obj = cur
    /\ snap[Main].pc # "idle" => phase = "final"

\* A lineage has one living object; those to come are new.
Lineages ==
    /\ \A i \in Inc : obj[i].of <= next /\ (obj[i].of # 0 => i <= next)
    /\ \A i, j \in Inc : obj[i].of = obj[j].of /\ obj[i].of # 0 => i = j
    /\ \A i \in Ino : /\ inode[i].a # NONE => inode[i].a.of \in 1..next
                      /\ inode[i].b # NONE => inode[i].b.of \in 1..next

Foreign(half, s) == half = NONE \/ half.of # snap[s].img.of

\* Until it writes a half itself, a task finds none of its lineage.
Halves ==
    \A s \in Snapper :
        /\ snap[s].pc = "first" => /\ Foreign(inode[snap[s].ino].a, s)
                                   /\ Foreign(inode[snap[s].ino].b, s)
        /\ snap[s].pc = "second" => Foreign(inode[snap[s].ino].b, s)

Complete(i) == inode[i].a = inode[i].b /\ inode[i].a # NONE

\* A temporary file that could be renamed and verifies has just been written.
TmpIsNew ==
    /\ tmp # NONE => tmp \notin {file, kept}
    /\ tmp # NONE /\ Complete(tmp) /\ (\E s \in Snapper : HasFile(s)) =>
          \E w \in Snapper : /\ snap[w].pc = "rename" /\ snap[w].ino = tmp
                             /\ snap[w].img = inode[tmp].a

\* The file is no newer than anything of its lineage in memory.
FileIsOld ==
    FileImage # NONE =>
        /\ \A i \in Inc : obj[i].of = FileImage.of => FileImage.n <= obj[i].n
        /\ \A s \in Snapper : Writer(s) /\ snap[s].img.of = FileImage.of
                                  => FileImage.n <= snap[s].img.n

Sound == Typed /\ Tasks /\ Process /\ Lineages /\ Halves /\ TmpIsNew /\ FileIsOld

\* Before the first DELETE: one object, so one writer, and the temporary file is its.
OneObject ==
    /\ dropper = 0
    /\ \A s \in Snapper : snap[s].pc # "idle" => snap[s].obj = cur
    /\ cur = 0 => answered = 0
    /\ cur # 0 => answered <= obj[cur].n
    /\ Writer(Main) => answered <= snap[Main].img.n

OwnTmp ==
    \A s \in Snapper :
        /\ HasFile(s) => tmp # NONE /\ snap[s].ino = tmp
        /\ snap[s].pc = "second" => inode[tmp].a = snap[s].img
        /\ snap[s].pc = "rename" =>
              inode[tmp] = [a |-> snap[s].img, b |-> snap[s].img, synced |-> TRUE]

OwnFile ==
    /\ file = NONE => saved = 0
    /\ file # NONE =>
          /\ Complete(file) /\ inode[file].synced
          /\ saved <= inode[file].a.n
          /\ phase # "down" => cur # 0 /\ inode[file].a.n <= obj[cur].n
          /\ \A s \in Snapper : Writer(s) => inode[file].a.n <= snap[s].img.n

\* What a loss of power leaves: nobody writes it any more.
OwnKept ==
    /\ kept = NONE => durable = 0
    /\ kept # NONE => /\ Complete(kept) /\ inode[kept].synced
                      /\ durable <= inode[kept].a.n

Undropped == ~ asked => OneObject /\ OwnTmp /\ OwnFile /\ OwnKept

\* The record of task s, changed as a step of s changes it.
LEMMA SnapPc ==
    ASSUME Typed, NEW s \in Snapper, NEW pc \in Pc, snap' = [snap EXCEPT ![s].pc = pc]
    PROVE  /\ snap' \in [Snapper -> Task]
           /\ snap'[s] = [pc |-> pc, obj |-> snap[s].obj, img |-> snap[s].img, ino |-> snap[s].ino]
           /\ \A t \in Snapper \ {s} : snap'[t] = snap[t]
<1>1. snap'[s] = [pc |-> pc, obj |-> snap[s].obj, img |-> snap[s].img, ino |-> snap[s].ino]
  BY DEF Typed, Task
<1>2. snap' = [t \in Snapper |-> snap'[t]] /\ \A t \in Snapper \ {s} : snap'[t] = snap[t]
  BY DEF Typed
<1> QED BY <1>1, <1>2 DEF Typed, Task

\* ... with another image,
LEMMA SnapPcImg ==
    ASSUME Typed, NEW s \in Snapper, NEW pc \in Pc, NEW img \in Image,
           snap' = [snap EXCEPT ![s].pc = pc, ![s].img = img]
    PROVE  /\ snap' \in [Snapper -> Task]
           /\ snap'[s] = [pc |-> pc, obj |-> snap[s].obj, img |-> img, ino |-> snap[s].ino]
           /\ \A t \in Snapper \ {s} : snap'[t] = snap[t]
<1>1. snap'[s] = [pc |-> pc, obj |-> snap[s].obj, img |-> img, ino |-> snap[s].ino]
  BY DEF Typed, Task
<1>2. snap' = [t \in Snapper |-> snap'[t]] /\ \A t \in Snapper \ {s} : snap'[t] = snap[t]
  BY DEF Typed
<1> QED BY <1>1, <1>2 DEF Typed, Task

\* ... or another file.
LEMMA SnapPcIno ==
    ASSUME Typed, NEW s \in Snapper, NEW pc \in Pc, NEW i \in Ino,
           snap' = [snap EXCEPT ![s].pc = pc, ![s].ino = i]
    PROVE  /\ snap' \in [Snapper -> Task]
           /\ snap'[s] = [pc |-> pc, obj |-> snap[s].obj, img |-> snap[s].img, ino |-> i]
           /\ \A t \in Snapper \ {s} : snap'[t] = snap[t]
<1>1. snap'[s] = [pc |-> pc, obj |-> snap[s].obj, img |-> snap[s].img, ino |-> i]
  BY DEF Typed, Task
<1>2. snap' = [t \in Snapper |-> snap'[t]] /\ \A t \in Snapper \ {s} : snap'[t] = snap[t]
  BY DEF Typed
<1> QED BY <1>1, <1>2 DEF Typed, Task

\* An object that changes keeps its lineage and is further than it was.
LEMMA ObjectGrows ==
    ASSUME Sound, NEW i \in Inc, NEW new \in Nat, obj' = [obj EXCEPT ![i].n = @ + new]
    PROVE  /\ obj' \in [Inc -> Image]
           /\ \A j \in Inc : obj'[j].of = obj[j].of /\ obj[j].n <= obj'[j].n
           /\ \A j \in Inc \ {i} : obj'[j] = obj[j]
<1>1. obj[i] \in Image /\ obj \in [Inc -> Image]
  BY DEF Sound, Typed
<1>2. obj'[i] = [obj[i] EXCEPT !.n = @ + new] /\ \A j \in Inc \ {i} : obj'[j] = obj[j]
  BY <1>1
<1>3. obj'[i] = [of |-> obj[i].of, n |-> obj[i].n + new]
  BY <1>1, <1>2 DEF Image
<1>4. obj' = [j \in Inc |-> obj'[j]]
  BY <1>1
<1>5. obj'[i] \in Image /\ obj'[i].of = obj[i].of /\ obj[i].n <= obj'[i].n
  BY <1>1, <1>3 DEF Image
<1>6. \A j \in Inc : obj[j].n <= obj[j].n
  BY <1>1 DEF Image
<1> QED BY <1>1, <1>2, <1>4, <1>5, <1>6

\* Half of an inode, written by a task.
LEMMA FirstHalf ==
    ASSUME Typed, NEW i \in Ino, NEW h \in Half, NEW y \in BOOLEAN,
           inode' = [inode EXCEPT ![i].a = h, ![i].synced = y]
    PROVE  /\ inode' \in [Ino -> Inode]
           /\ inode'[i] = [a |-> h, b |-> inode[i].b, synced |-> y]
           /\ \A j \in Ino \ {i} : inode'[j] = inode[j]
<1>1. inode'[i] = [a |-> h, b |-> inode[i].b, synced |-> y]
  BY DEF Typed, Inode
<1>2. inode' = [j \in Ino |-> inode'[j]] /\ \A j \in Ino \ {i} : inode'[j] = inode[j]
  BY DEF Typed
<1> QED BY <1>1, <1>2 DEF Typed, Inode

\* The other half.
LEMMA SecondHalf ==
    ASSUME Typed, NEW i \in Ino, NEW h \in Half, NEW y \in BOOLEAN,
           inode' = [inode EXCEPT ![i].b = h, ![i].synced = y]
    PROVE  /\ inode' \in [Ino -> Inode]
           /\ inode'[i] = [a |-> inode[i].a, b |-> h, synced |-> y]
           /\ \A j \in Ino \ {i} : inode'[j] = inode[j]
<1>1. inode'[i] = [a |-> inode[i].a, b |-> h, synced |-> y]
  BY DEF Typed, Inode
<1>2. inode' = [j \in Ino |-> inode'[j]] /\ \A j \in Ino \ {i} : inode'[j] = inode[j]
  BY DEF Typed
<1> QED BY <1>1, <1>2 DEF Typed, Inode

\* A file without a name is blank, or as it was.
LEMMA Forgotten ==
    ASSUME Typed, NEW i \in Ino, NEW tasks, inode' = Forget(i, tasks)
    PROVE  /\ inode' \in [Ino -> Inode]
           /\ inode'[i] \in {inode[i], Blank}
           /\ \A j \in Ino \ {i} : inode'[j] = inode[j]
<1>1. Blank \in Inode /\ inode \in [Ino -> Inode]
  BY DEF Typed, Blank, Inode, Half
<1>2. inode' = [inode EXCEPT ![i] = inode[i]] \/ inode' = [inode EXCEPT ![i] = Blank]
  BY DEF Forget
<1> QED BY <1>1, <1>2

\* There are more inodes than writers, so a new one is to be had.
LEMMA NewInodeIsNew ==
    ASSUME Typed
    PROVE  NewInode \in Ino /\ NewInode \notin {file, kept}
<1> DEFINE used == {snap[s].ino : s \in Snapper}
           f == [s \in Snapper |-> snap[s].ino]
           N == Cardinality(Snapper)
<1>1. N \in Nat
  BY SnapperAssumption, FS_CardinalityType
<1>2. IsFiniteSet(used) /\ Cardinality(used) <= N
  <2>1. f \in Surjection(Snapper, used)
    BY DEF Surjection
  <2> QED BY <2>1, SnapperAssumption, FS_Surjection
<1>3. IsFiniteSet(used \union {file, kept}) /\ Cardinality(used \union {file, kept}) <= N + 2
  <2> HIDE DEF used, N
  <2>1. Cardinality(used) \in Nat
    BY <1>2, FS_CardinalityType
  <2>2. /\ IsFiniteSet(used \union {file})
        /\ Cardinality(used \union {file})
              = IF file \in used THEN Cardinality(used) ELSE Cardinality(used) + 1
    BY <1>2, FS_AddElement
  <2> DEFINE more == used \union {file}
  <2> HIDE DEF more
  <2>3. IsFiniteSet(more) /\ Cardinality(more) <= N + 1 /\ Cardinality(more) \in Nat
    BY <1>1, <1>2, <2>1, <2>2 DEF more
  <2>4. /\ IsFiniteSet(more \union {kept})
        /\ Cardinality(more \union {kept})
              = IF kept \in more THEN Cardinality(more) ELSE Cardinality(more) + 1
    BY <2>3, FS_AddElement
  <2>5. more \union {kept} = used \union {file, kept}
    BY DEF more
  <2> QED BY <1>1, <2>3, <2>4, <2>5
<1>4. IsFiniteSet(Ino) /\ Cardinality(Ino) = N + 3
  BY <1>1, FS_Interval DEF Ino
<1>5. PICK i \in Ino : i \notin used \union {file, kept}
  <2> SUFFICES ASSUME Ino \subseteq used \union {file, kept} PROVE FALSE
    OBVIOUS
  <2>1. Cardinality(Ino) <= Cardinality(used \union {file, kept})
    BY <1>3, FS_Subset
  <2>2. Cardinality(used \union {file, kept}) \in Nat
    BY <1>3, FS_CardinalityType
  <2> QED BY <1>1, <1>3, <1>4, <2>1, <2>2
<1> QED BY <1>5 DEF NewInode

-----------------------------------------------------------------------------
(* Sound is inductive *)

\* Nothing is saved, and nobody saves, when the first process starts.
LEMMA InitSound == Init => Sound
<1> SUFFICES ASSUME Init PROVE Sound
  OBVIOUS
<1>1. Typed
  <2>1. Empty \in Image /\ Resting \in Task /\ Blank \in Inode
    BY BoundAssumption DEF Empty, Image, Resting, Task, Pc, Blank, Inode, Half
  <2>2. req \in Request
    BY BoundAssumption DEF Init, NoReq, Request
  <2>3. /\ next \in 0..MaxInc /\ cur \in 0..next /\ dropper \in 0..MaxInc
        /\ saved \in Nat /\ durable \in Nat /\ answered \in Nat
    BY BoundAssumption DEF Init
  <2>4. /\ obj \in [Inc -> Image] /\ gate \in [Inc -> Snapper \union {NONE}]
        /\ snap \in [Snapper -> Task] /\ inode \in [Ino -> Inode]
    BY <2>1 DEF Init
  <2> QED BY <2>2, <2>3, <2>4 DEF Init, Typed
<1>2. Tasks /\ Process
  BY SnapperAssumption DEF Init, Tasks, Process, Resting, NoReq, Writer, HasFile
<1>3. Lineages /\ Halves /\ TmpIsNew /\ FileIsOld
  BY DEF Init, Lineages, Halves, TmpIsNew, FileIsOld, FileImage, Empty, Blank, Resting
<1> QED BY <1>1, <1>2, <1>3 DEF Sound

\* A batch is handed to a job on the object that there is.
BeginOnObject == BeginBatch /\ cur # 0 /\ UNCHANGED <<cur, next, obj>>

\* Steps of requests and of the process that leave objects, tasks and disk alone.
LEMMA QuietSound ==
    ASSUME Sound,
           Connect \/ BeginOnObject \/ NoCollection \/ HangUp \/ DropUnregister \/ Signal \/ Drained
    PROVE  Sound'
<1>1. UNCHANGED <<next, obj, gate, snap, disk>>
  BY DEF Connect, BeginOnObject, BeginBatch, NoCollection, HangUp, DropUnregister, Signal, Drained, mem
<1>2. Tasks' /\ Lineages' /\ Halves' /\ TmpIsNew' /\ FileIsOld'
  BY <1>1 DEF Sound, Tasks, Lineages, Halves, TmpIsNew, FileIsOld, disk, Writer, HasFile,
              Foreign, Complete, FileImage
<1>3. CASE Connect \/ BeginOnObject \/ NoCollection \/ HangUp
  <2>1. /\ UNCHANGED <<cur, dropper, phase, past>>
        /\ phase \in {"serving", "draining", "final"}
    BY <1>3 DEF Connect, BeginOnObject, BeginBatch, NoCollection, HangUp, Up
  <2>2. cur \in 0..MaxInc
    BY BoundAssumption DEF Sound, Typed
  <2>3. /\ req' \in Request
        /\ req'.at = "job" => req'.obj # 0
        /\ req'.attended => phase \in {"serving", "draining"}
        /\ ~ asked /\ req'.obj # 0 => req'.obj = cur
    <3>1. CASE Connect
      BY <3>1, BoundAssumption DEF Connect, Request
    <3>2. CASE NoCollection
      BY <3>2, BoundAssumption DEF NoCollection, NoReq, Request
    <3>3. CASE BeginOnObject
      <4>1. /\ req' = [at |-> "job", obj |-> cur, attended |-> req.attended]
            /\ req.attended \in BOOLEAN /\ cur # 0
        BY <3>3 DEF BeginOnObject, BeginBatch, Sound, Typed, Request
      <4> QED BY <2>2, <4>1 DEF Sound, Process, Request
    <3>4. CASE HangUp
      <4>1. CASE req' = [at |-> "none", obj |-> 0, attended |-> FALSE]
        BY <4>1, BoundAssumption DEF Request
      <4>2. CASE req' = [at |-> "job", obj |-> req.obj, attended |-> FALSE] /\ req.at = "job"
        BY <4>2 DEF Sound, Typed, Process, Request
      <4> QED BY <3>4, <4>1, <4>2 DEF HangUp, NoReq, Sound, Typed, Request
    <3> QED BY <1>3, <3>1, <3>2, <3>3, <3>4
  <2> QED BY <1>1, <1>2, <2>1, <2>3 DEF Sound, Typed, Process, disk, past
<1>4. CASE DropUnregister
  <2>1. Typed' /\ Process'
    BY <1>1, <1>4, BoundAssumption DEF DropUnregister, disk, Sound, Typed, Process
  <2> QED BY <1>2, <2>1 DEF Sound
<1>5. CASE Signal \/ Drained
  <2>1. Typed' /\ Process'
    BY <1>1, <1>5 DEF Signal, Drained, mem, disk, past, Sound, Typed, Process
  <2> QED BY <1>2, <2>1 DEF Sound
<1> QED BY <1>3, <1>4, <1>5

\* An object changes: nothing of its lineage was further.
LEMMA GrowSound ==
    ASSUME Sound, NEW i \in Inc, NEW new \in Nat, obj' = [obj EXCEPT ![i].n = @ + new],
           UNCHANGED <<cur, next, gate, snap, dropper, disk, phase, asked, dropped, saved, durable>>,
           req' \in {req, NoReq}, answered' \in Nat, phase # "down"
    PROVE  Sound'
<1>1. /\ obj' \in [Inc -> Image]
      /\ \A j \in Inc : obj'[j].of = obj[j].of /\ obj[j].n <= obj'[j].n
      /\ \A j \in Inc \ {i} : obj'[j] = obj[j]
  BY ObjectGrows
<1>2. Typed'
  <2>1. NoReq \in Request
    BY BoundAssumption DEF NoReq, Request
  <2> QED BY <1>1, <2>1 DEF Sound, Typed, disk
<1>3. Tasks'
  <2>1. \A j \in Inc : obj[j].n \in Nat /\ obj'[j].n \in Nat
    BY <1>1 DEF Sound, Typed, Image
  <2>2. \A s \in Snapper : snap[s].img.n \in Nat
    BY DEF Sound, Typed, Task, Image
  <2> QED BY <1>1, <2>1, <2>2 DEF Sound, Tasks, Writer, HasFile
<1>4. Lineages' /\ Halves' /\ TmpIsNew'
  BY <1>1 DEF Sound, Lineages, Halves, TmpIsNew, disk, HasFile, Foreign, Complete
<1>5. Process'
  BY <1>1 DEF Sound, Typed, Process, NoReq, Inc
<1>6. FileIsOld'
  <2>1. \A j \in Inc : obj[j].n \in Nat /\ obj'[j].n \in Nat
    BY <1>1 DEF Sound, Typed, Image
  <2>2. FileImage # NONE => FileImage.n \in Nat
    BY DEF Sound, Typed, Inode, Half, Image, FileImage
  <2>3. FileImage' = FileImage
    BY DEF FileImage, disk
  <2> QED BY <1>1, <2>1, <2>2, <2>3 DEF Sound, FileIsOld, Writer
<1> QED BY <1>2, <1>3, <1>4, <1>5, <1>6 DEF Sound

\* A batch is applied.
LEMMA ApplyBatchSound == ASSUME Sound, ApplyBatch PROVE Sound'
<1>1. req.obj \in Inc
  BY DEF ApplyBatch, Sound, Typed, Process, Request, Inc
<1>2. PICK new \in {0, 1} : obj' = [obj EXCEPT ![req.obj].n = @ + new]
  BY DEF ApplyBatch
<1>3. obj' \in [Inc -> Image]
  BY <1>1, <1>2, ObjectGrows
<1>4. ~ asked => cur = req.obj
  BY <1>1 DEF Sound, Process, Inc
<1>5. answered' \in Nat
  <2>1. \A j \in Inc : obj'[j].n \in Nat
    BY <1>3 DEF Image
  <2> QED BY <1>1, <1>4, <2>1 DEF ApplyBatch, Sound, Typed
<1> QED BY <1>1, <1>2, <1>5, GrowSound DEF ApplyBatch, Up

\* The sweep removes a device.
LEMMA SweepSound == ASSUME Sound, Sweep PROVE Sound'
<1>1. cur \in Inc
  BY BoundAssumption DEF Sweep, Sound, Typed, Inc
<1> QED BY <1>1, GrowSound DEF Sweep, Up, Sound, Typed, past

\* A new object is of a lineage of its own, so nothing on disk is.
LEMMA MakeObjectSound ==
    ASSUME Sound, MakeObject, phase # "down",
           UNCHANGED <<gate, snap, dropper, disk, phase, past>>,
           req' \in {req, [req EXCEPT !.at = "job", !.obj = cur']}
    PROVE  Sound'
<1>1. next' = next + 1 /\ next' \in Inc /\ cur' = next' /\ cur = 0
  BY BoundAssumption DEF MakeObject, Sound, Typed, Inc
<1>2. /\ obj' \in [Inc -> Image]
      /\ obj'[next'] = [of |-> next', n |-> 0]
      /\ \A i \in Inc \ {next'} : obj'[i] = obj[i]
  BY <1>1, BoundAssumption DEF MakeObject, Sound, Typed, Empty, Image, Inc
<1>3. Typed'
  <2>1. req' = req \/ req' = [at |-> "job", obj |-> cur', attended |-> req.attended]
    BY DEF Sound, Typed, Request
  <2>2. cur' \in 0..MaxInc
    BY <1>1, BoundAssumption DEF Inc
  <2>3. req' \in Request
    BY <2>1, <2>2 DEF Sound, Typed, Request
  <2> QED BY <1>1, <1>2, <2>3 DEF Sound, Typed, disk, past, Inc
<1>4. \A i \in Inc : obj[i].of # 0 => i # next'
  BY <1>1 DEF Sound, Typed, Lineages
<1>5. Tasks'
  BY <1>2, <1>4 DEF Sound, Typed, Tasks, Writer, HasFile
<1>6. Process'
  <2>1. /\ req'.attended = req.attended
        /\ req' = req \/ req'.obj = cur'
    BY DEF Sound, Typed, Request
  <2> QED BY <1>1, <1>2, <2>1 DEF Sound, Process, Inc, past
<1>7. \A i \in Inc : obj[i].of < next'
  BY <1>1 DEF Sound, Typed, Lineages, Image
<1>8. Lineages'
  <2>1. UNCHANGED inode /\ next \in Nat /\ \A i \in Inc : obj[i].of \in Nat
    BY BoundAssumption DEF Sound, Typed, Image, disk
  <2>2. \A i \in Inc : obj'[i].of <= next' /\ (obj'[i].of # 0 => i <= next')
    BY <1>1, <1>2, <1>7, <2>1 DEF Sound, Lineages, Inc
  <2>3. \A i, j \in Inc : obj'[i].of = obj'[j].of /\ obj'[i].of # 0 => i = j
    BY <1>1, <1>2, <1>7, <2>1 DEF Sound, Lineages, Inc
  <2>4. 1..next \subseteq 1..next'
    BY <1>1, <2>1
  <2> QED BY <2>1, <2>2, <2>3, <2>4 DEF Sound, Lineages
<1>9. Halves' /\ TmpIsNew'
  BY DEF Sound, Halves, TmpIsNew, disk, HasFile, Foreign, Complete
<1>10. FileImage # NONE => FileImage.of # next'
  BY <1>1 DEF Sound, Typed, Lineages, FileImage
<1>11. FileIsOld'
  BY <1>2, <1>10 DEF Sound, FileIsOld, disk, Writer, FileImage
<1> QED BY <1>3, <1>5, <1>6, <1>8, <1>9, <1>11 DEF Sound

\* A collection is created by a request of its own, or by a batch.
LEMMA CreateSound == ASSUME Sound, Create \/ BeginBatch PROVE Sound'
<1>1. CASE Create
  BY <1>1, MakeObjectSound DEF Create
<1>2. CASE BeginBatch /\ MakeObject
  BY <1>2, MakeObjectSound DEF BeginBatch, Up
<1>3. CASE BeginOnObject
  BY <1>3, QuietSound
<1> QED BY <1>1, <1>2, <1>3 DEF BeginBatch, BeginOnObject

\* The file is gone, and with it the images it could have fallen behind.
LEMMA DropRemoveFileSound == ASSUME Sound, DropRemoveFile PROVE Sound'
<1>1. /\ inode' \in [Ino -> Inode]
      /\ \A i \in Ino : inode'[i] = inode[i] \/ (i = file /\ inode'[i] = Blank)
  BY Forgotten DEF DropRemoveFile, Sound, Typed
<1>2. Typed' /\ Process'
  BY <1>1, BoundAssumption DEF DropRemoveFile, Sound, Typed, Process
<1>3. Tasks' /\ Lineages' /\ Halves'
  <2>1. \A t \in Snapper : HasFile(t) => snap[t].ino \in Ino
    BY DEF Sound, Tasks
  <2> QED BY <1>1, <2>1
      DEF DropRemoveFile, Sound, Tasks, Lineages, Halves, Writer, HasFile, Foreign, Blank
<1>4. TmpIsNew' /\ FileIsOld'
  BY <1>1, NoneAssumption
  DEF DropRemoveFile, Sound, Typed, TmpIsNew, FileIsOld, FileImage, HasFile, Complete
<1> QED BY <1>2, <1>3, <1>4 DEF Sound

\* The directory is written back: what nobody names any more is gone.
LEMMA SyncDirSound == ASSUME Sound, SyncDir PROVE Sound'
<1>1. /\ kept # file /\ kept' = file
      /\ UNCHANGED <<mem, tmp, file, phase, asked, dropped, saved, answered>>
  BY DEF SyncDir
<1>2. /\ inode' \in [Ino -> Inode]
      /\ \A i \in Ino : inode'[i] = inode[i] \/ (i = kept /\ inode'[i] = Blank)
  BY Forgotten DEF SyncDir, Sound, Typed
<1>3. Typed' /\ Process'
  BY <1>1, <1>2 DEF SyncDir, mem, Sound, Typed, Process
<1>4. Tasks' /\ Lineages' /\ Halves'
  <2>1. \A t \in Snapper : HasFile(t) => snap[t].ino \in Ino
    BY DEF Sound, Tasks
  <2> QED BY <1>1, <1>2, <2>1 DEF mem, Sound, Tasks, Lineages, Halves, Writer, HasFile, Foreign, Blank
<1>5. TmpIsNew'
  BY <1>1, <1>2 DEF mem, Sound, Typed, TmpIsNew, HasFile, Complete
<1>6. FileIsOld'
  <2>1. FileImage' = FileImage
    BY <1>1, <1>2 DEF FileImage, Sound, Typed
  <2> QED BY <1>1, <2>1 DEF mem, Sound, FileIsOld, Writer
<1> QED BY <1>3, <1>4, <1>5, <1>6 DEF Sound

-----------------------------------------------------------------------------
(* ... through the steps of a snapshot *)

\* A task that begins has nothing on disk.
LEMMA CollectSound == ASSUME Sound, NEW s \in Snapper, Collect(s) PROVE Sound'
<1>1. /\ snap[s].pc = "idle" /\ cur \in Inc
      /\ snap' = [snap EXCEPT ![s] = [pc |-> "export", obj |-> cur, img |-> Empty, ino |-> 0]]
  <2>1. cur # 0 /\ cur \in 0..next /\ next \in 0..MaxInc
    BY DEF Collect, Sound, Typed
  <2>2. cur \in Inc
    BY <2>1, BoundAssumption DEF Inc
  <2> QED BY <2>2 DEF Collect
<1>2. /\ snap' \in [Snapper -> Task]
      /\ snap'[s] = [pc |-> "export", obj |-> cur, img |-> Empty, ino |-> 0]
      /\ \A t \in Snapper \ {s} : snap'[t] = snap[t]
  <2>1. Empty \in Image /\ cur \in 0..MaxInc
    BY <1>1 DEF Empty, Image, Inc
  <2> QED BY <1>1, <2>1 DEF Sound, Typed, Task, Pc
<1>3. Typed'
  BY <1>2 DEF Collect, Sound, Typed, disk, past
<1>4. Tasks' /\ Process'
  BY <1>1, <1>2, SnapperAssumption
  DEF Collect, Sound, Tasks, Process, Writer, HasFile, Inc, Up, past
<1>5. Lineages' /\ Halves' /\ TmpIsNew' /\ FileIsOld'
  BY <1>1, <1>2 DEF Collect, Sound, Lineages, Halves, TmpIsNew, FileIsOld, disk, Writer, HasFile,
                    Foreign, Complete, FileImage
<1> QED BY <1>3, <1>4, <1>5 DEF Sound

\* The image is as far as its object, which the file is not.
LEMMA ExportSound == ASSUME Sound, NEW s \in Snapper, Export(s) PROVE Sound'
<1> DEFINE o == snap[s].obj
<1>1. snap[s].pc = "export" /\ o \in Inc /\ obj[o].of # 0 /\ obj[o] \in Image
  BY DEF Export, Sound, Typed, Tasks
<1>2. /\ snap' \in [Snapper -> Task]
      /\ snap'[s] = [pc |-> "create", obj |-> o, img |-> obj[o], ino |-> snap[s].ino]
      /\ \A t \in Snapper \ {s} : snap'[t] = snap[t]
  <2>1. snap' = [snap EXCEPT ![s].pc = "create", ![s].img = obj[o]] /\ "create" \in Pc
    BY DEF Export, Pc
  <2> QED BY <1>1, <2>1, SnapPcImg DEF Sound
<1>3. /\ gate' \in [Inc -> Snapper \union {NONE}] /\ gate[o] = NONE /\ gate'[o] = s
      /\ \A i \in Inc \ {o} : gate'[i] = gate[i]
  BY <1>1 DEF Export, Sound, Typed
<1>4. Typed'
  BY <1>2, <1>3 DEF Export, Sound, Typed, disk, past
<1>5. Tasks'
  BY <1>1, <1>2, <1>3, NoneAssumption DEF Export, Sound, Typed, Tasks, Writer, HasFile, Image
<1>6. Process'
  BY <1>1, <1>2, SnapperAssumption DEF Export, Sound, Process, Up, past
<1>7. Lineages' /\ Halves' /\ TmpIsNew'
  BY <1>1, <1>2 DEF Export, Sound, Lineages, Halves, TmpIsNew, disk, HasFile, Foreign, Complete
<1>8. FileIsOld'
  BY <1>1, <1>2 DEF Export, Sound, FileIsOld, disk, Writer, FileImage
<1> QED BY <1>4, <1>5, <1>6, <1>7, <1>8 DEF Sound

\* The temporary file is empty, whoever else has it open.
LEMMA CreateTmpSound == ASSUME Sound, NEW s \in Snapper, CreateTmp(s) PROVE Sound'
<1>1. tmp' \in Ino /\ tmp' # file /\ tmp' # kept
  BY NewInodeIsNew DEF CreateTmp, Sound, Typed, TmpIsNew
<1>2. /\ snap' \in [Snapper -> Task]
      /\ snap'[s] = [pc |-> "first", obj |-> snap[s].obj, img |-> snap[s].img, ino |-> tmp']
      /\ \A t \in Snapper \ {s} : snap'[t] = snap[t]
  <2>1. snap' = [snap EXCEPT ![s].pc = "first", ![s].ino = tmp'] /\ "first" \in Pc
    BY DEF CreateTmp, Pc
  <2> QED BY <1>1, <2>1, SnapPcIno DEF Sound
<1>3. /\ inode' \in [Ino -> Inode]
      /\ inode'[tmp'] = [a |-> NONE, b |-> NONE, synced |-> FALSE]
      /\ \A i \in Ino \ {tmp'} : inode'[i] = inode[i]
  BY <1>1 DEF CreateTmp, Sound, Typed, Blank, Inode, Half
<1>4. Typed'
  BY <1>1, <1>2, <1>3 DEF CreateTmp, Sound, Typed, past
<1>5. snap[s].pc = "create" /\ phase # "down" /\ file' = file /\ kept' = kept
  BY DEF CreateTmp, Up
<1>6. Tasks' /\ Process'
  BY <1>1, <1>2, <1>5, SnapperAssumption
  DEF CreateTmp, Sound, Typed, Tasks, Process, Writer, HasFile, past
<1>7. Lineages'
  BY <1>1, <1>3 DEF CreateTmp, Sound, Lineages
<1>8. Halves'
  <2>1. \A t \in Snapper : HasFile(t) => snap[t].ino \in Ino
    BY DEF Sound, Tasks
  <2> QED BY <1>1, <1>2, <1>3, <2>1 DEF Sound, Halves, Foreign, HasFile
<1>9. TmpIsNew'
  BY <1>1, <1>3, <1>5 DEF TmpIsNew, Complete
<1>10. FileIsOld'
  <2>1. FileImage' = FileImage
    BY <1>1, <1>3, <1>5 DEF FileImage, Sound, Typed
  <2> QED BY <1>2, <1>5, <2>1 DEF CreateTmp, Sound, FileIsOld, Writer
<1> QED BY <1>4, <1>6, <1>7, <1>8, <1>9, <1>10 DEF Sound

\* Two tasks that write are of different lineages.
LEMMA WritersDiffer ==
    ASSUME Sound, NEW s \in Snapper, NEW t \in Snapper \ {s}, Writer(s), Writer(t)
    PROVE  snap[s].img.of # snap[t].img.of
<1>1. /\ snap[s].obj \in Inc /\ gate[snap[s].obj] = s /\ snap[s].img.of = obj[snap[s].obj].of
      /\ snap[t].obj \in Inc /\ gate[snap[t].obj] = t /\ snap[t].img.of = obj[snap[t].obj].of
      /\ obj[snap[s].obj].of # 0
  BY DEF Sound, Tasks, Writer
<1> QED BY <1>1 DEF Sound, Lineages

\* A first half completes nothing: what the second half holds is of others.
LEMMA WriteFirstSound == ASSUME Sound, NEW s \in Snapper, WriteFirst(s) PROVE Sound'
<1> DEFINE i == snap[s].ino  img == snap[s].img
<1>1. /\ snap[s].pc = "first" /\ i \in Ino /\ img \in Half /\ img # NONE
      /\ img.of \in 1..next /\ phase # "down" /\ Writer(s) /\ img \in Image
  <2>1. snap[s].pc = "first" /\ phase # "down" /\ Writer(s) /\ HasFile(s)
    BY DEF WriteFirst, Up, Writer, HasFile
  <2>2. i \in Ino /\ snap[s].obj \in Inc /\ img.of = obj[snap[s].obj].of /\ img.of # 0
    BY <2>1 DEF Sound, Tasks
  <2>3. img \in Image /\ img.of \in Nat
    BY DEF Sound, Typed, Task, Image
  <2>4. img # NONE
    BY <2>3, NoneAssumption DEF Image
  <2> QED BY <2>1, <2>2, <2>3, <2>4 DEF Half, Sound, Typed, Lineages
<1>2. /\ snap' \in [Snapper -> Task]
      /\ snap'[s] = [pc |-> "second", obj |-> snap[s].obj, img |-> img, ino |-> i]
      /\ \A t \in Snapper \ {s} : snap'[t] = snap[t]
  <2>1. snap' = [snap EXCEPT ![s].pc = "second"] /\ "second" \in Pc
    BY DEF WriteFirst, Pc
  <2> QED BY <2>1, SnapPc DEF Sound
<1>3. /\ inode' \in [Ino -> Inode]
      /\ inode'[i] = [a |-> img, b |-> inode[i].b, synced |-> FALSE]
      /\ \A j \in Ino \ {i} : inode'[j] = inode[j]
  BY <1>1, FirstHalf DEF WriteFirst, Sound
<1>4. inode[i].b = NONE \/ inode[i].b.of # img.of
  BY <1>1 DEF Sound, Halves, Foreign
<1>5. UNCHANGED <<cur, next, obj, gate, dropper, req, tmp, file, kept, phase, past>>
  BY DEF WriteFirst
<1>6. Typed'
  BY <1>2, <1>3, <1>5 DEF Sound, Typed, past
<1>7. Tasks' /\ Process'
  BY <1>1, <1>2, <1>5, SnapperAssumption
  DEF Sound, Typed, Tasks, Process, Writer, HasFile, past
<1>8. Lineages'
  BY <1>1, <1>3, <1>5 DEF Sound, Lineages
<1>9. Halves'
  <2>1. \A t \in Snapper : HasFile(t) => snap[t].ino \in Ino
    BY DEF Sound, Tasks
  <2>2. \A t \in Snapper \ {s} : HasFile(t) => snap[t].img.of # img.of
    BY <1>1, WritersDiffer DEF HasFile, Writer
  <2> QED BY <1>1, <1>2, <1>3, <1>4, <2>1, <2>2 DEF Sound, Halves, Foreign, HasFile
<1>10. TmpIsNew'
  BY <1>1, <1>2, <1>3, <1>4, <1>5 DEF Sound, Typed, TmpIsNew, Complete, HasFile
<1>11. FileIsOld'
  <2>1. FileImage' \in {FileImage, NONE}
    BY <1>1, <1>3, <1>4, <1>5 DEF FileImage, Sound, Typed
  <2> QED BY <1>1, <1>2, <1>5, <2>1 DEF Sound, FileIsOld, Writer
<1> QED BY <1>6, <1>7, <1>8, <1>9, <1>10, <1>11 DEF Sound

\* A second half may complete the file itself, if another task renamed it away: then
\* it was of another lineage before.
LEMMA WriteSecondSound == ASSUME Sound, NEW s \in Snapper, WriteSecond(s) PROVE Sound'
<1> DEFINE i == snap[s].ino  img == snap[s].img
<1>1. /\ snap[s].pc = "second" /\ i \in Ino /\ img \in Half /\ img # NONE
      /\ img.of \in 1..next /\ phase # "down" /\ Writer(s) /\ img \in Image
  <2>1. snap[s].pc = "second" /\ phase # "down" /\ Writer(s) /\ HasFile(s)
    BY DEF WriteSecond, Up, Writer, HasFile
  <2>2. i \in Ino /\ snap[s].obj \in Inc /\ img.of = obj[snap[s].obj].of /\ img.of # 0
    BY <2>1 DEF Sound, Tasks
  <2>3. img \in Image /\ img.of \in Nat
    BY DEF Sound, Typed, Task, Image
  <2>4. img # NONE
    BY <2>3, NoneAssumption DEF Image
  <2> QED BY <2>1, <2>2, <2>3, <2>4 DEF Half, Sound, Typed, Lineages
<1>2. /\ snap' \in [Snapper -> Task]
      /\ snap'[s] = [pc |-> "rename", obj |-> snap[s].obj, img |-> img, ino |-> i]
      /\ \A t \in Snapper \ {s} : snap'[t] = snap[t]
  <2>1. snap' = [snap EXCEPT ![s].pc = "rename"] /\ "rename" \in Pc
    BY DEF WriteSecond, Pc
  <2> QED BY <2>1, SnapPc DEF Sound
<1>3. /\ inode' \in [Ino -> Inode]
      /\ inode'[i] = [a |-> inode[i].a, b |-> img, synced |-> TRUE]
      /\ \A j \in Ino \ {i} : inode'[j] = inode[j]
  BY <1>1, SecondHalf DEF WriteSecond, Sound
<1>4. UNCHANGED <<cur, next, obj, gate, dropper, req, tmp, file, kept, phase, past>>
  BY DEF WriteSecond
<1>5. Typed'
  BY <1>2, <1>3, <1>4 DEF Sound, Typed, past
<1>6. Tasks' /\ Process'
  BY <1>1, <1>2, <1>4, SnapperAssumption
  DEF Sound, Typed, Tasks, Process, Writer, HasFile, past
<1>7. Lineages'
  BY <1>1, <1>3, <1>4 DEF Sound, Lineages
<1>8. Halves'
  <2>1. \A t \in Snapper : HasFile(t) => snap[t].ino \in Ino
    BY DEF Sound, Tasks
  <2>2. \A t \in Snapper \ {s} : HasFile(t) => snap[t].img.of # img.of
    BY <1>1, WritersDiffer DEF HasFile, Writer
  <2> QED BY <1>1, <1>2, <1>3, <2>1, <2>2 DEF Sound, Halves, Foreign, HasFile
<1>9. TmpIsNew'
  <2>1. CASE tmp = i
    BY <1>1, <1>2, <1>3, <1>4, <2>1 DEF Sound, TmpIsNew, Complete, HasFile
  <2>2. CASE tmp # i
    BY <1>1, <1>2, <1>3, <1>4, <2>2 DEF Sound, Typed, TmpIsNew, Complete, HasFile
  <2> QED BY <2>1, <2>2
<1>10. FileIsOld'
  <2>1. CASE FileImage' = FileImage
    BY <1>1, <1>2, <1>4, <2>1 DEF Sound, FileIsOld, Writer
  <2>2. CASE FileImage' # FileImage
    <3>1. FileImage' \in {img, NONE}
      BY <1>1, <1>3, <1>4, <2>2 DEF FileImage, Sound, Typed
    <3>2. /\ snap[s].obj \in Inc /\ img.of = obj[snap[s].obj].of /\ img.of # 0
          /\ img.n <= obj[snap[s].obj].n /\ img.n \in Nat
      BY <1>1 DEF Sound, Tasks, Image
    <3>3. \A j \in Inc : obj[j].of = img.of => img.n <= obj[j].n
      BY <3>2 DEF Sound, Lineages
    <3>4. \A t \in Snapper : Writer(t)' /\ snap'[t].img.of = img.of => img.n <= snap'[t].img.n
      <4> SUFFICES ASSUME NEW t \in Snapper, Writer(t)', snap'[t].img.of = img.of
                   PROVE  img.n <= snap'[t].img.n
        OBVIOUS
      <4>1. t = s
        BY <1>1, <1>2, WritersDiffer DEF Writer
      <4> QED BY <1>2, <3>2, <4>1
    <3> QED BY <1>4, <3>1, <3>3, <3>4 DEF FileIsOld
  <2> QED BY <2>1, <2>2
<1> QED BY <1>5, <1>6, <1>7, <1>8, <1>9, <1>10 DEF Sound

\* A task comes to an end, in an error or not.
LEMMA DoneTyped ==
    ASSUME Sound, NEW s \in Snapper, Done(s), snap[s].pc # "idle", phase # "down"
    PROVE  /\ snap' \in [Snapper -> Task]
           /\ snap'[s] = Resting
           /\ \A t \in Snapper \ {s} : snap'[t] = snap[t]
           /\ gate' \in [Inc -> Snapper \union {NONE}]
           /\ \A t \in Snapper \ {s} : Writer(t) => gate'[snap[t].obj] = t
           /\ Tasks' /\ Process'
<1>1. Resting \in Task
  BY BoundAssumption DEF Resting, Task, Pc, Empty, Image
<1>2. /\ snap' \in [Snapper -> Task]
      /\ snap'[s] = Resting
      /\ \A t \in Snapper \ {s} : snap'[t] = snap[t]
  BY <1>1 DEF Done, Sound, Typed
<1>3. /\ gate' \in [Inc -> Snapper \union {NONE}]
      /\ \A i \in Inc : gate'[i] # gate[i] => gate[i] = s
  BY DEF Done, Sound, Typed
<1>4. \A t \in Snapper \ {s} : Writer(t) => gate'[snap[t].obj] = t
  BY <1>3 DEF Sound, Tasks, Writer
<1>5. Tasks'
  BY <1>2, <1>4 DEF Done, Sound, Tasks, Writer, HasFile, Resting
<1>6. Process'
  BY <1>2, SnapperAssumption DEF Done, Sound, Process, Resting
<1> QED BY <1>2, <1>3, <1>4, <1>5, <1>6

\* A task that fails leaves the disk as it is.
LEMMA FailWriteSound == ASSUME Sound, NEW s \in Snapper, FailWrite(s) PROVE Sound'
<1>1. snap[s].pc # "idle" /\ snap[s].pc # "rename" /\ phase # "down" /\ Done(s)
  BY DEF FailWrite, Up
<1>2. /\ snap' \in [Snapper -> Task]
      /\ snap'[s] = Resting
      /\ \A t \in Snapper \ {s} : snap'[t] = snap[t]
      /\ gate' \in [Inc -> Snapper \union {NONE}]
      /\ Tasks' /\ Process'
  BY <1>1, DoneTyped
<1>3. Typed'
  BY <1>1, <1>2 DEF FailWrite, Done, disk, Sound, Typed
<1>4. Lineages' /\ Halves' /\ TmpIsNew'
  BY <1>1, <1>2 DEF FailWrite, Done, disk, Sound, Lineages, Halves, TmpIsNew, Foreign, Complete,
                    HasFile, Resting
<1>5. FileIsOld'
  BY <1>2 DEF FailWrite, Done, disk, Sound, FileIsOld, FileImage, Writer, Resting
<1> QED BY <1>2, <1>3, <1>4, <1>5 DEF Sound

\* What is renamed, if it verifies, was written by the last to write it.
LEMMA RenameSound == ASSUME Sound, NEW s \in Snapper, Rename(s) PROVE Sound'
<1>1. snap[s].pc = "rename" /\ phase # "down" /\ Done(s) /\ HasFile(s)
  BY DEF Rename, Up, HasFile
<1>2. /\ snap' \in [Snapper -> Task]
      /\ snap'[s] = Resting
      /\ \A t \in Snapper \ {s} : snap'[t] = snap[t]
      /\ gate' \in [Inc -> Snapper \union {NONE}]
      /\ Tasks' /\ Process'
  BY <1>1, DoneTyped
<1>3. CASE tmp = NONE
  <2>1. UNCHANGED <<disk, saved>>
    BY <1>3 DEF Rename
  <2>2. Typed'
    BY <1>1, <1>2, <2>1 DEF Done, disk, Sound, Typed
  <2>3. Lineages' /\ Halves' /\ TmpIsNew'
    BY <1>1, <1>2, <1>3, <2>1 DEF Done, disk, Sound, Lineages, Halves, TmpIsNew, Foreign, Resting
  <2>4. FileIsOld'
    BY <1>1, <1>2, <2>1 DEF Done, disk, Sound, FileIsOld, FileImage, Writer, Resting
  <2> QED BY <1>2, <2>2, <2>3, <2>4 DEF Sound
<1>4. CASE tmp # NONE
  <2>1. file' = tmp /\ tmp' = NONE /\ tmp # file /\ tmp \in Ino
    BY <1>4 DEF Rename, Sound, Typed, TmpIsNew
  <2>2. /\ inode' \in [Ino -> Inode]
        /\ \A i \in Ino : inode'[i] = inode[i] \/ (i = file /\ inode'[i] = Blank)
    <3>1. CASE file \in {NONE, kept}
      BY <1>4, <3>1 DEF Rename, Sound, Typed
    <3>2. CASE file \notin {NONE, kept}
      BY <1>4, <3>2, Forgotten DEF Rename, Sound, Typed
    <3> QED BY <3>1, <3>2
  <2>3. saved' \in Nat
    BY <1>4 DEF Rename, Sound, Typed, Task, Image
  <2>4. Typed'
    BY <1>1, <1>2, <2>1, <2>2, <2>3 DEF Done, Sound, Typed
  <2>5. Lineages'
    BY <1>1, <2>2 DEF Done, Sound, Lineages, Blank
  <2>6. Halves'
    <3>1. \A t \in Snapper : HasFile(t) => snap[t].ino \in Ino
      BY DEF Sound, Tasks
    <3> QED BY <1>2, <2>2, <3>1 DEF Sound, Halves, Foreign, HasFile, Resting, Blank
  <2>7. TmpIsNew'
    BY <2>1 DEF TmpIsNew
  <2>8. FileIsOld'
    <3>1. inode'[tmp] = inode[tmp]
      BY <2>1, <2>2
    <3>2. CASE Complete(tmp)
      <4>1. PICK w \in Snapper : snap[w].pc = "rename" /\ snap[w].img = inode[tmp].a
        BY <1>1, <1>4, <3>2 DEF Sound, TmpIsNew
      <4> DEFINE img == snap[w].img
      <4>2. FileImage' = img
        BY <1>4, <2>1, <3>1, <3>2, <4>1 DEF FileImage, Complete
      <4>3. /\ Writer(w) /\ snap[w].obj \in Inc /\ img.of = obj[snap[w].obj].of /\ img.of # 0
            /\ img.n <= obj[snap[w].obj].n
        BY <4>1 DEF Sound, Tasks, Writer
      <4>4. img.n \in Nat
        BY DEF Sound, Typed, Task, Image
      <4>5. \A j \in Inc : obj[j].of = img.of => img.n <= obj[j].n
        BY <4>3 DEF Sound, Lineages
      <4>6. ASSUME NEW t \in Snapper, Writer(t)', snap'[t].img.of = img.of
            PROVE  img.n <= snap'[t].img.n
        <5>1. t # s /\ snap'[t] = snap[t]
          BY <1>2, <4>6 DEF Writer, Resting
        <5>2. t = w
          BY <4>3, <4>6, <5>1, WritersDiffer DEF Writer
        <5> QED BY <4>4, <5>1, <5>2
      <4> QED BY <1>1, <4>2, <4>5, <4>6 DEF Done, FileIsOld
    <3>3. CASE ~ Complete(tmp)
      <4>1. FileImage' = NONE
        BY <1>4, <2>1, <3>1, <3>3 DEF FileImage, Complete
      <4> QED BY <4>1 DEF FileIsOld
    <3> QED BY <3>2, <3>3
  <2> QED BY <1>2, <2>4, <2>5, <2>6, <2>7, <2>8 DEF Sound
<1> QED BY <1>3, <1>4

-----------------------------------------------------------------------------
(* ... and through the end of a process and the next start *)

\* Memory is gone, and some files with it.
LEMMA CrashSound == ASSUME Sound, NEW power \in BOOLEAN, Crash(power) PROVE Sound'
<1>1. /\ phase' = "down" /\ cur' = 0 /\ dropper' = 0 /\ req' = NoReq
      /\ obj' = [i \in Inc |-> Empty] /\ gate' = [i \in Inc |-> NONE]
      /\ snap' = [s \in Snapper |-> Resting]
      /\ UNCHANGED <<next, kept, asked, durable>>
  BY DEF Crash
<1>2. Empty \in Image /\ Resting \in Task /\ Blank \in Inode
  BY BoundAssumption DEF Empty, Image, Resting, Task, Pc, Blank, Inode, Half
<1>3. /\ inode' \in [Ino -> Inode] /\ \A i \in Ino : inode'[i] \in {inode[i], Blank}
      /\ tmp' \in {tmp, NONE} /\ file' \in {file, kept} /\ saved' \in {saved, durable}
      /\ tmp' # NONE => file' = file
  BY <1>2 DEF Crash, Sound, Typed
<1>4. Typed'
  <2>1. NoReq \in Request
    BY BoundAssumption DEF NoReq, Request
  <2>2. answered' \in Nat
    BY DEF Crash
  <2> QED BY <1>1, <1>2, <1>3, <2>1, <2>2, BoundAssumption DEF Sound, Typed
<1>5. Tasks' /\ Process'
  BY <1>1, SnapperAssumption DEF Tasks, Process, Writer, HasFile, Resting, NoReq
<1>6. Lineages'
  BY <1>1, <1>3 DEF Sound, Typed, Lineages, Blank, Empty
<1>7. Halves' /\ TmpIsNew'
  BY <1>1, <1>3 DEF Sound, Halves, TmpIsNew, Resting, HasFile
<1>8. FileIsOld'
  <2>1. Typed'
    BY <1>4
  <2>2. FileImage' # NONE => FileImage'.of \in 1..next
    BY <1>1, <1>6, <2>1 DEF FileImage, Typed, Lineages
  <2> QED BY <1>1, <2>2 DEF Sound, Typed, FileIsOld, Writer, Resting, Empty
<1> QED BY <1>4, <1>5, <1>6, <1>7, <1>8 DEF Sound

\* One object lives, and the file is as far as it.
LEMMA RestartSound == ASSUME Sound, Restart PROVE Sound'
<1>1. /\ phase = "down" /\ phase' = "serving"
      /\ UNCHANGED <<gate, snap, dropper, req, disk, past>>
  BY DEF Restart
<1>2. \A s \in Snapper : snap[s].pc = "idle"
  BY <1>1 DEF Sound, Process
<1>3. CASE FileImage = NONE
  <2>1. UNCHANGED <<cur, next, obj>>
    BY <1>3 DEF Restart
  <2> QED BY <1>1, <1>2, <2>1 DEF Sound, Typed, Tasks, Process, Lineages, Halves, TmpIsNew, FileIsOld,
             disk, past, Writer, HasFile, Foreign, Complete, FileImage
<1>4. CASE FileImage # NONE
  <2>1. next' = next + 1 /\ next' \in Inc /\ cur' = next'
    <3>1. next \in 0..MaxInc /\ next < MaxInc
      BY DEF Restart, Sound, Typed
    <3>2. next + 1 \in Inc
      BY <3>1, BoundAssumption DEF Inc
    <3> QED BY <1>4, <3>2 DEF Restart
  <2>2. FileImage \in Image /\ FileImage.of \in 1..next
    BY <1>4 DEF FileImage, Sound, Typed, Lineages, Inode, Half
  <2>3. obj \in [Inc -> Image] /\ \A i \in Inc : obj[i] = Empty
    BY <1>1 DEF Sound, Typed, Process
  <2>4. /\ obj' \in [Inc -> Image] /\ obj'[next'] = FileImage
        /\ \A i \in Inc \ {next'} : obj'[i] = Empty
    BY <1>4, <2>1, <2>2, <2>3 DEF Restart
  <2>5. Typed'
    BY <1>1, <2>1, <2>4 DEF Sound, Typed, disk, past, Inc
  <2>6. Tasks'
    BY <1>1, <1>2 DEF Tasks, Writer, HasFile
  <2>7. Process'
    BY <1>1, <1>2, <2>1, <2>2, <2>4, SnapperAssumption DEF Sound, Process, NoReq, past
  <2>8. Lineages'
    BY <1>1, <2>1, <2>2, <2>4 DEF Sound, Typed, Lineages, Empty, Inc, disk
  <2>9. Halves' /\ TmpIsNew'
    BY <1>1, <1>2 DEF Sound, Halves, TmpIsNew, disk, HasFile
  <2>10. FileIsOld'
    <3>1. FileImage' = FileImage
      BY <1>1 DEF FileImage, disk
    <3>2. FileImage.of \in 1..next /\ FileImage.n \in Nat
      BY <2>2 DEF Image
    <3> QED BY <1>1, <1>2, <2>4, <3>1, <3>2 DEF FileIsOld, Writer, Empty
  <2> QED BY <2>5, <2>6, <2>7, <2>8, <2>9, <2>10 DEF Sound
<1> QED BY <1>3, <1>4

\* No step unsettles Sound.
LEMMA StepSound == Sound /\ [Next]_vars => Sound'
<1> SUFFICES ASSUME Sound, [Next]_vars PROVE Sound'
  OBVIOUS
<1>1. CASE Requests
  BY <1>1, QuietSound, CreateSound, ApplyBatchSound DEF Requests
<1>2. CASE DropUnregister \/ DropRemoveFile \/ Sweep \/ Signal \/ Drained \/ SyncDir \/ Restart
  BY <1>2, QuietSound, DropRemoveFileSound, SweepSound, SyncDirSound, RestartSound
<1>3. ASSUME NEW s \in Snapper, Snapshot(s) PROVE Sound'
  BY <1>3, CollectSound, ExportSound, CreateTmpSound, WriteFirstSound, WriteSecondSound,
     RenameSound, FailWriteSound DEF Snapshot
<1>4. ASSUME NEW power \in BOOLEAN, Crash(power) PROVE Sound'
  BY <1>4, CrashSound
<1>5. CASE UNCHANGED vars
  BY <1>5 DEF vars, mem, disk, past, Sound, Typed, Tasks, Process, Lineages, Halves, TmpIsNew,
              FileIsOld, Writer, HasFile, Foreign, Complete, FileImage
<1> QED BY <1>1, <1>2, <1>3, <1>4, <1>5 DEF Next

\* What the file holds after a step it held before, or a task that has the gate wrote,
\* unless the machine went down.
LEMMA StepImage ==
    ASSUME Sound, [Next]_vars, phase' # "down"
    PROVE  \/ FileImage' \in {FileImage, NONE}
           \/ \E s \in Snapper : Writer(s) /\ FileImage' = snap[s].img
<1>1. CASE UNCHANGED <<inode, file>>
  BY <1>1 DEF FileImage
<1>2. ASSUME NEW s \in Snapper, CreateTmp(s) PROVE FileImage' = FileImage
  <2>1. tmp' \in Ino /\ tmp' # file
    BY <1>2, NewInodeIsNew DEF CreateTmp, Sound, Typed, TmpIsNew
  <2>2. file' = file /\ \A i \in Ino \ {tmp'} : inode'[i] = inode[i]
    BY <1>2, <2>1 DEF CreateTmp, Sound, Typed
  <2> QED BY <2>1, <2>2 DEF FileImage, Sound, Typed
<1>3. ASSUME NEW s \in Snapper, HasFile(s)
      PROVE  Writer(s) /\ snap[s].ino \in Ino /\ snap[s].img \in Half
  BY <1>3 DEF HasFile, Writer, Sound, Typed, Tasks, Task, Half
<1>4. ASSUME NEW s \in Snapper, WriteFirst(s) PROVE FileImage' \in {FileImage, NONE}
  <2>1. HasFile(s) /\ Foreign(inode[snap[s].ino].b, s)
    BY <1>4 DEF WriteFirst, HasFile, Sound, Halves
  <2>2. /\ snap[s].ino \in Ino /\ snap[s].img \in Half
        /\ inode' = [inode EXCEPT ![snap[s].ino].a = snap[s].img, ![snap[s].ino].synced = FALSE]
    BY <1>3, <1>4, <2>1 DEF WriteFirst
  <2>3. /\ inode'[snap[s].ino].a = snap[s].img
        /\ inode'[snap[s].ino].b = inode[snap[s].ino].b
        /\ \A j \in Ino \ {snap[s].ino} : inode'[j] = inode[j]
    <3> DEFINE i == snap[s].ino  img == snap[s].img
    <3> HIDE DEF i, img
    <3>1. inode'[i] = [a |-> img, b |-> inode[i].b, synced |-> FALSE]
          /\ \A j \in Ino \ {i} : inode'[j] = inode[j]
      BY <2>2, FirstHalf DEF Sound, i, img
    <3> QED BY <3>1 DEF i, img
  <2>4. snap[s].img # NONE
    BY NoneAssumption DEF Sound, Typed, Task, Image
  <2> QED BY <1>4, <2>1, <2>3, <2>4 DEF WriteFirst, FileImage, Foreign, Sound, Typed
<1>5. ASSUME NEW s \in Snapper, WriteSecond(s)
      PROVE  FileImage' \in {FileImage, NONE} \/ (Writer(s) /\ FileImage' = snap[s].img)
  <2>1. HasFile(s)
    BY <1>5 DEF WriteSecond, HasFile
  <2>2. /\ snap[s].ino \in Ino /\ snap[s].img \in Half
        /\ inode' = [inode EXCEPT ![snap[s].ino].b = snap[s].img, ![snap[s].ino].synced = TRUE]
    BY <1>3, <1>5, <2>1 DEF WriteSecond
  <2>3. /\ inode'[snap[s].ino].b = snap[s].img
        /\ inode'[snap[s].ino].a = inode[snap[s].ino].a
        /\ \A j \in Ino \ {snap[s].ino} : inode'[j] = inode[j]
    <3> DEFINE i == snap[s].ino  img == snap[s].img
    <3> HIDE DEF i, img
    <3>1. inode'[i] = [a |-> inode[i].a, b |-> img, synced |-> TRUE]
          /\ \A j \in Ino \ {i} : inode'[j] = inode[j]
      BY <2>2, SecondHalf DEF Sound, i, img
    <3> QED BY <3>1 DEF i, img
  <2> QED BY <1>3, <1>5, <2>1, <2>3 DEF WriteSecond, FileImage, Sound, Typed
<1>6. ASSUME NEW s \in Snapper, Rename(s), tmp # NONE
      PROVE  \/ FileImage' = NONE
             \/ \E w \in Snapper : Writer(w) /\ FileImage' = snap[w].img
  <2>1. file' = tmp /\ tmp # file /\ tmp \in Ino /\ HasFile(s)
    BY <1>6 DEF Rename, Sound, Typed, TmpIsNew, HasFile
  <2>2. inode'[tmp] = inode[tmp]
    BY <1>6, <2>1, Forgotten DEF Rename, Sound, Typed
  <2>3. CASE Complete(tmp)
    <3>1. PICK w \in Snapper : snap[w].pc = "rename" /\ snap[w].img = inode[tmp].a
      BY <1>6, <2>1, <2>3 DEF Sound, TmpIsNew
    <3> QED BY <1>6, <2>1, <2>2, <2>3, <3>1 DEF FileImage, Complete, Writer
  <2>4. CASE ~ Complete(tmp)
    BY <1>6, <2>1, <2>2, <2>4 DEF FileImage, Complete
  <2> QED BY <2>3, <2>4
<1>7. ASSUME NEW power \in BOOLEAN, Crash(power) PROVE FALSE
  BY <1>7 DEF Crash
<1>8. CASE DropRemoveFile
  BY <1>8 DEF DropRemoveFile, FileImage
<1>11. CASE SyncDir
  <2>1. \A i \in Ino \ {kept} : inode'[i] = inode[i]
    BY <1>11, Forgotten DEF SyncDir, Sound, Typed
  <2> QED BY <1>11, <2>1 DEF SyncDir, FileImage, Sound, Typed
<1>9. ASSUME NEW s \in Snapper,
             Collect(s) \/ Export(s) \/ FailWrite(s) \/ (Rename(s) /\ tmp = NONE)
      PROVE  UNCHANGED <<inode, file>>
  BY <1>9 DEF Collect, Export, FailWrite, Rename, disk
<1>10. CASE Requests \/ DropUnregister \/ Sweep \/ Signal \/ Drained \/ Restart \/ UNCHANGED vars
  <2>1. UNCHANGED disk
    BY <1>10 DEF Requests, Create, Connect, BeginBatch, NoCollection, HangUp, ApplyBatch,
                 DropUnregister, Sweep, Signal, Drained, Restart, vars
  <2> QED BY <1>1, <2>1 DEF disk
<1> QED BY <1>1, <1>2, <1>4, <1>5, <1>6, <1>7, <1>8, <1>9, <1>10, <1>11 DEF Next, Snapshot

\* A task of an older incarnation may ruin the file, but not turn it back.
LEMMA StepAdvances ==
    ASSUME Sound, [Next]_vars, phase' # "down"
    PROVE  FileImage # NONE /\ FileImage' # NONE /\ FileImage'.of = FileImage.of
              => FileImage'.n >= FileImage.n
<1> SUFFICES ASSUME FileImage # NONE, FileImage' # NONE, FileImage'.of = FileImage.of
             PROVE  FileImage'.n >= FileImage.n
  OBVIOUS
<1>1. FileImage.n \in Nat
  BY DEF Sound, Typed, FileImage, Inode, Half, Image
<1>2. CASE FileImage' = FileImage
  BY <1>1, <1>2
<1>3. ASSUME NEW s \in Snapper, Writer(s), FileImage' = snap[s].img
      PROVE  FileImage'.n >= FileImage.n
  <2>1. snap[s].img.n \in Nat
    BY DEF Sound, Typed, Task, Image
  <2>2. FileImage.n <= snap[s].img.n
    BY <1>3 DEF Sound, FileIsOld
  <2> QED BY <1>1, <1>3, <2>1, <2>2
<1> QED BY <1>2, <1>3, StepImage

\* Every state is sound.
THEOREM SpecSound == Spec => []Sound
<1> QED BY InitSound, StepSound, PTL DEF Spec

\* A newer snapshot of a collection is never overwritten by an older one of it, by
\* whatever tasks, and through whatever crashes and deletes (snapshot_to, write); only
\* a loss of power, before the directory was written back, may bring the older one back.
THEOREM ImagesAdvance == Spec => SnapshotsAdvance
<1>1. Sound /\ [Next]_vars
         => [FileImage # NONE /\ FileImage' # NONE /\ phase' # "down"
               /\ FileImage'.of = FileImage.of => FileImage'.n >= FileImage.n]_vars
  BY StepAdvances
<1> QED BY <1>1, SpecSound, PTL DEF Spec, SnapshotsAdvance

-----------------------------------------------------------------------------
(* Before the first DELETE *)

\* Tasks that write have the gate of one object, so there is one.
LEMMA OneWriter ==
    ASSUME Sound, OneObject, NEW s \in Snapper, NEW t \in Snapper, Writer(s), Writer(t)
    PROVE  s = t
<1>1. gate[snap[s].obj] = s /\ gate[snap[t].obj] = t
  BY DEF Sound, Tasks
<1>2. snap[s].obj = cur /\ snap[t].obj = cur
  BY DEF OneObject, Writer
<1> QED BY <1>1, <1>2

Numbers ==
    /\ saved \in Nat /\ durable \in Nat /\ answered \in Nat
    /\ \A i \in Inc : obj[i].n \in Nat
    /\ \A s \in Snapper : snap[s].img.n \in Nat
    /\ cur # 0 => cur \in Inc
    /\ \A i \in Ino : inode[i].a # NONE => inode[i].a.n \in Nat

\* What is compared is numbers.
LEMMA SoundNumbers == Sound => Numbers
<1> SUFFICES ASSUME Sound PROVE Numbers
  OBVIOUS
<1>1. cur # 0 => cur \in Inc
  BY BoundAssumption DEF Sound, Typed, Inc
<1> QED BY <1>1 DEF Sound, Typed, Numbers, Inode, Half, Task, Image

\* The first process finds no file.
LEMMA InitUndropped == Init => Undropped
BY SnapperAssumption DEF Init, Undropped, OneObject, OwnTmp, OwnFile, OwnKept, Resting, HasFile, Writer

\* Requests and signals: nobody's file is touched.
LEMMA QuietUndropped ==
    ASSUME Undropped, ~ asked, phase # "down", phase' # "down",
           UNCHANGED <<cur, obj, snap, dropper, disk, asked, saved, durable, answered>>
    PROVE  Undropped'
BY DEF Undropped, OneObject, OwnTmp, OwnFile, OwnKept, disk, Writer, HasFile, Complete

\* The object grows.  What it acknowledged is in the snapshot main takes: no request
\* is attended by then.
LEMMA GrowUndropped ==
    ASSUME Sound, Sound', Undropped, ~ asked, ApplyBatch \/ Sweep
    PROVE  Undropped'
<1> USE SoundNumbers
<1>1. PICK new \in Nat : cur \in Inc /\ obj' = [obj EXCEPT ![cur].n = @ + new]
  <2>1. CASE Sweep
    BY <2>1 DEF Sweep, Numbers
  <2>2. CASE ApplyBatch
    <3>1. req.obj # 0 /\ req.obj = cur
      BY <2>2 DEF ApplyBatch, Sound, Process
    <3> QED BY <2>2, <3>1 DEF ApplyBatch, Numbers
  <2> QED BY <2>1, <2>2
<1>2. /\ cur' = cur /\ dropper' = dropper /\ snap' = snap /\ disk' = disk
      /\ asked' = asked /\ saved' = saved /\ durable' = durable
      /\ phase' = phase /\ phase # "down"
      /\ answered' \in {answered, obj'[cur].n}
      /\ phase = "final" => answered' = answered
  BY DEF ApplyBatch, Sweep, past, Up, Sound, Process
<1>3. obj[cur].n <= obj'[cur].n
  BY <1>1, ObjectGrows
<1>4. OneObject'
  <2>1. Writer(Main) => phase = "final"
    BY DEF Writer, Sound, Process
  <2>2. answered <= obj[cur].n => answered' <= obj'[cur].n
    BY <1>1, <1>2, <1>3 DEF Numbers
  <2> QED BY <1>1, <1>2, <2>1, <2>2 DEF Undropped, OneObject, Writer, Inc
<1>5. OwnTmp'
  BY <1>2 DEF Undropped, OwnTmp, disk, HasFile
<1>6. OwnFile'
  <2>1. \A i \in Ino : inode[i].a # NONE /\ inode[i].a.n <= obj[cur].n
                          => inode[i].a.n <= obj'[cur].n
    BY <1>1, <1>3 DEF Numbers
  <2>2. file # NONE => file \in Ino
    BY DEF Sound, Typed
  <2> QED BY <1>2, <2>1, <2>2 DEF Undropped, OwnFile, disk, Writer, Complete
<1>7. OwnKept'
  BY <1>2 DEF Undropped, OwnKept, disk, Complete
<1> QED BY <1>4, <1>5, <1>6, <1>7 DEF Undropped

\* A first object: there is no file yet, or it would have been restored.
LEMMA MakeObjectUndropped ==
    ASSUME Sound, Undropped, ~ asked, MakeObject, phase # "down",
           UNCHANGED <<snap, dropper, disk, past, phase>>
    PROVE  Undropped'
<1>1. /\ cur = 0 /\ file = NONE /\ answered = 0 /\ saved = 0
      /\ \A s \in Snapper : snap[s].pc = "idle"
  BY DEF MakeObject, Sound, Tasks, Undropped, OneObject, OwnFile, Inc
<1>2. answered' <= obj'[cur'].n
  <2>1. cur' = next' /\ next' \in Inc /\ obj' = [obj EXCEPT ![next'] = [Empty EXCEPT !.of = next']]
    BY BoundAssumption DEF MakeObject, Sound, Typed, Inc
  <2>2. obj'[next'].n = 0
    BY <2>1 DEF Empty, Sound, Typed
  <2> QED BY <1>1, <2>1, <2>2 DEF past
<1> QED BY <1>1, <1>2, SnapperAssumption
    DEF Undropped, OneObject, OwnTmp, OwnFile, OwnKept, disk, past, Writer, HasFile, Complete

\* ... made by a request of its own, or by a batch.
LEMMA CreateUndropped ==
    ASSUME Sound, Undropped, ~ asked, Create \/ BeginBatch
    PROVE  Undropped'
<1>1. CASE MakeObject
  BY <1>1, MakeObjectUndropped DEF Create, BeginBatch, Up
<1>2. CASE BeginOnObject
  BY <1>2, QuietUndropped DEF BeginOnObject, BeginBatch, Up, past
<1> QED BY <1>1, <1>2 DEF Create, BeginBatch, BeginOnObject

\* What was saved is what a loss of power leaves.
LEMMA SyncDirUndropped ==
    ASSUME Sound, Undropped, ~ asked, SyncDir
    PROVE  Undropped'
<1>1. /\ kept # file /\ kept' = file /\ durable' = saved
      /\ UNCHANGED <<mem, tmp, file, phase, asked, saved, answered>>
  BY DEF SyncDir
<1>2. \A i \in Ino \ {kept} : inode'[i] = inode[i]
  BY Forgotten DEF SyncDir, Sound, Typed
<1>3. OneObject'
  BY <1>1 DEF mem, Undropped, OneObject, Writer
<1>4. OwnTmp'
  BY <1>1, <1>2 DEF mem, Undropped, OwnTmp, Sound, Typed, TmpIsNew, HasFile
<1>5. OwnFile' /\ OwnKept'
  BY <1>1, <1>2 DEF mem, Undropped, OwnFile, OwnKept, Sound, Typed, Writer, Complete
<1> QED BY <1>3, <1>4, <1>5 DEF Undropped

\* A task begins with nothing on disk.
LEMMA CollectUndropped ==
    ASSUME Sound, Undropped, ~ asked, NEW s \in Snapper, Collect(s)
    PROVE  Undropped'
<1>1. /\ snap'[s].pc = "export" /\ snap'[s].obj = cur
      /\ \A t \in Snapper \ {s} : snap'[t] = snap[t]
      /\ UNCHANGED <<cur, obj, dropper, disk, past, phase>> /\ cur # 0
  BY DEF Collect, Sound, Typed
<1> QED BY <1>1, SnapperAssumption
    DEF Undropped, OneObject, OwnTmp, OwnFile, OwnKept, disk, past, Writer, HasFile, Complete

\* What a task copies is as far as its object.
LEMMA ExportUndropped ==
    ASSUME Sound, Undropped, ~ asked, NEW s \in Snapper, Export(s)
    PROVE  Undropped'
<1> DEFINE o == snap[s].obj
<1>1. snap[s].pc = "export" /\ phase # "down" /\ o = cur /\ cur \in Inc
  BY DEF Export, Up, Undropped, OneObject, Sound, Tasks
<1>2. /\ snap'[s].pc = "create" /\ snap'[s].obj = cur /\ snap'[s].img = obj[cur]
      /\ \A t \in Snapper \ {s} : snap'[t] = snap[t]
      /\ UNCHANGED <<cur, obj, dropper, disk, past, phase>>
  <2>1. snap' = [snap EXCEPT ![s].pc = "create", ![s].img = obj[o]] /\ "create" \in Pc
        /\ obj[o] \in Image
    BY <1>1 DEF Export, Pc, Sound, Typed
  <2>2. UNCHANGED <<cur, obj, dropper, disk, past, phase>>
    BY DEF Export
  <2>3. /\ snap'[s] = [pc |-> "create", obj |-> o, img |-> obj[o], ino |-> snap[s].ino]
        /\ \A t \in Snapper \ {s} : snap'[t] = snap[t]
    BY <2>1, SnapPcImg DEF Sound
  <2> QED BY <1>1, <2>2, <2>3
<1>3. cur # 0
  BY <1>1 DEF Inc
<1> QED BY <1>1, <1>2, <1>3, SnapperAssumption
    DEF Undropped, OneObject, OwnTmp, OwnFile, OwnKept, disk, past, Writer, HasFile, Complete

\* The temporary file is the writer's, and empty.
LEMMA CreateTmpUndropped ==
    ASSUME Sound, Undropped, ~ asked, NEW s \in Snapper, CreateTmp(s)
    PROVE  Undropped'
<1>1. tmp' \in Ino /\ tmp' # file /\ tmp' # kept /\ tmp' # NONE
  BY NewInodeIsNew, NoneAssumption DEF CreateTmp, Sound, Typed, TmpIsNew
<1>2. /\ snap'[s] = [pc |-> "first", obj |-> snap[s].obj, img |-> snap[s].img, ino |-> tmp']
      /\ \A t \in Snapper \ {s} : snap'[t] = snap[t]
  <2>1. snap' = [snap EXCEPT ![s].pc = "first", ![s].ino = tmp'] /\ "first" \in Pc
    BY DEF CreateTmp, Pc
  <2> QED BY <1>1, <2>1, SnapPcIno DEF Sound
<1>3. \A i \in Ino \ {tmp'} : inode'[i] = inode[i]
  BY <1>1 DEF CreateTmp, Sound, Typed
<1>4. /\ UNCHANGED <<cur, obj, dropper, file, kept, past, phase>> /\ phase # "down"
      /\ snap[s].pc = "create"
  BY DEF CreateTmp, Up
<1>5. \A t \in Snapper \ {s} : ~ Writer(t)
  BY <1>4, OneWriter DEF Undropped, Writer
<1>6. OneObject'
  BY <1>2, <1>4, SnapperAssumption DEF Undropped, OneObject, past, Writer
<1>7. OwnTmp'
  BY <1>1, <1>2, <1>5 DEF OwnTmp, HasFile, Writer
<1>8. OwnFile'
  BY <1>1, <1>2, <1>3, <1>4 DEF Undropped, OwnFile, Sound, Typed, past, Writer, Complete
<1>9. OwnKept'
  BY <1>1, <1>2, <1>3, <1>4 DEF Undropped, OwnKept, Sound, Typed, past, Complete
<1> QED BY <1>6, <1>7, <1>8, <1>9 DEF Undropped

\* The writer has its temporary file to itself.
LEMMA WriteFirstUndropped ==
    ASSUME Sound, Undropped, ~ asked, NEW s \in Snapper, WriteFirst(s)
    PROVE  Undropped'
<1> DEFINE img == snap[s].img
<1>1. /\ snap[s].pc = "first" /\ phase # "down"
      /\ UNCHANGED <<cur, obj, dropper, tmp, file, kept, past, phase>>
  BY DEF WriteFirst, Up
<1>2. tmp \in Ino /\ tmp # file /\ tmp # kept /\ snap[s].ino = tmp /\ img \in Half /\ tmp # NONE
  BY <1>1 DEF Undropped, OwnTmp, HasFile, Sound, Typed, TmpIsNew, Task, Half
<1>3. /\ snap'[s] = [pc |-> "second", obj |-> snap[s].obj, img |-> img, ino |-> snap[s].ino]
      /\ \A t \in Snapper \ {s} : snap'[t] = snap[t]
  <2>1. snap' = [snap EXCEPT ![s].pc = "second"] /\ "second" \in Pc
    BY DEF WriteFirst, Pc
  <2> QED BY <2>1, SnapPc DEF Sound
<1>4. /\ inode'[tmp] = [a |-> img, b |-> inode[tmp].b, synced |-> FALSE]
      /\ \A j \in Ino \ {tmp} : inode'[j] = inode[j]
  BY <1>2, FirstHalf DEF WriteFirst, Sound
<1>5. \A t \in Snapper \ {s} : ~ Writer(t)
  BY <1>1, OneWriter DEF Undropped, Writer
<1>6. OneObject'
  BY <1>1, <1>3, SnapperAssumption DEF Undropped, OneObject, past, Writer
<1>7. OwnTmp'
  BY <1>1, <1>2, <1>3, <1>4, <1>5 DEF OwnTmp, HasFile, Writer
<1>8. OwnFile'
  BY <1>1, <1>2, <1>3, <1>4 DEF Undropped, OwnFile, Sound, Typed, past, Writer, Complete
<1>9. OwnKept'
  BY <1>1, <1>2, <1>3, <1>4 DEF Undropped, OwnKept, Sound, Typed, past, Complete
<1> QED BY <1>6, <1>7, <1>8, <1>9 DEF Undropped

\* The second half completes the image, synced.
LEMMA WriteSecondUndropped ==
    ASSUME Sound, Undropped, ~ asked, NEW s \in Snapper, WriteSecond(s)
    PROVE  Undropped'
<1> DEFINE img == snap[s].img
<1>1. /\ snap[s].pc = "second" /\ phase # "down"
      /\ UNCHANGED <<cur, obj, dropper, tmp, file, kept, past, phase>>
  BY DEF WriteSecond, Up
<1>2. tmp \in Ino /\ tmp # file /\ tmp # kept /\ snap[s].ino = tmp /\ img \in Half /\ inode[tmp].a = img
      /\ tmp # NONE
  BY <1>1 DEF Undropped, OwnTmp, HasFile, Sound, Typed, TmpIsNew, Task, Half
<1>3. /\ snap'[s] = [pc |-> "rename", obj |-> snap[s].obj, img |-> img, ino |-> snap[s].ino]
      /\ \A t \in Snapper \ {s} : snap'[t] = snap[t]
  <2>1. snap' = [snap EXCEPT ![s].pc = "rename"] /\ "rename" \in Pc
    BY DEF WriteSecond, Pc
  <2> QED BY <2>1, SnapPc DEF Sound
<1>4. /\ inode'[tmp] = [a |-> img, b |-> img, synced |-> TRUE]
      /\ \A j \in Ino \ {tmp} : inode'[j] = inode[j]
  <2>1. /\ inode'[tmp] = [a |-> inode[tmp].a, b |-> img, synced |-> TRUE]
        /\ \A j \in Ino \ {tmp} : inode'[j] = inode[j]
    BY <1>2, SecondHalf DEF WriteSecond, Sound
  <2> QED BY <1>2, <2>1
<1>5. \A t \in Snapper \ {s} : ~ Writer(t)
  BY <1>1, OneWriter DEF Undropped, Writer
<1>6. OneObject'
  BY <1>1, <1>3, SnapperAssumption DEF Undropped, OneObject, past, Writer
<1>7. OwnTmp'
  <2>1. \A t \in Snapper : HasFile(t)' => t = s
    BY <1>3, <1>5 DEF HasFile, Writer
  <2>2. /\ tmp' = tmp /\ tmp # NONE /\ snap'[s].ino = tmp /\ snap'[s].img = img
        /\ snap'[s].pc = "rename" /\ inode'[tmp] = [a |-> img, b |-> img, synced |-> TRUE]
    BY <1>1, <1>2, <1>3, <1>4
  <2> QED BY <2>1, <2>2 DEF OwnTmp, HasFile
<1>8. OwnFile'
  BY <1>1, <1>2, <1>3, <1>4 DEF Undropped, OwnFile, Sound, Typed, past, Writer, Complete
<1>9. OwnKept'
  BY <1>1, <1>2, <1>3, <1>4 DEF Undropped, OwnKept, Sound, Typed, past, Complete
<1> QED BY <1>6, <1>7, <1>8, <1>9 DEF Undropped

\* A task that gives up leaves the file as it is.
LEMMA FailWriteUndropped ==
    ASSUME Sound, Undropped, ~ asked, NEW s \in Snapper, FailWrite(s)
    PROVE  Undropped'
<1>1. Done(s) /\ snap[s].pc # "idle" /\ phase # "down" /\ UNCHANGED <<disk, saved>>
  BY DEF FailWrite, Up
<1>2. /\ snap'[s] = Resting
      /\ \A t \in Snapper \ {s} : snap'[t] = snap[t]
  BY <1>1, DoneTyped
<1>3. UNCHANGED <<cur, obj, dropper, asked, durable, answered>> /\ phase' # "down"
  BY <1>1 DEF Done
<1> QED BY <1>1, <1>2, <1>3, SnapperAssumption
    DEF Undropped, OneObject, OwnTmp, OwnFile, OwnKept, disk, Writer, HasFile, Resting, Complete

\* What replaces the file is complete, synced and no older.
LEMMA RenameUndropped ==
    ASSUME Sound, Undropped, ~ asked, NEW s \in Snapper, Rename(s)
    PROVE  Undropped'
<1> DEFINE img == snap[s].img
<1>1. /\ snap[s].pc = "rename" /\ phase # "down" /\ Done(s) /\ Writer(s) /\ HasFile(s)
  BY DEF Rename, Up, Writer, HasFile
<1>2. /\ snap'[s] = Resting
      /\ \A t \in Snapper \ {s} : snap'[t] = snap[t]
  BY <1>1, DoneTyped
<1>3. /\ UNCHANGED <<cur, obj, dropper, kept, asked, durable, answered>> /\ phase' # "down"
  BY <1>1 DEF Done
<1>4. /\ tmp \in Ino /\ tmp # file /\ tmp # NONE
      /\ inode[tmp] = [a |-> img, b |-> img, synced |-> TRUE]
      /\ snap[s].obj = cur /\ cur \in Inc
  BY <1>1 DEF Undropped, OneObject, OwnTmp, Sound, Typed, Tasks, TmpIsNew
<1>5. /\ file' = tmp /\ tmp' = NONE /\ inode'[tmp] = inode[tmp]
      /\ kept # NONE => inode'[kept] = inode[kept]
  <2>1. UNCHANGED inode \/ (file # kept /\ \A i \in Ino \ {file} : inode'[i] = inode[i])
    BY <1>4, Forgotten DEF Rename, Sound, Typed
  <2> QED BY <1>4, <2>1 DEF Rename, Sound, Typed
<1>6. /\ img # NONE /\ img.n \in Nat /\ saved <= img.n /\ img.n <= obj[cur].n
  <2>1. img \in Image
    BY DEF Sound, Typed, Task
  <2>2. img # NONE /\ img.n \in Nat
    BY <2>1, NoneAssumption DEF Image
  <2>3. file # NONE => file \in Ino
    BY DEF Sound, Typed
  <2>4. saved <= img.n
    BY <1>1, <2>2, <2>3, SoundNumbers DEF Undropped, OwnFile, Complete, Numbers
  <2> QED BY <1>1, <1>4, <2>2, <2>4 DEF Sound, Tasks
<1>7. saved' = img.n
  BY <1>4, <1>6, SoundNumbers DEF Rename, Numbers
<1>8. \A t \in Snapper : ~ Writer(t)'
  BY <1>1, <1>2, OneWriter DEF Undropped, Writer, Resting
<1>9. OneObject'
  BY <1>2, <1>3, <1>8, SnapperAssumption DEF Undropped, OneObject, Resting
<1>10. OwnTmp'
  BY <1>8 DEF OwnTmp, HasFile, Writer
<1>11. OwnFile'
  BY <1>3, <1>4, <1>5, <1>6, <1>7, <1>8 DEF OwnFile, Complete, Inc
<1>12. OwnKept'
  BY <1>3, <1>5 DEF Undropped, OwnKept, Sound, Typed, Complete
<1> QED BY <1>9, <1>10, <1>11, <1>12 DEF Undropped

\* The file survives, or the one the directory last had on the platter: that is what
\* the next process restores.
LEMMA CrashUndropped ==
    ASSUME Sound, Undropped, ~ asked, NEW power \in BOOLEAN, Crash(power)
    PROVE  Undropped'
<1>1. /\ phase' = "down" /\ cur' = 0 /\ dropper' = 0 /\ answered' = 0
      /\ snap' = [s \in Snapper |-> Resting]
      /\ UNCHANGED <<kept, asked, durable>>
  BY DEF Crash
<1>2. /\ OneObject' /\ OwnTmp'
      /\ \A s \in Snapper : ~ Writer(s)'
  BY <1>1, SnapperAssumption DEF OneObject, OwnTmp, Writer, HasFile, Resting
<1>3. (file # NONE => file \in Ino) /\ (kept # NONE => kept \in Ino)
  BY DEF Sound, Typed
<1>4. kept # NONE => inode'[kept] = inode[kept]
  BY <1>3 DEF Crash, Undropped, OwnKept
<1>5. OwnKept'
  BY <1>1, <1>4 DEF Undropped, OwnKept, Complete
<1>6. OwnFile'
  <2>1. CASE power
    <3>1. file' = kept /\ saved' = durable
      BY <2>1 DEF Crash
    <3> QED BY <1>1, <1>2, <1>4, <3>1 DEF Undropped, OwnFile, OwnKept, Complete
  <2>2. CASE ~ power
    <3>1. UNCHANGED <<file, inode, saved>>
      BY <2>2 DEF Crash
    <3> QED BY <1>1, <1>2, <3>1 DEF Undropped, OwnFile, Complete
  <2> QED BY <2>1, <2>2
<1> QED BY <1>2, <1>5, <1>6 DEF Undropped

\* The object restored is as far as the file.
LEMMA RestartUndropped ==
    ASSUME Sound, Undropped, ~ asked, Restart
    PROVE  Undropped'
<1>1. /\ phase = "down" /\ UNCHANGED <<snap, dropper, disk, past>>
  BY DEF Restart
<1>2. cur = 0 /\ answered = 0 /\ \A s \in Snapper : snap[s].pc = "idle"
  BY <1>1 DEF Sound, Process, Undropped, OneObject
<1>3. CASE FileImage = NONE
  <2>1. file = NONE
    BY <1>3 DEF FileImage, Undropped, OwnFile, Complete
  <2> QED BY <1>1, <1>2, <1>3, <2>1, SnapperAssumption
      DEF Restart, Undropped, OneObject, OwnTmp, OwnFile, OwnKept, disk, past, Writer, HasFile, Complete
<1>4. CASE FileImage # NONE
  <2>1. file \in Ino /\ file # NONE /\ FileImage = inode[file].a
    BY <1>4 DEF FileImage, Sound, Typed
  <2>2. next + 1 \in Inc /\ next' = next + 1 /\ cur' = next'
    <3>1. next \in 0..MaxInc /\ next < MaxInc
      BY DEF Restart, Sound, Typed
    <3>2. next + 1 \in Inc
      BY <3>1, BoundAssumption DEF Inc
    <3> QED BY <1>4, <3>2 DEF Restart
  <2>3. obj'[cur'] = inode[file].a /\ cur' # 0
    <3>1. DOMAIN obj = Inc /\ obj' = [obj EXCEPT ![next'] = FileImage]
      BY <1>4 DEF Restart, Sound, Typed
    <3> QED BY <2>1, <2>2, <3>1 DEF Inc
  <2>4. inode[file].a.n \in Nat
    BY <1>4, <2>1, SoundNumbers DEF Numbers
  <2> QED BY <1>1, <1>2, <2>1, <2>3, <2>4, SnapperAssumption
      DEF Undropped, OneObject, OwnTmp, OwnFile, OwnKept, disk, past, Writer, HasFile, Complete
<1> QED BY <1>3, <1>4

\* No step but a DELETE unsettles Undropped.
LEMMA StepUndropped ==
    ASSUME Sound, Sound', Undropped, [Next]_vars
    PROVE  Undropped'
<1>1. asked => asked'
  BY DEF Next, Requests, Snapshot, Create, Connect, BeginBatch, NoCollection, HangUp,
         ApplyBatch, DropUnregister, DropRemoveFile, Collect, Export, CreateTmp, WriteFirst,
         WriteSecond, Rename, FailWrite, Done, Sweep, Signal, Drained, SyncDir, Crash, Restart,
         vars, past, mem
<1>2. CASE asked'
  BY <1>2 DEF Undropped
<1> SUFFICES ASSUME ~ asked, ~ asked' PROVE Undropped'
  BY <1>1, <1>2
<1>3. CASE Connect \/ NoCollection \/ HangUp \/ Signal \/ Drained
  BY <1>3, QuietUndropped DEF Connect, NoCollection, HangUp, Signal, Drained, Up, mem, past
<1>4. CASE UNCHANGED vars
  BY <1>4 DEF vars, mem, disk, past, Undropped, OneObject, OwnTmp, OwnFile, OwnKept, Writer,
              HasFile, Complete
<1>5. CASE Create \/ BeginBatch \/ ApplyBatch \/ Sweep \/ SyncDir \/ Restart
  BY <1>5, CreateUndropped, GrowUndropped, SyncDirUndropped, RestartUndropped
<1>6. ~ DropUnregister /\ ~ DropRemoveFile
  BY DEF DropUnregister, DropRemoveFile, Undropped, OneObject
<1>7. ASSUME NEW s \in Snapper, Snapshot(s) PROVE Undropped'
  BY <1>7, CollectUndropped, ExportUndropped, CreateTmpUndropped, WriteFirstUndropped,
     WriteSecondUndropped, RenameUndropped, FailWriteUndropped DEF Snapshot
<1>8. ASSUME NEW power \in BOOLEAN, Crash(power) PROVE Undropped'
  BY <1>8, CrashUndropped
<1> QED BY <1>3, <1>4, <1>5, <1>6, <1>7, <1>8 DEF Next, Requests

\* Before the first DELETE the gate leaves one writer, and the file is its.
THEOREM SpecUndropped == Spec => []Undropped
<1> QED BY InitUndropped, StepUndropped, SpecSound, PTL DEF Spec

\* "A crash halfway through leaves the previous good snapshot untouched rather than a
\* half-written one" (write, snapshot.rs), and so does a loss of power.
THEOREM FileStaysIntact == Spec => []FileIntactUndropped
<1>1. Undropped => FileIntactUndropped
  BY DEF Undropped, OwnFile, FileIntactUndropped, FileIntact, FileImage, Complete
<1> QED BY <1>1, SpecUndropped, PTL

\* The promises about what was saved and acknowledged end with a DELETE.
NoPromise == asked => saved = 0 /\ durable = 0

LEMMA StepPromise == NoPromise /\ [Next]_vars => NoPromise'
<1> SUFFICES ASSUME asked => saved = 0 /\ durable = 0, [Next]_vars, asked'
             PROVE  saved' = 0 /\ durable' = 0
  BY DEF NoPromise
<1> QED BY DEF Next, Requests, Snapshot, Create, Connect, BeginBatch, NoCollection, HangUp,
         ApplyBatch, DropUnregister, DropRemoveFile, Collect, Export, CreateTmp, WriteFirst,
         WriteSecond, Rename, FailWrite, Done, Sweep, Signal, Drained, SyncDir, Crash, Restart,
         vars, past, mem

\* What was reported written is what the next start finds, or newer (snapshot_to):
\* whatever kills the process, and after a loss of power what had been reported when
\* the directory was last written back.
THEOREM SavedLasts == Spec => []SavedSurvives
<1>1. Init => NoPromise
  BY DEF Init, NoPromise
<1>2. Sound /\ Undropped /\ NoPromise => SavedSurvives
  <2> SUFFICES ASSUME Sound, Undropped, ~ asked, saved > 0
               PROVE  FileImage # NONE /\ FileImage.n >= saved
    BY DEF SavedSurvives, NoPromise
  <2>1. file # NONE /\ Complete(file) /\ saved <= inode[file].a.n
    BY DEF Undropped, OwnFile
  <2>2. inode[file].a.n \in Nat
    BY <2>1, SoundNumbers DEF Sound, Typed, Numbers, Complete
  <2> QED BY <2>1, <2>2, SoundNumbers DEF FileImage, Complete, Numbers
<1> QED BY <1>1, <1>2, StepPromise, SpecSound, SpecUndropped, PTL DEF Spec

\* Only main ends the process, and what main wrote holds every acknowledged batch.
LEMMA StepAnswers ==
    ASSUME Sound, Undropped, [Next]_vars,
           phase = "final", phase' = "stopped", file' # file, ~ asked
    PROVE  FileImage'.n >= answered
<1>1. Rename(Main)
  <2>1. ASSUME NEW s \in Snapper, Rename(s), s # Main PROVE FALSE
    BY <2>1 DEF Rename, Done
  <2> QED BY <2>1 DEF Next, Requests, Snapshot, Create, Connect, BeginBatch, NoCollection, HangUp,
          ApplyBatch, DropUnregister, DropRemoveFile, Collect, Export, CreateTmp, WriteFirst,
          WriteSecond, FailWrite, Sweep, Signal, Drained, SyncDir, Crash, Restart, vars, disk, mem
<1> DEFINE img == snap[Main].img
<1>2. /\ file' = tmp /\ tmp # NONE /\ tmp # file /\ tmp \in Ino
      /\ snap[Main].pc = "rename"
  BY <1>1 DEF Rename, disk, Sound, Typed, TmpIsNew
<1>3. inode'[tmp] = inode[tmp] /\ inode[tmp].a = img /\ inode[tmp].b = img
  <2>1. inode'[tmp] = inode[tmp]
    BY <1>1, <1>2, Forgotten DEF Rename, Sound, Typed
  <2>2. inode[tmp] = [a |-> img, b |-> img, synced |-> TRUE]
    BY <1>2, SnapperAssumption DEF Undropped, OwnTmp
  <2> QED BY <2>1, <2>2
<1>4. FileImage' = img
  BY <1>2, <1>3 DEF FileImage
<1>5. answered <= img.n
  BY <1>2 DEF Undropped, OneObject, Writer
<1> QED BY <1>4, <1>5, SoundNumbers, SnapperAssumption DEF Numbers

\* When main's own snapshot was written, every acknowledged batch is in it (main.rs).
THEOREM AnswersAreSaved == Spec => AnsweredIsSaved
<1>1. Sound /\ Undropped /\ [Next]_vars
         => [phase = "final" /\ phase' = "stopped" /\ file' # file /\ ~ asked
               => FileImage'.n >= answered]_vars
  BY StepAnswers
<1> QED BY <1>1, SpecSound, SpecUndropped, PTL DEF Spec, AnsweredIsSaved

=============================================================================
