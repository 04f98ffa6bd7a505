--------------------------- MODULE ReplicasProofs ---------------------------
(***************************************************************************)
(* The write path over replicas, proved for any number of servers, any     *)
(* plan of calls and any number of retries, with every answer lost or late *)
(* and servers that go down; and what overload, hang-ups and crashes       *)
(* cannot do to a server, for any number of requests and any limits.       *)
(*                                                                         *)
(* Admission has the steps of a request and no next-state relation: what   *)
(* is proved of each step comes first, and the steps are put together      *)
(* after.  OneWriter is not inductive: that the gate is free for whoever   *)
(* takes it says nothing of a job that runs on alone unless the job is     *)
(* counted among its holders, as Gated does.                               *)
(*                                                                         *)
(* Nor is NoSilentMiss.  A leg that is fulfilled heard its request         *)
(* answered "ok" (Heard), and a try is made in a request that was never    *)
(* sent before (Unsent): otherwise a retry would make a request that took  *)
(* effect start anew.                                                      *)
(***************************************************************************)
EXTENDS Replicas, FiniteSetTheorems, TLAPS

\* The requests in one of the stages S, when f has the stages of a server.
Where(f, S) == {q \in Request : f[q] \in S}

\* The limits are kept by a server s whose requests are where f says.
Fit(s, f) ==
    /\ f \in [Request -> Stage]
    /\ IsFiniteSet(Where(f, Stage \ {"idle"}))
    /\ Cardinality(Where(f, Handled)) <= MaxInflight[s]
    /\ Cardinality(Where(f, Working)) <= MaxBlocking[s]
    /\ \A q, r \in Where(f, Gated) : q = r

AllFit ==
    /\ stage = [s \in Server |-> stage[s]]
    /\ \A s \in Server : Fit(s, stage[s])

\* A request may go to the stage "to" as far as permits and gate are concerned.
Permitted(s, f, q, to) ==
    /\ to \in Stage
    /\ to \in Handled /\ f[q] \notin Handled => Cardinality(Where(f, Handled)) < MaxInflight[s]
    /\ to \in Working /\ f[q] \notin Working => Cardinality(Where(f, Working)) < MaxBlocking[s]
    /\ to \in Gated /\ f[q] \notin Gated => Where(f, Gated) = {}

\* What is applied stays applied, what is answered stays answered, and the two go
\* together as in Exchange.
Taken  == {"applied", "ok", "spent"}
Denied == {"refused", "refused_late", "busy"}
Exchanged(from, to) ==
    \/ from \notin Taken \union Denied \union {"cut", "cut_late"} /\ to # "ok"
    \/ from = "applied" /\ to \in {"ok", "spent"}
    \/ from = to

-----------------------------------------------------------------------------
(* One request moves *)

\* The requests of a server that are anywhere but idle are finite in number, and
\* so are those in any such stages.
LEMMA FiniteWhere ==
    ASSUME NEW f, IsFiniteSet(Where(f, Stage \ {"idle"})),
           NEW S, S \subseteq Stage, "idle" \notin S
    PROVE  IsFiniteSet(Where(f, S)) /\ Cardinality(Where(f, S)) \in Nat
<1>1. Where(f, S) \subseteq Where(f, Stage \ {"idle"})
  BY DEF Where
<1> QED BY <1>1, FS_Subset, FS_CardinalityType

\* Where the requests in S are after q has moved: q may be new among them.
LEMMA WhereMoved ==
    ASSUME NEW f \in [Request -> Stage], NEW q \in Request, NEW to \in Stage, NEW S
    PROVE  LET g == [f EXCEPT ![q] = to]
           IN  /\ g \in [Request -> Stage]
               /\ Where(g, S) \subseteq Where(f, S) \union {q}
               /\ to \notin S \/ f[q] \in S => Where(g, S) \subseteq Where(f, S)
BY DEF Where

\* A move keeps a count within its limit when there was room for one more, or the
\* request was counted already.
LEMMA RoomForOne ==
    ASSUME NEW f \in [Request -> Stage], IsFiniteSet(Where(f, Stage \ {"idle"})),
           NEW q \in Request, NEW to \in Stage,
           NEW S, S \subseteq Stage, "idle" \notin S,
           NEW limit \in Nat, Cardinality(Where(f, S)) <= limit,
           to \in S /\ f[q] \notin S => Cardinality(Where(f, S)) < limit
    PROVE  Cardinality(Where([f EXCEPT ![q] = to], S)) <= limit
<1> DEFINE before == Where(f, S)
           after  == Where([f EXCEPT ![q] = to], S)
<1>1. IsFiniteSet(before) /\ Cardinality(before) \in Nat
  BY FiniteWhere
<1>2. CASE to \in S /\ f[q] \notin S
  <2>1. /\ IsFiniteSet(before \union {q})
        /\ Cardinality(before \union {q}) <= Cardinality(before) + 1
    <3> HIDE DEF before
    <3>1. Cardinality(before \union {q}) = IF q \in before THEN Cardinality(before)
                                          ELSE Cardinality(before) + 1
      BY <1>1, FS_AddElement
    <3> QED BY <1>1, <3>1, FS_AddElement
  <2>2. after \subseteq before \union {q}
    BY WhereMoved
  <2>3. Cardinality(after) <= Cardinality(before \union {q}) /\ IsFiniteSet(after)
    BY <2>1, <2>2, FS_Subset
  <2>4. Cardinality(after) \in Nat /\ Cardinality(before \union {q}) \in Nat
    BY <2>1, <2>3, FS_CardinalityType
  <2> HIDE DEF before, after
  <2>5. Cardinality(before) < limit
    BY <1>2 DEF before
  <2>6. Cardinality(after) <= limit
    BY <1>1, <2>1, <2>3, <2>4, <2>5
  <2> QED BY <2>6 DEF after
<1>3. CASE ~ (to \in S /\ f[q] \notin S)
  <2>1. after \subseteq before
    BY <1>3, WhereMoved
  <2>2. Cardinality(after) <= Cardinality(before) /\ IsFiniteSet(after)
    BY <1>1, <2>1, FS_Subset
  <2>3. Cardinality(after) \in Nat
    BY <2>2, FS_CardinalityType
  <2>4. Cardinality(before) <= limit
    OBVIOUS
  <2> HIDE DEF before, after
  <2>5. Cardinality(after) <= limit
    BY <1>1, <2>2, <2>3, <2>4
  <2> QED BY <2>5 DEF after
<1> QED BY <1>2, <1>3

\* The stages there are, as one set.
LEMMA StageKinds ==
    /\ Handled \subseteq Stage /\ Working \subseteq Stage /\ Gated \subseteq Stage
    /\ Alone \subseteq Working
    /\ "idle" \notin Handled /\ "idle" \notin Working /\ "idle" \notin Gated
BY DEF Stage, Handled, Alone, Answered, Ended, Working, Gated

\* A permitted move keeps every limit, and the gate has one holder at most.
LEMMA PermittedFits ==
    ASSUME NEW s \in Server, NEW f, Fit(s, f), NEW q \in Request, NEW to,
           Permitted(s, f, q, to)
    PROVE  Fit(s, [f EXCEPT ![q] = to])
<1> DEFINE g == [f EXCEPT ![q] = to]
<1>1. f \in [Request -> Stage] /\ to \in Stage /\ g \in [Request -> Stage]
  BY DEF Fit, Permitted
<1>2. IsFiniteSet(Where(f, Stage \ {"idle"}))
  BY DEF Fit
<1>3. MaxInflight[s] \in Nat /\ MaxBlocking[s] \in Nat
  BY PermitAssumption
<1>4. IsFiniteSet(Where(g, Stage \ {"idle"}))
  <2>1. IsFiniteSet(Where(f, Stage \ {"idle"}) \union {q})
    BY <1>2, FS_AddElement
  <2>2. Where(g, Stage \ {"idle"}) \subseteq Where(f, Stage \ {"idle"}) \union {q}
    BY <1>1, WhereMoved
  <2> QED BY <2>1, <2>2, FS_Subset
<1>5. Cardinality(Where(g, Handled)) <= MaxInflight[s]
  BY <1>1, <1>2, <1>3, StageKinds, RoomForOne DEF Fit, Permitted
<1>6. Cardinality(Where(g, Working)) <= MaxBlocking[s]
  BY <1>1, <1>2, <1>3, StageKinds, RoomForOne DEF Fit, Permitted
<1>7. \A p, r \in Where(g, Gated) : p = r
  BY <1>1 DEF Where, Fit, Permitted
<1> QED BY <1>1, <1>4, <1>5, <1>6, <1>7 DEF Fit

-----------------------------------------------------------------------------
(* The steps of Admission *)

\* Request q, which is somewhere, moves at server s as it may.
Moves(s, q) ==
    \E to : /\ stage[s][q] # "idle"
            /\ stage' = [stage EXCEPT ![s][q] = to]
            /\ Permitted(s, stage[s], q, to)
            /\ Exchanged(stage[s][q], to)

\* All requests, wherever they are, keep the promise of Exchange in this step, and
\* nothing is sent.
KeepPromise == \A s \in Server, q \in Request : Exchanged(stage[s][q], stage'[s][q])
NoneSent == \A s \in Server, q \in Request : stage[s][q] = "idle" => stage'[s][q] = "idle"

\* At and Where are the same for the stages of a server.
LEMMA AtIsWhere == \A s, S : At(s, S) = Where(stage[s], S)
BY DEF At, Where

\* A request that goes on without asking for a permit or the gate.
LEMMA FreelyMoves ==
    ASSUME NEW s \in Server, NEW q \in Request, NEW from, NEW to, Goes(s, q, from, to),
           to \in Stage,
           to \in Handled => from \in Handled,
           to \in Working => from \in Working,
           to \in Gated => from \in Gated,
           from # "idle", Exchanged(from, to)
    PROVE  Moves(s, q)
BY DEF Goes, Moves, Permitted

\* Whatever a server does by itself, and giving up and ending a job, are moves.
LEMMA ProgressMoves ==
    ASSUME NEW s \in Server, NEW q \in Request,
           Progress(s, q) \/ GiveUp(s, q) \/ FinishJob(s, q) \/ RefusePatches(s, q)
    PROVE  Moves(s, q)
<1> USE DEF Stage, Handled, Alone, Answered, Ended, Working, Gated, Exchanged, Taken, Denied
<1>1. CASE Admit(s, q)
  <2>1. PICK to \in {"worker_to_parse", "gate"} : Goes(s, q, "sent", to)
    BY <1>1 DEF Admit
  <2>2. Cardinality(Where(stage[s], Handled)) < MaxInflight[s]
    BY <1>1, AtIsWhere DEF Admit, Admitted
  <2>3. Permitted(s, stage[s], q, to)
    BY <2>1, <2>2 DEF Goes, Permitted
  <2> QED BY <2>1, <2>3 DEF Goes, Moves
<1>2. CASE RejectFull(s, q)
  BY <1>2, FreelyMoves DEF RejectFull
<1>3. ASSUME NEW from \in {"worker_to_parse", "worker_to_apply"},
             NEW to \in {"parsing", "applying"},
             WorkerFree(s), Goes(s, q, from, to), to = "applying" => from = "worker_to_apply"
      PROVE  Moves(s, q)
  <2>1. Cardinality(Where(stage[s], Working)) < MaxBlocking[s]
    BY <1>3, AtIsWhere DEF WorkerFree
  <2>2. Permitted(s, stage[s], q, to)
    BY <1>3, <2>1 DEF Goes, Permitted
  <2> QED BY <1>3, <2>2 DEF Goes, Moves
<1>4. CASE StartParse(s, q) \/ StartJob(s, q)
  BY <1>3, <1>4 DEF StartParse, StartJob
<1>5. CASE Parsed(s, q)
  BY <1>5, FreelyMoves DEF Parsed
<1>6. CASE TakeGate(s, q)
  <2>1. Where(stage[s], Gated) = {}
    BY <1>6, AtIsWhere DEF TakeGate, GateFree
  <2>2. Permitted(s, stage[s], q, "worker_to_apply")
    BY <1>6, <2>1 DEF TakeGate, Goes, Permitted
  <2>3. Exchanged(stage[s][q], "worker_to_apply")
    BY <1>6 DEF TakeGate, Goes
  <2>4. stage' = [stage EXCEPT ![s][q] = "worker_to_apply"]
    BY <1>6 DEF TakeGate, Goes
  <2> HIDE DEF Gated, Exchanged
  <2>5. stage[s][q] # "idle"
    BY <1>6 DEF TakeGate, Goes
  <2> QED BY <2>2, <2>3, <2>4, <2>5 DEF Moves
<1>7. CASE RefuseBatch(s, q)
  BY <1>7, FreelyMoves DEF RefuseBatch
<1>8. CASE FinishJob(s, q)
  BY <1>8, FreelyMoves DEF FinishJob
<1>9. CASE Answer(s, q)
  BY <1>9, FreelyMoves DEF Answer
<1>10. CASE GiveUp(s, q)
  BY <1>10, FreelyMoves DEF GiveUp
<1>11. CASE RefusePatches(s, q)
  BY <1>11, FreelyMoves DEF RefusePatches
<1> QED BY <1>1, <1>2, <1>4, <1>5, <1>6, <1>7, <1>8, <1>9, <1>10, <1>11 DEF Progress

\* A handler that is dropped gives back what it holds, but for the job.
LEMMA DropMoves ==
    ASSUME AllFit, NEW s \in Server, NEW q \in Request, Drop(s, q)
    PROVE  Moves(s, q)
<1> USE DEF Stage, Handled, Alone, Answered, Ended, Working, Gated, Exchanged, Taken, Denied
<1>1. stage[s][q] # "idle" /\ stage' = [stage EXCEPT ![s][q] = Dropped(stage[s][q])]
  BY DEF Drop
<1>2. Permitted(s, stage[s], q, Dropped(stage[s][q])) /\ Exchanged(stage[s][q], Dropped(stage[s][q]))
  <2>1. stage[s][q] \in Handled \union {"sent"}
    BY DEF Drop
  <2>2. CASE stage[s][q] = "parsing"
    BY <2>2 DEF Dropped, Permitted
  <2>3. CASE stage[s][q] = "applying"
    BY <2>3 DEF Dropped, Permitted
  <2>4. CASE stage[s][q] = "applied"
    BY <2>4 DEF Dropped, Permitted
  <2>5. CASE stage[s][q] \notin {"parsing", "applying", "applied"}
    BY <2>1, <2>5 DEF Dropped, Permitted
  <2> QED BY <2>2, <2>3, <2>4, <2>5
<1> QED BY <1>1, <1>2 DEF Moves

\* A move keeps the limits and the promise of Exchange.
LEMMA MovesFit ==
    ASSUME AllFit, NEW s \in Server, NEW q \in Request, Moves(s, q)
    PROVE  AllFit' /\ KeepPromise /\ NoneSent
<1>1. PICK to : /\ stage[s][q] # "idle"
                /\ stage' = [stage EXCEPT ![s][q] = to]
                /\ Permitted(s, stage[s], q, to)
                /\ Exchanged(stage[s][q], to)
  BY DEF Moves
<1>2. /\ stage' = [t \in Server |-> stage'[t]]
      /\ stage'[s] = [stage[s] EXCEPT ![q] = to]
      /\ \A t \in Server \ {s} : stage'[t] = stage[t]
  BY <1>1 DEF AllFit
<1>3. \A t \in Server : Fit(t, stage'[t])
  BY <1>1, <1>2, PermittedFits DEF AllFit
<1>4. \A t \in Server, r \in Request : Exchanged(stage[t][r], stage'[t][r])
  <2>1. stage[s] \in [Request -> Stage]
    BY DEF AllFit, Fit
  <2> QED BY <1>1, <1>2, <2>1 DEF Exchanged
<1>5. NoneSent
  <2>1. stage[s] \in [Request -> Stage]
    BY DEF AllFit, Fit
  <2> QED BY <1>1, <1>2, <2>1 DEF NoneSent
<1> QED BY <1>2, <1>3, <1>4, <1>5 DEF AllFit, KeepPromise

\* So does a crash.
LEMMA CrashFits ==
    ASSUME AllFit, NEW s \in Server, Crash(s)
    PROVE  AllFit' /\ KeepPromise /\ NoneSent
<1> DEFINE f == stage[s]
           g == [q \in Request |-> Killed(f[q])]
<1>1. /\ stage' = [t \in Server |-> stage'[t]]
      /\ stage'[s] = g
      /\ \A t \in Server \ {s} : stage'[t] = stage[t]
  BY DEF Crash, AllFit
<1>2. \A q \in Request : f[q] \in Stage
  BY DEF AllFit, Fit
<1>3. \A q \in Request :
         /\ g[q] \in Stage /\ g[q] \notin Handled \union Working \union Gated
         /\ f[q] = "idle" => g[q] = "idle"
         /\ Exchanged(f[q], g[q])
  BY <1>2 DEF Killed, Exchanged, Taken, Denied, Stage, Handled, Alone, Answered, Ended, Working, Gated
<1>4. Fit(s, g)
  <2>1. g \in [Request -> Stage]
    BY <1>3
  <2>2. Where(g, Handled) = {} /\ Where(g, Working) = {} /\ Where(g, Gated) = {}
    BY <1>3 DEF Where
  <2>3. Where(g, Stage \ {"idle"}) \subseteq Where(f, Stage \ {"idle"})
    BY <1>2, <1>3 DEF Where
  <2>4. IsFiniteSet(Where(g, Stage \ {"idle"}))
    BY <2>3, FS_Subset DEF AllFit, Fit
  <2>5. Cardinality({}) = 0 /\ MaxInflight[s] >= 0 /\ MaxBlocking[s] >= 0
    BY FS_EmptySet, PermitAssumption
  <2> QED BY <2>1, <2>2, <2>4, <2>5 DEF Fit
<1>5. \A t \in Server : Fit(t, stage'[t])
  BY <1>1, <1>4 DEF AllFit
<1>6. \A t \in Server, r \in Request : Exchanged(stage[t][r], stage'[t][r])
  BY <1>1, <1>3 DEF Exchanged
<1>7. NoneSent
  BY <1>1, <1>3 DEF NoneSent
<1> QED BY <1>1, <1>5, <1>6, <1>7 DEF AllFit, KeepPromise

-----------------------------------------------------------------------------
(* What follows from the limits *)

\* One writer at a time: whoever applies a batch, alone or attended, has the gate.
LEMMA FitHasOneWriter == AllFit => OneWriter
<1> SUFFICES ASSUME AllFit, NEW s \in Server
             PROVE  Cardinality(At(s, {"applying", "applying_alone"})) <= 1
  BY DEF OneWriter
<1> DEFINE W == At(s, {"applying", "applying_alone"})
<1>1. \A q, r \in W : q = r
  BY DEF AllFit, Fit, Where, At, Gated
<1>2. CASE W = {}
  BY <1>2, FS_EmptySet
<1>3. CASE W # {}
  <2>1. PICK q : W = {q}
    BY <1>1, <1>3
  <2>2. Cardinality(W) = 1
    BY <2>1, FS_Singleton
  <2> QED BY <2>2
<1> QED BY <1>2, <1>3

\* A body is held by a handler or by a job, and a job has a worker.
LEMMA FitBoundsBodies == AllFit => BodiesBounded
<1> SUFFICES ASSUME AllFit, NEW s \in Server
             PROVE  Cardinality(At(s, Handled \union Alone) \intersect Bodied)
                       <= MaxInflight[s] + MaxBlocking[s]
  BY DEF BodiesBounded
<1> DEFINE f == stage[s]
           H == Where(f, Handled)
           W == Where(f, Working)
           B == At(s, Handled \union Alone) \intersect Bodied
<1>1. /\ IsFiniteSet(H) /\ Cardinality(H) \in Nat /\ Cardinality(H) <= MaxInflight[s]
      /\ IsFiniteSet(W) /\ Cardinality(W) \in Nat /\ Cardinality(W) <= MaxBlocking[s]
  BY StageKinds, FiniteWhere DEF AllFit, Fit
<1>2. B \subseteq H \union W
  BY StageKinds DEF Where, At
<1> HIDE DEF H, W, B
<1>3. /\ IsFiniteSet(H \union W)
      /\ Cardinality(H \union W) = Cardinality(H) + Cardinality(W) - Cardinality(H \intersect W)
  BY <1>1, FS_Union
<1>4. Cardinality(H \intersect W) \in Nat
  <2>1. IsFiniteSet(H \intersect W)
    BY <1>1, FS_Subset
  <2> QED BY <2>1, FS_CardinalityType
<1>5. IsFiniteSet(B) /\ Cardinality(B) <= Cardinality(H \union W)
  BY <1>2, <1>3, FS_Subset
<1>6. Cardinality(B) \in Nat
  BY <1>5, FS_CardinalityType
<1>7. MaxInflight[s] \in Nat /\ MaxBlocking[s] \in Nat
  BY PermitAssumption
<1>8. Cardinality(B) <= MaxInflight[s] + MaxBlocking[s]
  BY <1>1, <1>3, <1>4, <1>5, <1>6, <1>7
<1> QED BY <1>8 DEF B

\* What was applied stays so, and so does an acknowledgement.
LEMMA PromiseLasts ==
    ASSUME KeepPromise, NEW s \in Server, NEW q \in Request
    PROVE  /\ IsApplied(s, q) => IsApplied(s, q)'
           /\ stage[s][q] = "ok" => stage'[s][q] = "ok"
BY DEF KeepPromise, Exchanged, IsApplied, Taken, Denied

\* A change of stages that Exchanged allows is a step of Exchange, or none.
LEMMA ExchangedIsStep ==
    ASSUME NEW s \in Server, NEW q \in Request, Exchanged(stage[s][q], stage'[s][q])
    PROVE  [X(s, q)!Next]_(X(s, q)!vars)
<1> QED BY DEF X!Next, X!Apply, X!Acknowledge, X!Decline, X!RefuseInPart, X!vars, IsApplied,
               AppliedTo, AnswerGiven, Exchanged, Taken, Denied

-----------------------------------------------------------------------------
\* How a leg stands.
LegTyped ==
    call > 0 =>
       /\ leg = [s \in plan.urls |-> leg[s]]
       /\ \A s \in plan.urls :
             /\ leg[s] \in [try : Tries, is : {"waiting", "pausing", "fulfilled", "rejected"}]
             /\ leg[s].is = "pausing" => leg[s].try < Retries

ClientTyped ==
    /\ plan \in Plans
    /\ call \in 0..Len(plan.calls)
    /\ LegTyped
    /\ missed = [c \in Call |-> missed[c]]
    /\ outcome = [c \in Call |-> outcome[c]]
    /\ \A c \in Call : outcome[c] # "none" => c <= call

\* Requests of later calls, and later tries of the call under way, are not sent yet.
Unsent ==
    \A s \in Server, q \in Request :
       stage[s][q] # "idle" =>
          /\ q[1] <= call
          /\ q[1] = call /\ s \in plan.urls => q[2] <= leg[s].try

\* A leg that is fulfilled heard "ok".
Heard ==
    call > 0 => \A s \in plan.urls :
                   leg[s].is = "fulfilled" => stage[s][Current(s)] = "ok"

RInv == AllFit /\ ClientTyped /\ Unsent /\ Heard /\ NoSilentMiss

\* What a server holds is the newest of what it took since it last lost the device.
HoldsNewest ==
    \A s \in Server :
       /\ held[s] \in Nat /\ disk[s] \in Nat /\ since[s] \subseteq Nat
       /\ since[s] = {} => held[s] = 0
       /\ since[s] # {} => held[s] \in since[s]
       /\ \A v \in since[s] : v <= held[s]

Tables ==
    /\ held = [s \in Server |-> held[s]]
    /\ disk = [s \in Server |-> disk[s]]
    /\ since = [s \in Server |-> since[s]]

HInv == Tables /\ HoldsNewest

-----------------------------------------------------------------------------
(* Requests *)

\* A call of the plan is a call, and its tries are requests.
LEMMA CallsAreRequests ==
    ASSUME plan \in Plans, NEW c \in Nat, 1 <= c, c <= Len(plan.calls), NEW n \in Tries
    PROVE  /\ c \in Call /\ c \in DOMAIN plan.calls
           /\ <<c, n>> \in Request
<1>1. plan.calls \in Seq([kind : {"report", "refusable", "remove"}, ver : Nat])
  BY PlanAssumption
<1>2. DOMAIN plan.calls = 1..Len(plan.calls) /\ Len(plan.calls) \in Nat
  BY <1>1
<1>3. c \in DOMAIN plan.calls
  BY <1>2
<1>4. c \in Call
  BY <1>3 DEF Call
<1> QED BY <1>3, <1>4, RequestAssumption

\* Calls are numbered from one, tries from zero.
LEMMA RequestNumbers ==
    ASSUME NEW q \in Request
    PROVE  q[1] \in Call /\ q[1] \in Nat /\ q[1] >= 1 /\ q[2] \in Tries /\ q = <<q[1], q[2]>>
<1>1. q[1] \in Call /\ q[2] \in Tries /\ q = <<q[1], q[2]>>
  BY RequestAssumption
<1>2. PICK p \in Plans : q[1] \in DOMAIN p.calls
  BY <1>1 DEF Call
<1>3. p.calls \in Seq([kind : {"report", "refusable", "remove"}, ver : Nat])
  BY PlanAssumption
<1>4. DOMAIN p.calls = 1..Len(p.calls) /\ Len(p.calls) \in Nat
  BY <1>3
<1> QED BY <1>1, <1>2, <1>4

\* To send a request that is idle takes no permit.
LEMMA SendFits ==
    ASSUME NEW s \in Server, NEW f, Fit(s, f), NEW q \in Request, f[q] = "idle"
    PROVE  /\ Fit(s, [f EXCEPT ![q] = "sent"])
           /\ Exchanged(f[q], "sent")
<1>1. Permitted(s, f, q, "sent")
  BY DEF Permitted, Stage, Handled, Working, Gated
<1> QED BY <1>1, PermittedFits DEF Exchanged, Taken, Denied

\* Where the client is while a call is under way.
LEMMA WhileUnderWay ==
    ASSUME ClientTyped, UnderWay, NEW s \in plan.urls
    PROVE  /\ call \in Nat /\ call >= 1 /\ call <= Len(plan.calls) /\ call \in Call
           /\ s \in Server
           /\ leg[s] \in [try : Tries, is : {"waiting", "pausing", "fulfilled", "rejected"}]
           /\ Current(s) \in Request
<1>1. call \in Nat /\ call >= 1 /\ call <= Len(plan.calls) /\ plan \in Plans
  <2>1. plan.calls \in Seq([kind : {"report", "refusable", "remove"}, ver : Nat])
    BY PlanAssumption DEF ClientTyped
  <2>2. Len(plan.calls) \in Nat
    BY <2>1
  <2> QED BY <2>2 DEF ClientTyped, UnderWay
<1>2. s \in Server
  BY <1>1, PlanAssumption
<1>3. leg[s] \in [try : Tries, is : {"waiting", "pausing", "fulfilled", "rejected"}]
  BY <1>1 DEF ClientTyped, LegTyped
<1> QED BY <1>1, <1>2, <1>3, CallsAreRequests DEF Current

-----------------------------------------------------------------------------
(* The invariant of the calls *)

\* What resolved earlier stays right as long as requests keep their promise.
LEMMA MissStays ==
    ASSUME NoSilentMiss, KeepPromise, plan \in Plans, plan' = plan,
           NEW c \in Call, outcome'[c] = "resolved", outcome[c] = "resolved", missed'[c] = missed[c]
    PROVE  /\ missed'[c] # plan'.urls
           /\ \A s \in plan'.urls \ missed'[c] : \E n \in Tries : IsApplied(s, <<c, n>>)'
<1> SUFFICES ASSUME NEW s \in plan.urls \ missed[c]
             PROVE  \E n \in Tries : IsApplied(s, <<c, n>>)'
  BY DEF NoSilentMiss
<1>1. PICK n \in Tries : IsApplied(s, <<c, n>>)
  BY DEF NoSilentMiss
<1>2. s \in Server /\ <<c, n>> \in Request
  BY PlanAssumption, RequestAssumption
<1> QED BY <1>1, <1>2, PromiseLasts

\* A step of a server, which sends nothing.
LEMMA ServerStepRInv ==
    ASSUME RInv, UNCHANGED client, AllFit', KeepPromise, NoneSent
    PROVE  RInv'
<1>1. /\ plan' = plan /\ call' = call /\ leg' = leg /\ missed' = missed /\ outcome' = outcome
      /\ plan \in Plans
  BY DEF client, RInv, ClientTyped
<1>2. ClientTyped'
  BY <1>1 DEF RInv, ClientTyped, LegTyped
<1>3. Unsent'
  BY <1>1 DEF RInv, Unsent, NoneSent
<1>4. Heard'
  <2> SUFFICES ASSUME call > 0, NEW s \in plan.urls, leg[s].is = "fulfilled"
               PROVE  stage'[s][Current(s)] = "ok"
    BY <1>1 DEF Heard, Current
  <2>1. s \in Server /\ Current(s) \in Request
    <3>1. call \in 1..Len(plan.calls) /\ leg[s].try \in Tries
      BY DEF RInv, ClientTyped, LegTyped
    <3> QED BY <1>1, <3>1, CallsAreRequests, PlanAssumption DEF Current
  <2>2. stage[s][Current(s)] = "ok"
    BY DEF RInv, Heard
  <2> QED BY <2>1, <2>2, PromiseLasts
<1>5. NoSilentMiss'
  BY <1>1, MissStays DEF RInv, NoSilentMiss
<1> QED BY <1>2, <1>3, <1>4, <1>5 DEF RInv

\* The next call is made.
LEMMA BeginRInv ==
    ASSUME RInv, Begin
    PROVE  RInv' /\ KeepPromise
<1> DEFINE q == <<call + 1, 0>>
<1>1. /\ plan' = plan /\ missed' = missed /\ outcome' = outcome
      /\ call' = call + 1 /\ leg' = FirstTry
      /\ stage' = [s \in Server |-> IF s \in plan.urls
                                    THEN [stage[s] EXCEPT ![q] = "sent"] ELSE stage[s]]
      /\ plan \in Plans /\ ~ UnderWay
  BY DEF Begin, RInv, ClientTyped
<1>2. call \in Nat /\ call + 1 <= Len(plan.calls) /\ Len(plan.calls) \in Nat
  <2>1. plan.calls \in Seq([kind : {"report", "refusable", "remove"}, ver : Nat])
    BY <1>1, PlanAssumption
  <2> QED BY <2>1 DEF Begin, RInv, ClientTyped
<1>3. 0 \in Tries /\ q \in Request /\ call + 1 \in Call
  <2>1. 0 \in Tries
    BY RequestAssumption DEF Tries
  <2> QED BY <1>1, <1>2, <2>1, CallsAreRequests
<1>4. \A s \in Server : stage[s][q] = "idle"
  BY <1>2, <1>3 DEF RInv, Unsent
<1>5. AllFit'
  <2>1. \A s \in Server : Fit(s, stage'[s])
    BY <1>1, <1>3, <1>4, SendFits DEF RInv, AllFit
  <2> QED BY <1>1, <2>1 DEF AllFit
<1>6. KeepPromise
  <2> SUFFICES ASSUME NEW s \in Server, NEW r \in Request
               PROVE  Exchanged(stage[s][r], stage'[s][r])
    BY DEF KeepPromise
  <2>1. stage[s] \in [Request -> Stage]
    BY DEF RInv, AllFit, Fit
  <2> QED BY <1>1, <1>3, <1>4, <2>1, SendFits DEF Exchanged, RInv, AllFit
<1>7. ClientTyped'
  <2>1. LegTyped'
    BY <1>1, <1>3 DEF LegTyped, FirstTry
  <2>2. \A c \in Call : outcome'[c] # "none" => c <= call'
    <3>1. \A c \in Call : c \in Nat
      <4> SUFFICES ASSUME NEW c \in Call PROVE c \in Nat
        OBVIOUS
      <4>1. <<c, 0>> \in Request
        BY <1>3, RequestAssumption
      <4> QED BY <4>1, RequestNumbers
    <3> QED BY <1>1, <1>2, <3>1 DEF RInv, ClientTyped
  <2>3. call' \in 0..Len(plan.calls)
    BY <1>1, <1>2
  <2> QED BY <1>1, <2>1, <2>2, <2>3 DEF RInv, ClientTyped
<1>8. Unsent'
  <2> SUFFICES ASSUME NEW s \in Server, NEW r \in Request, stage'[s][r] # "idle"
               PROVE  /\ r[1] <= call + 1
                      /\ r[1] = call + 1 /\ s \in plan.urls => r[2] <= FirstTry[s].try
    BY <1>1 DEF Unsent
  <2>1. stage[s] \in [Request -> Stage]
    BY DEF RInv, AllFit, Fit
  <2>2. CASE r = q /\ s \in plan.urls
    BY <1>2, <2>2 DEF FirstTry
  <2>3. CASE ~ (r = q /\ s \in plan.urls)
    <3>1. stage[s][r] # "idle"
      BY <1>1, <2>1, <2>3
    <3>2. r[1] <= call
      BY <3>1 DEF RInv, Unsent
    <3> QED BY <1>2, <3>2, RequestNumbers
  <2> QED BY <2>2, <2>3
<1>9. Heard'
  BY <1>1 DEF Heard, FirstTry
<1>10. NoSilentMiss'
  BY <1>1, <1>6, MissStays DEF RInv, NoSilentMiss
<1> QED BY <1>5, <1>6, <1>7, <1>8, <1>9, <1>10 DEF RInv

\* A leg that hears an answer, or gives up waiting for one.
LEMMA LegRInv ==
    ASSUME RInv, NEW s \in plan.urls, HearAnswer(s) \/ TimeOut(s)
    PROVE  RInv' /\ stage' = stage
<1>1. /\ plan' = plan /\ call' = call /\ missed' = missed /\ outcome' = outcome /\ stage' = stage
      /\ UnderWay /\ plan \in Plans
  BY DEF HearAnswer, TimeOut, RInv, ClientTyped
<1>2. PICK is \in {"pausing", "fulfilled", "rejected"} :
         /\ leg' = [leg EXCEPT ![s].is = is]
         /\ is = "pausing" => leg[s].try < Retries
         /\ is = "fulfilled" => stage[s][Current(s)] = "ok"
  BY DEF HearAnswer, TimeOut, Failed
<1>3. /\ leg[s] \in [try : Tries, is : {"waiting", "pausing", "fulfilled", "rejected"}]
      /\ call > 0 /\ leg = [t \in plan.urls |-> leg[t]]
  BY <1>1, WhileUnderWay DEF RInv, ClientTyped, LegTyped
<1>4. /\ leg' = [t \in plan.urls |-> leg'[t]]
      /\ leg'[s].is = is /\ leg'[s].try = leg[s].try
      /\ leg'[s] \in [try : Tries, is : {"waiting", "pausing", "fulfilled", "rejected"}]
      /\ \A t \in plan.urls \ {s} : leg'[t] = leg[t]
  BY <1>2, <1>3
<1>5. \A t \in plan.urls : leg'[t].try = leg[t].try
  BY <1>4
<1>6. ClientTyped'
  BY <1>1, <1>2, <1>3, <1>4 DEF RInv, ClientTyped, LegTyped
<1>7. Unsent'
  BY <1>1, <1>5 DEF RInv, Unsent
<1>8. Heard'
  BY <1>1, <1>2, <1>4, <1>5 DEF RInv, Heard, Current
<1>9. AllFit' /\ NoSilentMiss'
  BY <1>1 DEF RInv, AllFit, NoSilentMiss, IsApplied
<1> QED BY <1>1, <1>6, <1>7, <1>8, <1>9 DEF RInv

\* A leg that tries again sends a request that was idle.
LEMMA TryAgainRInv ==
    ASSUME RInv, NEW s \in plan.urls, TryAgain(s)
    PROVE  RInv' /\ KeepPromise
<1> DEFINE n == leg[s].try + 1
           q == <<call, n>>
<1>1. /\ plan' = plan /\ call' = call /\ missed' = missed /\ outcome' = outcome
      /\ leg' = [leg EXCEPT ![s] = [try |-> n, is |-> "waiting"]]
      /\ stage' = [stage EXCEPT ![s][q] = "sent"]
      /\ UnderWay /\ plan \in Plans /\ leg[s].is = "pausing"
  BY DEF TryAgain, RInv, ClientTyped
<1>2. /\ call \in Nat /\ call >= 1 /\ call <= Len(plan.calls) /\ call \in Call
      /\ s \in Server
      /\ leg[s] \in [try : Tries, is : {"waiting", "pausing", "fulfilled", "rejected"}]
      /\ leg = [t \in plan.urls |-> leg[t]] /\ leg[s].try < Retries
  BY <1>1, WhileUnderWay DEF RInv, ClientTyped, LegTyped
<1>3. n \in Tries /\ q \in Request /\ ~ (n <= leg[s].try)
  <2>1. n \in Tries /\ ~ (n <= leg[s].try)
    BY <1>2, RequestAssumption DEF Tries
  <2> QED BY <1>1, <1>2, <2>1, CallsAreRequests
<1>4. stage[s][q] = "idle"
  BY <1>2, <1>3 DEF RInv, Unsent
<1>5. /\ stage' = [t \in Server |-> stage'[t]]
      /\ stage'[s] = [stage[s] EXCEPT ![q] = "sent"]
      /\ \A t \in Server \ {s} : stage'[t] = stage[t]
      /\ stage[s] \in [Request -> Stage]
  BY <1>1, <1>2 DEF RInv, AllFit, Fit
<1>6. /\ leg' = [t \in plan.urls |-> leg'[t]]
      /\ leg'[s] = [try |-> n, is |-> "waiting"]
      /\ \A t \in plan.urls \ {s} : leg'[t] = leg[t]
  BY <1>1, <1>2
<1> HIDE DEF n
<1>7. AllFit'
  <2>1. \A t \in Server : Fit(t, stage'[t])
    BY <1>2, <1>3, <1>4, <1>5, SendFits DEF RInv, AllFit
  <2> QED BY <1>5, <2>1 DEF AllFit
<1>8. KeepPromise
  <2> SUFFICES ASSUME NEW t \in Server, NEW r \in Request
               PROVE  Exchanged(stage[t][r], stage'[t][r])
    BY DEF KeepPromise
  <2>1. Exchanged(stage[s][q], "sent")
    BY <1>2, <1>3, <1>4, SendFits DEF RInv, AllFit
  <2> QED BY <1>3, <1>5, <2>1 DEF Exchanged
<1>9. ClientTyped'
  <2>1. LegTyped'
    BY <1>1, <1>3, <1>6 DEF RInv, ClientTyped, LegTyped
  <2> QED BY <1>1, <2>1 DEF RInv, ClientTyped
<1>10. Unsent'
  <2> SUFFICES ASSUME NEW t \in Server, NEW r \in Request, stage'[t][r] # "idle"
               PROVE  /\ r[1] <= call
                      /\ r[1] = call /\ t \in plan.urls => r[2] <= leg'[t].try
    BY <1>1 DEF Unsent
  <2>1. leg[s].try <= n /\ n <= n /\ n \in Nat /\ leg[s].try \in Nat
    BY <1>2, <1>3, RequestAssumption DEF Tries, n
  <2>2. CASE t = s /\ r = q
    BY <1>2, <1>6, <2>1, <2>2
  <2>3. CASE ~ (t = s /\ r = q)
    <3>1. stage[t][r] # "idle"
      BY <1>5, <2>3
    <3>2. r[1] <= call /\ (r[1] = call /\ t \in plan.urls => r[2] <= leg[t].try)
      BY <3>1 DEF RInv, Unsent
    <3>3. r[2] \in Nat
      BY RequestNumbers, RequestAssumption DEF Tries
    <3> QED BY <1>6, <2>1, <3>2, <3>3
  <2> QED BY <2>2, <2>3
<1>11. Heard'
  <2> SUFFICES ASSUME NEW t \in plan.urls, leg'[t].is = "fulfilled"
               PROVE  stage'[t][<<call, leg'[t].try>>] = "ok"
    BY <1>1 DEF Heard, Current
  <2>1. t # s
    BY <1>6
  <2>2. stage[t][<<call, leg[t].try>>] = "ok"
    <3>1. leg'[t] = leg[t]
      BY <1>6, <2>1
    <3>2. call > 0
      BY <1>2
    <3> QED BY <3>1, <3>2 DEF RInv, Heard, Current
  <2>3. t \in Server
    BY <1>1, PlanAssumption
  <2> QED BY <1>5, <1>6, <2>1, <2>2, <2>3 DEF Current
<1>12. NoSilentMiss'
  BY <1>1, <1>8, MissStays DEF RInv, NoSilentMiss
<1> QED BY <1>7, <1>8, <1>9, <1>10, <1>11, <1>12 DEF RInv

\* The call settles: whoever is not reported heard "ok".
LEMMA SettleRInv ==
    ASSUME RInv, Settle
    PROVE  RInv' /\ stage' = stage
<1>1. /\ plan' = plan /\ call' = call /\ leg' = leg /\ stage' = stage
      /\ outcome' = [outcome EXCEPT ![call] = IF Took = {} THEN "thrown" ELSE "resolved"]
      /\ missed' = [missed EXCEPT ![call] = IF Took = {} THEN {} ELSE plan.urls \ Took]
      /\ UnderWay /\ plan \in Plans
  BY DEF Settle, RInv, ClientTyped
<1>2. \A s \in plan.urls :
         /\ s \in Server /\ call \in Nat /\ call >= 1 /\ call \in Call
         /\ leg[s] \in [try : Tries, is : {"waiting", "pausing", "fulfilled", "rejected"}]
  BY <1>1, WhileUnderWay DEF RInv
<1>3. PICK u : u \in plan.urls
  BY <1>1, PlanAssumption
<1>4. ClientTyped'
  <2>1. /\ missed' = [c \in Call |-> missed'[c]] /\ outcome' = [c \in Call |-> outcome'[c]]
        /\ \A c \in Call \ {call} : outcome'[c] = outcome[c]
    BY <1>1, <1>2, <1>3 DEF RInv, ClientTyped
  <2> QED BY <1>1, <1>2, <1>3, <2>1 DEF RInv, ClientTyped, LegTyped
<1>5. Unsent' /\ Heard' /\ AllFit'
  BY <1>1 DEF RInv, Unsent, Heard, Current, AllFit
<1>6. NoSilentMiss'
  <2> SUFFICES ASSUME NEW c \in Call, outcome'[c] = "resolved"
               PROVE  /\ missed'[c] # plan.urls
                      /\ \A s \in plan.urls \ missed'[c] : \E n \in Tries : IsApplied(s, <<c, n>>)'
    BY <1>1 DEF NoSilentMiss
  <2>1. CASE c = call
    <3>1. Took # {} /\ missed'[c] = plan.urls \ Took
      BY <1>1, <1>2, <1>3, <2>1 DEF RInv, ClientTyped
    <3>2. missed'[c] # plan.urls
      BY <3>1 DEF Took
    <3>3. ASSUME NEW s \in plan.urls \ missed'[c] PROVE \E n \in Tries : IsApplied(s, <<c, n>>)'
      <4>1. s \in plan.urls /\ leg[s].is = "fulfilled"
        BY <3>1, <3>3 DEF Took
      <4>2. stage[s][<<call, leg[s].try>>] = "ok" /\ leg[s].try \in Tries
        BY <1>2, <4>1 DEF RInv, Heard, Current
      <4> QED BY <1>1, <2>1, <4>2 DEF IsApplied
    <3> QED BY <3>2, <3>3
  <2>2. CASE c # call
    <3>1. outcome'[c] = outcome[c] /\ missed'[c] = missed[c]
      BY <1>1, <2>2 DEF RInv, ClientTyped
    <3>2. \A s \in plan.urls, n \in Tries : IsApplied(s, <<c, n>>)' = IsApplied(s, <<c, n>>)
      BY <1>1 DEF IsApplied
    <3> QED BY <3>1, <3>2 DEF RInv, NoSilentMiss
  <2> QED BY <2>1, <2>2
<1> QED BY <1>1, <1>4, <1>5, <1>6 DEF RInv

\* Before the first call nothing was sent.
LEMMA InitRInv == Init => RInv
<1> SUFFICES ASSUME Init PROVE RInv
  OBVIOUS
<1>1. plan \in Plans /\ call = 0
  BY DEF Init
<1>2. \A s \in Server : stage[s] = [q \in Request |-> "idle"]
  BY DEF Init, InitStages
<1>3. AllFit
  <2> SUFFICES ASSUME NEW s \in Server PROVE Fit(s, stage[s])
    BY DEF AllFit, Init, InitStages
  <2>1. stage[s] \in [Request -> Stage]
    BY <1>2 DEF Stage
  <2>2. /\ Where(stage[s], Stage \ {"idle"}) = {} /\ Where(stage[s], Handled) = {}
        /\ Where(stage[s], Working) = {} /\ Where(stage[s], Gated) = {}
    BY <1>2 DEF Where, Handled, Working, Gated
  <2>3. Cardinality({}) = 0 /\ IsFiniteSet({}) /\ MaxInflight[s] >= 0 /\ MaxBlocking[s] >= 0
    BY FS_EmptySet, PermitAssumption
  <2> QED BY <2>1, <2>2, <2>3 DEF Fit
<1>4. ClientTyped
  <2>1. plan.calls \in Seq([kind : {"report", "refusable", "remove"}, ver : Nat])
    BY <1>1, PlanAssumption
  <2>2. call \in 0..Len(plan.calls)
    BY <1>1, <2>1
  <2> QED BY <1>1, <2>2 DEF Init, ClientTyped, LegTyped
<1>5. Unsent /\ Heard /\ NoSilentMiss
  BY <1>1, <1>2 DEF Unsent, Heard, NoSilentMiss, Init
<1> QED BY <1>3, <1>4, <1>5 DEF RInv

\* Every step keeps the invariant, and every request its promise.
LEMMA StepRInv ==
    ASSUME RInv, [Next]_vars
    PROVE  RInv' /\ KeepPromise
<1>1. ASSUME stage' = stage PROVE KeepPromise
  BY <1>1 DEF KeepPromise, Exchanged
<1>2. CASE Begin
  BY <1>2, BeginRInv
<1>3. CASE Settle
  BY <1>1, <1>3, SettleRInv
<1>4. ASSUME NEW s \in plan.urls, HearAnswer(s) \/ TimeOut(s) PROVE RInv' /\ KeepPromise
  BY <1>1, <1>4, LegRInv
<1>5. ASSUME NEW s \in plan.urls, TryAgain(s) PROVE RInv' /\ KeepPromise
  BY <1>5, TryAgainRInv
<1>6. ASSUME NEW s \in plan.urls PROVE s \in Server
  BY PlanAssumption DEF RInv, ClientTyped
<1>7. ASSUME NEW s \in plan.urls, NEW q \in Request,
             Serve(s, q) \/ Take(s, q) \/ RunOutOfPatience(s, q) \/ HangUp(s, q)
      PROVE  RInv' /\ KeepPromise
  <2>1. Moves(s, q) /\ UNCHANGED client
    BY <1>6, <1>7, ProgressMoves, DropMoves DEF RInv, Serve, Take, RunOutOfPatience, HangUp
  <2> QED BY <1>6, <2>1, MovesFit, ServerStepRInv DEF RInv
<1>8. ASSUME NEW s \in plan.urls, Save(s) PROVE RInv' /\ KeepPromise
  <2>1. stage' = stage /\ UNCHANGED client
    BY <1>8 DEF Save
  <2>2. AllFit' /\ NoneSent
    BY <2>1 DEF RInv, AllFit, NoneSent
  <2> QED BY <1>1, <2>1, <2>2, ServerStepRInv
<1>9. ASSUME NEW s \in plan.urls, Restart(s) PROVE RInv' /\ KeepPromise
  <2>1. Crash(s) /\ UNCHANGED client
    BY <1>9 DEF Restart
  <2> QED BY <1>6, <2>1, CrashFits, ServerStepRInv DEF RInv
<1>10. CASE UNCHANGED vars
  <2>1. stage' = stage /\ UNCHANGED client
    BY <1>10 DEF vars
  <2>2. AllFit' /\ NoneSent
    BY <2>1 DEF RInv, AllFit, NoneSent
  <2> QED BY <1>1, <2>1, <2>2, ServerStepRInv
<1> QED BY <1>2, <1>3, <1>4, <1>5, <1>7, <1>8, <1>9, <1>10 DEF Next, Client, Work

-----------------------------------------------------------------------------
(* The theorems *)

\* The strengthened invariant of calls, requests and permits holds in every state.
THEOREM SpecRInv == Spec => []RInv
BY InitRInv, StepRInv, PTL DEF Spec

\* No two batches are applied at a time at a server, although callers hang up and
\* their jobs run on.
THEOREM WritersExclude == Spec => []OneWriter
BY SpecRInv, FitHasOneWriter, PTL DEF RInv

\* The bodies a server has in memory are no more than it admits requests and has
\* workers, however often clients hang up and try again.
THEOREM BodiesStayBounded == Spec => []BodiesBounded
BY SpecRInv, FitBoundsBodies, PTL DEF RInv

\* A call that resolved was applied by every replica it did not report, and by one
\* at least.
THEOREM MissesAreReported == Spec => []NoSilentMiss
BY SpecRInv, PTL DEF RInv

\* Every request at every server keeps the promise of Exchange: applied at most
\* once, acknowledged only when applied whole, turned away as "busy" only when
\* nothing of it ever is, refused only when not the whole of it ever is.
THEOREM RequestsAreExchanges == Spec => ImplementsExchange
<1>1. Init => \A s \in Server, q \in Request : X(s, q)!Init
  BY DEF Init, InitStages, X!Init, IsApplied, AppliedTo, AnswerGiven
<1>2. RInv /\ [Next]_vars => [\A s \in Server, q \in Request : [X(s, q)!Next]_(X(s, q)!vars)]_stage
  BY StepRInv, ExchangedIsStep DEF KeepPromise
<1> QED BY <1>1, <1>2, SpecRInv, PTL DEF Spec, ImplementsExchange

-----------------------------------------------------------------------------
(* Versions *)

\* Nothing is held at first.
LEMMA InitHInv == Init => HInv
BY DEF Init, HInv, Tables, HoldsNewest

\* A report: the newer of the two versions stays.
LEMMA ReportHInv ==
    ASSUME HInv, NEW s \in Server, NEW v \in Nat, TakeReport(s, v), disk' = disk
    PROVE  HInv'
<1>1. /\ held' = [held EXCEPT ![s] = IF Newer(s, v) THEN v ELSE @]
      /\ since' = [since EXCEPT ![s] = @ \union {v}]
  BY DEF TakeReport
<1>2. Tables'
  BY <1>1 DEF HInv, Tables
<1>3. /\ held'[s] = IF Newer(s, v) THEN v ELSE held[s]
      /\ since'[s] = since[s] \union {v}
      /\ \A t \in Server \ {s} : held'[t] = held[t] /\ since'[t] = since[t]
  BY <1>1 DEF HInv, Tables
<1>4. /\ held'[s] \in Nat /\ since'[s] \subseteq Nat
      /\ held'[s] \in since'[s] /\ \A u \in since'[s] : u <= held'[s]
  <2>1. CASE since[s] = {}
    BY <1>3, <2>1 DEF HInv, HoldsNewest, Newer
  <2>2. CASE since[s] # {}
    BY <1>3, <2>2 DEF HInv, HoldsNewest, Newer
  <2> QED BY <2>1, <2>2
<1>5. HoldsNewest'
  BY <1>3, <1>4 DEF HInv, HoldsNewest
<1> QED BY <1>2, <1>5 DEF HInv

\* A call of a plan is one of the sequence's values.
LEMMA CallOfPlan ==
    ASSUME NEW R, NEW cs \in Seq(R), NEW c \in 1..Len(cs)
    PROVE  cs[c] \in R
OBVIOUS

\* What happens to the device at one server leaves it holding the newest.
LEMMA StepHInv ==
    ASSUME RInv, HInv, [Next]_vars
    PROVE  HInv'
<1>1. CASE UNCHANGED servers
  BY <1>1 DEF servers, HInv, Tables, HoldsNewest
<1>2. \A s \in plan.urls : s \in Server
  BY PlanAssumption DEF RInv, ClientTyped
<1>3. ASSUME NEW s \in plan.urls, NEW q \in Request, Take(s, q) PROVE HInv'
  <2>1. CASE kind[q] = "remove"
    <3>1. /\ held' = [held EXCEPT ![s] = 0] /\ since' = [since EXCEPT ![s] = {}] /\ disk' = disk
      BY <1>3, <2>1 DEF Take, TakeRemoval
    <3> QED BY <1>2, <3>1 DEF HInv, Tables, HoldsNewest
  <2>2. CASE kind[q] # "remove"
    <3>1. stage[s][q] # "idle"
      BY <1>2, <1>3, ProgressMoves DEF Take, Moves
    <3>2. q[1] \in 1..Len(plan.calls)
      <4>1. q[1] <= call /\ q[1] \in Nat /\ q[1] >= 1 /\ call \in 0..Len(plan.calls)
        BY <1>2, <3>1, RequestNumbers DEF RInv, Unsent, ClientTyped
      <4>2. plan.calls \in Seq([kind : {"report", "refusable", "remove"}, ver : Nat])
        BY PlanAssumption DEF RInv, ClientTyped
      <4>3. Len(plan.calls) \in Nat
        BY <4>2
      <4> QED BY <4>1, <4>3
    <3>3. plan.calls[q[1]].ver \in Nat
      <4>1. plan.calls \in Seq([kind : {"report", "refusable", "remove"}, ver : Nat])
        BY PlanAssumption DEF RInv, ClientTyped
      <4>2. plan.calls[q[1]] \in [kind : {"report", "refusable", "remove"}, ver : Nat]
        BY <3>2, <4>1, CallOfPlan, Zenon
      <4> QED BY <4>2
    <3>4. TakeReport(s, plan.calls[q[1]].ver) /\ disk' = disk
      BY <1>3, <2>2 DEF Take
    <3> QED BY <1>2, <3>3, <3>4, ReportHInv
  <2> QED BY <2>1, <2>2
<1>4. ASSUME NEW s \in plan.urls, Save(s) PROVE HInv'
  BY <1>2, <1>4 DEF Save, HInv, Tables, HoldsNewest
<1>5. ASSUME NEW s \in plan.urls, Restart(s) PROVE HInv'
  <2>1. /\ held' = [held EXCEPT ![s] = disk[s]]
        /\ since' = [since EXCEPT ![s] = {disk[s]} \ {0}]
        /\ disk' = disk
    BY <1>5 DEF Restart
  <2>2. Tables'
    BY <2>1 DEF HInv, Tables
  <2>3. /\ held'[s] = disk[s] /\ since'[s] = {disk[s]} \ {0} /\ disk[s] \in Nat
        /\ \A t \in Server \ {s} : held'[t] = held[t] /\ since'[t] = since[t]
    BY <1>2, <2>1 DEF HInv, Tables, HoldsNewest
  <2>4. /\ since'[s] = {} => held'[s] = 0
        /\ since'[s] # {} => held'[s] \in since'[s]
        /\ \A v \in since'[s] : v <= held'[s]
    BY <2>3
  <2>5. HoldsNewest'
    BY <2>1, <2>3, <2>4 DEF HInv, HoldsNewest
  <2> QED BY <2>2, <2>5 DEF HInv
<1>6. ASSUME NEW s \in plan.urls, NEW q \in Request,
             Serve(s, q) \/ RunOutOfPatience(s, q) \/ HangUp(s, q)
      PROVE  UNCHANGED servers
  BY <1>6 DEF Serve, RunOutOfPatience, HangUp
<1>7. CASE Client
  BY <1>1, <1>7 DEF Client, Begin, Settle, HearAnswer, TimeOut, TryAgain
<1>8. CASE UNCHANGED vars
  BY <1>1, <1>8 DEF vars
<1> QED BY <1>1, <1>3, <1>4, <1>5, <1>6, <1>7, <1>8 DEF Next, Work

\* The newest of a set of versions is what a server that holds the newest holds.
LEMMA NewestIsMax == HInv => SelfHeals
<1> SUFFICES ASSUME HInv, NEW s \in Server
             PROVE  held[s] = IF since[s] = {} THEN 0 ELSE Max(since[s])
  BY DEF SelfHeals
<1>1. CASE since[s] = {}
  BY <1>1 DEF HInv, HoldsNewest
<1>2. CASE since[s] # {}
  <2>1. /\ since[s] \subseteq Nat /\ held[s] \in since[s]
        /\ \A v \in since[s] : held[s] >= v
    BY <1>2 DEF HInv, HoldsNewest
  <2>2. \A m \in since[s] : (\A v \in since[s] : m >= v) => m = held[s]
    BY <2>1
  <2>3. Max(since[s]) = held[s]
    BY <2>1, <2>2 DEF Max
  <2> QED BY <1>2, <2>3
<1> QED BY <1>1, <1>2

\* Each server holds the newest version it took since it last lost the device,
\* in whatever order, however late and however often reports arrive.
THEOREM ReplicasHeal == Spec => []SelfHeals
<1>1. RInv /\ HInv /\ [Next]_vars => HInv'
  BY StepHInv
<1> QED BY InitHInv, SpecRInv, <1>1, NewestIsMax, PTL DEF Spec
=============================================================================
