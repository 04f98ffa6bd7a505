------------------------------ MODULE Replicas ------------------------------
(***************************************************************************)
(* The write path of clients/node/index.js over servers that admit, apply  *)
(* and answer as in Admission: every write goes to every replica, each leg *)
(* is retried on its own, and the call resolves when at least one replica  *)
(* took it.                                                                *)
(*                                                                         *)
(* The application makes the calls of a plan one after the other, as       *)
(* report sends its chunks.  A leg that loses patience hangs up and tries  *)
(* again; its request may still arrive, and its job may still run, beside  *)
(* the retry and beside the requests of later calls.  A server may go down *)
(* and come back with its last snapshot; replicas do not speak to each     *)
(* other.                                                                  *)
(*                                                                         *)
(* There is one device, known by its source version.  What a server does   *)
(* to it is the rule of Collection.                                        *)
(***************************************************************************)
EXTENDS Admission, Sequences, Functions

CONSTANTS
    Plans,    \* what may happen: the client's urls, the calls the application
              \* makes in order, and bounds on the crashes and snapshots
    Retries   \* options.retries

Tries == 0..Retries

Call  == UNION {DOMAIN p.calls : p \in Plans}

\* A call reports the device at a version or deletes it; a request is one try of
\* a call, which is known by its number.
ASSUME PlanAssumption ==
    \A p \in Plans :
       /\ p.urls \in (SUBSET Server) \ {{}}
       /\ p.calls \in Seq([kind : {"report", "refusable", "remove"}, ver : Nat])
       /\ p.crashes \in Nat /\ p.saves \in Nat
ASSUME RequestAssumption == Retries \in Nat /\ Request = Call \X Tries

VARIABLES
    plan,     \* one of Plans
    call,     \* number of the call under way
    leg,      \* its leg to each server: the try, and how it stands
    missed,   \* missed[c]: replicas that call c reported to onReplicaError
    outcome,  \* outcome[c]: "none", "resolved" or "thrown"
    held,     \* version of the device each server holds, 0 for none
    disk,     \* that of its last snapshot
    since,    \* history: versions a server took since it last lost the device
    crashes, saves

client  == <<plan, call, leg, missed, outcome>>
servers == <<held, disk, since, crashes, saves>>
vars    == <<kind, stage, client, servers>>

UnderWay == call > 0 /\ outcome[call] = "none"
Newer(s, v) == held[s] = 0 \/ v > held[s]

FirstTry == [s \in plan.urls |-> [try |-> 0, is |-> "waiting"]]

Init ==
    /\ InitStages
    /\ plan \in Plans
    /\ kind = [q \in Request |-> IF q[1] \in DOMAIN plan.calls THEN plan.calls[q[1]].kind ELSE "report"]
    /\ call = 0
    /\ leg = <<>>
    /\ missed = [c \in Call |-> {}]
    /\ outcome = [c \in Call |-> "none"]
    /\ held = [s \in Server |-> 0]
    /\ disk = [s \in Server |-> 0]
    /\ since = [s \in Server |-> {}]
    /\ crashes = 0
    /\ saves = 0

-----------------------------------------------------------------------------
(* The client *)

\* _write: the next call starts on every replica at once.
Begin ==
    /\ ~ UnderWay /\ call < Len(plan.calls)
    /\ call' = call + 1
    /\ leg' = FirstTry
    /\ stage' = [s \in Server |-> IF s \in plan.urls
                               THEN [stage[s] EXCEPT ![<<call + 1, 0>>] = "sent"]
                               ELSE stage[s]]
    /\ UNCHANGED <<kind, plan, missed, outcome, servers>>

Current(s) == <<call, leg[s].try>>

\* The leg after a try that may be repeated.
Failed(s) ==
    leg' = [leg EXCEPT ![s].is = IF leg[s].try < Retries THEN "pausing" ELSE "rejected"]

\* _req: a 2xx fulfills the leg, a 4xx rejects it for good, a 503 and a broken
\* connection are worth another try.
HearAnswer(s) ==
    /\ UnderWay /\ leg[s].is = "waiting"
    /\ \/ stage[s][Current(s)] = "ok" /\ leg' = [leg EXCEPT ![s].is = "fulfilled"]
       \/ stage[s][Current(s)] \in {"refused", "refused_late"} /\ leg' = [leg EXCEPT ![s].is = "rejected"]
       \/ stage[s][Current(s)] \in {"busy"} \union Ended /\ Failed(s)
    /\ UNCHANGED <<kind, stage, plan, call, missed, outcome, servers>>

\* AbortSignal.timeout, or an answer that is lost.
TimeOut(s) ==
    /\ UnderWay /\ leg[s].is = "waiting"
    /\ Failed(s)
    /\ UNCHANGED <<kind, stage, plan, call, missed, outcome, servers>>

\* After the pause, the same bytes again.
TryAgain(s) ==
    /\ UnderWay /\ leg[s].is = "pausing"
    /\ leg' = [leg EXCEPT ![s] = [try |-> @.try + 1, is |-> "waiting"]]
    /\ stage' = [stage EXCEPT ![s][<<call, leg[s].try + 1>>] = "sent"]
    /\ UNCHANGED <<kind, plan, call, missed, outcome, servers>>

Took == {s \in plan.urls : leg[s].is = "fulfilled"}

\* Mutant: the first leg to be fulfilled settles the call.
SettleAtFirst ==
    /\ UnderWay
    /\ Took # {} \/ \A s \in plan.urls : leg[s].is = "rejected"
    /\ outcome' = [outcome EXCEPT ![call] = IF Took = {} THEN "thrown" ELSE "resolved"]
    /\ missed' = [missed EXCEPT ![call] = {s \in plan.urls : Took # {} /\ leg[s].is = "rejected"}]
    /\ UNCHANGED <<kind, stage, plan, call, leg, servers>>

\* allSettled: the replicas that failed are reported unless all of them did.
Settle ==
    /\ UnderWay
    /\ \A s \in plan.urls : leg[s].is \in {"fulfilled", "rejected"}
    /\ outcome' = [outcome EXCEPT ![call] = IF Took = {} THEN "thrown" ELSE "resolved"]
    /\ missed' = [missed EXCEPT ![call] = IF Took = {} THEN {} ELSE plan.urls \ Took]
    /\ UNCHANGED <<kind, stage, plan, call, leg, servers>>

Client == Begin \/ Settle \/ \E s \in plan.urls : HearAnswer(s) \/ TimeOut(s) \/ TryAgain(s)

-----------------------------------------------------------------------------
(* The servers *)

\* A request nobody waits for: the leg has gone on, or settled.
Abandoned(s, q) == ~ (UnderWay /\ leg[s].is = "waiting" /\ q = Current(s))

\* Mutant: arrival order decides.
TakeArrival(s, v) ==
    /\ held' = [held EXCEPT ![s] = v]
    /\ since' = [since EXCEPT ![s] = @ \union {v}]

\* upsert: an older or equal version is stale, and acknowledged all the same.
TakeReport(s, v) ==
    /\ held' = [held EXCEPT ![s] = IF Newer(s, v) THEN v ELSE @]
    /\ since' = [since EXCEPT ![s] = @ \union {v}]

\* remove: the device and its ordering history are gone.
TakeRemoval(s) ==
    /\ held' = [held EXCEPT ![s] = 0]
    /\ since' = [since EXCEPT ![s] = {}]

\* The batch is applied, or its report alone before its patches are refused.
Take(s, q) ==
    /\ FinishJob(s, q) \/ RefusePatches(s, q)
    /\ IF kind[q] = "remove" THEN TakeRemoval(s) ELSE TakeReport(s, plan.calls[q[1]].ver)
    /\ UNCHANGED <<kind, client, disk, crashes, saves>>

Serve(s, q) == Progress(s, q) /\ UNCHANGED <<kind, client, servers>>

RunOutOfPatience(s, q) == GiveUp(s, q) /\ UNCHANGED <<kind, client, servers>>

HangUp(s, q) == Abandoned(s, q) /\ Drop(s, q) /\ UNCHANGED <<kind, client, servers>>

\* A snapshot of what the server holds.
Save(s) ==
    /\ saves < plan.saves /\ disk[s] # held[s]
    /\ saves' = saves + 1
    /\ disk' = [disk EXCEPT ![s] = held[s]]
    /\ UNCHANGED <<kind, stage, client, held, since, crashes>>

\* The process ends, with every job in it, and restores its snapshot.
Restart(s) ==
    /\ crashes < plan.crashes
    /\ crashes' = crashes + 1
    /\ Crash(s)
    /\ held' = [held EXCEPT ![s] = disk[s]]
    /\ since' = [since EXCEPT ![s] = {disk[s]} \ {0}]
    /\ UNCHANGED <<kind, client, disk, saves>>

Work(s) == \E q \in Request : Serve(s, q) \/ Take(s, q)

Next ==
    \/ Client
    \/ \E s \in plan.urls :
          \/ Work(s)
          \/ \E q \in Request : RunOutOfPatience(s, q) \/ HangUp(s, q)
          \/ Save(s)
          \/ Restart(s)

Spec == Init /\ [][Next]_vars

\* Timers fire and promises settle; a server that can go on does.  Nothing makes
\* a wait run out of patience, a caller hang up, or an answer get through.
FairSpec ==
    /\ Spec
    /\ WF_vars(Client)
    /\ \A s \in Server : WF_vars(Work(s))

-----------------------------------------------------------------------------
(* Properties *)

\* A call that resolved was applied by every replica that is not reported to
\* onReplicaError, and by one at least: a replica never misses a write that was
\* acknowledged without somebody being told.
NoSilentMiss ==
    \A c \in Call :
       outcome[c] = "resolved" =>
          /\ missed[c] # plan.urls
          /\ \A s \in plan.urls \ missed[c] : \E n \in Tries : IsApplied(s, <<c, n>>)

\* "A replica that misses one report is self-healing": once it took the newest
\* report it holds it, whatever it missed, lost in a crash, or got late or twice,
\* and so agrees with every other replica that took it.
SelfHeals ==
    \A s \in Server : held[s] = IF since[s] = {} THEN 0 ELSE Max(since[s])

\* Every call settles, whether its replicas answer or not, and every server comes
\* to rest without a single wait running out: permits, gate and workers are never
\* waited for in a circle.
WritesEnd ==
    /\ []<> ~ UnderWay
    /\ \A s \in Server : []<>(At(s, Handled \union Alone) = {})

=============================================================================
