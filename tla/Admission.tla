----------------------------- MODULE Admission -----------------------------
(***************************************************************************)
(* The life of a request that writes, inside a server                      *)
(* (crates/netcluster-server/src/routes.rs): admission, the worker that    *)
(* parses the body, the write gate, the worker that applies the batch, and *)
(* the answer.                                                             *)
(*                                                                         *)
(* A handler is a future: when the caller hangs up it is dropped with all  *)
(* it holds, but for the job it gave to the blocking pool, which runs on   *)
(* "alone" and takes its worker permit, and the gate, with it.             *)
(*                                                                         *)
(* A wait for a permit or for the gate gives up after a second; it does so *)
(* only while there is none to be had.  Jobs are single steps here; what a *)
(* batch does under the gate is the matter of Collection.                  *)
(***************************************************************************)
EXTENDS Naturals, FiniteSets, FiniteSetsExt

CONSTANTS
    Server,       \* server processes
    Request,      \* requests, one for each time something is sent
    MaxInflight,  \* NETCLUSTER_MAX_INFLIGHT of each server
    MaxBlocking   \* NETCLUSTER_MAX_BLOCKING of each server

ASSUME PermitAssumption ==
    /\ MaxInflight \in [Server -> Nat \ {0}]
    /\ MaxBlocking \in [Server -> Nat \ {0}]

VARIABLES
    kind,   \* kind[q]: "report", "refusable" (one the handler may answer with a
            \* 4xx) or "remove"; it never changes
    stage   \* stage[s][q]: how far request q has got at server s

\* A DELETE has no body.
Bodied == {q \in Request : kind[q] # "remove"}

\* "sent" is on its way; a wait of the handler is named for what it waits for.
Handled   == {"worker_to_parse", "parsing", "gate", "worker_to_apply", "applying", "applied"}
Alone     == {"parsing_alone", "applying_alone"}
Answered  == {"ok", "refused", "refused_late", "busy"}
Ended     == {"cut", "cut_late", "spent"}  \* without an answer: nothing applied, the
                                           \* reports only, or all of it
Stage     == {"idle", "sent"} \union Handled \union Alone \union Answered \union Ended

At(s, S) == {q \in Request : stage[s][q] \in S}

\* The permit of the admission layer is held by the handler alone.
Admitted(s) == Cardinality(At(s, Handled)) < MaxInflight[s]

\* Mutant: the worker permit belongs to the handler and is given back with it.
WorkingAttended == {"parsing", "applying"}

\* Mutant: the permit taken to parse is kept until the gate is had.
WorkingGreedy == {"parsing", "parsing_alone", "applying", "applying_alone", "gate"}

\* run_blocking: "the permit lives INSIDE the job".
Working == {"parsing", "parsing_alone", "applying", "applying_alone"}
WorkerFree(s) == Cardinality(At(s, Working)) < MaxBlocking[s]

\* Mutant: the guard belongs to the handler, which may be dropped.
GatedAttended == {"worker_to_apply", "applying"}

\* acquire_write: the guard is moved into the job.
Gated == {"worker_to_apply", "applying", "applying_alone"}
GateFree(s) == At(s, Gated) = {}

Goes(s, q, from, to) ==
    /\ stage[s][q] = from
    /\ stage' = [stage EXCEPT ![s][q] = to]

InitStages == stage = [s \in Server |-> [q \in Request |-> "idle"]]

-----------------------------------------------------------------------------
(* The handler *)

\* The admission layer: a permit at once or not at all, before any of the body
\* is read.
Admit(s, q) ==
    /\ Admitted(s)
    /\ Goes(s, q, "sent", IF q \in Bodied THEN "worker_to_parse" ELSE "gate")
RejectFull(s, q) == ~ Admitted(s) /\ Goes(s, q, "sent", "busy")

\* JsonBody parses on a worker.
StartParse(s, q) == WorkerFree(s) /\ Goes(s, q, "worker_to_parse", "parsing")
Parsed(s, q) ==
    \/ Goes(s, q, "parsing", "gate")
    \/ kind[q] = "refusable" /\ Goes(s, q, "parsing", "refused")
    \/ Goes(s, q, "parsing_alone", "cut")

\* positions and delete_device: the gate, then a worker.
TakeGate(s, q) == GateFree(s) /\ Goes(s, q, "gate", "worker_to_apply")
StartJob(s, q) == WorkerFree(s) /\ Goes(s, q, "worker_to_apply", "applying")

\* The batch is refused before any of it is applied.
RefuseBatch(s, q) ==
    /\ kind[q] = "refusable"
    /\ \/ Goes(s, q, "applying", "refused")
       \/ Goes(s, q, "applying_alone", "cut")
\* upsert took the reports, then patch refuses the patches: its own check of the
\* props fails when the limits were lowered in between.
RefusePatches(s, q) ==
    /\ kind[q] = "refusable"
    /\ \/ Goes(s, q, "applying", "refused_late")
       \/ Goes(s, q, "applying_alone", "cut_late")

\* All of the batch is applied.
FinishJob(s, q) ==
    \/ Goes(s, q, "applying", "applied")
    \/ Goes(s, q, "applying_alone", "spent")

Answer(s, q) == Goes(s, q, "applied", "ok")

\* Mutant: the second that may pass counts the job, and the answer does not wait
\* for it.
GiveUpOnJob(s, q) ==
    \/ ~ WorkerFree(s) /\ Goes(s, q, "worker_to_parse", "busy")
    \/ ~ GateFree(s) /\ Goes(s, q, "gate", "busy")
    \/ ~ WorkerFree(s) /\ Goes(s, q, "worker_to_apply", "busy")
    \/ Goes(s, q, "applied", "busy")

\* A second has passed and what the handler waits for is still not to be had.
GiveUp(s, q) ==
    \/ ~ WorkerFree(s) /\ Goes(s, q, "worker_to_parse", "busy")
    \/ ~ GateFree(s) /\ Goes(s, q, "gate", "busy")
    \/ ~ WorkerFree(s) /\ Goes(s, q, "worker_to_apply", "busy")

-----------------------------------------------------------------------------
(* The connection *)

\* The stage of a request whose handler is dropped.
Dropped(st) ==
    CASE st = "parsing"  -> "parsing_alone"
      [] st = "applying" -> "applying_alone"
      [] st = "applied"  -> "spent"
      [] OTHER           -> "cut"

\* The server learns that the caller of q hung up.
Drop(s, q) ==
    /\ stage[s][q] \in Handled \union {"sent"}
    /\ stage' = [stage EXCEPT ![s][q] = Dropped(@)]

\* The stage of a request whose server goes down.
Killed(st) ==
    IF st \in Handled \union Alone \union {"sent"}
    THEN IF st = "applied" THEN "spent" ELSE "cut"
    ELSE st

Crash(s) == stage' = [stage EXCEPT ![s] = [q \in Request |-> Killed(@[q])]]

\* What a server does by itself, short of running out of patience.
Progress(s, q) ==
    \/ Admit(s, q) \/ RejectFull(s, q)
    \/ StartParse(s, q) \/ Parsed(s, q)
    \/ TakeGate(s, q) \/ StartJob(s, q)
    \/ RefuseBatch(s, q) \/ Answer(s, q)

-----------------------------------------------------------------------------
(* What the server promises, as an Exchange *)

IsApplied(s, q) == stage[s][q] \in {"applied", "ok", "spent"}
AppliedTo(s, q) ==
    CASE IsApplied(s, q) -> "whole"
      [] stage[s][q] \in {"refused_late", "cut_late"} -> "part"
      [] OTHER -> "none"
AnswerGiven(s, q) ==
    CASE stage[s][q] = "ok" -> "yes"
      [] stage[s][q] = "busy" -> "busy"
      [] stage[s][q] \in {"refused", "refused_late"} -> "refused"
      [] OTHER -> "none"

X(s, q) == INSTANCE Exchange WITH applied <- AppliedTo(s, q), answer <- AnswerGiven(s, q)

\* Whatever overload, hang-ups and crashes do to it, every request keeps the
\* promise of Exchange: a batch answered "overloaded" was not applied, not even in
\* part, never will be, and can be sent again; an acknowledged batch was applied,
\* whole and once; of a refused one the reports may have been, never all.
ImplementsExchange ==
    /\ \A s \in Server, q \in Request : X(s, q)!Init
    /\ [][\A s \in Server, q \in Request : [X(s, q)!Next]_(X(s, q)!vars)]_stage

\* "The next writer must still wait until this mutation has actually finished":
\* no two batches are applied at a time, although callers hang up.
OneWriter == \A s \in Server : Cardinality(At(s, {"applying", "applying_alone"})) <= 1

\* Excess requests do not grow "an unbounded queue of parsed report bodies":
\* what has a body in memory is held by a handler or by a running job.
BodiesBounded ==
    \A s \in Server :
       Cardinality(At(s, Handled \union Alone) \intersect Bodied)
          <= MaxInflight[s] + MaxBlocking[s]

=============================================================================
