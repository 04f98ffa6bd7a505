------------------------------ MODULE Reporter ------------------------------
(***************************************************************************)
(* The batching Reporter of clients/node/index.js: reports coalesce by     *)
(* device until a flush sends them, a failed flush puts its batch back,    *)
(* and close sends what is left.                                           *)
(*                                                                         *)
(* An action is what runs between two awaits.  When the promise of a send  *)
(* settles, the flushes that await it resume one after the other, in the   *)
(* order they began to wait, before any other task runs: they are "ready", *)
(* and the timer, the application and the network come in only when no     *)
(* flush is (the application calls from tasks of its own).                 *)
(*                                                                         *)
(* A request may reach the server in full, in part (its chunks), late,     *)
(* more than once or never, whatever the client learns.  The server keeps  *)
(* the newest version of a device and the props last given to it; its      *)
(* rule is the one of Collection.  A position is named by its version and  *)
(* props by the version of the report that gave them; dims, cat are        *)
(* carried and lost as props are.                                          *)
(***************************************************************************)
EXTENDS Naturals, Sequences, FiniteSets

CONSTANTS
    Id,          \* devices
    Reports,     \* what the application may report, each once
    Bad,         \* props the server refuses, by version
    MaxWaiters,  \* bound on the flushes that wait
    NONE         \* no report, no props, no send

\* A report as it is queued and sent.
Update == [id : Id, ver : Nat, props : Nat \union {NONE}]

ASSUME ReportAssumption ==
    /\ Reports \subseteq Update
    /\ \A r \in Reports : r.ver > 0 /\ r.props \in {r.ver, NONE}
\* A version names one update of a device (README, Ordering and retries).
ASSUME VersionAssumption ==
    \A r, s \in Reports : r.id = s.id /\ r.ver = s.ver => r = s
ASSUME WaitAssumption == MaxWaiters \in Nat
ASSUME BadAssumption == Bad \subseteq Nat
ASSUME NoneAssumption == NONE \notin Nat /\ NONE \notin Update

VARIABLES
    pending,  \* the report queued for each device
    flying,   \* flying[n]: the send number n, while its outcome is not known
    inflight, \* _inflight: the number of the send it holds
    waiters,  \* flushes that await a send, as [on, by]
    ready,    \* flushes that are about to resume
    closing,  \* how far close has got
    partial, onError,  \* options: is partial set, is there an onError
    srv,      \* what the server holds of each device
    wire,     \* batches that were sent and may still arrive, again or late
    past      \* history: what was reported, what a server told at once holds, whether
              \* a send ever failed, and whose props came late, after a newer report

client  == <<pending, flying, inflight, waiters, ready, closing>>
options == <<partial, onError>>
vars    == <<client, options, srv, wire, past>>

Send     == 1..2   \* no more than one is ever under way (SendsChain)
Nothing  == [d \in Id |-> NONE]
NoSend   == [batch |-> {}, by |-> NONE]
Unknown  == [ver |-> 0, props |-> NONE]

\* The server takes a newer report; one without props leaves those it has.
Applied(state, r) ==
    IF r.ver <= state.ver THEN state
    ELSE [ver |-> r.ver, props |-> IF r.props = NONE THEN state.props ELSE r.props]

Refused(r) == r.props \in Bad

\* The server after the reports of S, at most one for each device.
Received(S) ==
    [d \in Id |-> IF \E r \in S : r.id = d
                  THEN Applied(srv[d], CHOOSE r \in S : r.id = d) ELSE srv[d]]

Init ==
    /\ pending = Nothing
    /\ flying = [n \in Send |-> NoSend]
    /\ inflight = NONE
    /\ waiters = <<>>
    /\ ready = <<>>
    /\ closing = "open"
    /\ partial \in BOOLEAN
    /\ onError \in BOOLEAN
    /\ srv = [d \in Id |-> Unknown]
    /\ wire = {}
    /\ past = [asked |-> {}, direct |-> [d \in Id |-> Unknown], failed |-> FALSE,
               late |-> {}]

-----------------------------------------------------------------------------

\* Mutant: the newest report is kept as it came.
CoalescedPlain(prev, r) == r

\* report over the report prev that is queued: the newer one stays, and takes
\* over the props it does not name.
Coalesced(prev, r) ==
    IF prev = NONE THEN r
    ELSE IF r.ver <= prev.ver THEN prev
    ELSE [r EXCEPT !.props = IF @ = NONE THEN prev.props ELSE @]

Report(r) ==
    /\ ready = <<>> /\ closing = "open"
    /\ r \notin past.asked
    /\ pending' = [pending EXCEPT ![r.id] = Coalesced(@, r)]
    /\ past' = [past EXCEPT !.asked = @ \union {r},
                            !.direct = [past.direct EXCEPT ![r.id] =
                                          IF Refused(r) THEN @ ELSE Applied(@, r)],
                            !.late = IF r.props # NONE /\ \E s \in past.asked : s.id = r.id /\ s.ver > r.ver
                                     THEN @ \union {r.id} ELSE @]
    /\ UNCHANGED <<flying, inflight, waiters, ready, closing, options, srv, wire>>

\* Send n is under way.
Busy(n) == flying[n].batch # {}

\* flush past its await: nothing is queued and it is done, or all of it goes out
\* and the caller has the outcome of the send for its own.
Take(by) ==
    IF pending = Nothing
    THEN /\ closing' = IF by = "close" THEN "resolved" ELSE closing
         /\ UNCHANGED <<pending, flying, inflight, wire>>
    ELSE LET batch == {pending[d] : d \in Id} \ {NONE}
         IN  \E n \in Send :
                /\ ~ Busy(n)
                /\ \A m \in 1..(n - 1) : Busy(m)
                /\ flying' = [flying EXCEPT ![n] = [batch |-> batch, by |-> by]]
                /\ inflight' = n
                /\ pending' = Nothing
                /\ wire' = wire \union {batch}
                /\ closing' = IF by = "close" THEN "closing" ELSE closing

\* Mutant: a flush does not await the send in flight.
FlushAtOnce(by) == Take(by) /\ UNCHANGED waiters

\* flush, called: await the send in flight, or go on.
Flush(by) ==
    IF inflight = NONE THEN Take(by) /\ UNCHANGED waiters
    ELSE /\ waiters' = Append(waiters, [on |-> inflight, by |-> by])
         /\ closing' = IF by = "close" THEN "closing" ELSE closing
         /\ UNCHANGED <<pending, flying, inflight, wire>>

\* The timer, or the application.
Tick ==
    /\ ready = <<>> /\ closing = "open"
    /\ Len(waiters) < MaxWaiters
    /\ Flush("timer")
    /\ UNCHANGED <<ready, options, srv, past>>

\* close: no more reports, no more ticks, one last flush.
Close ==
    /\ ready = <<>> /\ closing = "open"
    /\ Flush("close")
    /\ UNCHANGED <<ready, options, srv, past>>

Resume ==
    /\ ready # <<>>
    /\ Take(Head(ready).by)
    /\ ready' = Tail(ready)
    /\ UNCHANGED <<waiters, options, srv, past>>

-----------------------------------------------------------------------------
(* Outcomes *)

\* The part of a batch that reaches the server: a refused report takes its whole
\* chunk with it unless the batch is partial.  A chunk is one report here.
Arrives(S) == srv' = Received({r \in S : ~ Refused(r)})

\* Send n is settled: the flushes that awaited it are next, or fail as it did.
Settled(n, error) ==
    LET mine(w) == w.on = n
        others(w) == w.on # n
        close == flying[n].by = "close" \/ (error /\ \E i \in DOMAIN waiters :
                    waiters[i].on = n /\ waiters[i].by = "close")
    IN  /\ flying' = [flying EXCEPT ![n] = NoSend]
        /\ inflight' = NONE
        /\ waiters' = SelectSeq(waiters, others)
        /\ ready' = IF error THEN <<>> ELSE SelectSeq(waiters, mine)
        /\ closing' = IF ~ close THEN closing ELSE IF error THEN "rejected" ELSE "resolved"

\* Mutant: what the server refused is queued again.
KeptBack(batch) == {r \in batch : Refused(r)}

\* Reports of a batch that succeeded that go back in the queue: none; what the
\* server refused it would refuse again.
Kept(batch) == {}

\* Mutant: a failed batch goes back in the queue over newer reports.
RequeuedOver(batch) ==
    [d \in Id |-> IF \E r \in batch : r.id = d THEN CHOOSE r \in batch : r.id = d ELSE pending[d]]

\* The queue after the reports of a batch went back: unless a newer one is there.
Requeued(batch) ==
    [d \in Id |->
       LET back == {r \in batch : r.id = d /\ (pending[d] = NONE \/ pending[d].ver < r.ver)}
       IN  IF back = {} THEN pending[d] ELSE CHOOSE r \in back : TRUE]

\* Every report acknowledged as accepted, stale or, if partial, rejected.
Succeed(n) ==
    /\ ready = <<>> /\ Busy(n)
    /\ partial \/ \A r \in flying[n].batch : ~ Refused(r)
    /\ Arrives(flying[n].batch)
    /\ pending' = Requeued(Kept(flying[n].batch))
    /\ Settled(n, FALSE)
    /\ UNCHANGED <<options, wire, past>>

\* An error, after which nothing is known of what arrived.  With an onError it is
\* handed over and the flush resolves; without, every flush that waits rejects.
Fail(n) ==
    /\ ready = <<>> /\ Busy(n)
    /\ pending' = Requeued(flying[n].batch)
    /\ past' = [past EXCEPT !.failed = TRUE]
    /\ Settled(n, ~ onError)
    /\ UNCHANGED <<options, srv, wire>>

\* Some chunks of a request arrive, in flight, late or again.
Deliver(batch) ==
    /\ \E S \in SUBSET batch : Arrives(S)
    /\ srv' # srv
    /\ UNCHANGED <<client, options, wire, past>>

Next ==
    \/ \E r \in Reports : Report(r)
    \/ Tick
    \/ Close
    \/ Resume
    \/ \E n \in Send : Succeed(n) \/ Fail(n)
    \/ \E batch \in wire : Deliver(batch)

Spec == Init /\ [][Next]_vars

\* The timer keeps ticking, flushes that may resume do, every request has an
\* outcome (it times out), and a send that is tried again and again gets through.
FairSpec ==
    /\ Spec
    /\ WF_vars(Tick) /\ WF_vars(Resume)
    /\ \A n \in Send : WF_vars(Succeed(n) \/ Fail(n)) /\ SF_vars(Succeed(n))

-----------------------------------------------------------------------------
(* Properties *)

Asked(d) == {r \in past.asked : r.id = d}
Flown    == {flying[n] : n \in Send} \ {NoSend}

\* "Overlapping calls chain": whatever the timer, the application and failures do,
\* one send is under way at a time and _inflight holds it, so that batches do not
\* overtake each other and close knows what to wait for.
SendsChain ==
    \A n \in Send : Busy(n) <=> inflight = n

\* Report r of d has given way to a newer one, or to one that carries props the
\* server refuses, or it is at the server, in the queue or under way.
Accounted(d, r) ==
    \/ \E s \in Asked(d) : s.ver > r.ver \/ Refused(s)
    \/ srv[d].ver = r.ver
    \/ pending[d] # NONE /\ pending[d].ver = r.ver
    \/ \E n \in Send : \E s \in flying[n].batch : s.id = d /\ s.ver = r.ver

\* A position is not dropped silently, through coalescing, failures and answers
\* that were lost.  (Not claimed of a device given props the server refuses, which
\* go on to the position that is coalesced with them.)
NewestKept == \A d \in Id : \A r \in Asked(d) : Accounted(d, r)

\* What the server ends up with when nothing is queued or under way is what it
\* would hold had every report been sent to it at once.  (Not claimed of a device whose
\* props came late: the server would refuse them as stale, but the newer position that
\* is coalesced with them takes them along.)
Settles ==
    pending = Nothing /\ Flown = {} =>
       \A d \in Id \ past.late : (\E r \in Asked(d) : Refused(r)) \/ srv[d] = past.direct[d]

\* So it is as long as no send fails.
SettlesUnfailed == ~ past.failed => Settles

\* The queue drains again and again, unless it holds a report that fails every
\* batch: with partial a report that is refused is not sent for ever.
Drains ==
    []<>(\/ pending = Nothing /\ Flown = {}
         \/ closing # "open"
         \/ ~ partial /\ \E r \in past.asked : Refused(r))

=============================================================================
