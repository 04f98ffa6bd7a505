--------------------------- MODULE ReporterProofs ---------------------------
(***************************************************************************)
(* Sends of the Reporter do not overlap, no newest position is lost, and   *)
(* the server ends up with what it would hold had it been told at once:    *)
(* proved for every set of devices and reports and any number of flushes   *)
(* that wait.                                                              *)
(*                                                                         *)
(* SendsChain alone is not inductive.  Several flushes resume from one     *)
(* send, and the first of them may begin another; that the rest do not is  *)
(* because the first took everything and nothing can be queued before all  *)
(* of them have run, which TakenAtOnce says.                               *)
(*                                                                         *)
(* NewestKept needs to know that whatever is queued, sent or held by the   *)
(* server was reported: a position that gives way gives way to a newer one *)
(* of the same device (AllReported).                                       *)
(*                                                                         *)
(* SettlesUnfailed follows from what the server has, the report under way  *)
(* and the one queued of a device: applied in this order they come to what *)
(* the server would have had at once (Told).  That coalescing keeps this   *)
(* so needs that queued props are ahead of all that was sent (Ahead), and  *)
(* that late arrivals do, that the server has caught up with them          *)
(* (Caught).                                                               *)
(***************************************************************************)
EXTENDS Reporter, TLAPS

\* The fields of the client that are tables.
Tables ==
    /\ pending = [d \in Id |-> pending[d]]
    /\ flying = [n \in Send |-> flying[n]]
    /\ inflight \in Send \union {NONE}

TakenAtOnce == ready # <<>> /\ inflight # NONE => pending = Nothing

IInv == Tables /\ SendsChain /\ TakenAtOnce

USE DEF Send

\* Nothing is under way when the Reporter is made.
LEMMA InitIInv == Init => IInv
<1> SUFFICES ASSUME Init PROVE IInv
  OBVIOUS
<1>1. Tables
  BY DEF Init, Tables, Nothing
<1>2. SendsChain
  BY NoneAssumption DEF Init, SendsChain, Busy, NoSend
<1>3. TakenAtOnce
  BY DEF Init, TakenAtOnce
<1> QED BY <1>1, <1>2, <1>3 DEF IInv

\* A flush that is past its await keeps sends apart, if it is past it: no send is
\* in flight, or nothing is queued.
LEMMA TakeChains ==
    ASSUME IInv, NEW by, Take(by), inflight = NONE \/ pending = Nothing
    PROVE  /\ Tables'
           /\ SendsChain'
           /\ inflight' # NONE => pending' = Nothing \/ UNCHANGED <<inflight, pending>>
<1>1. CASE pending = Nothing
  <2>1. UNCHANGED <<pending, flying, inflight>>
    BY <1>1 DEF Take
  <2> QED BY <2>1 DEF IInv, Tables, SendsChain, Busy
<1>2. CASE pending # Nothing
  <2> DEFINE batch == {pending[d] : d \in Id} \ {NONE}
  <2>1. inflight = NONE
    BY <1>2
  <2>2. PICK n \in Send : /\ flying' = [flying EXCEPT ![n] = [batch |-> batch, by |-> by]]
                          /\ inflight' = n
                          /\ pending' = Nothing
    BY <1>2 DEF Take
  <2>3. batch # {}
    <3>1. PICK d \in Id : pending[d] # NONE
      BY <1>2 DEF IInv, Tables, Nothing
    <3> QED BY <3>1
  <2>4. \A m \in Send : ~ Busy(m)
    BY <2>1, NoneAssumption DEF IInv, SendsChain
  <2>5. Tables'
    BY <2>2 DEF IInv, Tables, Nothing
  <2>6. SendsChain'
    <3> SUFFICES ASSUME NEW m \in Send PROVE Busy(m)' <=> inflight' = m
      BY DEF SendsChain
    <3>1. CASE m = n
      <4>1. flying'[m] = [batch |-> batch, by |-> by]
        BY <3>1, <2>2 DEF IInv, Tables
      <4>2. flying'[m].batch = batch
        BY <4>1
      <4> QED BY <4>2, <2>2, <2>3, <3>1 DEF Busy
    <3>2. CASE m # n
      <4>1. flying'[m] = flying[m]
        BY <3>2, <2>2 DEF IInv, Tables
      <4> QED BY <4>1, <2>2, <2>4, <3>2 DEF Busy
    <3> QED BY <3>1, <3>2
  <2> QED BY <2>2, <2>5, <2>6
<1> QED BY <1>1, <1>2

\* A flush that is called, by the timer or by close.
LEMMA FlushIInv ==
    ASSUME IInv, NEW by, Flush(by), ready = <<>>, ready' = ready
    PROVE  IInv'
<1>1. TakenAtOnce'
  BY DEF TakenAtOnce
<1>2. CASE inflight = NONE
  BY <1>1, <1>2, TakeChains DEF Flush, IInv
<1>3. CASE inflight # NONE
  <2>1. UNCHANGED <<pending, flying, inflight>>
    BY <1>3 DEF Flush
  <2> QED BY <1>1, <2>1 DEF IInv, Tables, SendsChain, Busy
<1> QED BY <1>2, <1>3

\* A flush that resumes.
LEMMA ResumeIInv ==
    ASSUME IInv, Resume
    PROVE  IInv'
<1>1. inflight = NONE \/ pending = Nothing
  BY DEF Resume, IInv, TakenAtOnce
<1>2. PICK by : Take(by)
  BY DEF Resume
<1>3. /\ Tables' /\ SendsChain'
      /\ inflight' # NONE => pending' = Nothing \/ UNCHANGED <<inflight, pending>>
  BY <1>1, <1>2, TakeChains
<1>4. TakenAtOnce'
  BY <1>1, <1>3 DEF TakenAtOnce
<1> QED BY <1>3, <1>4 DEF IInv

\* The outcome of the send in flight leaves none in flight.
LEMMA SettledIInv ==
    ASSUME IInv, NEW n \in Send, Busy(n), NEW error \in BOOLEAN, Settled(n, error),
           NEW batch, pending' = Requeued(batch)
    PROVE  IInv'
<1>1. /\ flying' = [flying EXCEPT ![n] = NoSend]
      /\ inflight' = NONE
  BY DEF Settled
<1>2. Tables'
  <2>1. pending' = [d \in Id |-> pending'[d]]
    <3> DEFINE back(d) == Requeued(batch)[d]
    <3>1. pending' = [d \in Id |-> back(d)]
      BY DEF Requeued
    <3> HIDE DEF back
    <3> QED BY <3>1
  <2> QED BY <1>1, <2>1 DEF IInv, Tables
<1>3. SendsChain'
  <2> SUFFICES ASSUME NEW m \in Send PROVE ~ Busy(m)'
    BY <1>1, NoneAssumption DEF SendsChain
  <2>1. CASE m = n
    BY <1>1, <2>1 DEF Busy, NoSend, IInv, Tables
  <2>2. CASE m # n
    <3>1. flying'[m] = flying[m]
      BY <1>1, <2>2 DEF IInv, Tables
    <3>2. inflight = n
      BY DEF IInv, SendsChain
    <3> QED BY <3>1, <3>2, <2>2 DEF Busy, IInv, SendsChain
  <2> QED BY <2>1, <2>2
<1>4. TakenAtOnce'
  BY <1>1 DEF TakenAtOnce
<1> QED BY <1>2, <1>3, <1>4 DEF IInv

-----------------------------------------------------------------------------
(* The theorems *)

\* The strengthened invariant holds in every state.
THEOREM SpecIInv == Spec => []IInv
<1>1. IInv /\ [Next]_vars => IInv'
  <2> SUFFICES ASSUME IInv, [Next]_vars PROVE IInv'
    OBVIOUS
  <2>1. ASSUME NEW r \in Reports, Report(r) PROVE IInv'
    <3>1. /\ pending' = [pending EXCEPT ![r.id] = Coalesced(@, r)]
          /\ ready = <<>> /\ UNCHANGED <<flying, inflight, ready>>
      BY <2>1 DEF Report
    <3>2. Tables'
      BY <3>1 DEF IInv, Tables
    <3> QED BY <3>1, <3>2 DEF IInv, SendsChain, Busy, TakenAtOnce
  <2>2. CASE Tick
    BY <2>2, FlushIInv DEF Tick
  <2>3. CASE Close
    BY <2>3, FlushIInv DEF Close
  <2>4. CASE Resume
    BY <2>4, ResumeIInv
  <2>5. ASSUME NEW n \in Send, Succeed(n) PROVE IInv'
    <3>1. PICK batch : pending' = Requeued(batch)
      BY <2>5 DEF Succeed
    <3>2. Busy(n) /\ Settled(n, FALSE)
      BY <2>5 DEF Succeed
    <3> QED BY <3>1, <3>2, SettledIInv
  <2>6. ASSUME NEW n \in Send, Fail(n) PROVE IInv'
    <3>1. PICK batch : pending' = Requeued(batch)
      BY <2>6 DEF Fail
    <3>2. PICK error \in BOOLEAN : Settled(n, error)
      BY <2>6 DEF Fail
    <3> QED BY <2>6, <3>1, <3>2, SettledIInv DEF Fail
  <2>7. ASSUME NEW batch \in wire, Deliver(batch) PROVE IInv'
    BY <2>7 DEF Deliver, client, IInv, Tables, SendsChain, Busy, TakenAtOnce
  <2>8. CASE UNCHANGED vars
    BY <2>8 DEF vars, client, IInv, Tables, SendsChain, Busy, TakenAtOnce
  <2> QED BY <2>1, <2>2, <2>3, <2>4, <2>5, <2>6, <2>7, <2>8 DEF Next
<1> QED BY InitIInv, <1>1, PTL DEF Spec

\* One send is under way at a time, and _inflight is that send: whatever the
\* timer, the application, failures and the order of waiting flushes do.
THEOREM SendsNeverOverlap == Spec => []SendsChain
BY SpecIInv, PTL DEF IInv

-----------------------------------------------------------------------------
(* Newest positions *)

\* r is an update of d whose version and props come from reports of d.
Reported(d, r) ==
    /\ r \in Update /\ r.id = d
    /\ \E s \in Asked(d) : s.ver = r.ver
    /\ r.props = NONE \/ \E s \in Asked(d) : s.props = r.props

\* A batch has at most one update of a device, and no other than reported ones.
IsBatch(S) ==
    /\ \A r \in S : Reported(r.id, r)
    /\ \A r, s \in S : r.id = s.id => r = s

\* What the server holds of d.
Served(d) == srv[d].ver \in Nat /\ (srv[d].ver = 0 \/ \E s \in Asked(d) : s.ver = srv[d].ver)

AllReported ==
    /\ past = [asked |-> past.asked, direct |-> past.direct, failed |-> past.failed, late |-> past.late]
    /\ past.asked \subseteq Reports
    /\ srv = [d \in Id |-> srv[d]]
    /\ \A d \in Id : pending[d] = NONE \/ Reported(d, pending[d])
    /\ \A n \in Send : IsBatch(flying[n].batch)
    /\ \A S \in wire : IsBatch(S)
    /\ \A d \in Id : Served(d)

NInv == IInv /\ AllReported /\ NewestKept

\* A server that receives a batch moves only forward, to versions that were
\* reported, and has every version of the batch that it does not refuse.
LEMMA ArrivesForward ==
    ASSUME AllReported, NEW S, IsBatch(S), Arrives(S), past'.asked = past.asked
    PROVE  /\ srv' = [d \in Id |-> srv'[d]]
           /\ \A d \in Id : Served(d)' /\ srv'[d].ver >= srv[d].ver
           /\ \A r \in S : ~ Refused(r) => srv'[r.id].ver >= r.ver
<1> DEFINE T == {r \in S : ~ Refused(r)}
<1>1. srv' = Received(T)
  BY DEF Arrives
<1>2. srv' = [d \in Id |-> srv'[d]]
  <2> DEFINE new(d) == Received(T)[d]
  <2>1. srv' = [d \in Id |-> new(d)]
    BY <1>1 DEF Received
  <2> HIDE DEF new
  <2> QED BY <2>1
<1>3. ASSUME NEW d \in Id
      PROVE  /\ Served(d)' /\ srv'[d].ver >= srv[d].ver
             /\ \A r \in T : r.id = d => srv'[d].ver >= r.ver
  <2>1. CASE \E r \in T : r.id = d
    <3>1. PICK r \in T : r.id = d /\ srv'[d] = Applied(srv[d], r)
      <4>1. srv'[d] = Applied(srv[d], CHOOSE r \in T : r.id = d)
        BY <1>1, <2>1 DEF Received
      <4> QED BY <4>1, <2>1
    <3>2. \A q \in T : q.id = d => q = r
      BY <3>1 DEF IsBatch
    <3>3. /\ r.ver \in Nat
          /\ \E s \in Asked(d) : s.ver = r.ver
      BY <3>1 DEF IsBatch, Reported, Update
    <3>4. Asked(d)' = Asked(d)
      BY DEF Asked
    <3>5. CASE r.ver <= srv[d].ver
      BY <3>1, <3>2, <3>3, <3>4, <3>5 DEF Applied, AllReported, Served
    <3>6. CASE ~ (r.ver <= srv[d].ver)
      <4>1. srv'[d].ver = r.ver
        BY <3>1, <3>6 DEF Applied
      <4> QED BY <4>1, <3>2, <3>3, <3>4, <3>6 DEF AllReported, Served
    <3> QED BY <3>5, <3>6
  <2>2. CASE ~ \E r \in T : r.id = d
    <3>1. srv'[d] = srv[d]
      BY <1>1, <2>2 DEF Received
    <3>2. Asked(d)' = Asked(d)
      BY DEF Asked
    <3> QED BY <3>1, <3>2, <2>2 DEF AllReported, Served
  <2> QED BY <2>1, <2>2
<1>4. \A r \in S : r.id \in Id
  BY DEF IsBatch, Reported, Update
<1> QED BY <1>2, <1>3, <1>4

\* A report of d stays accounted for when the server only moves forward and what
\* is queued of d stays queued or gives way to something newer.
LEMMA StaysAccounted ==
    ASSUME AllReported, NEW d \in Id, NEW r \in Asked(d), Accounted(d, r),
           past'.asked = past.asked,
           Served(d)', srv'[d].ver >= srv[d].ver,
           pending[d] # NONE => pending'[d] # NONE /\ pending'[d].ver >= pending[d].ver,
           pending'[d] = NONE \/ Reported(d, pending[d])',
           (\E n \in Send : \E s \in flying[n].batch : s.id = d /\ s.ver = r.ver)
              => Accounted(d, r)'
    PROVE  Accounted(d, r)'
<1> USE DEF Refused
<1>1. Asked(d)' = Asked(d)
  BY DEF Asked
<1>2. r.ver \in Nat
  <2>1. r \in Reports
    BY DEF Asked, AllReported
  <2> QED BY <2>1, ReportAssumption DEF Update
<1>3. CASE \E s \in Asked(d) : s.ver > r.ver \/ Refused(s)
  BY <1>1, <1>3 DEF Accounted
<1>4. CASE srv[d].ver = r.ver
  <2>1. CASE srv'[d].ver = r.ver
    BY <2>1 DEF Accounted
  <2>2. CASE srv'[d].ver > r.ver
    <3>1. PICK s \in Asked(d)' : s.ver = srv'[d].ver
      BY <2>2, <1>2 DEF Served
    <3> QED BY <3>1, <2>2 DEF Accounted
  <2> QED BY <2>1, <2>2, <1>2, <1>4 DEF Served
<1>5. CASE pending[d] # NONE /\ pending[d].ver = r.ver
  <2>1. CASE pending'[d].ver = r.ver
    BY <2>1, <1>5 DEF Accounted
  <2>2. CASE pending'[d].ver > r.ver
    <3>1. PICK s \in Asked(d)' : s.ver = pending'[d].ver
      BY <1>5 DEF Reported
    <3> QED BY <3>1, <2>2 DEF Accounted
  <2>3. pending'[d].ver \in Nat
    BY <1>5 DEF Reported, Update
  <2> QED BY <2>1, <2>2, <2>3, <1>2, <1>5
<1> QED BY <1>3, <1>4, <1>5 DEF Accounted

\* Nothing that AllReported and NewestKept speak of changes.
LEMMA IdleNInv ==
    ASSUME AllReported, NewestKept, UNCHANGED <<pending, flying, srv, wire, past>>
    PROVE  AllReported' /\ NewestKept'
<1>1. AllReported'
  BY DEF AllReported, Reported, Served, IsBatch, Asked
<1>2. NewestKept'
  BY DEF NewestKept, Accounted, Asked, Refused
<1> QED BY <1>1, <1>2

\* A report that is coalesced with what is queued.
LEMMA ReportNInv ==
    ASSUME IInv, AllReported, NewestKept, NEW r \in Reports, Report(r)
    PROVE  AllReported' /\ NewestKept'
<1>1. /\ r \in Update /\ r.ver \in Nat /\ r.id \in Id
      /\ r.props = NONE \/ r.props = r.ver
  BY ReportAssumption DEF Update
<1>2. /\ pending' = [pending EXCEPT ![r.id] = Coalesced(@, r)]
      /\ UNCHANGED <<flying, srv, wire>>
  BY DEF Report
<1>3. /\ past' = [asked |-> past'.asked, direct |-> past'.direct, failed |-> past'.failed, late |-> past'.late]
      /\ past'.asked = past.asked \union {r}
  <2> DEFINE
         direct == [past.direct EXCEPT ![r.id] = IF Refused(r) THEN @ ELSE Applied(@, r)]
         late == IF r.props # NONE /\ \E s \in past.asked : s.id = r.id /\ s.ver > r.ver
                 THEN past.late \union {r.id} ELSE past.late
  <2>1. past' = [past EXCEPT !.asked = @ \union {r}, !.direct = direct, !.late = late]
    BY DEF Report
  <2> HIDE DEF direct, late
  <2>2. past = [asked |-> past.asked, direct |-> past.direct, failed |-> past.failed, late |-> past.late]
    BY DEF AllReported
  <2> QED BY <2>1, <2>2
<1>4. \A d \in Id : Asked(d) \subseteq Asked(d)' /\ \A s \in Asked(d)' : s \in Asked(d) \/ s = r
  BY <1>3 DEF Asked
<1>5. r \in Asked(r.id)'
  BY <1>3 DEF Asked
<1>6. ASSUME NEW d \in Id, NEW u, Reported(d, u)
      PROVE  /\ \E s \in Asked(d)' : s.ver = u.ver
             /\ u.props = NONE \/ \E s \in Asked(d)' : s.props = u.props
  BY <1>4, <1>6 DEF Reported
<1>7. /\ \A d \in Id : d # r.id => pending'[d] = pending[d]
      /\ pending'[r.id] = Coalesced(pending[r.id], r)
  BY <1>1, <1>2 DEF IInv, Tables
<1>8. /\ pending'[r.id] \in Update /\ pending'[r.id].id = r.id
      /\ pending'[r.id].ver \in {r.ver} \union (IF pending[r.id] = NONE THEN {} ELSE {pending[r.id].ver})
      /\ pending'[r.id].ver >= r.ver
      /\ pending[r.id] # NONE => pending'[r.id].ver >= pending[r.id].ver
      /\ \/ pending'[r.id].props \in {NONE, r.props}
         \/ pending[r.id] # NONE /\ pending'[r.id].props = pending[r.id].props
  <2>1. CASE pending[r.id] = NONE
    BY <1>1, <1>7, <2>1 DEF Coalesced
  <2>2. CASE pending[r.id] # NONE
    <3>1. /\ Reported(r.id, pending[r.id])
          /\ pending[r.id] \in Update /\ pending[r.id].ver \in Nat /\ pending[r.id].id = r.id
          /\ pending[r.id].props \in Nat \union {NONE}
      BY <1>1, <2>2 DEF AllReported, Reported, Update
    <3>2. CASE r.ver <= pending[r.id].ver
      BY <1>1, <1>7, <2>2, <3>1, <3>2 DEF Coalesced
    <3>3. CASE ~ (r.ver <= pending[r.id].ver)
      <4> DEFINE p == IF r.props = NONE THEN pending[r.id].props ELSE r.props
      <4>1. pending'[r.id] = [r EXCEPT !.props = p]
        BY <1>7, <2>2, <3>3 DEF Coalesced
      <4>2. r = [id |-> r.id, ver |-> r.ver, props |-> r.props]
        BY <1>1 DEF Update
      <4>3. pending'[r.id] = [id |-> r.id, ver |-> r.ver, props |-> p]
        BY <4>1, <4>2
      <4>4. p \in Nat \union {NONE}
        BY <1>1, <3>1
      <4>5. pending'[r.id] \in Update
        BY <1>1, <4>3, <4>4 DEF Update
      <4>6. /\ pending'[r.id].ver = r.ver /\ pending'[r.id].id = r.id
            /\ pending'[r.id].props = p
        BY <4>3
      <4> QED BY <1>1, <2>2, <3>1, <3>3, <4>5, <4>6
    <3> QED BY <3>2, <3>3
  <2> QED BY <2>1, <2>2
<1>9. Reported(r.id, pending[r.id])'
  <2>1. \E s \in Asked(r.id)' : s.ver = pending'[r.id].ver
    <3>1. CASE pending'[r.id].ver = r.ver
      BY <3>1, <1>5
    <3>2. CASE pending[r.id] # NONE /\ pending'[r.id].ver = pending[r.id].ver
      BY <3>2, <1>1, <1>6 DEF AllReported
    <3> QED BY <3>1, <3>2, <1>8
  <2>2. pending'[r.id].props = NONE \/ \E s \in Asked(r.id)' : s.props = pending'[r.id].props
    <3>1. CASE pending'[r.id].props \in {NONE, r.props}
      BY <3>1, <1>5
    <3>2. CASE pending[r.id] # NONE /\ pending'[r.id].props = pending[r.id].props
      BY <3>2, <1>1, <1>6 DEF AllReported
    <3> QED BY <3>1, <3>2, <1>8
  <2> QED BY <2>1, <2>2, <1>8 DEF Reported
<1>10. ASSUME NEW d \in Id, NEW u, Reported(d, u) PROVE Reported(d, u)'
  BY <1>6, <1>10 DEF Reported
<1>11. ASSUME NEW S, IsBatch(S) PROVE IsBatch(S)'
  <2>1. \A u \in S : u.id \in Id
    BY <1>11 DEF IsBatch, Reported, Update
  <2> QED BY <1>10, <1>11, <2>1 DEF IsBatch
<1>12. \A d \in Id : Served(d)'
  BY <1>2, <1>4 DEF AllReported, Served
<1>13. AllReported'
  <2>1. past'.asked \subseteq Reports
    BY <1>3 DEF AllReported
  <2>2. \A d \in Id : pending'[d] = NONE \/ Reported(d, pending[d])'
    BY <1>7, <1>9, <1>10 DEF AllReported
  <2>3. /\ \A n \in Send : IsBatch(flying[n].batch)'
        /\ \A S \in wire' : IsBatch(S)'
        /\ srv' = [d \in Id |-> srv'[d]]
    BY <1>2, <1>11 DEF AllReported
  <2> QED BY <1>3, <1>12, <2>1, <2>2, <2>3 DEF AllReported
<1>14. NewestKept'
  <2> SUFFICES ASSUME NEW d \in Id, NEW q \in Asked(d)' PROVE Accounted(d, q)'
    BY DEF NewestKept
  <2>1. pending'[r.id] # NONE
    BY <1>8, NoneAssumption
  <2>2. ASSUME NEW e \in Asked(d)', e.ver > q.ver PROVE Accounted(d, q)'
    BY <2>2 DEF Accounted
  <2>3. CASE d = r.id /\ pending'[d].ver > q.ver
    BY <1>9, <2>2, <2>3 DEF Reported
  <2>4. CASE d = r.id /\ pending'[d].ver = q.ver
    BY <2>1, <2>4 DEF Accounted
  <2>5. CASE q = r
    <3>1. d = r.id
      BY <2>5 DEF Asked
    <3> QED BY <1>1, <1>8, <2>3, <2>4, <2>5, <3>1 DEF Update
  <2>6. CASE q \in Asked(d) /\ ~ (d = r.id /\ pending[d] # NONE /\ pending[d].ver = q.ver)
    <3>1. Accounted(d, q)
      BY <2>6 DEF NewestKept
    <3>2. CASE \E e \in Asked(d) : e.ver > q.ver \/ Refused(e)
      BY <3>2, <1>4 DEF Accounted, Refused
    <3>3. CASE pending[d] # NONE /\ pending[d].ver = q.ver
      BY <3>3, <2>6, <1>7 DEF Accounted
    <3> QED BY <3>1, <3>2, <3>3, <1>2 DEF Accounted
  <2>7. CASE d = r.id /\ pending[d] # NONE /\ pending[d].ver = q.ver
    <3>1. pending'[d].ver \in Nat /\ pending[d].ver \in Nat
      BY <1>1, <1>8, <2>7 DEF Update, AllReported, Reported
    <3> QED BY <3>1, <1>8, <2>3, <2>4, <2>7
  <2> QED BY <1>4, <2>5, <2>6, <2>7
<1> QED BY <1>13, <1>14

\* What a flush takes from the queue is under way.
LEMMA TakeNInv ==
    ASSUME IInv, AllReported, NewestKept, NEW by, Take(by),
           inflight = NONE \/ pending = Nothing, UNCHANGED <<srv, past>>
    PROVE  AllReported' /\ NewestKept'
<1>1. CASE pending = Nothing
  BY <1>1, IdleNInv DEF Take
<1>2. CASE pending # Nothing
  <2> DEFINE batch == {pending[d] : d \in Id} \ {NONE}
  <2>1. inflight = NONE
    BY <1>2
  <2>2. PICK n \in Send : /\ flying' = [flying EXCEPT ![n] = [batch |-> batch, by |-> by]]
                          /\ pending' = Nothing
                          /\ wire' = wire \union {batch}
    BY <1>2 DEF Take
  <2>3. \A m \in Send : flying[m].batch = {}
    BY <2>1, NoneAssumption DEF IInv, SendsChain, Busy
  <2>4. \A m \in Send : m # n => flying'[m] = flying[m]
    BY <2>2 DEF IInv, Tables
  <2>5. flying'[n].batch = batch
    <3>1. flying'[n] = [batch |-> batch, by |-> by]
      BY <2>2 DEF IInv, Tables
    <3> QED BY <3>1
  <2>6. IsBatch(batch)
    <3>1. \A r \in batch : \E d \in Id : r = pending[d] /\ Reported(d, r)
      BY DEF AllReported
    <3> HIDE DEF batch
    <3>2. \A r \in batch : r = pending[r.id] /\ Reported(r.id, r)
      BY <3>1 DEF Reported
    <3> QED BY <3>2 DEF IsBatch
  <2> HIDE DEF batch
  <2>7. \A S : IsBatch(S) => IsBatch(S)'
    BY DEF IsBatch, Reported, Asked
  <2>8. AllReported'
    <3>1. \A d \in Id : pending'[d] = NONE
      BY <2>2 DEF Nothing
    <3>2. \A m \in Send : IsBatch(flying[m].batch)'
      <4> SUFFICES ASSUME NEW m \in Send PROVE IsBatch(flying[m].batch)'
        OBVIOUS
      <4>1. CASE m = n
        BY <4>1, <2>5, <2>6 DEF IsBatch, Reported, Asked
      <4>2. CASE m # n
        BY <4>2, <2>3, <2>4 DEF IsBatch
      <4> QED BY <4>1, <4>2
    <3>3. \A S \in wire' : IsBatch(S)'
      BY <2>2, <2>6, <2>7 DEF AllReported
    <3>4. \A d \in Id : Served(d)'
      BY DEF AllReported, Served, Asked
    <3> QED BY <3>1, <3>2, <3>3, <3>4 DEF AllReported
  <2>9. NewestKept'
    <3> SUFFICES ASSUME NEW d \in Id, NEW r \in Asked(d) PROVE Accounted(d, r)'
      BY DEF NewestKept, Asked
    <3>1. Accounted(d, r)
      BY DEF NewestKept
    <3>2. CASE pending[d] # NONE /\ pending[d].ver = r.ver
      <4>1. pending[d] \in batch /\ pending[d].id = d
        BY <3>2 DEF batch, AllReported, Reported
      <4> QED BY <3>2, <4>1, <2>5 DEF Accounted
    <3> QED BY <3>1, <3>2, <2>3 DEF Accounted, Asked, Refused
  <2> QED BY <2>8, <2>9
<1> QED BY <1>1, <1>2

\* A flush, called: it waits or goes on.
LEMMA FlushNInv ==
    ASSUME IInv, AllReported, NewestKept, NEW by, Flush(by), UNCHANGED <<srv, past>>
    PROVE  AllReported' /\ NewestKept'
<1>1. CASE inflight = NONE
  BY <1>1, TakeNInv DEF Flush
<1>2. CASE inflight # NONE
  BY <1>2, IdleNInv DEF Flush
<1> QED BY <1>1, <1>2

\* A batch that goes back in the queue displaces only what is older.
LEMMA RequeuedForward ==
    ASSUME AllReported, NEW batch, IsBatch(batch), NEW d \in Id,
           pending' = Requeued(batch), past'.asked = past.asked
    PROVE  /\ pending'[d] = NONE \/ Reported(d, pending[d])'
           /\ pending[d] # NONE => pending'[d] # NONE /\ pending'[d].ver >= pending[d].ver
           /\ \A s \in batch : s.id = d => pending'[d] # NONE /\ pending'[d].ver >= s.ver
<1> DEFINE back == {r \in batch : r.id = d /\ (pending[d] = NONE \/ pending[d].ver < r.ver)}
<1>1. pending'[d] = IF back = {} THEN pending[d] ELSE CHOOSE r \in back : TRUE
  BY DEF Requeued
<1>2. Asked(d)' = Asked(d)
  BY DEF Asked
<1>3. \A u : Reported(d, u) => u.ver \in Nat /\ u # NONE
  BY NoneAssumption DEF Reported, Update
<1>4. pending[d] = NONE \/ Reported(d, pending[d])
  BY DEF AllReported
<1>5. \A s \in batch : s.id = d => Reported(d, s)
  BY DEF IsBatch
<1>6. CASE back = {}
  <2>1. pending'[d] = pending[d]
    BY <1>1, <1>6
  <2>2. \A s \in batch : s.id = d => pending[d] # NONE /\ pending[d].ver >= s.ver
    BY <1>3, <1>4, <1>5, <1>6
  <2>3. pending'[d] = NONE \/ Reported(d, pending[d])'
    BY <1>2, <1>4, <2>1 DEF Reported
  <2> QED BY <1>3, <1>4, <2>1, <2>2, <2>3
<1>7. CASE back # {}
  <2>1. PICK r \in back : pending'[d] = r
    BY <1>1, <1>7
  <2>2. Reported(d, r) /\ r.ver \in Nat /\ r # NONE
    BY <2>1, <1>3, <1>5
  <2>3. Reported(d, pending[d])'
    BY <1>2, <2>1, <2>2 DEF Reported
  <2>4. pending[d] # NONE => pending[d].ver \in Nat /\ r.ver >= pending[d].ver
    BY <1>3, <1>4, <2>1, <2>2
  <2>5. \A s \in batch : s.id = d => s = r
    BY <2>1 DEF IsBatch
  <2> QED BY <2>1, <2>2, <2>3, <2>4, <2>5
<1> QED BY <1>6, <1>7

\* Whatever is at the server or in the queue after a step, at the version of r or later,
\* accounts for r.
LEMMA NewerAccounts ==
    ASSUME NEW d \in Id, NEW r, r.ver \in Nat,
           \/ Served(d)' /\ srv'[d].ver >= r.ver /\ r.ver > 0
           \/ pending'[d] # NONE /\ Reported(d, pending[d])' /\ pending'[d].ver >= r.ver
    PROVE  Accounted(d, r)'
<1>1. CASE Served(d)' /\ srv'[d].ver >= r.ver /\ r.ver > 0
  BY <1>1 DEF Served, Accounted
<1>2. CASE pending'[d] # NONE /\ Reported(d, pending[d])' /\ pending'[d].ver >= r.ver
  <2>1. pending'[d].ver \in Nat
    BY <1>2 DEF Reported, Update
  <2> QED BY <1>2, <2>1 DEF Reported, Accounted
<1> QED BY <1>1, <1>2

\* The outcome of send n: what of its batch is not refused is at the server, or the
\* batch is in the queue again.
LEMMA OutcomeNInv ==
    ASSUME IInv, AllReported, NewestKept, NEW n \in Send, Busy(n),
           NEW error, Settled(n, error), NEW batch, IsBatch(batch), pending' = Requeued(batch),
           NEW S, IsBatch(S), Arrives(S) \/ srv' = srv,
           past' = [asked |-> past.asked, direct |-> past.direct, failed |-> past'.failed, late |-> past.late],
           wire' = wire,
           \/ batch = flying[n].batch
           \/ S = flying[n].batch /\ Arrives(S)
    PROVE  AllReported' /\ NewestKept'
<1>1. past'.asked = past.asked
  OBVIOUS
<1>2. /\ srv' = [d \in Id |-> srv'[d]]
      /\ \A d \in Id : Served(d)' /\ srv'[d].ver >= srv[d].ver
      /\ Arrives(S) => \A r \in S : ~ Refused(r) => srv'[r.id].ver >= r.ver
  <2>1. CASE Arrives(S)
    BY <1>1, <2>1, ArrivesForward
  <2>2. CASE srv' = srv /\ ~ Arrives(S)
    BY <1>1, <2>2 DEF AllReported, Served, Asked
  <2> QED BY <2>1, <2>2
<1>3. ASSUME NEW d \in Id
      PROVE  /\ pending'[d] = NONE \/ Reported(d, pending[d])'
             /\ pending[d] # NONE => pending'[d] # NONE /\ pending'[d].ver >= pending[d].ver
             /\ \A s \in batch : s.id = d => pending'[d] # NONE /\ pending'[d].ver >= s.ver
  BY <1>1, RequeuedForward
<1>4. /\ \A m \in Send : m # n => flying[m].batch = {} /\ flying'[m] = flying[m]
      /\ flying'[n].batch = {}
  BY DEF IInv, Tables, SendsChain, Busy, Settled, NoSend
<1>5. AllReported'
  <2>1. \A m \in Send : IsBatch(flying[m].batch)'
    BY <1>4 DEF IsBatch
  <2>2. \A T \in wire' : IsBatch(T)'
    BY <1>1 DEF AllReported, IsBatch, Reported, Asked
  <2>3. past' = [asked |-> past'.asked, direct |-> past'.direct, failed |-> past'.failed, late |-> past'.late]
    OBVIOUS
  <2>4. past'.asked \subseteq Reports
    BY <1>1 DEF AllReported
  <2> QED BY <1>2, <1>3, <2>1, <2>2, <2>3, <2>4 DEF AllReported
<1>6. NewestKept'
  <2> SUFFICES ASSUME NEW d \in Id, NEW r \in Asked(d) PROVE Accounted(d, r)'
    BY <1>1 DEF NewestKept, Asked
  <2>1. Accounted(d, r)
    BY DEF NewestKept
  <2>2. r.ver \in Nat /\ r.ver > 0
    <3>1. r \in Reports
      BY DEF Asked, AllReported
    <3> QED BY <3>1, ReportAssumption DEF Update
  <2>3. ASSUME \E m \in Send : \E s \in flying[m].batch : s.id = d /\ s.ver = r.ver
        PROVE  Accounted(d, r)'
    <3>1. PICK s \in flying[n].batch : s.id = d /\ s.ver = r.ver
      BY <1>4, <2>3
    <3>2. CASE s \in batch
      BY <1>3, <2>2, <3>1, <3>2, NewerAccounts
    <3>3. CASE s \in S /\ Arrives(S) /\ ~ Refused(s)
      BY <1>2, <2>2, <3>1, <3>3, NewerAccounts
    <3>4. CASE s \in S /\ Refused(s)
      <4>1. Reported(d, s)
        BY <3>1, <3>4 DEF IsBatch
      <4>2. PICK e \in Asked(d) : Refused(e)
        BY <4>1, <3>4, BadAssumption, NoneAssumption DEF Reported, Refused
      <4> QED BY <4>2, <1>1 DEF Accounted, Asked, Refused
    <3> QED BY <3>1, <3>2, <3>3, <3>4
  <2> QED BY <1>1, <1>2, <1>3, <2>1, <2>3, StaysAccounted
<1> QED BY <1>5, <1>6

\* A part of a batch that arrives in flight, late or again.
LEMMA DeliverNInv ==
    ASSUME IInv, AllReported, NewestKept, NEW batch \in wire, Deliver(batch)
    PROVE  AllReported' /\ NewestKept'
<1>1. /\ UNCHANGED <<pending, flying, wire>>
      /\ past' = past
  BY DEF Deliver, client
<1>2. PICK S \in SUBSET batch : Arrives(S)
  BY DEF Deliver
<1>3. IsBatch(S)
  BY DEF AllReported, IsBatch
<1>4. /\ srv' = [d \in Id |-> srv'[d]]
      /\ \A d \in Id : Served(d)' /\ srv'[d].ver >= srv[d].ver
  BY <1>1, <1>2, <1>3, ArrivesForward
<1>5. AllReported'
  BY <1>1, <1>4 DEF AllReported, Reported, IsBatch, Asked
<1>6. NewestKept'
  <2> SUFFICES ASSUME NEW d \in Id, NEW r \in Asked(d) PROVE Accounted(d, r)'
    BY <1>1 DEF NewestKept, Asked
  <2>1. Accounted(d, r)
    BY DEF NewestKept
  <2>2. pending[d] # NONE => pending[d].ver \in Nat
    BY DEF AllReported, Reported, Update
  <2>3. (\E m \in Send : \E s \in flying[m].batch : s.id = d /\ s.ver = r.ver) => Accounted(d, r)'
    BY <1>1 DEF Accounted
  <2>4. pending'[d] = NONE \/ Reported(d, pending[d])'
    BY <1>5 DEF AllReported
  <2> QED BY <1>1, <1>4, <2>1, <2>2, <2>3, <2>4, StaysAccounted
<1> QED BY <1>5, <1>6

\* Nothing was reported when the Reporter is made.
LEMMA InitNInv == Init => NInv
<1> SUFFICES ASSUME Init PROVE NInv
  OBVIOUS
<1>1. AllReported
  BY DEF Init, AllReported, Nothing, NoSend, IsBatch, Served, Unknown
<1>2. NewestKept
  BY DEF Init, NewestKept, Asked
<1> QED BY <1>1, <1>2, InitIInv DEF NInv

\* Everything the Reporter holds was reported, and no newest position is lost.
THEOREM SpecNInv == Spec => []NInv
<1>1. NInv /\ IInv' /\ [Next]_vars => NInv'
  <2> SUFFICES ASSUME IInv, AllReported, NewestKept, [Next]_vars PROVE AllReported' /\ NewestKept'
    BY DEF NInv
  <2>1. ASSUME NEW r \in Reports, Report(r) PROVE AllReported' /\ NewestKept'
    BY <2>1, ReportNInv
  <2>2. CASE Tick
    BY <2>2, FlushNInv DEF Tick
  <2>3. CASE Close
    BY <2>3, FlushNInv DEF Close
  <2>4. CASE Resume
    <3>1. inflight = NONE \/ pending = Nothing
      BY <2>4 DEF Resume, IInv, TakenAtOnce
    <3> QED BY <2>4, <3>1, TakeNInv DEF Resume
  <2>5. ASSUME NEW n \in Send, Succeed(n) PROVE AllReported' /\ NewestKept'
    <3>1. IsBatch(flying[n].batch) /\ IsBatch({})
      BY DEF AllReported, IsBatch
    <3>2. past' = [asked |-> past.asked, direct |-> past.direct, failed |-> past'.failed, late |-> past.late]
      BY <2>5 DEF Succeed, AllReported
    <3>3. /\ Busy(n) /\ Settled(n, FALSE)
          /\ Arrives(flying[n].batch) /\ pending' = Requeued({}) /\ wire' = wire
      BY <2>5 DEF Succeed, Kept
    <3> QED BY <3>1, <3>2, <3>3, OutcomeNInv
  <2>6. ASSUME NEW n \in Send, Fail(n) PROVE AllReported' /\ NewestKept'
    <3>1. IsBatch(flying[n].batch)
      BY DEF AllReported
    <3>2. past' = [asked |-> past.asked, direct |-> past.direct, failed |-> past'.failed, late |-> past.late]
      BY <2>6 DEF Fail, AllReported
    <3>3. PICK error : Settled(n, error)
      BY <2>6 DEF Fail
    <3>4. Busy(n) /\ pending' = Requeued(flying[n].batch) /\ srv' = srv /\ wire' = wire
      BY <2>6 DEF Fail
    <3> QED BY <3>1, <3>2, <3>3, <3>4, OutcomeNInv
  <2>7. ASSUME NEW batch \in wire, Deliver(batch) PROVE AllReported' /\ NewestKept'
    BY <2>7, DeliverNInv
  <2>8. CASE UNCHANGED vars
    BY <2>8, IdleNInv DEF vars, client
  <2> QED BY <2>1, <2>2, <2>3, <2>4, <2>5, <2>6, <2>7, <2>8 DEF Next
<1> QED BY InitNInv, SpecIInv, <1>1, PTL DEF Spec, NInv

\* A position is not dropped silently: the newest one reported of a device is at
\* the server, in the queue or under way, whatever fails, arrives late or is lost.
THEOREM NewestPositionKept == Spec => []NewestKept
BY SpecNInv, PTL DEF NInv

-----------------------------------------------------------------------------
(* What the server ends up with *)

\* state after r, if there is an r.
After(state, r) == IF r = NONE THEN state ELSE Applied(state, r)

\* What Settles speaks of.
Clean(d) == d \notin past.late /\ \A r \in Asked(d) : ~ Refused(r)

\* f is the report of d that is under way, or there is none.
UnderWay(d, f) ==
    IF f = NONE THEN \A n \in Send : \A s \in flying[n].batch : s.id # d
    ELSE f.id = d /\ \E n \in Send : f \in flying[n].batch

\* With what is under way, and then what is queued, the server has what it would
\* have had at once.
Told(d) ==
    \E f \in Update \union {NONE} :
       UnderWay(d, f) /\ past.direct[d] = After(After(srv[d], f), pending[d])

\* Props that are queued are carried by a position newer than any that was sent.
Ahead(d) ==
    pending[d] # NONE /\ pending[d].props # NONE =>
       /\ pending[d].ver > srv[d].ver
       /\ \A S \in wire : \A r \in S : r.id = d => pending[d].ver > r.ver

\* What may arrive late or again is no news.
Caught(d) ==
    \A S \in wire : \A r \in S :
       r.id = d => r.ver <= srv[d].ver \/ \E n \in Send : r \in flying[n].batch

Recorded ==
    /\ past.direct = [d \in Id |-> past.direct[d]]
    /\ past.late \subseteq Id
    /\ \A n \in Send : flying[n].batch = {} \/ flying[n].batch \in wire

Faithful == \A d \in Id : Clean(d) => Told(d) /\ Ahead(d) /\ Caught(d)

FInv == Recorded /\ (~ past.failed => Faithful)

\* A server takes a newer report and ignores any other.
LEMMA AppliedForward ==
    ASSUME NEW s, s.ver \in Nat, NEW r \in Update
    PROVE  /\ Applied(s, r).ver \in {s.ver, r.ver}
           /\ Applied(s, r).ver >= s.ver /\ Applied(s, r).ver >= r.ver
           /\ r.ver <= s.ver => Applied(s, r) = s
<1>1. r.ver \in Nat
  BY DEF Update
<1>2. CASE r.ver <= s.ver
  BY <1>1, <1>2 DEF Applied
<1>3. CASE ~ (r.ver <= s.ver)
  <2>1. Applied(s, r) = [ver |-> r.ver, props |-> IF r.props = NONE THEN s.props ELSE r.props]
    BY <1>3 DEF Applied
  <2>2. Applied(s, r).ver = r.ver
    BY <2>1
  <2> QED BY <2>2, <1>1, <1>3
<1> QED BY <1>2, <1>3

\* A report that arrives twice is as one that arrives once.
LEMMA AppliedAgain ==
    ASSUME NEW s, s.ver \in Nat, NEW r \in Update
    PROVE  Applied(Applied(s, r), r) = Applied(s, r)
<1>1. r.ver \in Nat
  BY DEF Update
<1>2. Applied(s, r).ver >= r.ver
  BY AppliedForward
<1>3. r.ver <= Applied(s, r).ver
  BY <1>1, <1>2
<1> QED BY <1>3 DEF Applied

\* Coalescing loses nothing: the queue's report, once sent, has the effect of the two it
\* stands for, provided props that are queued belong to a position the server has not passed.
LEMMA CoalescedAlike ==
    ASSUME NEW s, s.ver \in Nat, NEW p \in Update \union {NONE}, NEW r \in Update,
           p # NONE /\ p.props # NONE => p.ver > s.ver
    PROVE  /\ Coalesced(p, r) # NONE
           /\ After(s, Coalesced(p, r)) = Applied(After(s, p), r)
<1>1. r.ver \in Nat /\ r # NONE
  BY NoneAssumption DEF Update
<1>2. CASE p = NONE
  BY <1>1, <1>2 DEF Coalesced, After
<1>3. CASE p # NONE
  <2>1. p \in Update /\ p.ver \in Nat
    BY <1>3 DEF Update
  <2>2. After(s, p) = Applied(s, p)
    BY <1>3 DEF After
  <2>3. CASE r.ver <= p.ver
    <3>1. Coalesced(p, r) = p
      BY <1>3, <2>3 DEF Coalesced
    <3>2. Applied(s, p).ver >= p.ver /\ Applied(s, p).ver \in Nat
      BY <2>1, AppliedForward
    <3>3. Applied(Applied(s, p), r) = Applied(s, p)
      BY <3>2, <2>1, <2>3, <1>1 DEF Applied
    <3> QED BY <3>1, <3>3, <2>2, <1>3
  <2>4. CASE ~ (r.ver <= p.ver)
    <3> DEFINE x == IF r.props = NONE THEN p.props ELSE r.props
               c == [id |-> r.id, ver |-> r.ver, props |-> x]
    <3>1. Coalesced(p, r) = c
      <4>1. Coalesced(p, r) = [r EXCEPT !.props = x]
        BY <1>3, <2>4 DEF Coalesced
      <4>2. r = [id |-> r.id, ver |-> r.ver, props |-> r.props]
        BY DEF Update
      <4> QED BY <4>1, <4>2
    <3>2. c \in Update
      BY <2>1 DEF Update
    <3>3. c # NONE /\ c.ver = r.ver /\ c.props = x
      BY <3>2, NoneAssumption
    <3>4. Applied(s, c) = IF r.ver <= s.ver THEN s
                          ELSE [ver |-> r.ver, props |-> IF x = NONE THEN s.props ELSE x]
      BY <3>3 DEF Applied
    <3> HIDE DEF c
    <3>5. After(s, Coalesced(p, r)) = Applied(s, c)
      BY <3>1, <3>3 DEF After
    <3>6. CASE p.ver <= s.ver
      <4>1. p.props = NONE /\ Applied(s, p) = s
        BY <1>3, <2>1, <3>6, AppliedForward
      <4>2. Applied(s, r) = IF r.ver <= s.ver THEN s
                            ELSE [ver |-> r.ver, props |-> IF r.props = NONE THEN s.props ELSE r.props]
        BY DEF Applied
      <4>3. x = r.props
        BY <4>1
      <4> QED BY <2>2, <3>1, <3>3, <3>4, <3>5, <4>1, <4>2, <4>3
    <3>7. CASE ~ (p.ver <= s.ver)
      <4> DEFINE t == [ver |-> p.ver, props |-> IF p.props = NONE THEN s.props ELSE p.props]
      <4>1. Applied(s, p) = t
        BY <3>7 DEF Applied
      <4>2. t.ver = p.ver /\ t.props = IF p.props = NONE THEN s.props ELSE p.props
        OBVIOUS
      <4> HIDE DEF t
      <4>3. Applied(t, r) = [ver |-> r.ver, props |-> IF r.props = NONE THEN t.props ELSE r.props]
        BY <4>2, <2>4 DEF Applied
      <4>4. ~ (r.ver <= s.ver)
        BY <1>1, <2>1, <2>4, <3>7
      <4>5. (IF x = NONE THEN s.props ELSE x) = IF r.props = NONE THEN t.props ELSE r.props
        BY <4>2
      <4>6. Applied(s, c) = Applied(t, r)
        BY <3>4, <4>3, <4>4, <4>5
      <4> QED BY <2>2, <3>1, <3>3, <3>5, <4>1, <4>6
    <3> QED BY <3>6, <3>7
  <2> QED BY <2>3, <2>4
<1> QED BY <1>2, <1>3

\* Props that are sent were given by a report, so a device without refused ones has none on the way.
LEMMA CleanTaken ==
    ASSUME AllReported, NEW d \in Id, Clean(d), NEW r, Reported(d, r)
    PROVE  ~ Refused(r) /\ r \in Update
BY BadAssumption, NoneAssumption DEF Clean, Reported, Refused

\* What arrives of a batch is applied to its device.
LEMMA ArrivesApplied ==
    ASSUME AllReported, NEW d \in Id, Clean(d), NEW S, IsBatch(S), Arrives(S)
    PROVE  /\ (\A r \in S : r.id # d) => srv'[d] = srv[d]
           /\ \A r \in S : r.id = d => srv'[d] = Applied(srv[d], r)
<1> DEFINE T == {r \in S : ~ Refused(r)}
<1>1. srv'[d] = IF \E r \in T : r.id = d THEN Applied(srv[d], CHOOSE r \in T : r.id = d) ELSE srv[d]
  BY DEF Arrives, Received
<1>2. (\A r \in S : r.id # d) => srv'[d] = srv[d]
  BY <1>1
<1>3. ASSUME NEW r \in S, r.id = d PROVE srv'[d] = Applied(srv[d], r)
  <2>1. r \in T
    BY <1>3, CleanTaken DEF IsBatch
  <2>2. \A q \in T : q.id = d => q = r
    BY <1>3 DEF IsBatch
  <2> HIDE DEF T
  <2>3. (CHOOSE q \in T : q.id = d) = r
    BY <2>1, <2>2, <1>3
  <2> QED BY <1>1, <2>1, <2>3, <1>3
<1> QED BY <1>2, <1>3

\* One send is under way, with one report of a device.
LEMMA OneUnderWay ==
    ASSUME IInv, AllReported, NEW d \in Id, NEW f, UnderWay(d, f),
           NEW n \in Send, NEW r \in flying[n].batch, r.id = d
    PROVE  f = r
<1>1. f # NONE
  BY DEF UnderWay
<1>2. PICK m \in Send : f \in flying[m].batch /\ f.id = d
  BY <1>1 DEF UnderWay
<1>3. Busy(m) /\ Busy(n)
  BY <1>2 DEF Busy
<1>4. m = n
  BY <1>3 DEF IInv, SendsChain
<1> QED BY <1>2, <1>4 DEF AllReported, IsBatch

\* Nothing was reported when the Reporter is made.
LEMMA InitFInv == Init => FInv
<1> SUFFICES ASSUME Init PROVE FInv
  OBVIOUS
<1>1. Recorded
  BY DEF Init, Recorded, NoSend
<1>2. ASSUME NEW d \in Id PROVE Told(d) /\ Ahead(d) /\ Caught(d)
  <2>1. /\ past.direct[d] = Unknown /\ srv[d] = Unknown /\ pending[d] = NONE /\ wire = {}
        /\ \A n \in Send : flying[n].batch = {}
    BY DEF Init, Nothing, NoSend
  <2>2. UnderWay(d, NONE)
    BY <2>1 DEF UnderWay
  <2>3. past.direct[d] = After(After(srv[d], NONE), pending[d])
    BY <2>1 DEF After
  <2> QED BY <2>1, <2>2, <2>3 DEF Told, Ahead, Caught
<1> QED BY <1>1, <1>2 DEF FInv, Faithful

\* Nothing that FInv speaks of changes.
LEMMA IdleFInv ==
    ASSUME FInv, UNCHANGED <<pending, flying, srv, wire, past>>
    PROVE  FInv'
<1>1. Recorded'
  BY DEF FInv, Recorded
<1>2. ASSUME Faithful, NEW d \in Id, Clean(d)' PROVE Told(d)' /\ Ahead(d)' /\ Caught(d)'
  <2>1. Clean(d)
    BY <1>2 DEF Clean, Asked, Refused
  <2>2. Told(d) /\ Ahead(d) /\ Caught(d)
    BY <1>2, <2>1 DEF Faithful
  <2> QED BY <2>2 DEF Told, Ahead, Caught, UnderWay
<1> QED BY <1>1, <1>2 DEF FInv, Faithful

\* A report is coalesced; had it been sent at once, the server would have applied it last.
LEMMA ReportFInv ==
    ASSUME IInv, AllReported, FInv, NEW r \in Reports, Report(r)
    PROVE  FInv'
<1>1. r \in Update /\ r.ver \in Nat /\ r.ver > 0 /\ r.id \in Id
  BY ReportAssumption DEF Update
<1>2. /\ pending' = [pending EXCEPT ![r.id] = Coalesced(@, r)]
      /\ UNCHANGED <<flying, srv, wire>> /\ r \notin past.asked
  BY DEF Report
<1>3. /\ past'.asked = past.asked \union {r}
      /\ past'.direct = [past.direct EXCEPT ![r.id] = IF Refused(r) THEN @ ELSE Applied(@, r)]
      /\ past'.late = IF r.props # NONE /\ \E s \in past.asked : s.id = r.id /\ s.ver > r.ver
                      THEN past.late \union {r.id} ELSE past.late
      /\ past'.failed = past.failed
  <2> DEFINE
         direct == [past.direct EXCEPT ![r.id] = IF Refused(r) THEN @ ELSE Applied(@, r)]
         late == IF r.props # NONE /\ \E s \in past.asked : s.id = r.id /\ s.ver > r.ver
                 THEN past.late \union {r.id} ELSE past.late
  <2>1. past' = [past EXCEPT !.asked = @ \union {r}, !.direct = direct, !.late = late]
    BY DEF Report
  <2> HIDE DEF direct, late
  <2>2. past = [asked |-> past.asked, direct |-> past.direct, failed |-> past.failed, late |-> past.late]
    BY DEF AllReported
  <2>3. /\ past'.asked = past.asked \union {r} /\ past'.direct = direct /\ past'.late = late
        /\ past'.failed = past.failed
    BY <2>1, <2>2
  <2> QED BY <2>3 DEF direct, late
<1>4. /\ \A d \in Id : d # r.id => pending'[d] = pending[d] /\ past'.direct[d] = past.direct[d]
      /\ pending'[r.id] = Coalesced(pending[r.id], r)
      /\ ~ Refused(r) => past'.direct[r.id] = Applied(past.direct[r.id], r)
  BY <1>1, <1>2, <1>3 DEF IInv, Tables, FInv, Recorded
<1>5. Recorded'
  <2>1. past'.direct = [d \in Id |-> past'.direct[d]]
    BY <1>3 DEF FInv, Recorded
  <2>2. past'.late \subseteq Id
    BY <1>1, <1>3 DEF FInv, Recorded
  <2> QED BY <2>1, <2>2, <1>2 DEF FInv, Recorded
<1>6. ASSUME Faithful, NEW d \in Id, Clean(d)' PROVE Told(d)' /\ Ahead(d)' /\ Caught(d)'
  <2>1. Clean(d)
    BY <1>3, <1>6 DEF Clean, Asked, Refused
  <2>2. Told(d) /\ Ahead(d) /\ Caught(d)
    BY <1>6, <2>1 DEF Faithful
  <2>3. Caught(d)'
    BY <2>2, <1>2 DEF Caught
  <2>4. CASE d # r.id
    BY <2>2, <2>3, <2>4, <1>2, <1>4 DEF Told, Ahead, UnderWay
  <2>5. CASE d = r.id
    <3>1. ~ Refused(r)
      BY <1>3, <1>6, <2>5 DEF Clean, Asked, Refused
    <3>2. PICK f \in Update \union {NONE} :
             UnderWay(d, f) /\ past.direct[d] = After(After(srv[d], f), pending[d])
      BY <2>2 DEF Told
    <3>3. srv[d].ver \in Nat /\ pending[d] \in Update \union {NONE}
      BY DEF AllReported, Served, Reported
    <3>4. f # NONE => \E S \in wire : f \in S
      BY <3>2 DEF UnderWay, FInv, Recorded
    <3>5. /\ After(srv[d], f).ver \in Nat
          /\ pending[d] # NONE /\ pending[d].props # NONE => pending[d].ver > After(srv[d], f).ver
      <4>1. CASE f = NONE
        BY <4>1, <2>2, <3>3 DEF After, Ahead
      <4>2. CASE f # NONE
        <5>1. f \in Update /\ f.ver \in Nat /\ f.id = d
          BY <4>2, <3>2 DEF Update, UnderWay
        <5>2. Applied(srv[d], f).ver \in {srv[d].ver, f.ver}
          BY <5>1, <3>3, AppliedForward
        <5>3. pending[d] # NONE /\ pending[d].props # NONE =>
                 pending[d].ver > srv[d].ver /\ pending[d].ver > f.ver
          BY <2>2, <3>4, <4>2, <5>1 DEF Ahead
        <5> QED BY <5>1, <5>2, <5>3, <4>2, <3>3 DEF After
      <4> QED BY <4>1, <4>2
    <3>6. /\ Coalesced(pending[d], r) # NONE
          /\ After(After(srv[d], f), Coalesced(pending[d], r)) = Applied(After(After(srv[d], f), pending[d]), r)
      BY <1>1, <3>3, <3>5, CoalescedAlike
    <3>7. Told(d)'
      <4>1. UnderWay(d, f)'
        BY <3>2, <1>2 DEF UnderWay
      <4>2. past'.direct[d] = After(After(srv'[d], f), pending'[d])
        BY <3>1, <3>2, <3>6, <2>5, <1>2, <1>4
      <4> QED BY <4>1, <4>2, <3>2 DEF Told
    <3>8. ASSUME r.props # NONE, NEW v, v = 0 \/ \E s \in Asked(d) : s.ver = v PROVE r.ver > v
      <4>1. CASE v = 0
        BY <4>1, <1>1
      <4>2. CASE \E s \in Asked(d) : s.ver = v
        <5>1. PICK s \in past.asked : s.id = r.id /\ s.ver = v
          BY <4>2, <2>5 DEF Asked
        <5>2. s \in Reports /\ s.ver \in Nat
          BY <5>1, ReportAssumption DEF AllReported, Update
        <5>3. s.ver # r.ver
          BY <5>1, <5>2, <1>2, VersionAssumption
        <5>4. ~ (s.ver > r.ver)
          BY <5>1, <3>8, <1>3, <1>6, <2>5 DEF Clean
        <5> QED BY <5>1, <5>2, <5>3, <5>4, <1>1
      <4> QED BY <3>8, <4>1, <4>2
    <3>9. ASSUME r.props # NONE
          PROVE  r.ver > srv[d].ver /\ \A S \in wire : \A u \in S : u.id = d => r.ver > u.ver
      <4>1. r.ver > srv[d].ver
        BY <3>8, <3>9 DEF AllReported, Served
      <4>2. ASSUME NEW S \in wire, NEW u \in S, u.id = d PROVE r.ver > u.ver
        <5>1. \E s \in Asked(d) : s.ver = u.ver
          BY <4>2 DEF AllReported, IsBatch, Reported
        <5> QED BY <5>1, <3>8, <3>9
      <4> QED BY <4>1, <4>2
    <3>10. Ahead(d)'
      <4> DEFINE p == pending[d]
      <4>1. pending'[d] = Coalesced(p, r)
        BY <1>4, <2>5
      <4>2. CASE p = NONE
        <5>1. pending'[d] = r
          BY <4>1, <4>2 DEF Coalesced
        <5> QED BY <5>1, <3>9, <1>2 DEF Ahead
      <4>3. CASE p # NONE /\ r.ver <= p.ver
        <5>1. pending'[d] = p
          BY <4>1, <4>3 DEF Coalesced
        <5> QED BY <5>1, <2>2, <1>2 DEF Ahead
      <4>4. CASE p # NONE /\ ~ (r.ver <= p.ver)
        <5> DEFINE x == IF r.props = NONE THEN p.props ELSE r.props
        <5>1. pending'[d] = [r EXCEPT !.props = x]
          BY <4>1, <4>4 DEF Coalesced
        <5>2. r = [id |-> r.id, ver |-> r.ver, props |-> r.props]
          BY <1>1 DEF Update
        <5>3. pending'[d].ver = r.ver /\ pending'[d].props = x
          BY <5>1, <5>2
        <5>4. CASE r.props # NONE
          BY <5>3, <5>4, <3>9, <1>2 DEF Ahead
        <5>5. CASE r.props = NONE /\ p.props # NONE
          <6>1. p.ver \in Nat /\ r.ver > p.ver
            BY <4>4, <3>3, <1>1 DEF Update
          <6>2. p.ver > srv[d].ver /\ \A S \in wire : \A u \in S : u.id = d => p.ver > u.ver
            BY <2>2, <4>4, <5>5 DEF Ahead
          <6>3. \A S \in wire : \A u \in S : u.id = d => u.ver \in Nat
            BY DEF AllReported, IsBatch, Reported, Update
          <6>4. r.ver > srv[d].ver
            BY <6>1, <6>2, <3>3, <1>1
          <6>5. \A S \in wire : \A u \in S : u.id = d => r.ver > u.ver
            BY <6>1, <6>2, <6>3, <1>1
          <6> QED BY <5>3, <6>4, <6>5, <1>2 DEF Ahead
        <5>6. CASE r.props = NONE /\ p.props = NONE
          BY <5>3, <5>6 DEF Ahead
        <5> QED BY <5>4, <5>5, <5>6
      <4> QED BY <4>2, <4>3, <4>4
    <3> QED BY <2>3, <3>7, <3>10
  <2> QED BY <2>4, <2>5
<1> QED BY <1>3, <1>5, <1>6 DEF FInv, Faithful

\* What was queued is under way.
LEMMA TakeFInv ==
    ASSUME IInv, AllReported, FInv, NEW by, Take(by),
           inflight = NONE \/ pending = Nothing, UNCHANGED <<srv, past>>
    PROVE  FInv'
<1>1. CASE pending = Nothing
  BY <1>1, IdleFInv DEF Take
<1>2. CASE pending # Nothing
  <2> DEFINE batch == {pending[d] : d \in Id} \ {NONE}
  <2>1. inflight = NONE
    BY <1>2
  <2>2. PICK n \in Send : /\ flying' = [flying EXCEPT ![n] = [batch |-> batch, by |-> by]]
                          /\ pending' = Nothing
                          /\ wire' = wire \union {batch}
    BY <1>2 DEF Take
  <2>3. \A m \in Send : flying[m].batch = {}
    BY <2>1, NoneAssumption DEF IInv, SendsChain, Busy
  <2>4. /\ \A m \in Send : m # n => flying'[m] = flying[m]
        /\ flying'[n].batch = batch
    <3>1. flying'[n] = [batch |-> batch, by |-> by]
      BY <2>2 DEF IInv, Tables
    <3>2. \A m \in Send : m # n => flying'[m] = flying[m]
      BY <2>2 DEF IInv, Tables
    <3> QED BY <3>1, <3>2
  <2>5. \A r \in batch : r.id \in Id /\ r = pending[r.id]
    <3>1. \A r \in batch : \E d \in Id : r = pending[d] /\ Reported(d, r)
      BY DEF AllReported
    <3> HIDE DEF batch
    <3> QED BY <3>1 DEF Reported
  <2>6. \A d \in Id : pending[d] # NONE => pending[d] \in batch /\ pending[d].id = d /\ pending[d] \in Update
    BY DEF AllReported, Reported
  <2> HIDE DEF batch
  <2>7. Recorded'
    BY <2>2, <2>3, <2>4 DEF FInv, Recorded
  <2>8. ASSUME Faithful, NEW d \in Id, Clean(d)' PROVE Told(d)' /\ Ahead(d)' /\ Caught(d)'
    <3>1. Clean(d)
      BY <2>8 DEF Clean, Asked, Refused
    <3>2. Told(d) /\ Ahead(d) /\ Caught(d)
      BY <2>8, <3>1 DEF Faithful
    <3>3. past.direct[d] = After(srv[d], pending[d])
      BY <3>2, <2>3 DEF Told, UnderWay, After
    <3>4. pending'[d] = NONE
      BY <2>2 DEF Nothing
    <3>5. PICK p : p = pending[d]
      OBVIOUS
    <3>6. UnderWay(d, p)'
      <4>1. ASSUME p = NONE, NEW m \in Send, NEW s \in flying'[m].batch PROVE s.id # d
        <5>1. s \in batch
          BY <4>1, <2>3, <2>4
        <5>2. s = pending[s.id] /\ s # NONE
          BY <5>1, <2>5 DEF batch
        <5> QED BY <5>2, <4>1, <3>5
      <4>2. ASSUME p # NONE PROVE p.id = d /\ p \in flying'[n].batch
        BY <4>2, <2>4, <2>6, <3>5
      <4> QED BY <4>1, <4>2 DEF UnderWay
    <3>7. Told(d)'
      <4>1. p \in Update \union {NONE}
        BY <2>6, <3>5
      <4>2. past'.direct[d] = After(After(srv'[d], p), pending'[d])
        BY <3>3, <3>4, <3>5 DEF After
      <4> QED BY <4>1, <4>2, <3>6 DEF Told
    <3>8. Caught(d)'
      <4> SUFFICES ASSUME NEW S \in wire', NEW r \in S, r.id = d
                   PROVE  r.ver <= srv[d].ver \/ \E m \in Send : r \in flying'[m].batch
        BY DEF Caught
      <4>1. CASE S = batch
        BY <4>1, <2>4
      <4>2. CASE S \in wire
        BY <4>2, <3>2, <2>3 DEF Caught
      <4> QED BY <4>1, <4>2, <2>2
    <3> QED BY <3>4, <3>7, <3>8 DEF Ahead
  <2> QED BY <2>7, <2>8 DEF FInv, Faithful
<1> QED BY <1>1, <1>2

\* A flush, called: it waits or goes on.
LEMMA FlushFInv ==
    ASSUME IInv, AllReported, FInv, NEW by, Flush(by), UNCHANGED <<srv, past>>
    PROVE  FInv'
<1>1. CASE inflight = NONE
  BY <1>1, TakeFInv DEF Flush
<1>2. CASE inflight # NONE
  BY <1>2, IdleFInv DEF Flush
<1> QED BY <1>1, <1>2

\* What was under way is at the server.
LEMMA SucceedFInv ==
    ASSUME IInv, AllReported, FInv, NEW n \in Send, Succeed(n)
    PROVE  FInv'
<1>1. /\ Busy(n) /\ Settled(n, FALSE)
      /\ Arrives(flying[n].batch) /\ pending' = Requeued({}) /\ wire' = wire /\ past' = past
  BY DEF Succeed, Kept
<1>2. IsBatch(flying[n].batch)
  BY DEF AllReported
<1>3. \A d \in Id : pending'[d] = pending[d]
  BY <1>1 DEF Requeued
<1>4. /\ \A m \in Send : m # n => flying[m].batch = {} /\ flying'[m] = flying[m]
      /\ flying'[n].batch = {}
  BY <1>1 DEF IInv, Tables, SendsChain, Busy, Settled, NoSend
<1>5. Recorded'
  BY <1>1, <1>4 DEF FInv, Recorded
<1>6. ASSUME Faithful, NEW d \in Id, Clean(d)' PROVE Told(d)' /\ Ahead(d)' /\ Caught(d)'
  <2>1. Clean(d)
    BY <1>1, <1>6 DEF Clean, Asked, Refused
  <2>2. Told(d) /\ Ahead(d) /\ Caught(d)
    BY <1>6, <2>1 DEF Faithful
  <2>3. PICK f \in Update \union {NONE} :
           UnderWay(d, f) /\ past.direct[d] = After(After(srv[d], f), pending[d])
    BY <2>2 DEF Told
  <2>4. /\ srv'[d] = After(srv[d], f)
        /\ f # NONE => f.id = d /\ \E S \in wire : f \in S
    <3>1. CASE f = NONE
      <4>1. \A s \in flying[n].batch : s.id # d
        BY <3>1, <2>3 DEF UnderWay
      <4> QED BY <4>1, <3>1, <1>1, <1>2, <2>1, ArrivesApplied DEF After
    <3>2. CASE f # NONE
      <4>1. f.id = d /\ f \in flying[n].batch
        BY <3>2, <2>3, <1>4 DEF UnderWay
      <4>2. srv'[d] = Applied(srv[d], f)
        BY <4>1, <1>1, <1>2, <2>1, ArrivesApplied
      <4> QED BY <4>1, <4>2, <3>2 DEF After, FInv, Recorded
    <3> QED BY <3>1, <3>2
  <2>5. srv[d].ver \in Nat
    BY DEF AllReported, Served
  <2>6. srv'[d].ver >= srv[d].ver /\ (srv'[d].ver = srv[d].ver \/ (f # NONE /\ srv'[d].ver = f.ver))
    <3>1. CASE f = NONE
      <4>1. srv'[d] = srv[d]
        BY <3>1, <2>4 DEF After
      <4>2. srv'[d].ver = srv[d].ver
        BY <4>1
      <4> QED BY <4>2, <2>5
    <3>2. CASE f # NONE
      <4>1. f \in Update
        BY <3>2
      <4>2. srv'[d] = Applied(srv[d], f)
        BY <3>2, <2>4 DEF After
      <4>3. Applied(srv[d], f).ver \in {srv[d].ver, f.ver} /\ Applied(srv[d], f).ver >= srv[d].ver
        BY <4>1, <2>5, AppliedForward
      <4>4. srv'[d].ver = Applied(srv[d], f).ver
        BY <4>2
      <4>5. srv'[d].ver >= srv[d].ver
        BY <4>3, <4>4
      <4>6. srv'[d].ver = srv[d].ver \/ srv'[d].ver = f.ver
        BY <4>3, <4>4
      <4> QED BY <4>5, <4>6, <3>2
    <3> QED BY <3>1, <3>2
  <2>7. Told(d)'
    <3>1. UnderWay(d, NONE)'
      BY <1>4 DEF UnderWay
    <3>2. past'.direct[d] = After(After(srv'[d], NONE), pending'[d])
      BY <2>3, <2>4, <1>1, <1>3 DEF After
    <3> QED BY <3>1, <3>2 DEF Told
  <2>8. Ahead(d)'
    BY <2>2, <2>4, <2>6, <1>1, <1>3 DEF Ahead
  <2>9. Caught(d)'
    <3> SUFFICES ASSUME NEW S \in wire, NEW r \in S, r.id = d PROVE r.ver <= srv'[d].ver
      BY <1>1 DEF Caught
    <3>1. r.ver \in Nat /\ srv'[d].ver \in Nat /\ r \in Update
      <4>1. r \in Update
        BY DEF AllReported, IsBatch, Reported
      <4>2. f # NONE => f.ver \in Nat
        BY DEF Update
      <4> QED BY <4>1, <4>2, <2>5, <2>6 DEF Update
    <3>2. CASE r.ver <= srv[d].ver
      BY <3>1, <3>2, <2>5, <2>6
    <3>3. CASE \E m \in Send : r \in flying[m].batch
      <4>1. PICK m \in Send : r \in flying[m].batch
        BY <3>3
      <4>2. f = r
        BY <4>1, <2>3, OneUnderWay
      <4>3. srv'[d] = Applied(srv[d], r)
        BY <4>2, <2>4, <3>1, NoneAssumption DEF After
      <4>4. Applied(srv[d], r).ver >= r.ver
        BY <2>5, <3>1, AppliedForward
      <4> QED BY <4>3, <4>4, <3>1
    <3> QED BY <3>2, <3>3, <2>2 DEF Caught
  <2> QED BY <2>7, <2>8, <2>9
<1> QED BY <1>1, <1>5, <1>6 DEF FInv, Faithful

\* A send that failed ends what is claimed.
LEMMA FailFInv ==
    ASSUME IInv, AllReported, FInv, NEW n \in Send, Fail(n)
    PROVE  FInv'
<1>1. /\ Busy(n) /\ wire' = wire /\ past' = [past EXCEPT !.failed = TRUE]
      /\ \E error : Settled(n, error)
  BY DEF Fail
<1>2. past'.failed = TRUE /\ past'.direct = past.direct /\ past'.late = past.late
  BY <1>1 DEF AllReported
<1>3. \A m \in Send : flying'[m].batch = {}
  BY <1>1 DEF IInv, Tables, SendsChain, Busy, Settled, NoSend
<1>4. Recorded'
  BY <1>2, <1>3 DEF FInv, Recorded
<1> QED BY <1>2, <1>4 DEF FInv

\* What arrives late or again is no news, and what arrives early is applied once.
LEMMA DeliverFInv ==
    ASSUME IInv, AllReported, FInv, NEW batch \in wire, Deliver(batch)
    PROVE  FInv'
<1>1. UNCHANGED <<pending, flying, wire, past>>
  BY DEF Deliver, client
<1>2. PICK S \in SUBSET batch : Arrives(S)
  BY DEF Deliver
<1>3. IsBatch(S)
  BY DEF AllReported, IsBatch
<1>4. Recorded'
  BY <1>1 DEF FInv, Recorded
<1>5. ASSUME Faithful, NEW d \in Id, Clean(d)' PROVE Told(d)' /\ Ahead(d)' /\ Caught(d)'
  <2>1. Clean(d)
    BY <1>1, <1>5 DEF Clean, Asked, Refused
  <2>2. Told(d) /\ Ahead(d) /\ Caught(d)
    BY <1>5, <2>1 DEF Faithful
  <2>3. PICK f \in Update \union {NONE} :
           UnderWay(d, f) /\ past.direct[d] = After(After(srv[d], f), pending[d])
    BY <2>2 DEF Told
  <2>4. UnderWay(d, f)'
    BY <2>3, <1>1 DEF UnderWay
  <2>5. srv[d].ver \in Nat
    BY DEF AllReported, Served
  <2>6. CASE srv'[d] = srv[d]
    <3>1. Told(d)'
      BY <2>3, <2>4, <2>6, <1>1 DEF Told
    <3>2. Ahead(d)' /\ Caught(d)'
      BY <2>2, <2>6, <1>1 DEF Ahead, Caught
    <3> QED BY <3>1, <3>2
  <2>7. CASE srv'[d] # srv[d]
    <3>1. PICK r \in S : r.id = d
      BY <2>7, <1>2, <1>3, <2>1, ArrivesApplied
    <3>2. srv'[d] = Applied(srv[d], r)
      BY <3>1, <1>2, <1>3, <2>1, ArrivesApplied
    <3>3. r \in Update /\ r.ver \in Nat
      BY <1>3 DEF IsBatch, Reported, Update
    <3>4. ~ (r.ver <= srv[d].ver)
      BY <3>2, <3>3, <2>5, <2>7, AppliedForward
    <3>5. PICK m \in Send : r \in flying[m].batch
      BY <3>1, <3>4, <2>2 DEF Caught
    <3>6. f = r
      BY <3>1, <3>5, <2>3, OneUnderWay
    <3>7. r # NONE
      BY <3>3, NoneAssumption
    <3>8. /\ srv'[d].ver \in {srv[d].ver, r.ver} /\ srv'[d].ver >= srv[d].ver
          /\ Applied(srv'[d], r) = srv'[d]
      BY <3>2, <3>3, <2>5, AppliedForward, AppliedAgain
    <3>9. Told(d)'
      <4>1. After(srv'[d], f) = After(srv[d], f)
        BY <3>2, <3>6, <3>7, <3>8 DEF After
      <4> QED BY <4>1, <2>3, <2>4, <1>1 DEF Told
    <3>10. Ahead(d)'
      BY <3>1, <3>8, <2>2, <1>1 DEF Ahead
    <3>11. Caught(d)'
      <4> SUFFICES ASSUME NEW T \in wire, NEW u \in T, u.id = d
                   PROVE  u.ver <= srv'[d].ver \/ \E k \in Send : u \in flying[k].batch
        BY <1>1 DEF Caught
      <4>1. u.ver \in Nat
        BY DEF AllReported, IsBatch, Reported, Update
      <4>2. u.ver <= srv[d].ver \/ \E k \in Send : u \in flying[k].batch
        BY <2>2 DEF Caught
      <4> QED BY <4>1, <4>2, <3>3, <3>8, <2>5
    <3> QED BY <3>9, <3>10, <3>11
  <2> QED BY <2>6, <2>7
<1> QED BY <1>1, <1>4, <1>5 DEF FInv, Faithful

\* Until a send fails, the server, what is under way and what is queued come to what the
\* server would hold had it been told at once.
THEOREM SpecFInv == Spec => []FInv
<1>1. NInv /\ FInv /\ [Next]_vars => FInv'
  <2> SUFFICES ASSUME IInv, AllReported, FInv, [Next]_vars PROVE FInv'
    BY DEF NInv
  <2>1. ASSUME NEW r \in Reports, Report(r) PROVE FInv'
    BY <2>1, ReportFInv
  <2>2. CASE Tick
    BY <2>2, FlushFInv DEF Tick
  <2>3. CASE Close
    BY <2>3, FlushFInv DEF Close
  <2>4. CASE Resume
    <3>1. inflight = NONE \/ pending = Nothing
      BY <2>4 DEF Resume, IInv, TakenAtOnce
    <3> QED BY <2>4, <3>1, TakeFInv DEF Resume
  <2>5. ASSUME NEW n \in Send, Succeed(n) PROVE FInv'
    BY <2>5, SucceedFInv
  <2>6. ASSUME NEW n \in Send, Fail(n) PROVE FInv'
    BY <2>6, FailFInv
  <2>7. ASSUME NEW batch \in wire, Deliver(batch) PROVE FInv'
    BY <2>7, DeliverFInv
  <2>8. CASE UNCHANGED vars
    BY <2>8, IdleFInv DEF vars, client
  <2> QED BY <2>1, <2>2, <2>3, <2>4, <2>5, <2>6, <2>7, <2>8 DEF Next
<1> QED BY InitFInv, SpecNInv, <1>1, PTL DEF Spec

\* With nothing queued or under way, that is what the server holds.
LEMMA FInvSettles == FInv => SettlesUnfailed
<1> SUFFICES ASSUME FInv, ~ past.failed, pending = Nothing, Flown = {},
                    NEW d \in Id \ past.late, \A r \in Asked(d) : ~ Refused(r)
             PROVE  srv[d] = past.direct[d]
  BY DEF SettlesUnfailed, Settles
<1>1. Told(d)
  BY DEF FInv, Faithful, Clean
<1>2. \A n \in Send : flying[n].batch = {}
  BY DEF Flown, NoSend
<1>3. pending[d] = NONE
  BY DEF Nothing
<1> QED BY <1>1, <1>2, <1>3 DEF Told, UnderWay, After

\* Until a send fails, coalescing, batches, late and repeated arrivals make no difference to
\* what the server holds in the end: it is what it would hold had every report been sent at once.
THEOREM ServerSettles == Spec => []SettlesUnfailed
BY SpecFInv, FInvSettles, PTL

=============================================================================
