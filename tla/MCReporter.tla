----------------------------- MODULE MCReporter -----------------------------
(***************************************************************************)
(* A small instance of Reporter: two devices, three reports of one, with   *)
(* and without props and in any order, and two of the other of which one   *)
(* has props the server refuses.                                           *)
(***************************************************************************)
EXTENDS Reporter

MCReports ==
    {[id |-> "a", ver |-> 1, props |-> 1], [id |-> "a", ver |-> 2, props |-> 2],
     [id |-> "a", ver |-> 3, props |-> NONE],
     [id |-> "b", ver |-> 8, props |-> 8], [id |-> "b", ver |-> 9, props |-> NONE]}
=============================================================================
