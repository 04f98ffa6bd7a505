----------------------------- MODULE MCReplicas -----------------------------
(***************************************************************************)
(* Two servers, one with room for two handlers and a single worker, where  *)
(* requests wait for workers; one that admits a single handler and has two *)
(* workers, where a hang-up lets the next request in beside a job that is  *)
(* still running.  The client retries once.                                *)
(*                                                                         *)
(* Replicas meet only where a call settles, so one call goes to both; the  *)
(* plans of two calls, where requests of the first linger into the second, *)
(* go to one.                                                              *)
(***************************************************************************)
EXTENDS Replicas, TLC

MCReport(v) == [kind |-> "report", ver |-> v]
MCRemove    == [kind |-> "remove", ver |-> 0]
MCRefusable == [kind |-> "refusable", ver |-> 3]

MCPlan(us, cs, c, s) ==
    [urls |-> us, calls |-> cs, crashes |-> c, saves |-> s]
MCPlans ==
    {MCPlan({"a", "b"}, <<MCReport(1)>>, 0, 0),
     MCPlan({"b"}, <<MCReport(1), MCReport(2)>>, 1, 1),
     MCPlan({"a"}, <<MCReport(2), MCReport(1)>>, 0, 0),
     MCPlan({"a"}, <<MCRemove, MCReport(1)>>, 0, 0),
     MCPlan({"b"}, <<MCReport(1), MCRemove>>, 0, 0),
     MCPlan({"a"}, <<MCRefusable, MCReport(1)>>, 0, 0)}

MCRequest  == {1, 2} \X {0, 1}
MCInflight == "a" :> 2 @@ "b" :> 1
MCBlocking == "a" :> 1 @@ "b" :> 2
=============================================================================
