------------------------------ MODULE Exchange ------------------------------
(***************************************************************************)
(* What a server promises about one request that writes.  It takes effect  *)
(* at most once.  It is acknowledged only when the whole of it has.        *)
(* "Busy" means that nothing of it has taken effect or ever will, so that  *)
(* it may be sent again.  A refusal promises less: some of it may have     *)
(* taken effect, never the whole.  After an answer nothing changes, and    *)
(* nothing is promised to a caller that hears none.                        *)
(***************************************************************************)
VARIABLES
    applied,  \* how much of the request has taken effect: "none", "part" or "whole"
    answer    \* "none", "yes", "busy" or "refused"

vars == <<applied, answer>>

Init == applied = "none" /\ answer = "none"

Apply == applied = "none" /\ answer = "none" /\ applied' = "whole" /\ UNCHANGED answer

Acknowledge == applied = "whole" /\ answer = "none" /\ answer' = "yes" /\ UNCHANGED applied

Decline ==
    /\ applied = "none" /\ answer = "none"
    /\ answer' \in {"busy", "refused"} /\ UNCHANGED applied

\* The caller may be gone before it hears of the refusal.
RefuseInPart ==
    /\ applied = "none" /\ answer = "none"
    /\ applied' = "part" /\ answer' \in {"refused", "none"}

Next == Apply \/ Acknowledge \/ Decline \/ RefuseInPart

Spec == Init /\ [][Next]_vars

=============================================================================
