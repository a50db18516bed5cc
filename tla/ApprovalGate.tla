---------------------------- MODULE ApprovalGate ----------------------------
(***************************************************************************)
(* What the harness promises about tool calls that need the user's         *)
(* consent.  A request is asked at most once, is resolved at most once,    *)
(* and its tool runs only if the resolution was an approval.  A timeout,   *)
(* a refusal and a lost client are all the same to the gate: Refuse.       *)
(* WsSession implements this module.                                       *)
(***************************************************************************)

CONSTANT Request      \* one element per confirmation prompt that may be sent

VARIABLE phase        \* phase[r]: how far request r has got

Phase == {"fresh", "asked", "approved", "refused", "executed"}

Init == phase = [r \in Request |-> "fresh"]

Move(r, from, to) ==
    /\ phase[r] = from
    /\ phase' = [phase EXCEPT ![r] = to]

Ask(r)     == Move(r, "fresh", "asked")
Approve(r) == Move(r, "asked", "approved")
Refuse(r)  == Move(r, "asked", "refused")
Execute(r) == Move(r, "approved", "executed")

Next == \E r \in Request : Ask(r) \/ Approve(r) \/ Refuse(r) \/ Execute(r)

Spec == Init /\ [][Next]_phase

(* The liveness half: nobody is kept waiting, and consent is acted upon.   *)
Fairness ==
    \A r \in Request : /\ WF_phase(Approve(r) \/ Refuse(r))
                       /\ WF_phase(Execute(r))

FairSpec == Spec /\ Fairness
=============================================================================
