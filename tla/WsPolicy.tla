------------------------------ MODULE WsPolicy ------------------------------
(***************************************************************************)
(* WsSession with the policy chain that run_agent_turn asks: what a tool   *)
(* is to the session is a call as PolicyChain sees it, and Permission is   *)
(* the chain's verdict.                                                    *)
(***************************************************************************)
EXTENDS WsSession, PolicyChain

ASSUME CallAssumption ==
    \A call \in Tool : call.name \in Seq(STRING) /\ call.name # <<>>

ASSUME PolicyAssumption == Permission = [call \in Tool |-> Check(call)]

(* A call runs without the user having been asked exactly if the last part *)
(* of its name is on the read-only list and its command is not on the deny *)
(* list, whatever the other layers say of it (ARCHITECTURE.md: the chain   *)
(* "evaluates in strict order").                                           *)
OnlyReadOnlyRunsUnasked ==
    \A e \in executed :
        e[1] \notin asked <=>
            LastPart(e[2]) \in ReadOnly /\ e[2].command \notin DenyListed
=============================================================================
