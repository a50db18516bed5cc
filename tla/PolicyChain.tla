---------------------------- MODULE PolicyChain -----------------------------
(***************************************************************************)
(* agent-core/permissions.rs: what PolicyChain::default_chain says of a    *)
(* tool call.                                                              *)
(*                                                                         *)
(* A call is its tool's name, as the sequence of the parts between "__",   *)
(* and the "command" of its input ("" without one).  Which texts contain a *)
(* pattern is a constant.                                                  *)
(***************************************************************************)
EXTENDS Integers, Sequences

CONSTANTS
    DenyListed,     \* commands with a DenyListPolicy pattern in them
    Destructive     \* parts with a DESTRUCTIVE_* pattern, in any case, in them

Verdict == {"Allow", "RequiresApproval", "Deny"}

LastPart(call) == call.name[Len(call.name)]

(* One policy each: its verdict, or "none" to pass the call on.            *)
DenyList(call) ==
    IF call.command \in DenyListed THEN "Deny" ELSE "none"

ReadOnly == {"file_read", "glob", "grep", "memory_fetch", "memory_list"}

(* A name that is listed as a whole has one part.                          *)
AllowList(call) ==
    IF LastPart(call) \in ReadOnly THEN "Allow" ELSE "none"

DestructivePattern(call) ==
    IF \E k \in DOMAIN call.name : call.name[k] \in Destructive
    THEN "RequiresApproval" ELSE "none"

DefaultRequiresApproval(call) == "RequiresApproval"

AllowListFirst(call) ==          \* slip: the first two layers swapped
    <<AllowList(call), DenyList(call),
      DestructivePattern(call), DefaultRequiresApproval(call)>>
DefaultChain(call) ==
    <<DenyList(call), AllowList(call),
      DestructivePattern(call), DefaultRequiresApproval(call)>>

(* The first policy with an opinion.                                       *)
Decides(opinions, k) ==
    /\ opinions[k] # "none"
    /\ \A j \in 1..(k - 1) : opinions[j] = "none"

Check(call) ==
    LET opinions == DefaultChain(call)
    IN  opinions[CHOOSE k \in DOMAIN opinions : Decides(opinions, k)]
=============================================================================
