------------------------------- MODULE MCChat -------------------------------
(***************************************************************************)
(* Chat with two turns, started by two messages of the user, whose calls   *)
(* PolicyChain judges: a tool that is read-only by the last part of its    *)
(* name, in a skill with a destructive name; a read-only tool with a       *)
(* command of the deny list; and a destructive tool.                       *)
(***************************************************************************)
EXTENDS Chat, WsPolicy, TLC

MCDenyListed == {"mkfs /dev/sda"}
MCDestructive == {"sendgrid", "send"}

MCTool == {[name |-> <<"sendgrid", "all", "grep">>, command |-> ""],
           [name |-> <<"notes", "grep">>, command |-> "mkfs /dev/sda"],
           [name |-> <<"notes", "send">>, command |-> ""]}

MCPermission == [call \in Tool |-> Check(call)]

MCSymmetry == Permutations(Turn)
=============================================================================
