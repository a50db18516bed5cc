---------------------------- MODULE MCWsSession -----------------------------
(* WsSession on small instances, with tool calls that the policy chain     *)
(* judges: it allows one, asks for another and denies the third.           *)
EXTENDS WsPolicy

MCDenyListed == {"mkfs /dev/sda"}
MCDestructive == {"delete"}

MCRead == [name |-> <<"file_read">>, command |-> ""]
MCShell == [name |-> <<"bash">>, command |-> "ls"]
MCFormat == [name |-> <<"bash">>, command |-> "mkfs /dev/sda"]

MCTool == {MCRead, MCShell}
MCGated == {MCShell}
MCDenied == {MCFormat}

MCPermission == [call \in Tool |-> Check(call)]
=============================================================================
