--------------------------- MODULE MCConversation ---------------------------
(* Conversation with a small window.                                       *)
EXTENDS Conversation, TLC

(* Turns differ in nothing but their names.                                *)
MCSymmetry == Permutations(Turn)
=============================================================================
