-------------------------------- MODULE Chat --------------------------------
(***************************************************************************)
(* The REPL of edgeclaw-cli (chat/mod.rs run_chat) as the client of a      *)
(* WsSession.                                                              *)
(*                                                                         *)
(* WsSession's own client may answer any prompt it has seen, at any time   *)
(* and as often as it likes.  This one has room for a single prompt, which *)
(* a later one replaces, and one key answers it.  Every step below is a    *)
(* step of WsSession's client or leaves the session alone, so what holds   *)
(* of every session holds of this one.                                     *)
(*                                                                         *)
(* The connection is up in Init: to a server that was there, or to one     *)
(* that connect_and_handshake started in the client's own process.         *)
(***************************************************************************)
EXTENDS WsSession

CONSTANT MaxUnread    \* bound: messages between the socket and the screen

ASSUME UnreadAssumption == MaxUnread \in Nat \ {0}

VARIABLES
    server,           \* who runs it: "other", "own" (server_handle), "gone"
    unread,           \* server_rx, and what the reader task has yet to read
    pendingApproval,  \* pending_approval: at most one request
    typing,           \* is there text in input_buffer?
    approvalMode,     \* does the prompt line offer [y] and [n]?
    overwritten       \* observation: requests replaced by a later one

chatVars == <<server, unread, pendingApproval, typing, approvalMode, overwritten>>
allVars == <<vars, chatVars>>

ChatTypeOK ==
    /\ server \in {"other", "own", "gone"}
    /\ unread \in Seq(ServerMessage) /\ Len(unread) <= MaxUnread
    /\ pendingApproval \in {{}} \cup {{r} : r \in Request}
    /\ typing \in BOOLEAN
    /\ approvalMode \in BOOLEAN
    /\ approvalMode => pendingApproval # {}
    /\ overwritten \subseteq Request

ChatInit ==
    /\ Init
    /\ server \in {"other", "own"}
    /\ unread = <<>> /\ pendingApproval = {} /\ overwritten = {}
    /\ typing = FALSE /\ approvalMode = FALSE

Running == "client" \in live

-----------------------------------------------------------------------------
(* The session goes on while its server does.  The socket and the reader   *)
(* task carry to the loop what the session's outbound pump delivers.       *)

SessionStep ==
    /\ InboundStep \/ OutboundLosesMessage \/ OutboundEnds \/ Cleanup
         \/ \E t \in Turn : TurnStep(t)
    /\ server # "gone"
    /\ UNCHANGED chatVars

Receives ==
    /\ server # "gone" /\ Len(unread) < MaxUnread
    /\ OutboundDelivers
    /\ unread' = Append(unread, Head(channel))
    /\ UNCHANGED <<server, pendingApproval, typing, approvalMode, overwritten>>

(* A server of its own process dies when the client ends; see Quits.       *)
ServerDies ==
    /\ server = "other"
    /\ server' = "gone"
    /\ UNCHANGED <<vars, unread, pendingApproval, typing, approvalMode, overwritten>>

-----------------------------------------------------------------------------
(* The branch of select! for a server message: only a prompt changes       *)
(* pending_approval, any message redraws the line.  When the reader has    *)
(* ended and nothing is left the branch is disabled; the loop goes on.     *)
Renders ==
    /\ Running /\ unread # <<>>
    /\ unread' = Tail(unread)
    /\ IF Head(unread).type = "confirmation_prompt"
       THEN /\ pendingApproval' = {Head(unread).request}
            /\ overwritten' = overwritten \cup pendingApproval
       ELSE UNCHANGED <<pendingApproval, overwritten>>
    /\ approvalMode' = (pendingApproval' # {})
    /\ UNCHANGED <<vars, server, typing>>

(* The branch for a key.  y or n answers whatever is pending, text in the  *)
(* buffer or not, and goes into the text otherwise.                        *)
Peeked == pendingApproval        \* slip: the answer is read with as_ref
Taken == {}
StillOffered == TRUE             \* slip: draw_prompt(&input_buffer, true)
NotOffered == FALSE

AnswersKey(a) ==
    /\ \E r \in pendingApproval : ClientAnswers(r, a)
    /\ pendingApproval' = Taken
    /\ approvalMode' = NotOffered
    /\ UNCHANGED <<server, unread, typing, overwritten>>

(* Any other character, or y and n with nothing pending.                   *)
TypesText ==
    /\ Running
    /\ typing' = TRUE /\ approvalMode' = FALSE
    /\ UNCHANGED <<vars, server, unread, pendingApproval, overwritten>>

Backspace ==
    /\ Running
    /\ typing' \in {typing, FALSE}
    /\ approvalMode' = (pendingApproval # {})
    /\ UNCHANGED <<vars, server, unread, pendingApproval, overwritten>>

Enter ==
    /\ typing
    /\ \E t \in Turn : ClientSendsUserMessage(t)
    /\ typing' = FALSE /\ approvalMode' = FALSE
    /\ UNCHANGED <<server, unread, pendingApproval, overwritten>>

(* Ctrl-C or Ctrl-D.  A server started by the client goes with it, in      *)
(* whatever step its turns are.                                            *)
Quits ==
    /\ ClientCloses
    /\ server' = IF server = "own" THEN "gone" ELSE server
    /\ UNCHANGED <<unread, pendingApproval, typing, approvalMode, overwritten>>

(* A send to a server that is gone may still be buffered (AnswersKey and   *)
(* Enter), or it fails and `?` ends the client.                            *)
SendFails ==
    /\ server = "gone" /\ ClientCloses
    /\ \/ pendingApproval # {} /\ pendingApproval' = {} /\ UNCHANGED typing
       \/ typing /\ typing' = FALSE /\ UNCHANGED pendingApproval
    /\ approvalMode' = FALSE
    /\ UNCHANGED <<server, unread, overwritten>>

-----------------------------------------------------------------------------
KeyStep ==
    \/ \E a \in Answer : AnswersKey(a)
    \/ TypesText \/ Backspace \/ Enter \/ Quits

ChatNext ==
    SessionStep \/ Receives \/ ServerDies \/ Renders \/ KeyStep \/ SendFails

ChatSpec == ChatInit /\ [][ChatNext]_allVars

-----------------------------------------------------------------------------
(* A prompt that another one replaced on the screen before it was answered *)
(* is lost for good: no later key answers it, and its tool never runs.  Nor *)
(* is a prompt answered that is yet to be shown, or the pending one twice. *)
Unanswered(r) == firstAnswer[r] = "none" /\ ~Ran(r)

Unrendered == {r \in Request : \E k \in 1..Len(unread) :
                   /\ unread[k].type = "confirmation_prompt"
                   /\ unread[k].request = r}

LostPromptsStayUnanswered ==
    \A r \in overwritten \cup pendingApproval \cup Unrendered : Unanswered(r)
=============================================================================
