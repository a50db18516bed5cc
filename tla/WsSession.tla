----------------------------- MODULE WsSession ------------------------------
(***************************************************************************)
(* One WebSocket session of edgeclaw-server and the agent turns it runs.   *)
(*                                                                         *)
(*   handlers.rs  handle_ws_connection: an inbound pump that dispatches    *)
(*                client messages, an outbound pump that drains a bounded  *)
(*                channel to the socket, and the clean-up of the session.  *)
(*   agent.rs     run_agent_turn: the harness loop that asks for consent,  *)
(*                executes tools and resumes the model.                    *)
(*                                                                         *)
(* The handshake is over in Init.  Every turn is a task of its own, so     *)
(* several turns of the session interleave at each await.  (Turns started  *)
(* in AutoApprove mode have no session and share none of this state.)      *)
(***************************************************************************)
EXTENDS Integers, Sequences

CONSTANTS
    Turn,         \* turns the client may start with a user message
    Tool,         \* tools the model may call
    Permission,   \* what PolicyChain::check says of each tool
    MaxRounds,    \* bound: responses with tool calls in one turn
    MaxCalls,     \* bound: tool calls in one response
    Capacity,     \* capacity of the session's mpsc channel (32 in the code)
    MaxInFlight   \* bound: client messages not yet read by the inbound pump

ASSUME PermissionAssumption ==
    Permission \in [Tool -> {"Allow", "RequiresApproval", "Deny"}]

ASSUME BoundAssumption ==
    /\ MaxRounds \in Nat \ {0}
    /\ MaxCalls \in Nat \ {0}
    /\ Capacity \in Nat \ {0}
    /\ MaxInFlight \in Nat \ {0}

VARIABLES
    live,         \* which parts of the session are up, see Part
    inbox,        \* client messages on their way to the inbound pump
    channel,      \* the mpsc channel from the turns to the outbound pump
    pending,      \* keys of the pending_approvals map
    turn,         \* turn[t]: local state of run_agent_turn, see LocalState
    (* Observations that no step of the server reads.                      *)
    shown,        \* prompts that reached the client
    replied,      \* turns whose final message reached the client
    asked,        \* requests ever registered
    firstAnswer,  \* firstAnswer[r]: the first answer the client sent to r
    executed      \* <<request, tool>> for every call handed to the executor

vars == <<live, inbox, channel, pending, turn,
          shown, replied, asked, firstAnswer, executed>>

(* The client's end of the socket, the two pumps (the channel's receiver   *)
(* belongs to the outbound one) and the entry in AppState.sessions.        *)
Part == {"client", "inbound", "outbound", "registry"}

(* A tool call is known by its turn, the round and its place in the batch; *)
(* a prompt's uuid is represented by the call it is for.                   *)
Request == Turn \X (1..MaxRounds) \X (1..MaxCalls)
Batch == UNION {[1..n -> Tool] : n \in 1..MaxCalls}
Answer == {"yes", "no"}

ClientMessage ==
    [type : {"user_message"}, turn : Turn] \cup
    [type : {"approval_response"}, request : Request, approved : Answer]

ServerMessage ==
    [type : {"confirmation_prompt"}, request : Request] \cup
    [type : {"tool_executed", "agent_response", "agent_error"}, turn : Turn]

Location == {"idle", "llm", "check", "prompt", "wait", "exec", "progress",
             "persist", "respond", "error", "done"}

LocalState ==
    [pc : Location,                    \* where run_agent_turn stands
     round : 0..MaxRounds,             \* responses with tool calls so far
     batch : Seq(Tool),                \* result.pending_tool_calls
     next : 1..(MaxCalls + 1),         \* position of the for loop in batch
     results : Seq({"executed", "denied"}),          \* tool_results
     verdict : Answer \cup {"none"}]   \* content of the turn's oneshot

TypeOK ==
    /\ live \subseteq Part
    /\ inbox \in Seq(ClientMessage)
    /\ channel \in Seq(ServerMessage)
    /\ Len(channel) <= Capacity
    /\ pending \subseteq Request
    /\ turn \in [Turn -> LocalState]
    /\ shown \subseteq Request
    /\ replied \subseteq Turn
    /\ asked \subseteq Request
    /\ firstAnswer \in [Request -> Answer \cup {"none"}]
    /\ executed \subseteq Request \X Tool

Idle == [pc |-> "idle", round |-> 0, batch |-> <<>>, next |-> 1,
         results |-> <<>>, verdict |-> "none"]

Init ==
    /\ live = Part
    /\ inbox = <<>>
    /\ channel = <<>>
    /\ pending = {}
    /\ turn = [t \in Turn |-> Idle]
    /\ shown = {} /\ replied = {} /\ asked = {} /\ executed = {}
    /\ firstAnswer = [r \in Request |-> "none"]

-----------------------------------------------------------------------------
At(t, l) == turn[t].pc = l
Current(t) == <<t, turn[t].round, turn[t].next>>
CurrentTool(t) == turn[t].batch[turn[t].next]
BatchHandled(t) == turn[t].next > Len(turn[t].batch)

(* A call stops for consent unless the policy allows it: Deny is treated   *)
(* as RequiresApproval.                                                    *)
Gated(tool) == Permission[tool] # "Allow"

(* The turn still holds the receiver of the oneshot registered for r.      *)
AwaitsAnyRequest(r) ==       \* slip: matched by turn instead of request id
    turn[r[1]].pc \in {"prompt", "wait"}
Awaits(r) == turn[r[1]].pc \in {"prompt", "wait"} /\ Current(r[1]) = r

(* server_tx.send(m).await: waits for room; fails at once, and is ignored, *)
(* when the outbound pump has dropped the receiver.                        *)
ReceiverNeverGone == FALSE   \* slip: the send waits on a channel nobody reads
ReceiverGone == "outbound" \notin live
SendIgnoringCapacity(m) ==   \* slip: an unbounded channel
    channel' = IF ReceiverGone THEN channel ELSE Append(channel, m)
SendToClient(m) ==
    \/ ReceiverGone /\ UNCHANGED channel
    \/ /\ "outbound" \in live /\ Len(channel) < Capacity
       /\ channel' = Append(channel, m)

-----------------------------------------------------------------------------
(* The client.  It may answer any prompt it has seen, again and again, and *)
(* at any time, also long after the turn gave up on it.                    *)

UserMessage(t) == [type |-> "user_message", turn |-> t]

ClientSendsUserMessage(t) ==
    /\ "client" \in live /\ Len(inbox) < MaxInFlight
    /\ At(t, "idle")
    /\ \A k \in 1..Len(inbox) : inbox[k] # UserMessage(t)
    /\ inbox' = Append(inbox, UserMessage(t))
    /\ UNCHANGED <<live, channel, pending, turn,
                   shown, replied, asked, firstAnswer, executed>>

ClientAnswers(r, a) ==
    /\ "client" \in live /\ Len(inbox) < MaxInFlight
    /\ r \in shown
    /\ inbox' = Append(inbox, [type |-> "approval_response",
                               request |-> r, approved |-> a])
    /\ firstAnswer' = [firstAnswer EXCEPT ![r] = IF @ = "none" THEN a ELSE @]
    /\ UNCHANGED <<live, channel, pending, turn, shown, replied, asked, executed>>

(* A clean close lets the pump read what was sent before it; a broken      *)
(* connection loses the unread messages.                                   *)
ClientCloses ==
    /\ "client" \in live
    /\ live' = live \ {"client"}
    /\ inbox' \in {inbox, <<>>}
    /\ UNCHANGED <<channel, pending, turn,
                   shown, replied, asked, firstAnswer, executed>>

-----------------------------------------------------------------------------
(* The inbound pump.                                                       *)

InboundUserMessage ==
    /\ "inbound" \in live /\ inbox # <<>>
    /\ Head(inbox).type = "user_message"
    /\ inbox' = Tail(inbox)
    /\ turn' = [turn EXCEPT ![Head(inbox).turn].pc = "llm"]
    /\ UNCHANGED <<live, channel, pending,
                   shown, replied, asked, firstAnswer, executed>>

(* pending.remove(&request_id), then tx.send(approved), which is lost if   *)
(* the turn no longer holds the receiver.  An unknown id is ignored.       *)
InboundApprovalResponse ==
    /\ "inbound" \in live /\ inbox # <<>>
    /\ Head(inbox).type = "approval_response"
    /\ LET r == Head(inbox).request IN
       /\ pending' = pending \ {r}
       /\ turn' = IF r \in pending /\ Awaits(r)
                  THEN [turn EXCEPT ![r[1]].verdict = Head(inbox).approved]
                  ELSE turn
    /\ inbox' = Tail(inbox)
    /\ UNCHANGED <<live, channel, shown, replied, asked, firstAnswer, executed>>

InboundEnds ==
    /\ "inbound" \in live /\ inbox = <<>> /\ "client" \notin live
    /\ live' = live \ {"inbound"}
    /\ UNCHANGED <<inbox, channel, pending, turn,
                   shown, replied, asked, firstAnswer, executed>>

(* The outbound pump.                                                      *)
OutboundDelivers ==
    /\ {"outbound", "client"} \subseteq live /\ channel # <<>>
    /\ LET m == Head(channel) IN
       /\ shown' = IF m.type = "confirmation_prompt"
                   THEN shown \cup {m.request} ELSE shown
       /\ replied' = IF m.type \in {"agent_response", "agent_error"}
                     THEN replied \cup {m.turn} ELSE replied
    /\ channel' = Tail(channel)
    /\ UNCHANGED <<live, inbox, pending, turn, asked, firstAnswer, executed>>

(* The client is gone.  The socket may still swallow a message, or the     *)
(* write fails: the pump ends, and the receiver goes with it.              *)
OutboundLosesMessage ==
    /\ "outbound" \in live /\ "client" \notin live /\ channel # <<>>
    /\ \/ channel' = Tail(channel) /\ UNCHANGED live
       \/ channel' = <<>> /\ live' = live \ {"outbound"}
    /\ UNCHANGED <<inbox, pending, turn,
                   shown, replied, asked, firstAnswer, executed>>

(* recv() returns None once every clone of server_tx is dropped: those of  *)
(* the inbound pump, of the registry's handle and of the spawned turns.    *)
OutboundEnds ==
    /\ "outbound" \in live /\ channel = <<>>
    /\ live \cap {"inbound", "registry"} = {}
    /\ \A t \in Turn : turn[t].pc \in {"idle", "done"}
    /\ live' = live \ {"outbound"}
    /\ UNCHANGED <<inbox, channel, pending, turn,
                   shown, replied, asked, firstAnswer, executed>>

(* tokio::select! returns when either pump has ended; the other one is     *)
(* only detached.                                                          *)
BothPumpsEnded == live \cap {"inbound", "outbound"} = {}   \* slip: join!
PumpEnded == ~({"inbound", "outbound"} \subseteq live)

Cleanup ==
    /\ "registry" \in live /\ PumpEnded
    /\ live' = live \ {"registry"}
    /\ UNCHANGED <<inbox, channel, pending, turn,
                   shown, replied, asked, firstAnswer, executed>>

-----------------------------------------------------------------------------
(* run_agent_turn.                                                         *)

OnlyMoves(t, l) ==
    /\ turn' = [turn EXCEPT ![t].pc = l]
    /\ UNCHANGED <<live, inbox, channel, pending,
                   shown, replied, asked, firstAnswer, executed>>

(* agent.run or agent.resume returns tool calls, or an answer, or an error *)
(* that leaves through `?` and becomes an AgentError.                      *)
AgentReturnsCalls(t, b) ==
    /\ At(t, "llm") /\ turn[t].round < MaxRounds
    /\ turn' = [turn EXCEPT ![t].pc = "check", ![t].round = @ + 1,
                            ![t].batch = b, ![t].next = 1, ![t].results = <<>>]
    /\ UNCHANGED <<live, inbox, channel, pending,
                   shown, replied, asked, firstAnswer, executed>>

AgentReturnsAnswer(t) == At(t, "llm") /\ OnlyMoves(t, "persist")

AfterSilentFailure == "done"   \* slip: the spawned task drops the error
AfterFailure == "error"
AgentFails(t) == At(t, "llm") /\ OnlyMoves(t, AfterFailure)

(* The for loop is over: the context is rebuilt and the model resumed.     *)
Resume(t) == At(t, "check") /\ BatchHandled(t) /\ OnlyMoves(t, "llm")

PassesCheck(t) ==
    /\ At(t, "check") /\ ~BatchHandled(t) /\ ~Gated(CurrentTool(t))
    /\ OnlyMoves(t, "exec")

(* Insert a fresh oneshot under a fresh request id.                        *)
RegistersRequest(t) ==
    /\ At(t, "check") /\ ~BatchHandled(t) /\ Gated(CurrentTool(t))
    /\ pending' = pending \cup {Current(t)}
    /\ asked' = asked \cup {Current(t)}
    /\ turn' = [turn EXCEPT ![t].pc = "prompt", ![t].verdict = "none"]
    /\ UNCHANGED <<live, inbox, channel, shown, replied, firstAnswer, executed>>

(* The five minutes start only once the prompt is in the channel.          *)
SendsPrompt(t) ==
    /\ At(t, "prompt")
    /\ SendToClient([type |-> "confirmation_prompt", request |-> Current(t)])
    /\ turn' = [turn EXCEPT ![t].pc = "wait"]
    /\ UNCHANGED <<live, inbox, pending,
                   shown, replied, asked, firstAnswer, executed>>

Approved(t) ==
    At(t, "wait") /\ turn[t].verdict = "yes" /\ OnlyMoves(t, "exec")

(* timeout(_, resp_rx) polls the receiver before the timer: an answer      *)
(* already in the oneshot wins.                                            *)
TimerIgnoresAnswer(t) == TRUE    \* slip: the timer is polled first
NoTimer(t) == FALSE              \* slip: the wait has no timeout
TimerWins(t) == turn[t].verdict = "none"

PendingSwept == {}               \* slip: a timeout clears the whole map
PendingAfterTimeout == pending   \* an expired request stays in the map

UnpushedDenial(t) == turn[t].results     \* slip: `continue` before the push
PushedDenial(t) == Append(turn[t].results, "denied")

Denied(t) ==
    /\ At(t, "wait")
    /\ \/ turn[t].verdict = "no" /\ UNCHANGED pending
       \/ TimerWins(t) /\ pending' = PendingAfterTimeout
    /\ turn' = [turn EXCEPT ![t].pc = "check", ![t].next = @ + 1,
                            ![t].results = PushedDenial(t)]
    /\ UNCHANGED <<live, inbox, channel,
                   shown, replied, asked, firstAnswer, executed>>

(* executor.execute; an executor error becomes a result like any other.    *)
ExecutesTool(t) ==
    /\ At(t, "exec")
    /\ executed' = executed \cup {<<Current(t), CurrentTool(t)>>}
    /\ turn' = [turn EXCEPT ![t].pc = "progress",
                            ![t].results = Append(@, "executed")]
    /\ UNCHANGED <<live, inbox, channel, pending,
                   shown, replied, asked, firstAnswer>>

ReportsProgress(t) ==
    /\ At(t, "progress")
    /\ SendToClient([type |-> "tool_executed", turn |-> t])
    /\ turn' = [turn EXCEPT ![t].pc = "check", ![t].next = @ + 1]
    /\ UNCHANGED <<live, inbox, pending,
                   shown, replied, asked, firstAnswer, executed>>

(* persist_messages; Conversation models what it writes.                   *)
Persists(t) == At(t, "persist") /\ OnlyMoves(t, "respond")

SendsFinal(t) ==
    /\ turn[t].pc \in {"respond", "error"}
    /\ SendToClient([type |-> IF At(t, "error") THEN "agent_error"
                              ELSE "agent_response", turn |-> t])
    /\ turn' = [turn EXCEPT ![t].pc = "done"]
    /\ UNCHANGED <<live, inbox, pending,
                   shown, replied, asked, firstAnswer, executed>>

-----------------------------------------------------------------------------
ClientStep ==
    \/ \E t \in Turn : ClientSendsUserMessage(t)
    \/ \E r \in Request, a \in Answer : ClientAnswers(r, a)
    \/ ClientCloses

InboundStep == InboundUserMessage \/ InboundApprovalResponse \/ InboundEnds

OutboundStep == OutboundDelivers \/ OutboundLosesMessage \/ OutboundEnds

TurnStep(t) ==
    \/ \E b \in Batch : AgentReturnsCalls(t, b)
    \/ AgentReturnsAnswer(t) \/ AgentFails(t)
    \/ Resume(t) \/ PassesCheck(t) \/ RegistersRequest(t) \/ SendsPrompt(t)
    \/ Approved(t) \/ Denied(t) \/ ExecutesTool(t) \/ ReportsProgress(t)
    \/ Persists(t) \/ SendsFinal(t)

Next ==
    ClientStep \/ InboundStep \/ OutboundStep \/ Cleanup \/ \E t \in Turn : TurnStep(t)

Spec == Init /\ [][Next]_vars

(* Tokio runs every task that can run, the model's HTTP call returns, the  *)
(* timer fires, and the socket accepts or rejects what is written to it.   *)
(* Nothing is assumed of the client.                                       *)
Fairness ==
    /\ WF_vars(InboundStep) /\ WF_vars(OutboundStep) /\ WF_vars(Cleanup)
    /\ \A t \in Turn : WF_vars(TurnStep(t))

FairSpec == Spec /\ Fairness

-----------------------------------------------------------------------------
(* A call that needs consent is executed only if the first answer the      *)
(* client sent to that very request was yes: no later answer, no answer to *)
(* another request, no timeout and no disconnect lets it through.          *)
GatedCallsNeedFirstYes ==
    \A e \in executed : Gated(e[2]) => firstAnswer[e[1]] = "yes"

(* The model is told, for each call in order, what happened to it: a       *)
(* result is "denied" exactly if the call was never executed, and when the *)
(* model is resumed every call of its response has one result.             *)
OneResultPerCall ==
    \A t \in Turn :
        /\ At(t, "llm") => Len(turn[t].results) = Len(turn[t].batch)
        /\ \A k \in 1..Len(turn[t].results) :
               turn[t].results[k] = "denied" <=>
                   \A e \in executed : e[1] # <<t, turn[t].round, k>>

(* A turn that waits can be answered: its request is in the map until an   *)
(* answer has been put into its oneshot.                                   *)
WaitingIsAnswerable ==
    \A t \in Turn :
        turn[t].pc \in {"prompt", "wait"} /\ turn[t].verdict = "none" =>
            Current(t) \in pending

(* A tool the policy denies is never executed (tools.rs: "Tool is          *)
(* explicitly denied").  The code lets the user approve it.                *)
DeniedToolsNeverRun == \A e \in executed : Permission[e[2]] # "Deny"

(* The gate's view of a request.                                           *)
Ran(r) == \E e \in executed : e[1] = r
Answered(r, a) == Awaits(r) /\ turn[r[1]].verdict = a
Cleared(r) == Current(r[1]) = r /\ At(r[1], "exec")

GatePhase(r) ==
    IF r \notin asked THEN "fresh"
    ELSE IF Ran(r) THEN "executed"
    ELSE IF Cleared(r) \/ Answered(r, "yes") THEN "approved"
    ELSE IF Answered(r, "none") THEN "asked"
    ELSE "refused"

Gate == INSTANCE ApprovalGate WITH phase <- [r \in Request |-> GatePhase(r)]

(* Each request is asked once, resolved once, and only an approved one is  *)
(* executed: every step of the session is a step of the gate or none.      *)
ImplementsGate == Gate!Spec

(* With the liveness half: every request is resolved, and an approved call *)
(* is executed.                                                            *)
ImplementsFairGate == Gate!FairSpec

(* A turn that was started ends, whatever the client does: no prompt, full *)
(* channel or lost connection holds it forever.                            *)
TurnsEnd == \A t \in Turn : At(t, "llm") ~> At(t, "done")

(* A client that stays connected gets a final message for every turn.      *)
ClientHearsBack ==
    \A t \in Turn : At(t, "llm") ~> (t \in replied \/ "client" \notin live)

(* After a disconnect the session leaves the registry and both pumps end.  *)
SessionIsTornDown == "client" \notin live ~> live = {}
=============================================================================
