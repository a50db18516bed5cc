--------------------------- MODULE WsSession_proofs -------------------------
(***************************************************************************)
(* Proofs about WsSession for every set of turns and tools, every policy   *)
(* and every bound.                                                        *)
(***************************************************************************)
EXTENDS WsSession, TLAPS

(* Shape of the harness loop: the position never leaves the batch by more  *)
(* than one, and while a call is being handled it points at that call.     *)
Handling == {"prompt", "wait", "exec", "progress"}

Shape(s) ==
    /\ Len(s.batch) <= MaxCalls
    /\ s.next <= Len(s.batch) + 1
    /\ s.pc \in Handling \cup {"check"} => s.round >= 1
    /\ s.pc \in Handling => s.next <= Len(s.batch)

LoopShape == \A t \in Turn : Shape(turn[t])

TypeInv == TypeOK /\ LoopShape

-----------------------------------------------------------------------------
LEMMA CurrentIsRequest ==
    ASSUME TypeInv, NEW t \in Turn, turn[t].pc \in Handling
    PROVE  Current(t) \in Request /\ CurrentTool(t) \in Tool
  BY BoundAssumption
     DEF TypeInv, TypeOK, LoopShape, Shape, LocalState, Current, CurrentTool, Request

LEMMA FreshIsRequest ==
    ASSUME TypeInv, NEW t \in Turn, At(t, "check"), ~BatchHandled(t)
    PROVE  Current(t) \in Request /\ CurrentTool(t) \in Tool
  BY BoundAssumption
     DEF TypeInv, TypeOK, LoopShape, Shape, LocalState, Current, CurrentTool, Request,
         At, BatchHandled, Handling

LEMMA InboxHead ==
    ASSUME TypeOK, inbox # <<>>
    PROVE  /\ Tail(inbox) \in Seq(ClientMessage)
           /\ Head(inbox).type = "user_message" => Head(inbox).turn \in Turn
           /\ Head(inbox).type = "approval_response" =>
                  /\ Head(inbox).request \in Request
                  /\ Head(inbox).approved \in Answer
  <1>1. Head(inbox) \in ClientMessage /\ Tail(inbox) \in Seq(ClientMessage)
    BY DEF TypeOK
  <1> QED BY <1>1 DEF ClientMessage

LEMMA ChannelHead ==
    ASSUME TypeOK, channel # <<>>
    PROVE  /\ Tail(channel) \in Seq(ServerMessage)
           /\ Len(Tail(channel)) = Len(channel) - 1
           /\ Head(channel).type = "confirmation_prompt" =>
                  Head(channel).request \in Request
           /\ Head(channel).type # "confirmation_prompt" =>
                  Head(channel).turn \in Turn
  <1>1. /\ Head(channel) \in ServerMessage
        /\ Tail(channel) \in Seq(ServerMessage)
        /\ Len(Tail(channel)) = Len(channel) - 1
    BY DEF TypeOK
  <1> QED BY <1>1 DEF ServerMessage

LEMMA SendKeepsChannel ==
    ASSUME TypeOK, NEW m \in ServerMessage, SendToClient(m)
    PROVE  channel' \in Seq(ServerMessage) /\ Len(channel') <= Capacity
  BY SMTT(30), BoundAssumption DEF TypeOK, SendToClient

(* Updating the local state of one turn.                                   *)
LEMMA SetVerdict ==
    ASSUME NEW s \in LocalState, NEW l \in Location, NEW v \in Answer \cup {"none"}
    PROVE  [s EXCEPT !.pc = l, !.verdict = v] \in LocalState
  BY DEF LocalState

LEMMA SetNext ==
    ASSUME NEW s \in LocalState, NEW l \in Location, NEW n \in 1..(MaxCalls + 1)
    PROVE  [s EXCEPT !.pc = l, !.next = n] \in LocalState
  BY DEF LocalState

LEMMA SetResults ==
    ASSUME NEW s \in LocalState, NEW l \in Location,
           NEW rs \in Seq({"executed", "denied"})
    PROVE  [s EXCEPT !.pc = l, !.results = rs] \in LocalState
  BY DEF LocalState

LEMMA SetNextAndResults ==
    ASSUME NEW s \in LocalState, NEW l \in Location, NEW n \in 1..(MaxCalls + 1),
           NEW rs \in Seq({"executed", "denied"})
    PROVE  [s EXCEPT !.pc = l, !.next = n, !.results = rs] \in LocalState
  BY DEF LocalState

LEMMA SetBatch ==
    ASSUME NEW s \in LocalState, NEW l \in Location, NEW k \in 0..MaxRounds,
           NEW b \in Seq(Tool), NEW n \in 1..(MaxCalls + 1),
           NEW rs \in Seq({"executed", "denied"})
    PROVE  [s EXCEPT !.pc = l, !.round = k, !.batch = b, !.next = n,
                     !.results = rs] \in LocalState
  BY DEF LocalState

LEMMA NextPosition ==
    ASSUME NEW s \in LocalState, Shape(s), s.pc \in Handling
    PROVE  s.next + 1 \in 1..(MaxCalls + 1)
  BY BoundAssumption DEF LocalState, Shape

LEMMA TurnUpdate ==
    ASSUME TypeInv, NEW t \in Turn, NEW s \in LocalState, Shape(s),
           turn' = [turn EXCEPT ![t] = s]
    PROVE  turn' \in [Turn -> LocalState] /\ LoopShape'
  BY DEF TypeInv, TypeOK, LoopShape

LEMMA TurnMoves ==
    ASSUME TypeInv, NEW t \in Turn, NEW l \in Location,
           l \in Handling \cup {"check"} => turn[t].round >= 1,
           l \in Handling => turn[t].next <= Len(turn[t].batch),
           turn' = [turn EXCEPT ![t].pc = l]
    PROVE  turn' \in [Turn -> LocalState] /\ LoopShape'
  <1> DEFINE s == [turn[t] EXCEPT !.pc = l]
  <1>1. turn[t] \in LocalState /\ Shape(turn[t])
    BY DEF TypeInv, TypeOK, LoopShape
  <1>2. s \in LocalState /\ Shape(s)
    BY <1>1 DEF LocalState, Shape
  <1>3. turn' = [turn EXCEPT ![t] = s]
    OBVIOUS
  <1> QED BY <1>2, <1>3, TurnUpdate

LEMMA TypeInit == Init => TypeInv
  BY BoundAssumption
     DEF Init, TypeInv, TypeOK, LoopShape, Shape, Idle, LocalState, Location,
         Part, Handling

LEMMA TypeNext == TypeInv /\ [Next]_vars => TypeInv'
  <1> SUFFICES ASSUME TypeInv, [Next]_vars PROVE TypeInv'
    OBVIOUS
  <1> USE BoundAssumption
  <1>1. CASE ClientStep
    <2> USE DEF TypeInv, TypeOK, LoopShape
    <2>1. ASSUME NEW t \in Turn, ClientSendsUserMessage(t) PROVE TypeInv'
      <3>1. UserMessage(t) \in ClientMessage
        BY DEF UserMessage, ClientMessage
      <3> QED BY <2>1, <3>1 DEF ClientSendsUserMessage
    <2>2. ASSUME NEW r \in Request, NEW a \in Answer, ClientAnswers(r, a)
          PROVE  TypeInv'
      <3>1. [type |-> "approval_response", request |-> r, approved |-> a]
                \in ClientMessage
        BY DEF ClientMessage
      <3>2. inbox' \in Seq(ClientMessage)
        BY <2>2, <3>1 DEF ClientAnswers
      <3>3. firstAnswer' \in [Request -> Answer \cup {"none"}]
        BY <2>2 DEF ClientAnswers
      <3> QED BY <2>2, <3>2, <3>3 DEF ClientAnswers
    <2>3. CASE ClientCloses
      <3>1. inbox' \in Seq(ClientMessage)
        <4>1. <<>> \in Seq(ClientMessage)
          OBVIOUS
        <4> QED BY <2>3, <4>1 DEF ClientCloses
      <3>2. live' \subseteq Part
        BY <2>3 DEF ClientCloses
      <3> QED BY <2>3, <3>1, <3>2 DEF ClientCloses
    <2> QED BY <1>1, <2>1, <2>2, <2>3 DEF ClientStep
  <1>2. CASE InboundStep
    <2> USE DEF TypeInv, TypeOK, LoopShape
    <2>1. CASE InboundUserMessage
      <3>1. Head(inbox).turn \in Turn /\ Tail(inbox) \in Seq(ClientMessage)
        BY <2>1, InboxHead DEF InboundUserMessage
      <3>2. turn' \in [Turn -> LocalState] /\ LoopShape'
        BY <2>1, <3>1, TurnMoves DEF InboundUserMessage, Location, Handling
      <3> QED BY <2>1, <3>1, <3>2 DEF InboundUserMessage
    <2>2. CASE InboundApprovalResponse
      <3>1. /\ Head(inbox).request \in Request
            /\ Head(inbox).approved \in Answer
            /\ Tail(inbox) \in Seq(ClientMessage)
        BY <2>2, InboxHead DEF InboundApprovalResponse
      <3>2. Head(inbox).request[1] \in Turn
        BY <3>1 DEF Request
      <3> DEFINE t == Head(inbox).request[1]
                 s == [turn[t] EXCEPT !.verdict = Head(inbox).approved]
      <3>3. turn[t] \in LocalState /\ Shape(turn[t])
        BY <3>2
      <3>4. s \in LocalState /\ Shape(s)
        BY <3>1, <3>3 DEF LocalState, Shape
      <3>5. turn' = turn \/ turn' = [turn EXCEPT ![t] = s]
        BY <2>2 DEF InboundApprovalResponse
      <3>6. turn' \in [Turn -> LocalState] /\ LoopShape'
        BY <3>2, <3>4, <3>5, TurnUpdate
      <3>7. pending' \subseteq Request
        BY <2>2 DEF InboundApprovalResponse
      <3> QED BY <2>2, <3>1, <3>6, <3>7 DEF InboundApprovalResponse
    <2>3. CASE InboundEnds
      BY <2>3 DEF InboundEnds
    <2> QED BY <1>2, <2>1, <2>2, <2>3 DEF InboundStep
  <1>3. CASE OutboundStep
    <2> USE DEF TypeInv, TypeOK, LoopShape
    <2>1. CASE OutboundDelivers
      BY <2>1, ChannelHead DEF OutboundDelivers
    <2>2. CASE OutboundLosesMessage
      <3>1. channel' \in Seq(ServerMessage) /\ Len(channel') <= Capacity
        <4>1. <<>> \in Seq(ServerMessage) /\ Len(<<>>) <= Capacity
          OBVIOUS
        <4>2. channel' = Tail(channel) \/ channel' = <<>>
          BY <2>2 DEF OutboundLosesMessage
        <4>3. CASE channel' = Tail(channel)
          BY <2>2, <4>3, ChannelHead DEF OutboundLosesMessage
        <4> QED BY <4>1, <4>2, <4>3
      <3>2. live' \subseteq Part
        BY <2>2 DEF OutboundLosesMessage
      <3> QED BY <2>2, <3>1, <3>2 DEF OutboundLosesMessage
    <2>3. CASE OutboundEnds
      BY <2>3 DEF OutboundEnds
    <2> QED BY <1>3, <2>1, <2>2, <2>3 DEF OutboundStep
  <1>4. CASE Cleanup
    BY <1>4 DEF Cleanup, TypeInv, TypeOK, LoopShape
  <1>5. ASSUME NEW t \in Turn, TurnStep(t) PROVE TypeInv'
    <2>1. turn[t] \in LocalState /\ Shape(turn[t])
      BY DEF TypeInv, TypeOK, LoopShape
    <2>2. ASSUME NEW l \in {"persist", "respond", "error", "llm"}, OnlyMoves(t, l)
          PROVE  TypeInv'
      <3>1. turn' \in [Turn -> LocalState] /\ LoopShape'
        BY <2>2, TurnMoves DEF OnlyMoves, Location, Handling
      <3> QED BY <2>2, <3>1 DEF OnlyMoves, TypeInv, TypeOK
    <2>3. ASSUME NEW b \in Batch, AgentReturnsCalls(t, b) PROVE TypeInv'
      <3> DEFINE s == [turn[t] EXCEPT !.pc = "check", !.round = @ + 1,
                                      !.batch = b, !.next = 1, !.results = <<>>]
      <3>0. /\ "check" \in Location
            /\ 1 \in 1..(MaxCalls + 1)
            /\ <<>> \in Seq({"executed", "denied"})
        BY DEF Location
      <3>1. b \in Seq(Tool) /\ Len(b) \in 1..MaxCalls
        BY DEF Batch
      <3>2. turn[t].round \in Nat /\ turn[t].round + 1 \in 0..MaxRounds
        BY <2>1, <2>3 DEF AgentReturnsCalls, LocalState
      <3>3. s \in LocalState
        BY <2>1, <3>1, <3>2, <3>0, SetBatch
      <3>4. Shape(s)
        BY <2>1, <3>1, <3>2 DEF LocalState, Shape, Handling
      <3>5. turn' = [turn EXCEPT ![t] = s]
        BY <2>3 DEF AgentReturnsCalls
      <3>6. turn' \in [Turn -> LocalState] /\ LoopShape'
        BY <3>3, <3>4, <3>5, TurnUpdate
      <3> QED BY <2>3, <3>6 DEF AgentReturnsCalls, TypeInv, TypeOK
    <2>4. ASSUME PassesCheck(t) \/ Approved(t) PROVE TypeInv'
      <3>1. OnlyMoves(t, "exec")
        BY <2>4 DEF PassesCheck, Approved
      <3>2. turn[t].round >= 1 /\ turn[t].next <= Len(turn[t].batch)
        BY <2>1, <2>4 DEF PassesCheck, Approved, At, BatchHandled, Shape, Handling,
                          LocalState
      <3>3. turn' \in [Turn -> LocalState] /\ LoopShape'
        BY <3>1, <3>2, TurnMoves DEF OnlyMoves, Location
      <3> QED BY <3>1, <3>3 DEF OnlyMoves, TypeInv, TypeOK
    <2>5. CASE RegistersRequest(t)
      <3> DEFINE s == [turn[t] EXCEPT !.pc = "prompt", !.verdict = "none"]
      <3>1. Current(t) \in Request
        BY <2>5, FreshIsRequest DEF RegistersRequest
      <3>0. "prompt" \in Location /\ "none" \in Answer \cup {"none"}
        BY DEF Location
      <3>2. s \in LocalState
        BY <2>1, <3>0, SetVerdict
      <3>3. Shape(s)
        BY <2>1, <2>5 DEF RegistersRequest, At, BatchHandled, LocalState, Shape, Handling
      <3>4. turn' = [turn EXCEPT ![t] = s]
        BY <2>5 DEF RegistersRequest
      <3>5. turn' \in [Turn -> LocalState] /\ LoopShape'
        BY <3>2, <3>3, <3>4, TurnUpdate
      <3> QED BY <2>5, <3>1, <3>5 DEF RegistersRequest, TypeInv, TypeOK
    <2>6. CASE SendsPrompt(t)
      <3>1. Current(t) \in Request
        BY <2>6, CurrentIsRequest DEF SendsPrompt, At, Handling
      <3>2. [type |-> "confirmation_prompt", request |-> Current(t)] \in ServerMessage
        BY <3>1 DEF ServerMessage
      <3>3. channel' \in Seq(ServerMessage) /\ Len(channel') <= Capacity
        BY <2>6, <3>2, SendKeepsChannel DEF SendsPrompt, TypeInv
      <3>4. turn[t].round >= 1 /\ turn[t].next <= Len(turn[t].batch)
        BY <2>1, <2>6 DEF SendsPrompt, At, Shape, Handling
      <3>5. turn' \in [Turn -> LocalState] /\ LoopShape'
        BY <2>6, <3>4, TurnMoves DEF SendsPrompt, Location
      <3> QED BY <2>6, <3>3, <3>5 DEF SendsPrompt, TypeInv, TypeOK
    <2>7. CASE Denied(t)
      <3> DEFINE s == [turn[t] EXCEPT !.pc = "check", !.next = @ + 1,
                                      !.results = PushedDenial(t)]
      <3>1. PushedDenial(t) \in Seq({"executed", "denied"})
        BY <2>1 DEF PushedDenial, LocalState
      <3>0. "check" \in Location /\ turn[t].next + 1 \in 1..(MaxCalls + 1)
        BY <2>1, <2>7, NextPosition DEF Denied, At, Location, Handling
      <3>2. s \in LocalState
        BY <2>1, <3>0, <3>1, SetNextAndResults
      <3>3. Shape(s)
        BY <2>1, <2>7 DEF Denied, At, LocalState, Shape, Handling
      <3>4. turn' = [turn EXCEPT ![t] = s]
        BY <2>7 DEF Denied
      <3>5. turn' \in [Turn -> LocalState] /\ LoopShape'
        BY <3>2, <3>3, <3>4, TurnUpdate
      <3> QED BY <2>7, <3>5 DEF Denied, PendingAfterTimeout, TypeInv, TypeOK
    <2>8. CASE ExecutesTool(t)
      <3> DEFINE s == [turn[t] EXCEPT !.pc = "progress",
                                      !.results = Append(@, "executed")]
      <3>1. Current(t) \in Request /\ CurrentTool(t) \in Tool
        BY <2>8, CurrentIsRequest DEF ExecutesTool, At, Handling
      <3>2. Append(turn[t].results, "executed") \in Seq({"executed", "denied"})
        BY <2>1 DEF LocalState
      <3>0. "progress" \in Location
        BY DEF Location
      <3>3. s \in LocalState
        BY <2>1, <3>0, <3>2, SetResults
      <3>4. Shape(s)
        BY <2>1, <2>8 DEF ExecutesTool, At, LocalState, Shape, Handling
      <3>5. turn' = [turn EXCEPT ![t] = s]
        BY <2>8 DEF ExecutesTool
      <3>6. turn' \in [Turn -> LocalState] /\ LoopShape'
        BY <3>3, <3>4, <3>5, TurnUpdate
      <3> QED BY <2>8, <3>1, <3>6 DEF ExecutesTool, TypeInv, TypeOK
    <2>9. CASE ReportsProgress(t)
      <3> DEFINE s == [turn[t] EXCEPT !.pc = "check", !.next = @ + 1]
      <3>1. [type |-> "tool_executed", turn |-> t] \in ServerMessage
        BY DEF ServerMessage
      <3>2. channel' \in Seq(ServerMessage) /\ Len(channel') <= Capacity
        BY <2>9, <3>1, SendKeepsChannel DEF ReportsProgress, TypeInv
      <3>0. "check" \in Location /\ turn[t].next + 1 \in 1..(MaxCalls + 1)
        BY <2>1, <2>9, NextPosition DEF ReportsProgress, At, Location, Handling
      <3>3. s \in LocalState
        BY <2>1, <3>0, SetNext
      <3>4. Shape(s)
        BY <2>1, <2>9 DEF ReportsProgress, At, LocalState, Shape, Handling
      <3>5. turn' = [turn EXCEPT ![t] = s]
        BY <2>9 DEF ReportsProgress
      <3>6. turn' \in [Turn -> LocalState] /\ LoopShape'
        BY <3>3, <3>4, <3>5, TurnUpdate
      <3> QED BY <2>9, <3>2, <3>6 DEF ReportsProgress, TypeInv, TypeOK
    <2>10. CASE SendsFinal(t)
      <3>1. [type |-> IF At(t, "error") THEN "agent_error" ELSE "agent_response",
             turn |-> t] \in ServerMessage
        BY DEF ServerMessage
      <3>2. channel' \in Seq(ServerMessage) /\ Len(channel') <= Capacity
        BY <2>10, <3>1, SendKeepsChannel DEF SendsFinal, TypeInv
      <3>3. turn' \in [Turn -> LocalState] /\ LoopShape'
        BY <2>10, TurnMoves DEF SendsFinal, Location, Handling
      <3> QED BY <2>10, <3>2, <3>3 DEF SendsFinal, TypeInv, TypeOK
    <2> QED BY <1>5, <2>2, <2>3, <2>4, <2>5, <2>6, <2>7, <2>8, <2>9, <2>10
            DEF TurnStep, AgentReturnsAnswer, AgentFails, AfterFailure, Resume, Persists
  <1>6. CASE UNCHANGED vars
    BY <1>6 DEF vars, TypeInv, TypeOK, LoopShape
  <1> QED BY <1>1, <1>2, <1>3, <1>4, <1>5, <1>6 DEF Next

(* The state stays well typed: the channel never holds more than its       *)
(* capacity and the harness loop never points outside its batch.           *)
THEOREM TypeCorrect == Spec => []TypeOK
  <1>1. TypeInv => TypeOK
    BY DEF TypeInv
  <1> QED BY <1>1, TypeInit, TypeNext, PTL DEF Spec

(* The same for the strengthened invariant, which the other proofs use.    *)
LEMMA TypeInvariant == Spec => []TypeInv
  BY TypeInit, TypeNext, PTL DEF Spec

-----------------------------------------------------------------------------
(* Consent: a call that needs it runs only after a first answer of yes to  *)
(* its own request.                                                        *)

IsUserMessage(m) == m.type = "user_message"
IsPrompt(m) == m.type = "confirmation_prompt"
Answers(m, r) == m.type = "approval_response" /\ m.request = r

(* A user message in flight is for a turn that has not started, and there  *)
(* is only one such message per turn.                                      *)
QueuedTurnsIdle ==
    \A k \in 1..Len(inbox) : IsUserMessage(inbox[k]) =>
        /\ At(inbox[k].turn, "idle")
        /\ \A j \in 1..Len(inbox) :
               IsUserMessage(inbox[j]) /\ inbox[j].turn = inbox[k].turn => j = k

(* Nothing speaks of a request before it exists: prompts are for requests  *)
(* that were asked, answers for prompts that were shown.                   *)
ChannelAsked ==
    \A k \in 1..Len(channel) : IsPrompt(channel[k]) => channel[k].request \in asked

WaitingAsked ==
    \A t \in Turn : turn[t].pc \in {"prompt", "wait"} => Current(t) \in asked

PromptsAsked ==
    /\ ChannelAsked
    /\ WaitingAsked
    /\ shown \subseteq asked
    /\ pending \subseteq asked

AnswersShown ==
    /\ \A r \in Request : firstAnswer[r] # "none" => r \in shown
    /\ \A k \in 1..Len(inbox), r \in Request :
           Answers(inbox[k], r) => firstAnswer[r] # "none"

(* The harness loop has reached every request that was asked, so the call  *)
(* it checks next has a request nobody has seen.                           *)
Reached(r) ==
    LET s == turn[r[1]] IN
    \/ r[2] < s.round
    \/ r[2] = s.round /\ r[3] < s.next
    \/ r[2] = s.round /\ r[3] = s.next /\ s.pc \in Handling

AskedInPast == \A r \in asked : Reached(r)

(* While a request is in the map, the inbound pump has not yet read the    *)
(* first answer to it: that answer is still in the inbox, ahead of all     *)
(* other answers to the request (a lost connection may drop it).           *)
AnswerWaits(r) ==
    firstAnswer[r] # "none" /\ "client" \in live =>
        \E k \in 1..Len(inbox) : Answers(inbox[k], r)

EarliestIsFirst(r) ==
    \A k \in 1..Len(inbox) :
        /\ Answers(inbox[k], r)
        /\ \A j \in 1..Len(inbox) : j < k => ~Answers(inbox[j], r)
        => inbox[k].approved = firstAnswer[r]

FirstAnswerQueued == \A r \in pending : AnswerWaits(r) /\ EarliestIsFirst(r)

(* What a waiting turn finds in its oneshot is the first answer.           *)
VerdictIsFirst ==
    \A t \in Turn :
        turn[t].pc \in {"prompt", "wait"} /\ turn[t].verdict # "none" =>
            firstAnswer[Current(t)] = turn[t].verdict

(* A gated call about to run has been cleared.                             *)
ExecCleared ==
    \A t \in Turn :
        At(t, "exec") /\ Gated(CurrentTool(t)) => firstAnswer[Current(t)] = "yes"

ConsentInv ==
    /\ QueuedTurnsIdle
    /\ PromptsAsked
    /\ AnswersShown
    /\ AskedInPast
    /\ FirstAnswerQueued
    /\ VerdictIsFirst
    /\ ExecCleared
    /\ GatedCallsNeedFirstYes

IInv == TypeInv /\ ConsentInv

-----------------------------------------------------------------------------
(* Which actions touch which variable.                                     *)

LEMMA OneTurnMoves ==
    ASSUME TypeInv, NEW t \in Turn, TurnStep(t)
    PROVE  /\ ~At(t, "idle")
           /\ \A u \in Turn \ {t} : turn'[u] = turn[u]
           /\ UNCHANGED <<inbox, firstAnswer, shown>>
           /\ live' = live
  <1>1. turn \in [Turn -> LocalState]
    BY DEF TypeInv, TypeOK
  <1> QED BY <1>1
          DEF TurnStep, AgentReturnsCalls, AgentReturnsAnswer, AgentFails, Resume,
              PassesCheck, RegistersRequest, SendsPrompt, Approved, Denied,
              ExecutesTool, ReportsProgress, Persists, SendsFinal, OnlyMoves, At

(* How a turn gets to where it waits for consent and where it executes.    *)
LEMMA WaysIn ==
    ASSUME TypeInv, NEW t \in Turn, TurnStep(t)
    PROVE  /\ turn'[t].pc = "prompt" => RegistersRequest(t)
           /\ turn'[t].pc = "wait" => SendsPrompt(t)
           /\ turn'[t].pc = "exec" =>
                  (PassesCheck(t) \/ Approved(t)) /\ OnlyMoves(t, "exec")
  <1>1. turn \in [Turn -> LocalState]
    BY DEF TypeInv, TypeOK
  <1>2. ASSUME NEW l, OnlyMoves(t, l) PROVE turn'[t].pc = l
    BY <1>1, <1>2 DEF OnlyMoves, LocalState
  <1>3. AgentReturnsAnswer(t) \/ AgentFails(t) \/ Resume(t) \/ Persists(t) =>
            turn'[t].pc \in {"persist", "error", "llm", "respond"}
    BY <1>2 DEF AgentReturnsAnswer, AgentFails, AfterFailure, Resume, Persists
  <1>4. ASSUME NEW b \in Batch, AgentReturnsCalls(t, b) PROVE turn'[t].pc = "check"
    BY <1>1, <1>4 DEF AgentReturnsCalls, LocalState
  <1>5. RegistersRequest(t) => turn'[t].pc = "prompt"
    BY <1>1 DEF RegistersRequest, LocalState
  <1>6. SendsPrompt(t) => turn'[t].pc = "wait"
    BY <1>1 DEF SendsPrompt, LocalState
  <1>7. Denied(t) \/ ReportsProgress(t) => turn'[t].pc = "check"
    BY <1>1 DEF Denied, ReportsProgress, LocalState
  <1>8. ExecutesTool(t) => turn'[t].pc = "progress"
    BY <1>1 DEF ExecutesTool, LocalState
  <1>9. SendsFinal(t) => turn'[t].pc = "done"
    BY <1>1 DEF SendsFinal, LocalState
  <1>10. PassesCheck(t) \/ Approved(t) =>
             OnlyMoves(t, "exec") /\ turn'[t].pc = "exec"
    BY <1>2 DEF PassesCheck, Approved
  <1> QED BY <1>3, <1>4, <1>5, <1>6, <1>7, <1>8, <1>9, <1>10 DEF TurnStep

LEMMA TurnStepFrame ==
    ASSUME NEW t \in Turn, TurnStep(t)
    PROVE  /\ asked' = asked \/ RegistersRequest(t)
           /\ pending' = pending \/ RegistersRequest(t)
           /\ executed' = executed \/ ExecutesTool(t)
           /\ \/ channel' = channel
              \/ SendsPrompt(t) \/ ReportsProgress(t) \/ SendsFinal(t)
  BY DEF TurnStep, AgentReturnsCalls, AgentReturnsAnswer, AgentFails, Resume,
         PassesCheck, RegistersRequest, SendsPrompt, Approved, Denied,
         ExecutesTool, ReportsProgress, Persists, SendsFinal, OnlyMoves,
         PendingAfterTimeout

(* Reading the head of the inbox shifts the rest.                          *)
LEMMA InboxShifts ==
    ASSUME TypeInv, inbox # <<>>, inbox' = Tail(inbox)
    PROVE  /\ 1 \in 1..Len(inbox) /\ Head(inbox) = inbox[1]
           /\ \A k \in 1..Len(inbox') :
                  /\ k + 1 \in 1..Len(inbox)
                  /\ inbox'[k] = inbox[k + 1]
  BY DEF TypeInv, TypeOK

LEMMA QueuedTurnsIdleNext == ASSUME IInv, Next PROVE QueuedTurnsIdle'
  <1> USE DEF IsUserMessage
  <1>0. /\ inbox \in Seq(ClientMessage)
        /\ turn \in [Turn -> LocalState]
        /\ QueuedTurnsIdle
    BY DEF IInv, TypeInv, TypeOK, ConsentInv
  <1>1. ASSUME NEW t \in Turn, ClientSendsUserMessage(t) PROVE QueuedTurnsIdle'
    BY <1>0, <1>1 DEF ClientSendsUserMessage, QueuedTurnsIdle, At, UserMessage,
                      ClientMessage
  <1>2. ASSUME NEW r \in Request, NEW a \in Answer, ClientAnswers(r, a)
        PROVE  QueuedTurnsIdle'
    BY <1>0, <1>2 DEF ClientAnswers, QueuedTurnsIdle, At
  <1>3. CASE ClientCloses
    BY <1>0, <1>3 DEF ClientCloses, QueuedTurnsIdle, At
  <1>4. CASE InboundUserMessage
    <2>1. /\ 1 \in 1..Len(inbox) /\ Head(inbox) = inbox[1]
          /\ \A k \in 1..Len(inbox') :
                 k + 1 \in 1..Len(inbox) /\ inbox'[k] = inbox[k + 1]
      BY <1>4, InboxShifts DEF InboundUserMessage, IInv
    <2>2. ASSUME NEW k \in 1..Len(inbox'), IsUserMessage(inbox'[k])
          PROVE  inbox'[k].turn # Head(inbox).turn
      <3>1. k + 1 \in 1..Len(inbox) /\ k + 1 # 1
        BY <2>1
      <3> QED BY <1>0, <1>4, <2>1, <2>2, <3>1 DEF InboundUserMessage, QueuedTurnsIdle
    <2>3. \A u \in Turn : u # Head(inbox).turn => turn'[u] = turn[u]
      BY <1>0, <1>4 DEF InboundUserMessage
    <2>4. \A k \in 1..Len(inbox') : IsUserMessage(inbox'[k]) =>
              inbox'[k].turn \in Turn
      BY <1>0, <2>1 DEF ClientMessage
    <2>5. ASSUME NEW k \in 1..Len(inbox'), IsUserMessage(inbox'[k])
          PROVE  turn'[inbox'[k].turn].pc = "idle"
      BY <1>0, <2>1, <2>2, <2>3, <2>4, <2>5 DEF QueuedTurnsIdle, At
    <2>6. ASSUME NEW k \in 1..Len(inbox'), IsUserMessage(inbox'[k]),
                 NEW j \in 1..Len(inbox'), IsUserMessage(inbox'[j]),
                 inbox'[j].turn = inbox'[k].turn
          PROVE  j = k
      <3>1. j + 1 = k + 1
        BY <1>0, <2>1, <2>6 DEF QueuedTurnsIdle
      <3> QED BY <3>1
    <2> QED BY <2>5, <2>6 DEF QueuedTurnsIdle, At
  <1>5. CASE InboundApprovalResponse
    <2>1. \A k \in 1..Len(inbox') :
              k + 1 \in 1..Len(inbox) /\ inbox'[k] = inbox[k + 1]
      BY <1>5, InboxShifts DEF InboundApprovalResponse, IInv
    <2>2. \A u \in Turn : turn'[u].pc = turn[u].pc
      BY <1>0, <1>5 DEF InboundApprovalResponse, LocalState
    <2>3. \A k \in 1..Len(inbox') : IsUserMessage(inbox'[k]) =>
              inbox'[k].turn \in Turn
      BY <1>0, <2>1 DEF ClientMessage
    <2>4. ASSUME NEW k \in 1..Len(inbox'), IsUserMessage(inbox'[k])
          PROVE  turn'[inbox'[k].turn].pc = "idle"
      BY <1>0, <2>1, <2>2, <2>3, <2>4 DEF QueuedTurnsIdle, At
    <2>5. ASSUME NEW k \in 1..Len(inbox'), IsUserMessage(inbox'[k]),
                 NEW j \in 1..Len(inbox'), IsUserMessage(inbox'[j]),
                 inbox'[j].turn = inbox'[k].turn
          PROVE  j = k
      <3>1. j + 1 = k + 1
        BY <1>0, <2>1, <2>5 DEF QueuedTurnsIdle
      <3> QED BY <3>1
    <2> QED BY <2>4, <2>5 DEF QueuedTurnsIdle, At
  <1>6. ASSUME NEW t \in Turn, TurnStep(t) PROVE QueuedTurnsIdle'
    BY <1>0, <1>6, OneTurnMoves DEF QueuedTurnsIdle, At, IInv, ClientMessage
  <1>7. CASE InboundEnds \/ OutboundStep \/ Cleanup
    BY <1>0, <1>7 DEF InboundEnds, OutboundStep, OutboundDelivers,
                      OutboundLosesMessage, OutboundEnds, Cleanup, QueuedTurnsIdle, At
  <1> QED BY <1>1, <1>2, <1>3, <1>4, <1>5, <1>6, <1>7
          DEF Next, ClientStep, InboundStep

LEMMA PromptsAskedNext == ASSUME IInv, Next PROVE PromptsAsked'
  <1> USE DEF IsPrompt, ChannelAsked, WaitingAsked
  <1>0. /\ channel \in Seq(ServerMessage)
        /\ turn \in [Turn -> LocalState]
        /\ PromptsAsked
    BY DEF IInv, TypeInv, TypeOK, ConsentInv
  <1>1. CASE ClientStep
    BY <1>0, <1>1 DEF ClientStep, ClientSendsUserMessage, ClientAnswers, ClientCloses,
                      PromptsAsked, Current
  <1>2. CASE InboundUserMessage
    <2>1. \A u \in Turn : turn'[u].pc \in {"prompt", "wait"} => turn'[u] = turn[u]
      BY <1>0, <1>2 DEF InboundUserMessage, LocalState
    <2> QED BY <1>0, <1>2, <2>1 DEF InboundUserMessage, PromptsAsked, Current
  <1>3. CASE InboundApprovalResponse
    <2>1. \A u \in Turn : turn'[u].pc = turn[u].pc /\ Current(u)' = Current(u)
      BY <1>0, <1>3 DEF InboundApprovalResponse, LocalState, Current
    <2> QED BY <1>0, <1>3, <2>1 DEF InboundApprovalResponse, PromptsAsked
  <1>4. CASE OutboundDelivers
    <2>1. Head(channel) = channel[1] /\ 1 \in 1..Len(channel)
      BY <1>0, <1>4 DEF OutboundDelivers
    <2>2. shown' \subseteq asked'
      BY <1>0, <1>4, <2>1 DEF OutboundDelivers, PromptsAsked
    <2>3. \A k \in 1..Len(channel') :
              k + 1 \in 1..Len(channel) /\ channel'[k] = channel[k + 1]
      BY <1>0, <1>4 DEF OutboundDelivers
    <2> QED BY <1>0, <1>4, <2>2, <2>3 DEF OutboundDelivers, PromptsAsked, Current
  <1>5. CASE OutboundLosesMessage
    <2>1. \A k \in 1..Len(channel') :
              k + 1 \in 1..Len(channel) /\ channel'[k] = channel[k + 1]
      BY <1>0, <1>5 DEF OutboundLosesMessage
    <2> QED BY <1>0, <1>5, <2>1 DEF OutboundLosesMessage, PromptsAsked, Current
  <1>6. CASE InboundEnds \/ OutboundEnds \/ Cleanup
    BY <1>0, <1>6 DEF InboundEnds, OutboundEnds, Cleanup, PromptsAsked, Current
  <1>7. ASSUME NEW t \in Turn, TurnStep(t) PROVE PromptsAsked'
    <2>1. asked \subseteq asked' /\ pending' \subseteq asked'
      BY <1>0, <1>7, TurnStepFrame DEF RegistersRequest, PromptsAsked
    <2>2. shown' \subseteq asked'
      BY <1>0, <1>7, <2>1, OneTurnMoves DEF PromptsAsked, IInv
    <2>3. ChannelAsked'
      <3>1. ASSUME NEW m \in ServerMessage, SendToClient(m),
                   IsPrompt(m) => m.request \in asked
            PROVE  ChannelAsked'
        BY <1>0, <2>1, <3>1 DEF SendToClient, PromptsAsked
      <3>2. CASE channel' = channel
        BY <1>0, <2>1, <3>2 DEF PromptsAsked
      <3>3. CASE SendsPrompt(t)
        <4>1. Current(t) \in Request /\ Current(t) \in asked
          BY <1>0, <3>3, CurrentIsRequest DEF SendsPrompt, At, IInv, PromptsAsked, Handling
        <4> QED BY <3>1, <3>3, <4>1 DEF SendsPrompt, ServerMessage
      <3>4. CASE ReportsProgress(t)
        BY <3>1, <3>4 DEF ReportsProgress, ServerMessage
      <3>5. CASE SendsFinal(t)
        BY <3>1, <3>5 DEF SendsFinal, ServerMessage
      <3> QED BY <1>7, <3>2, <3>3, <3>4, <3>5, TurnStepFrame
    <2>4. WaitingAsked'
      <3>1. SUFFICES ASSUME NEW u \in Turn, turn'[u].pc \in {"prompt", "wait"}
                     PROVE  Current(u)' \in asked'
        BY DEF WaitingAsked
      <3>2. CASE u # t
        BY <1>0, <1>7, <2>1, <3>1, <3>2, OneTurnMoves DEF PromptsAsked, Current, IInv
      <3>3. CASE u = t
        <4>1. RegistersRequest(t) \/ SendsPrompt(t)
          BY <1>7, <3>1, <3>3, WaysIn DEF IInv
        <4>2. Current(t)' = Current(t)
          BY <1>0, <4>1 DEF RegistersRequest, SendsPrompt, Current, LocalState
        <4> QED BY <1>0, <2>1, <3>3, <4>1, <4>2
                DEF RegistersRequest, SendsPrompt, PromptsAsked, At
      <3> QED BY <3>2, <3>3
    <2> QED BY <2>1, <2>2, <2>3, <2>4 DEF PromptsAsked
  <1> QED BY <1>1, <1>2, <1>3, <1>4, <1>5, <1>6, <1>7
          DEF Next, InboundStep, OutboundStep

LEMMA AnswersShownNext == ASSUME IInv, Next PROVE AnswersShown'
  <1> USE DEF Answers
  <1>0. /\ inbox \in Seq(ClientMessage)
        /\ firstAnswer \in [Request -> Answer \cup {"none"}]
        /\ AnswersShown
    BY DEF IInv, TypeInv, TypeOK, ConsentInv
  <1>1. ASSUME NEW t \in Turn, ClientSendsUserMessage(t) PROVE AnswersShown'
    BY <1>0, <1>1 DEF ClientSendsUserMessage, UserMessage, ClientMessage, AnswersShown
  <1>2. ASSUME NEW r \in Request, NEW a \in Answer, ClientAnswers(r, a)
        PROVE  AnswersShown'
    <2>1. \A q \in Request : firstAnswer'[q] # "none" => q \in shown'
      BY <1>0, <1>2 DEF ClientAnswers, AnswersShown
    <2>2. firstAnswer'[r] # "none" /\ \A q \in Request :
              firstAnswer[q] # "none" => firstAnswer'[q] # "none"
      BY <1>0, <1>2 DEF ClientAnswers, Answer
    <2>3. ASSUME NEW k \in 1..Len(inbox'), NEW q \in Request, Answers(inbox'[k], q)
          PROVE  firstAnswer'[q] # "none"
      <3>1. CASE k \in 1..Len(inbox)
        BY <1>0, <1>2, <2>2, <2>3, <3>1 DEF ClientAnswers, AnswersShown
      <3>2. CASE k \notin 1..Len(inbox)
        BY <1>0, <1>2, <2>2, <2>3, <3>2 DEF ClientAnswers
      <3> QED BY <3>1, <3>2
    <2> QED BY <2>1, <2>3 DEF AnswersShown
  <1>3. CASE ClientCloses
    BY <1>0, <1>3 DEF ClientCloses, AnswersShown
  <1>4. CASE InboundUserMessage \/ InboundApprovalResponse
    <2>1. \A k \in 1..Len(inbox') :
              k + 1 \in 1..Len(inbox) /\ inbox'[k] = inbox[k + 1]
      BY <1>4, InboxShifts DEF InboundUserMessage, InboundApprovalResponse, IInv
    <2>2. firstAnswer' = firstAnswer /\ shown' = shown
      BY <1>4 DEF InboundUserMessage, InboundApprovalResponse
    <2> QED BY <1>0, <2>1, <2>2 DEF AnswersShown
  <1>5. CASE InboundEnds \/ OutboundStep \/ Cleanup
    <2>1. inbox' = inbox /\ firstAnswer' = firstAnswer /\ shown \subseteq shown'
      BY <1>5 DEF InboundEnds, OutboundStep, OutboundDelivers, OutboundLosesMessage,
                  OutboundEnds, Cleanup
    <2> QED BY <1>0, <2>1 DEF AnswersShown
  <1>6. ASSUME NEW t \in Turn, TurnStep(t) PROVE AnswersShown'
    BY <1>0, <1>6, OneTurnMoves DEF AnswersShown, IInv
  <1> QED BY <1>1, <1>2, <1>3, <1>4, <1>5, <1>6 DEF Next, ClientStep, InboundStep

(* The loop only moves on.                                                 *)
LEMMA ReachedStays ==
    ASSUME IInv, Next, NEW r \in Request, Reached(r)
    PROVE  Reached(r)'
  <1> DEFINE t == r[1]
  <1>0. /\ t \in Turn /\ r[2] \in Nat /\ r[3] \in Nat
        /\ turn \in [Turn -> LocalState]
        /\ turn[t].round \in Nat /\ turn[t].next \in Nat
    <2>1. t \in Turn /\ r[2] \in Nat /\ r[3] \in Nat
      BY DEF Request
    <2>2. turn \in [Turn -> LocalState]
      BY DEF IInv, TypeInv, TypeOK
    <2> QED BY <2>1, <2>2, BoundAssumption DEF LocalState
  <1>1. CASE ClientStep \/ InboundEnds \/ OutboundStep \/ Cleanup
    <2>1. turn' = turn
      BY <1>1 DEF ClientStep, ClientSendsUserMessage, ClientAnswers, ClientCloses,
                  InboundEnds, OutboundStep, OutboundDelivers, OutboundLosesMessage,
                  OutboundEnds, Cleanup
    <2> QED BY <2>1 DEF Reached
  <1>2. CASE InboundUserMessage
    <2>1. Head(inbox) = inbox[1] /\ 1 \in 1..Len(inbox)
      BY <1>2 DEF InboundUserMessage, IInv, TypeInv, TypeOK
    <2>2. At(Head(inbox).turn, "idle")
      BY <1>2, <2>1 DEF InboundUserMessage, IInv, ConsentInv, QueuedTurnsIdle,
                        IsUserMessage
    <2>3. turn'[t] = turn[t] \/ (At(t, "idle") /\ turn'[t] = [turn[t] EXCEPT !.pc = "llm"])
      BY <1>0, <1>2, <2>2 DEF InboundUserMessage
    <2> QED BY <1>0, <2>3 DEF Reached, Handling, At, LocalState
  <1>3. CASE InboundApprovalResponse
    <2>1. /\ turn'[t].pc = turn[t].pc /\ turn'[t].round = turn[t].round
          /\ turn'[t].next = turn[t].next
      BY <1>0, <1>3 DEF InboundApprovalResponse, LocalState
    <2> QED BY <2>1 DEF Reached
  <1>4. ASSUME NEW u \in Turn, TurnStep(u), u # t PROVE Reached(r)'
    <2>1. turn'[t] = turn[t]
      BY <1>0, <1>4, OneTurnMoves DEF IInv
    <2> QED BY <2>1 DEF Reached
  <1>5. CASE TurnStep(t)
    <2> DEFINE s == turn[t]
    <2>1. ASSUME NEW l \in {"persist", "error", "llm", "respond"}, OnlyMoves(t, l),
                 s.pc \notin Handling
          PROVE  Reached(r)'
      BY <1>0, <2>1 DEF OnlyMoves, Reached, LocalState
    <2>2. AgentReturnsAnswer(t) \/ AgentFails(t) \/ Resume(t) \/ Persists(t) => Reached(r)'
      BY <2>1 DEF AgentReturnsAnswer, AgentFails, AfterFailure, Resume, Persists, At,
                  Handling
    <2>3. ASSUME NEW b \in Batch, AgentReturnsCalls(t, b) PROVE Reached(r)'
      <3>1. turn'[t].round = s.round + 1
        BY <1>0, <2>3 DEF AgentReturnsCalls, LocalState
      <3> QED BY <1>0, <3>1 DEF Reached
    <2>4. CASE PassesCheck(t) \/ RegistersRequest(t) \/ SendsPrompt(t) \/ Approved(t)
               \/ ExecutesTool(t)
      <3>1. turn'[t].round = s.round /\ turn'[t].next = s.next
        <4>1. PassesCheck(t) \/ Approved(t) => OnlyMoves(t, "exec")
          BY DEF PassesCheck, Approved
        <4>2. OnlyMoves(t, "exec") => <3>1!1 /\ <3>1!2
          BY <1>0 DEF OnlyMoves, LocalState
        <4>3. RegistersRequest(t) => <3>1!1 /\ <3>1!2
          BY <1>0 DEF RegistersRequest, LocalState
        <4>4. SendsPrompt(t) => <3>1!1 /\ <3>1!2
          BY <1>0 DEF SendsPrompt, LocalState
        <4>5. ExecutesTool(t) => <3>1!1 /\ <3>1!2
          BY <1>0 DEF ExecutesTool, LocalState
        <4> QED BY <2>4, <4>1, <4>2, <4>3, <4>4, <4>5
      <3>2. turn'[t].pc \in Handling
        BY <1>0, <2>4 DEF PassesCheck, RegistersRequest, SendsPrompt, Approved,
                          ExecutesTool, OnlyMoves, LocalState, Handling
      <3> QED BY <3>1, <3>2 DEF Reached
    <2>5. CASE Denied(t) \/ ReportsProgress(t)
      <3>1. turn'[t].round = s.round /\ turn'[t].next = s.next + 1
        <4>1. Denied(t) => <3>1!1 /\ <3>1!2
          BY <1>0 DEF Denied, LocalState
        <4>2. ReportsProgress(t) => <3>1!1 /\ <3>1!2
          BY <1>0 DEF ReportsProgress, LocalState
        <4> QED BY <2>5, <4>1, <4>2
      <3> QED BY <1>0, <3>1 DEF Reached
    <2>6. CASE SendsFinal(t)
      <3>1. turn'[t].round = s.round /\ turn'[t].next = s.next
        BY <1>0, <2>6 DEF SendsFinal, LocalState
      <3>2. s.pc \notin Handling
        BY <2>6 DEF SendsFinal, Handling
      <3> QED BY <3>1, <3>2 DEF Reached
    <2> QED BY <1>5, <2>2, <2>3, <2>4, <2>5, <2>6 DEF TurnStep
  <1> QED BY <1>1, <1>2, <1>3, <1>4, <1>5 DEF Next, InboundStep

LEMMA AskedInPastNext == ASSUME IInv, Next PROVE AskedInPast'
  <1>0. /\ asked \subseteq Request
        /\ turn \in [Turn -> LocalState]
        /\ AskedInPast
    BY DEF IInv, TypeInv, TypeOK, ConsentInv
  <1>1. SUFFICES ASSUME NEW r \in asked' PROVE Reached(r)'
    BY DEF AskedInPast
  <1>2. CASE r \in asked
    BY <1>0, <1>2, ReachedStays DEF AskedInPast
  <1>3. CASE r \notin asked
    <2>1. PICK t \in Turn : RegistersRequest(t) /\ r = Current(t)
      <3>1. PICK t \in Turn : TurnStep(t)
        BY <1>3 DEF Next, ClientStep, ClientSendsUserMessage, ClientAnswers,
                    ClientCloses, InboundStep, InboundUserMessage,
                    InboundApprovalResponse, InboundEnds, OutboundStep,
                    OutboundDelivers, OutboundLosesMessage, OutboundEnds, Cleanup
      <3>2. RegistersRequest(t)
        BY <1>3, <3>1, TurnStepFrame
      <3> QED BY <1>3, <3>2 DEF RegistersRequest
    <2>2. /\ turn'[t].pc = "prompt" /\ turn'[t].round = turn[t].round
          /\ turn'[t].next = turn[t].next
      BY <1>0, <2>1 DEF RegistersRequest, LocalState
    <2>3. r[1] = t /\ r[2] = turn[t].round /\ r[3] = turn[t].next
      BY <2>1 DEF Current
    <2> QED BY <2>2, <2>3 DEF Reached, Handling
  <1> QED BY <1>2, <1>3

(* So the request about to be registered is new, and nobody answered it.   *)
LEMMA CurrentIsFresh ==
    ASSUME IInv, NEW t \in Turn, At(t, "check"), ~BatchHandled(t)
    PROVE  /\ Current(t) \in Request
           /\ Current(t) \notin asked
           /\ firstAnswer[Current(t)] = "none"
           /\ \A k \in 1..Len(inbox) : ~Answers(inbox[k], Current(t))
  <1>1. Current(t) \in Request
    BY FreshIsRequest DEF IInv
  <1>2. /\ turn[t].round \in Nat /\ turn[t].next \in Nat
    BY BoundAssumption DEF IInv, TypeInv, TypeOK, LocalState
  <1>3. ~Reached(Current(t))
    BY <1>2 DEF Reached, Current, At, Handling
  <1>4. Current(t) \notin asked
    BY <1>3 DEF IInv, ConsentInv, AskedInPast
  <1>5. firstAnswer[Current(t)] = "none"
    BY <1>1, <1>4 DEF IInv, ConsentInv, AnswersShown, PromptsAsked
  <1> QED BY <1>1, <1>4, <1>5 DEF IInv, ConsentInv, AnswersShown

-----------------------------------------------------------------------------
LEMMA QueuedUnderAppend ==
    ASSUME IInv, NEW r \in Request, AnswerWaits(r), EarliestIsFirst(r),
           NEW m \in ClientMessage, inbox' = Append(inbox, m), ~Answers(m, r),
           firstAnswer'[r] = firstAnswer[r], live' = live
    PROVE  AnswerWaits(r)' /\ EarliestIsFirst(r)'
  <1>1. /\ Len(inbox) \in Nat /\ Len(inbox') = Len(inbox) + 1
        /\ inbox'[Len(inbox) + 1] = m
        /\ \A k \in 1..Len(inbox) : k \in 1..Len(inbox') /\ inbox'[k] = inbox[k]
    BY DEF IInv, TypeInv, TypeOK
  <1>2. AnswerWaits(r)'
    BY <1>1 DEF AnswerWaits, Answers
  <1>3. EarliestIsFirst(r)'
    <2>1. SUFFICES ASSUME NEW k \in 1..Len(inbox'), Answers(inbox'[k], r),
                          \A j \in 1..Len(inbox') : j < k => ~Answers(inbox'[j], r)
                   PROVE  inbox'[k].approved = firstAnswer'[r]
      BY DEF EarliestIsFirst, Answers
    <2>2. k \in 1..Len(inbox)
      BY <1>1, <2>1 DEF Answers
    <2>3. \A j \in 1..Len(inbox) : j < k => ~Answers(inbox[j], r)
      BY <1>1, <2>1 DEF Answers
    <2> QED BY <1>1, <2>1, <2>2, <2>3 DEF EarliestIsFirst, Answers
  <1> QED BY <1>2, <1>3

LEMMA QueuedUnderTail ==
    ASSUME IInv, NEW r \in Request, AnswerWaits(r), EarliestIsFirst(r),
           inbox # <<>>, inbox' = Tail(inbox), ~Answers(Head(inbox), r),
           firstAnswer' = firstAnswer, live' = live
    PROVE  AnswerWaits(r)' /\ EarliestIsFirst(r)'
  <1>1. /\ 1 \in 1..Len(inbox) /\ Head(inbox) = inbox[1]
        /\ Len(inbox') = Len(inbox) - 1 /\ Len(inbox) \in Nat
        /\ \A k \in 1..Len(inbox') :
               k + 1 \in 1..Len(inbox) /\ inbox'[k] = inbox[k + 1]
    BY InboxShifts DEF IInv, TypeInv, TypeOK
  <1>2. AnswerWaits(r)'
    <2>1. SUFFICES ASSUME firstAnswer[r] # "none", "client" \in live
                   PROVE  \E k \in 1..Len(inbox') : Answers(inbox'[k], r)
      BY DEF AnswerWaits, Answers
    <2>2. PICK k \in 1..Len(inbox) : Answers(inbox[k], r)
      BY <2>1 DEF AnswerWaits
    <2>3. k # 1
      BY <1>1, <2>2
    <2>4. k - 1 \in 1..Len(inbox') /\ (k - 1) + 1 = k
      BY <1>1, <2>3
    <2>5. inbox'[k - 1] = inbox[k]
      BY <1>1, <2>4
    <2> QED BY <2>2, <2>4, <2>5
  <1>3. EarliestIsFirst(r)'
    <2>1. SUFFICES ASSUME NEW k \in 1..Len(inbox'), Answers(inbox'[k], r),
                          \A j \in 1..Len(inbox') : j < k => ~Answers(inbox'[j], r)
                   PROVE  inbox'[k].approved = firstAnswer'[r]
      BY DEF EarliestIsFirst, Answers
    <2>2. ASSUME NEW j \in 1..Len(inbox), j < k + 1 PROVE ~Answers(inbox[j], r)
      <3>1. CASE j = 1
        BY <1>1, <3>1
      <3>2. CASE j # 1
        <4>1. j - 1 \in 1..Len(inbox') /\ j - 1 < k /\ (j - 1) + 1 = j
          BY <1>1, <2>2, <3>2
        <4>2. inbox'[j - 1] = inbox[j]
          BY <1>1, <4>1
        <4> QED BY <2>1, <4>1, <4>2
      <3> QED BY <3>1, <3>2
    <2>3. k + 1 \in 1..Len(inbox) /\ inbox'[k] = inbox[k + 1]
      BY <1>1
    <2> QED BY <2>1, <2>2, <2>3 DEF EarliestIsFirst
  <1> QED BY <1>2, <1>3

LEMMA QueuedUnderAnswer ==
    ASSUME IInv, NEW r \in Request, AnswerWaits(r), EarliestIsFirst(r),
           NEW a \in Answer, ClientAnswers(r, a)
    PROVE  AnswerWaits(r)' /\ EarliestIsFirst(r)'
  <1> DEFINE m == [type |-> "approval_response", request |-> r, approved |-> a]
  <1>1. /\ Len(inbox) \in Nat /\ Len(inbox') = Len(inbox) + 1
        /\ inbox'[Len(inbox) + 1] = m
        /\ \A k \in 1..Len(inbox) : k \in 1..Len(inbox') /\ inbox'[k] = inbox[k]
    BY DEF IInv, TypeInv, TypeOK, ClientAnswers
  <1>2. /\ "client" \in live
        /\ firstAnswer'[r] = IF firstAnswer[r] = "none" THEN a ELSE firstAnswer[r]
    BY DEF IInv, TypeInv, TypeOK, ClientAnswers
  <1>3. AnswerWaits(r)'
    BY <1>1 DEF AnswerWaits, Answers
  <1>4. EarliestIsFirst(r)'
    <2>1. SUFFICES ASSUME NEW k \in 1..Len(inbox'), Answers(inbox'[k], r),
                          \A j \in 1..Len(inbox') : j < k => ~Answers(inbox'[j], r)
                   PROVE  inbox'[k].approved = firstAnswer'[r]
      BY DEF EarliestIsFirst, Answers
    <2>2. CASE k \in 1..Len(inbox)
      <3>1. Answers(inbox[k], r) /\ firstAnswer[r] # "none"
        BY <1>1, <2>1, <2>2 DEF IInv, ConsentInv, AnswersShown
      <3>2. \A j \in 1..Len(inbox) : j < k => ~Answers(inbox[j], r)
        BY <1>1, <2>1
      <3> QED BY <1>1, <1>2, <2>2, <3>1, <3>2 DEF EarliestIsFirst
    <2>3. CASE k = Len(inbox) + 1
      <3>1. \A j \in 1..Len(inbox) : ~Answers(inbox[j], r)
        BY <1>1, <2>1, <2>3
      <3>2. firstAnswer[r] = "none"
        BY <1>2, <3>1 DEF AnswerWaits
      <3> QED BY <1>1, <1>2, <2>3, <3>2
    <2> QED BY <1>1, <2>2, <2>3
  <1> QED BY <1>3, <1>4

LEMMA FirstAnswerQueuedNext == ASSUME IInv, Next PROVE FirstAnswerQueued'
  <1>0. /\ inbox \in Seq(ClientMessage) /\ pending \subseteq Request
        /\ firstAnswer \in [Request -> Answer \cup {"none"}]
        /\ FirstAnswerQueued
    BY DEF IInv, TypeInv, TypeOK, ConsentInv
  <1>1. SUFFICES ASSUME NEW r \in pending' PROVE AnswerWaits(r)' /\ EarliestIsFirst(r)'
    BY DEF FirstAnswerQueued
  <1>2. ASSUME r \in pending, inbox' = inbox, firstAnswer' = firstAnswer,
               "client" \in live' => "client" \in live
        PROVE  AnswerWaits(r)' /\ EarliestIsFirst(r)'
    BY <1>0, <1>2 DEF FirstAnswerQueued, AnswerWaits, EarliestIsFirst, Answers
  <1>3. ASSUME NEW t \in Turn, ClientSendsUserMessage(t)
        PROVE  AnswerWaits(r)' /\ EarliestIsFirst(r)'
    <2>1. UserMessage(t) \in ClientMessage /\ ~Answers(UserMessage(t), r)
      BY DEF UserMessage, ClientMessage, Answers
    <2> QED BY <1>0, <1>3, <2>1, QueuedUnderAppend
            DEF ClientSendsUserMessage, FirstAnswerQueued
  <1>4. ASSUME NEW q \in Request, NEW a \in Answer, ClientAnswers(q, a)
        PROVE  AnswerWaits(r)' /\ EarliestIsFirst(r)'
    <2>1. r \in pending /\ r \in Request
      BY <1>0, <1>4 DEF ClientAnswers
    <2>2. CASE q = r
      BY <1>0, <1>4, <2>1, <2>2, QueuedUnderAnswer DEF FirstAnswerQueued
    <2>3. CASE q # r
      <3> DEFINE m == [type |-> "approval_response", request |-> q, approved |-> a]
      <3>1. m \in ClientMessage /\ ~Answers(m, r)
        BY <2>3 DEF ClientMessage, Answers
      <3>2. firstAnswer'[r] = firstAnswer[r] /\ inbox' = Append(inbox, m) /\ live' = live
        BY <1>0, <1>4, <2>1, <2>3 DEF ClientAnswers
      <3> QED BY <1>0, <2>1, <3>1, <3>2, QueuedUnderAppend DEF FirstAnswerQueued
    <2> QED BY <2>2, <2>3
  <1>5. CASE ClientCloses
    <2>1. "client" \notin live' /\ r \in pending /\ firstAnswer' = firstAnswer
      BY <1>5 DEF ClientCloses
    <2>2. CASE inbox' = inbox
      BY <1>2, <2>1, <2>2
    <2>3. CASE inbox' = <<>>
      BY <2>1, <2>3 DEF AnswerWaits, EarliestIsFirst
    <2> QED BY <1>5, <2>2, <2>3 DEF ClientCloses
  <1>6. CASE InboundUserMessage
    <2>1. ~Answers(Head(inbox), r)
      BY <1>6 DEF InboundUserMessage, Answers
    <2> QED BY <1>0, <1>6, <2>1, QueuedUnderTail DEF InboundUserMessage, FirstAnswerQueued
  <1>7. CASE InboundApprovalResponse
    <2>1. r \in pending /\ ~Answers(Head(inbox), r)
      BY <1>7 DEF InboundApprovalResponse, Answers
    <2> QED BY <1>0, <1>7, <2>1, QueuedUnderTail
            DEF InboundApprovalResponse, FirstAnswerQueued
  <1>8. CASE InboundEnds \/ OutboundStep \/ Cleanup
    BY <1>2, <1>8 DEF InboundEnds, OutboundStep, OutboundDelivers,
                      OutboundLosesMessage, OutboundEnds, Cleanup
  <1>9. ASSUME NEW t \in Turn, TurnStep(t)
        PROVE  AnswerWaits(r)' /\ EarliestIsFirst(r)'
    <2>1. inbox' = inbox /\ firstAnswer' = firstAnswer /\ live' = live
      BY <1>9, OneTurnMoves DEF IInv
    <2>2. CASE r \in pending
      BY <1>2, <2>1, <2>2
    <2>3. CASE r \notin pending
      <3>1. RegistersRequest(t) /\ r = Current(t)
        BY <1>9, <2>3, TurnStepFrame DEF RegistersRequest
      <3>2. firstAnswer[r] = "none" /\ \A k \in 1..Len(inbox) : ~Answers(inbox[k], r)
        BY <3>1, CurrentIsFresh DEF RegistersRequest
      <3> QED BY <2>1, <3>2 DEF AnswerWaits, EarliestIsFirst, Answers
    <2> QED BY <2>2, <2>3
  <1> QED BY <1>3, <1>4, <1>5, <1>6, <1>7, <1>8, <1>9 DEF Next, ClientStep, InboundStep

-----------------------------------------------------------------------------
(* A first answer is never replaced.                                       *)
LEMMA FirstAnswerStays ==
    ASSUME IInv, Next, NEW r \in Request, firstAnswer[r] # "none"
    PROVE  firstAnswer'[r] = firstAnswer[r]
  <1>0. firstAnswer \in [Request -> Answer \cup {"none"}]
    BY DEF IInv, TypeInv, TypeOK
  <1>1. CASE ClientStep
    BY <1>0, <1>1 DEF ClientStep, ClientSendsUserMessage, ClientAnswers, ClientCloses
  <1>2. CASE InboundStep \/ OutboundStep \/ Cleanup
    BY <1>2 DEF InboundStep, InboundUserMessage, InboundApprovalResponse, InboundEnds,
                OutboundStep, OutboundDelivers, OutboundLosesMessage, OutboundEnds,
                Cleanup
  <1>3. ASSUME NEW t \in Turn, TurnStep(t) PROVE firstAnswer' = firstAnswer
    BY <1>3, OneTurnMoves DEF IInv
  <1> QED BY <1>1, <1>2, <1>3 DEF Next

(* Whatever happens to the other parts, a turn that stays where it is      *)
(* keeps its request, its verdict and the call it handles.                 *)
LEMMA OthersKeepTurn ==
    ASSUME IInv, Next, NEW u \in Turn, ~TurnStep(u),
           turn'[u].pc \in {"prompt", "wait", "exec"}
    PROVE  \/ turn'[u] = turn[u]
           \/ /\ InboundApprovalResponse
              /\ Head(inbox).request \in pending /\ Awaits(Head(inbox).request)
              /\ Head(inbox).request[1] = u
              /\ turn'[u] = [turn[u] EXCEPT !.verdict = Head(inbox).approved]
  <1>0. turn \in [Turn -> LocalState]
    BY DEF IInv, TypeInv, TypeOK
  <1>1. CASE ClientStep \/ InboundEnds \/ OutboundStep \/ Cleanup
    BY <1>1 DEF ClientStep, ClientSendsUserMessage, ClientAnswers, ClientCloses,
                InboundEnds, OutboundStep, OutboundDelivers, OutboundLosesMessage,
                OutboundEnds, Cleanup
  <1>2. CASE InboundUserMessage
    BY <1>0, <1>2 DEF InboundUserMessage, LocalState
  <1>3. CASE InboundApprovalResponse
    BY <1>0, <1>3 DEF InboundApprovalResponse
  <1>4. ASSUME NEW t \in Turn, TurnStep(t) PROVE turn'[u] = turn[u]
    BY <1>4, OneTurnMoves DEF IInv
  <1> QED BY <1>1, <1>2, <1>3, <1>4 DEF Next, InboundStep

LEMMA VerdictIsFirstNext == ASSUME IInv, Next PROVE VerdictIsFirst'
  <1>0. /\ turn \in [Turn -> LocalState] /\ pending \subseteq Request
        /\ VerdictIsFirst /\ FirstAnswerQueued
    BY DEF IInv, TypeInv, TypeOK, ConsentInv
  <1>1. SUFFICES ASSUME NEW u \in Turn, turn'[u].pc \in {"prompt", "wait"},
                        turn'[u].verdict # "none"
                 PROVE  firstAnswer'[Current(u)'] = turn'[u].verdict
    BY DEF VerdictIsFirst
  <1>2. ASSUME turn[u].pc \in {"prompt", "wait"}, Current(u)' = Current(u),
               turn'[u].verdict = turn[u].verdict
        PROVE  firstAnswer'[Current(u)'] = turn'[u].verdict
    <2>1. Current(u) \in Request
      BY <1>2, CurrentIsRequest DEF IInv, Handling
    <2>2. firstAnswer[Current(u)] = turn[u].verdict
      BY <1>0, <1>1, <1>2 DEF VerdictIsFirst
    <2> QED BY <1>1, <1>2, <2>1, <2>2, FirstAnswerStays
  <1>3. CASE TurnStep(u)
    <2>1. ~RegistersRequest(u)
      BY <1>0, <1>1 DEF RegistersRequest, LocalState
    <2>2. SendsPrompt(u)
      BY <1>1, <1>3, <2>1, WaysIn DEF IInv
    <2>3. /\ turn[u].pc = "prompt" /\ turn'[u].verdict = turn[u].verdict
          /\ Current(u)' = Current(u)
      BY <1>0, <2>2 DEF SendsPrompt, At, Current, LocalState
    <2> QED BY <1>2, <2>3
  <1>4. CASE turn'[u] = turn[u]
    BY <1>1, <1>2, <1>4 DEF Current
  <1>5. ASSUME InboundApprovalResponse,
               Head(inbox).request \in pending, Awaits(Head(inbox).request),
               Head(inbox).request[1] = u,
               turn'[u] = [turn[u] EXCEPT !.verdict = Head(inbox).approved]
        PROVE  firstAnswer'[Current(u)'] = turn'[u].verdict
    <2> DEFINE r == Head(inbox).request
    <2>1. /\ inbox # <<>> /\ firstAnswer' = firstAnswer
          /\ Head(inbox) = inbox[1] /\ 1 \in 1..Len(inbox)
      BY <1>5 DEF InboundApprovalResponse, IInv, TypeInv, TypeOK
    <2>2. Answers(inbox[1], r)
      BY <1>5, <2>1 DEF InboundApprovalResponse, Answers
    <2>3. inbox[1].approved = firstAnswer[r]
      BY <1>0, <1>5, <2>1, <2>2 DEF FirstAnswerQueued, EarliestIsFirst
    <2>4. Current(u) = r /\ Current(u)' = Current(u)
      BY <1>0, <1>5 DEF Awaits, Current, LocalState
    <2>5. turn'[u].verdict = Head(inbox).approved
      BY <1>0, <1>5 DEF LocalState
    <2> QED BY <2>1, <2>3, <2>4, <2>5
  <1> QED BY <1>1, <1>3, <1>4, <1>5, OthersKeepTurn

LEMMA ExecClearedNext == ASSUME IInv, Next PROVE ExecCleared'
  <1>0. /\ turn \in [Turn -> LocalState]
        /\ VerdictIsFirst /\ ExecCleared
    BY DEF IInv, TypeInv, TypeOK, ConsentInv
  <1>1. SUFFICES ASSUME NEW u \in Turn, turn'[u].pc = "exec", Gated(CurrentTool(u)')
                 PROVE  firstAnswer'[Current(u)'] = "yes"
    BY DEF ExecCleared, At, Gated
  <1>2. ASSUME turn[u].pc \in Handling, Current(u)' = Current(u),
               firstAnswer[Current(u)] = "yes"
        PROVE  firstAnswer'[Current(u)'] = "yes"
    BY <1>2, CurrentIsRequest, FirstAnswerStays DEF IInv
  <1>3. CASE TurnStep(u)
    <2>1. (PassesCheck(u) \/ Approved(u)) /\ OnlyMoves(u, "exec")
      BY <1>1, <1>3, WaysIn DEF IInv
    <2>2. Current(u)' = Current(u) /\ CurrentTool(u)' = CurrentTool(u)
      BY <1>0, <2>1 DEF OnlyMoves, Current, CurrentTool, LocalState
    <2>3. Approved(u)
      BY <1>1, <2>1, <2>2 DEF PassesCheck
    <2>4. turn[u].pc \in Handling /\ firstAnswer[Current(u)] = "yes"
      BY <1>0, <2>3 DEF Approved, At, VerdictIsFirst, Handling
    <2> QED BY <1>2, <2>2, <2>4
  <1>4. CASE turn'[u] = turn[u]
    <2>1. Current(u)' = Current(u) /\ CurrentTool(u)' = CurrentTool(u)
      BY <1>4 DEF Current, CurrentTool
    <2>2. firstAnswer[Current(u)] = "yes"
      BY <1>0, <1>1, <1>4, <2>1 DEF ExecCleared, At, Gated
    <2> QED BY <1>1, <1>2, <1>4, <2>1, <2>2 DEF Handling
  <1>5. CASE /\ Awaits(Head(inbox).request) /\ Head(inbox).request[1] = u
             /\ turn'[u] = [turn[u] EXCEPT !.verdict = Head(inbox).approved]
    BY <1>0, <1>1, <1>5 DEF Awaits, LocalState
  <1> QED BY <1>1, <1>3, <1>4, <1>5, OthersKeepTurn

LEMMA GatedCallsNext == ASSUME IInv, Next PROVE GatedCallsNeedFirstYes'
  <1>0. /\ turn \in [Turn -> LocalState] /\ executed \subseteq Request \X Tool
        /\ ExecCleared /\ GatedCallsNeedFirstYes
    BY DEF IInv, TypeInv, TypeOK, ConsentInv
  <1>1. SUFFICES ASSUME NEW e \in executed', Gated(e[2])
                 PROVE  firstAnswer'[e[1]] = "yes"
    BY DEF GatedCallsNeedFirstYes, Gated
  <1>2. CASE e \in executed
    BY <1>0, <1>1, <1>2, FirstAnswerStays DEF GatedCallsNeedFirstYes
  <1>3. CASE e \notin executed
    <2>1. PICK t \in Turn : TurnStep(t)
      BY <1>3 DEF Next, ClientStep, ClientSendsUserMessage, ClientAnswers,
                  ClientCloses, InboundStep, InboundUserMessage,
                  InboundApprovalResponse, InboundEnds, OutboundStep,
                  OutboundDelivers, OutboundLosesMessage, OutboundEnds, Cleanup
    <2>2. ExecutesTool(t)
      BY <1>3, <2>1, TurnStepFrame
    <2>3. At(t, "exec") /\ e = <<Current(t), CurrentTool(t)>>
      BY <1>3, <2>2 DEF ExecutesTool
    <2>4. firstAnswer[Current(t)] = "yes"
      BY <1>0, <1>1, <2>3 DEF ExecCleared
    <2> QED BY <2>2, <2>3, <2>4 DEF ExecutesTool
  <1> QED BY <1>2, <1>3

LEMMA ConsentInit == Init => ConsentInv
  BY DEF Init, Idle, ConsentInv, QueuedTurnsIdle, PromptsAsked, ChannelAsked,
         WaitingAsked, AnswersShown, AskedInPast, FirstAnswerQueued, VerdictIsFirst,
         ExecCleared, GatedCallsNeedFirstYes, At

LEMMA ConsentNext == IInv /\ [Next]_vars => ConsentInv'
  <1>1. CASE Next
    BY <1>1, QueuedTurnsIdleNext, PromptsAskedNext, AnswersShownNext, AskedInPastNext,
       FirstAnswerQueuedNext, VerdictIsFirstNext, ExecClearedNext, GatedCallsNext
       DEF ConsentInv
  <1>2. CASE UNCHANGED vars
    BY <1>2 DEF vars, IInv, ConsentInv, QueuedTurnsIdle, PromptsAsked, ChannelAsked,
                WaitingAsked, AnswersShown, AskedInPast, Reached, FirstAnswerQueued,
                AnswerWaits, EarliestIsFirst, VerdictIsFirst, ExecCleared,
                GatedCallsNeedFirstYes, At, Current, CurrentTool, Answers
  <1> QED BY <1>1, <1>2

LEMMA ConsentInvariant == Spec => []IInv
  <1>1. Init => IInv
    BY TypeInit, ConsentInit DEF IInv
  <1>2. IInv /\ [Next]_vars => IInv'
    BY TypeNext, ConsentNext DEF IInv
  <1> QED BY <1>1, <1>2, PTL DEF Spec

(* A call that needs consent is executed only if the first answer the      *)
(* client sent to that very request was yes: no later answer, no answer to *)
(* another turn's request, no timeout and no disconnect lets it through.   *)
THEOREM ConsentSafe == Spec => []GatedCallsNeedFirstYes
  <1>1. IInv => GatedCallsNeedFirstYes
    BY DEF IInv, ConsentInv
  <1> QED BY <1>1, ConsentInvariant, PTL

-----------------------------------------------------------------------------
LEMMA WaitingNext == IInv /\ WaitingIsAnswerable /\ [Next]_vars => WaitingIsAnswerable'
  <1> SUFFICES ASSUME IInv, WaitingIsAnswerable, [Next]_vars,
                      NEW u \in Turn, turn'[u].pc \in {"prompt", "wait"},
                      turn'[u].verdict = "none"
               PROVE  Current(u)' \in pending'
    BY DEF WaitingIsAnswerable
  <1>0. turn \in [Turn -> LocalState] /\ pending \subseteq Request
    BY DEF IInv, TypeInv, TypeOK
  <1>1. ASSUME turn[u].pc \in {"prompt", "wait"}, turn[u].verdict = "none",
               Current(u)' = Current(u), pending \subseteq pending'
        PROVE  Current(u)' \in pending'
    BY <1>1 DEF WaitingIsAnswerable
  <1>2. CASE TurnStep(u)
    <2>1. RegistersRequest(u) \/ SendsPrompt(u)
      BY <1>2, WaysIn DEF IInv
    <2>2. Current(u)' = Current(u)
      BY <1>0, <2>1 DEF RegistersRequest, SendsPrompt, Current, LocalState
    <2>3. CASE RegistersRequest(u)
      BY <2>2, <2>3 DEF RegistersRequest
    <2>4. CASE SendsPrompt(u)
      <3>1. turn[u].pc = "prompt" /\ turn[u].verdict = "none"
        BY <1>0, <2>4 DEF SendsPrompt, At, LocalState
      <3> QED BY <1>1, <2>2, <2>4, <3>1 DEF SendsPrompt
    <2> QED BY <2>1, <2>3, <2>4
  <1>3. CASE Next /\ turn'[u] = turn[u]
    <2>1. Current(u)' = Current(u)
      BY <1>3 DEF Current
    <2>2. CASE InboundApprovalResponse
      <3> DEFINE r == Head(inbox).request
      <3>1. r \in Request /\ Head(inbox).approved \in Answer
        BY <2>2, InboxHead DEF InboundApprovalResponse, IInv, TypeInv
      <3>2. Current(u) \in pending
        BY <1>3, <2>1 DEF WaitingIsAnswerable
      <3>3. r # Current(u)
        <4>1. SUFFICES ASSUME r = Current(u) PROVE FALSE
          OBVIOUS
        <4>2. r[1] = u /\ Awaits(r) /\ r \in pending
          BY <1>3, <3>2, <4>1 DEF Current, Awaits
        <4>3. turn'[u].verdict \in Answer
          BY <1>0, <2>2, <3>1, <4>2 DEF InboundApprovalResponse, LocalState
        <4> QED BY <4>3 DEF Answer
      <3> QED BY <2>1, <2>2, <3>2, <3>3 DEF InboundApprovalResponse
    <2>3. CASE ~InboundApprovalResponse
      <3>1. pending \subseteq pending'
        BY <1>3, <2>3, TurnStepFrame
           DEF Next, ClientStep, ClientSendsUserMessage, ClientAnswers, ClientCloses,
               InboundStep, InboundUserMessage, InboundEnds, OutboundStep,
               OutboundDelivers, OutboundLosesMessage, OutboundEnds, Cleanup,
               RegistersRequest
      <3> QED BY <1>1, <1>3, <2>1, <3>1
    <2> QED BY <2>2, <2>3
  <1>4. CASE Next /\ ~TurnStep(u) /\ turn'[u] # turn[u]
    <2>1. Head(inbox).approved \in Answer /\ turn'[u].verdict = Head(inbox).approved
      BY <1>0, <1>4, OthersKeepTurn, InboxHead
         DEF InboundApprovalResponse, IInv, TypeInv, LocalState
    <2> QED BY <2>1 DEF Answer
  <1>5. CASE UNCHANGED vars
    BY <1>1, <1>5 DEF vars, Current
  <1> QED BY <1>2, <1>3, <1>4, <1>5

(* A turn that waits can be answered: its request stays in the map until   *)
(* an answer has been put into its oneshot.                                *)
THEOREM WaitingAnswerable == Spec => []WaitingIsAnswerable
  <1>1. Init => WaitingIsAnswerable
    BY DEF Init, Idle, WaitingIsAnswerable
  <1> QED BY <1>1, WaitingNext, ConsentInvariant, PTL DEF Spec
=============================================================================
