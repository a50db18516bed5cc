----------------------------- MODULE Chat_proofs ------------------------------
(***************************************************************************)
(* The REPL is a client as WsSession allows it, so what was proved of      *)
(* every session holds of this one; and a prompt it has lost stays         *)
(* unanswered, for every number of turns and calls and every bound.        *)
(***************************************************************************)
EXTENDS Chat, WsGate_proofs

(* The prompt for r is among the messages s; no prompt is there twice.     *)
Holds(s, r) ==
    \E k \in 1..Len(s) : s[k].type = "confirmation_prompt" /\ s[k].request = r

Once(s) ==
    \A j, k \in 1..Len(s) :
        /\ s[j].type = "confirmation_prompt" /\ s[k].type = "confirmation_prompt"
        /\ s[j].request = s[k].request
        => j = k

(* A prompt is sent once: it is about to be sent, in the channel, or with  *)
(* the client (or lost), never in two of these places.                     *)
SentOnce ==
    /\ Once(channel)
    /\ \A r \in shown : ~Holds(channel, r)
    /\ \A t \in Turn : At(t, "prompt") =>
           Current(t) \notin shown /\ ~Holds(channel, Current(t))

(* Requests the REPL has been sent and not answered.                       *)
OnScreen(r) == r \in overwritten \cup pendingApproval \/ Holds(unread, r)

ScreenInv ==
    /\ Once(unread)
    /\ overwritten \cap pendingApproval = {}
    /\ \A r \in overwritten \cup pendingApproval : ~Holds(unread, r)
    /\ \A r \in Request : OnScreen(r) => r \in shown /\ firstAnswer[r] = "none"

ChatInv == GInv /\ SentOnce /\ ChatTypeOK /\ ScreenInv

-----------------------------------------------------------------------------
LEMMA TailHolds ==
    ASSUME NEW s \in Seq(ServerMessage), s # <<>>, Once(s)
    PROVE  /\ Once(Tail(s))
           /\ \A r : Holds(Tail(s), r) => Holds(s, r)
           /\ Head(s).type = "confirmation_prompt" => ~Holds(Tail(s), Head(s).request)
  <1>1. /\ Len(s) \in Nat /\ Len(s) >= 1 /\ Len(Tail(s)) = Len(s) - 1
        /\ \A k \in 1..Len(Tail(s)) : Tail(s)[k] = s[k + 1] /\ k + 1 \in 1..Len(s)
        /\ Head(s) = s[1] /\ 1 \in 1..Len(s)
    OBVIOUS
  <1> QED BY <1>1 DEF Once, Holds

LEMMA AppendHolds ==
    ASSUME NEW s \in Seq(ServerMessage), NEW m \in ServerMessage
    PROVE  /\ \A r : Holds(Append(s, m), r) =>
                         \/ Holds(s, r)
                         \/ m.type = "confirmation_prompt" /\ m.request = r
           /\ Once(s) /\ (m.type = "confirmation_prompt" => ~Holds(s, m.request)) =>
                  Once(Append(s, m))
  <1>1. /\ Len(s) \in Nat /\ Len(Append(s, m)) = Len(s) + 1
        /\ \A k \in 1..Len(s) : Append(s, m)[k] = s[k]
        /\ Append(s, m)[Len(s) + 1] = m
        /\ \A k \in 1..(Len(s) + 1) : k \in 1..Len(s) \/ k = Len(s) + 1
    OBVIOUS
  <1> QED BY <1>1 DEF Once, Holds

LEMMA EmptyHolds == Once(<<>>) /\ \A r : ~Holds(<<>>, r)
  BY DEF Once, Holds

(* What a step of the session does to the channel and to what the client   *)
(* has been shown.                                                         *)
LEMMA ChannelMoves ==
    ASSUME IInv, Next
    PROVE  \/ channel' = channel /\ shown' = shown
           \/ (channel' = <<>> \/ (channel # <<>> /\ channel' = Tail(channel)))
                 /\ shown' = shown
           \/ OutboundDelivers
           \/ \E t \in Turn : SendsPrompt(t)
           \/ \E m \in ServerMessage : /\ m.type # "confirmation_prompt"
                                       /\ channel' = Append(channel, m)
                                       /\ shown' = shown
  BY ZenonT(60) DEF Next, ClientStep, ClientSendsUserMessage, ClientAnswers, ClientCloses,
         InboundStep, InboundUserMessage, InboundApprovalResponse, InboundEnds,
         OutboundStep, OutboundLosesMessage, OutboundEnds, Cleanup,
         TurnStep, AgentReturnsCalls, AgentReturnsAnswer, AgentFails, Resume,
         PassesCheck, RegistersRequest, Approved, Denied, ExecutesTool,
         ReportsProgress, Persists, SendsFinal, OnlyMoves, SendToClient,
         ServerMessage

(* A turn that is about to send a prompt was so before, or its request is  *)
(* new.                                                                    *)
LEMMA PromptNew ==
    ASSUME GInv, Next, NEW t \in Turn, turn'[t].pc = "prompt"
    PROVE  /\ Current(t)' = Current(t)
           /\ \/ At(t, "prompt")
              \/ Current(t) \notin asked
  <1>0. IInv
    BY DEF GInv
  <1>1. CASE TurnStep(t)
    <2>1. RegistersRequest(t)
      BY <1>0, <1>1, WaysIn DEF IInv
    <2> QED BY <1>0, <2>1, RegistersFields, CurrentIsFresh
               DEF RegistersRequest, Keeps, Current
  <1>2. CASE ~TurnStep(t)
    BY <1>2, CurrentStays DEF At
  <1> QED BY <1>1, <1>2

LEMMA NewNotSent ==
    ASSUME IInv, NEW r, r \notin asked
    PROVE  r \notin shown /\ ~Holds(channel, r)
  BY DEF IInv, ConsentInv, PromptsAsked, ChannelAsked, Holds, IsPrompt

LEMMA SentOnceNext == ASSUME GInv, SentOnce, Next PROVE SentOnce'
  <1>0. IInv /\ channel \in Seq(ServerMessage)
    BY DEF GInv, IInv, TypeInv, TypeOK
  <1>1. ASSUME NEW t \in Turn, turn'[t].pc = "prompt"
        PROVE  /\ Current(t)' = Current(t) /\ Current(t) \notin shown
               /\ ~Holds(channel, Current(t))
    BY <1>0, <1>1, PromptNew, NewNotSent DEF SentOnce
  <1>2. ASSUME shown' = shown, Once(channel'),
               \A r : Holds(channel', r) => Holds(channel, r)
        PROVE  SentOnce'
    BY <1>1, <1>2 DEF SentOnce, At
  <1>3. CASE channel' = channel /\ shown' = shown
    BY <1>2, <1>3 DEF SentOnce
  <1>4. CASE channel' = <<>> /\ shown' = shown
    BY <1>2, <1>4, EmptyHolds
  <1>5. CASE channel # <<>> /\ channel' = Tail(channel) /\ shown' = shown
    BY <1>0, <1>2, <1>5, TailHolds DEF SentOnce
  <1>6. CASE OutboundDelivers
    <2>1. /\ channel # <<>> /\ channel' = Tail(channel)
          /\ Once(channel') /\ \A r : Holds(channel', r) => Holds(channel, r)
      BY <1>0, <1>6, TailHolds DEF OutboundDelivers, SentOnce
    <2>2. CASE Head(channel).type = "confirmation_prompt"
      <3> DEFINE new == Head(channel).request
      <3>1. shown' = shown \cup {new} /\ ~Holds(channel', new) /\ Holds(channel, new)
        <4>1. Head(channel) = channel[1] /\ 1 \in 1..Len(channel)
          BY <1>0, <2>1
        <4> QED BY <1>0, <1>6, <2>1, <2>2, <4>1, TailHolds
                   DEF OutboundDelivers, Holds, SentOnce
      <3> HIDE DEF new
      <3> QED BY <1>1, <2>1, <3>1 DEF SentOnce, At
    <2>3. CASE Head(channel).type # "confirmation_prompt"
      BY <1>2, <1>6, <2>1, <2>3 DEF OutboundDelivers
    <2> QED BY <2>2, <2>3
  <1>7. ASSUME NEW t \in Turn, SendsPrompt(t) PROVE SentOnce'
    <2> DEFINE m == [type |-> "confirmation_prompt", request |-> Current(t)]
    <2>1. /\ shown' = shown /\ At(t, "prompt") /\ turn'[t].pc = "wait"
          /\ channel' = channel \/ channel' = Append(channel, m)
      BY <1>0, <1>7, PromptFields DEF SendsPrompt, SendToClient
    <2>2. m \in ServerMessage /\ m.type = "confirmation_prompt" /\ m.request = Current(t)
      BY <1>0, <2>1, CurrentIsRequest DEF ServerMessage, IInv, Handling, At
    <2> HIDE DEF m
    <2>3. CASE channel' = Append(channel, m)
      <3>1. Once(channel')
        BY <1>0, <2>1, <2>2, <2>3, AppendHolds DEF SentOnce
      <3>2. \A r : Holds(channel', r) => Holds(channel, r) \/ r = Current(t)
        BY <1>0, <2>2, <2>3, AppendHolds
      <3>3. ASSUME NEW r \in shown' PROVE ~Holds(channel', r)
        BY <2>1, <3>2, <3>3 DEF SentOnce
      <3>4. ASSUME NEW u \in Turn, turn'[u].pc = "prompt"
            PROVE  Current(u)' \notin shown' /\ ~Holds(channel', Current(u)')
        <4>1. u # t
          BY <2>1, <3>4
        <4>2. Current(u) # Current(t)
          BY <4>1 DEF Current
        <4> QED BY <1>1, <2>1, <3>2, <3>4, <4>2
      <3> QED BY <3>1, <3>3, <3>4 DEF SentOnce, At
    <2> QED BY <1>3, <2>1, <2>3
  <1>8. ASSUME NEW m \in ServerMessage, m.type # "confirmation_prompt",
               channel' = Append(channel, m), shown' = shown
        PROVE  SentOnce'
    BY <1>0, <1>2, <1>8, AppendHolds DEF SentOnce
  <1> QED BY <1>0, <1>3, <1>4, <1>5, <1>6, <1>7, <1>8, ChannelMoves

LEMMA SentOnceInit == Init => SentOnce
  BY EmptyHolds DEF Init, Idle, SentOnce, At

-----------------------------------------------------------------------------
(* Every step of the REPL is one of the session or leaves it alone.        *)
LEMMA ChatStepsAreSteps ==
    ASSUME ChatTypeOK, [ChatNext]_allVars
    PROVE  [Next]_vars
  <1>1. CASE SessionStep \/ Receives
    BY <1>1 DEF SessionStep, Receives, Next, OutboundStep
  <1>2. CASE ServerDies \/ Renders \/ TypesText \/ Backspace
    BY <1>2 DEF ServerDies, Renders, TypesText, Backspace
  <1>3. ASSUME NEW a \in Answer, AnswersKey(a) PROVE Next
    <2>1. PICK r \in pendingApproval : ClientAnswers(r, a)
      BY <1>3 DEF AnswersKey
    <2>2. r \in Request
      BY <2>1 DEF ChatTypeOK
    <2> QED BY <2>1, <2>2 DEF Next, ClientStep
  <1>4. CASE Enter \/ Quits \/ SendFails
    BY <1>4 DEF Enter, Quits, SendFails, Next, ClientStep
  <1>5. CASE UNCHANGED allVars
    BY <1>5 DEF allVars
  <1> QED BY <1>1, <1>2, <1>3, <1>4, <1>5 DEF ChatNext, KeyStep

LEMMA ChatTypeNext ==
    ASSUME TypeOK, ChatTypeOK, [ChatNext]_allVars
    PROVE  ChatTypeOK'
  <1>0. /\ server \in {"other", "own", "gone"}
        /\ unread \in Seq(ServerMessage) /\ Len(unread) <= MaxUnread
        /\ pendingApproval \in {{}} \cup {{r} : r \in Request}
        /\ typing \in BOOLEAN /\ approvalMode \in BOOLEAN
        /\ approvalMode => pendingApproval # {}
        /\ overwritten \subseteq Request
    BY DEF ChatTypeOK
  <1>1. CASE SessionStep \/ UNCHANGED allVars
    <2>1. UNCHANGED <<server, unread, pendingApproval, typing, approvalMode, overwritten>>
      BY <1>1 DEF SessionStep, allVars, chatVars
    <2> QED BY <1>0, <2>1 DEF ChatTypeOK
  <1>2. CASE Receives
    <2>1. Head(channel) \in ServerMessage
      BY <1>2 DEF Receives, OutboundDelivers, TypeOK
    <2>2. unread' \in Seq(ServerMessage) /\ Len(unread') <= MaxUnread
      BY <1>0, <1>2, <2>1, UnreadAssumption DEF Receives
    <2> QED BY <1>0, <1>2, <2>2 DEF Receives, ChatTypeOK
  <1>3. CASE ServerDies \/ TypesText \/ Backspace \/ Enter \/ Quits \/ SendFails
    <2>1. /\ server' \in {"other", "own", "gone"}
          /\ unread' = unread /\ overwritten' = overwritten
          /\ pendingApproval' \in {{}, pendingApproval}
      BY <1>0, <1>3 DEF ServerDies, TypesText, Backspace, Enter, Quits, SendFails
    <2>2. approvalMode' \in BOOLEAN /\ (approvalMode' => pendingApproval' # {})
      <3>1. CASE Backspace
        <4>1. /\ approvalMode' = (pendingApproval # {})
              /\ pendingApproval' = pendingApproval
          BY <3>1 DEF Backspace
        <4> QED BY <4>1, Zenon
      <3>2. CASE ServerDies \/ Quits
        BY <1>0, <3>2 DEF ServerDies, Quits
      <3>3. CASE TypesText \/ Enter \/ SendFails
        BY <3>3 DEF TypesText, Enter, SendFails
      <3> QED BY <1>3, <3>1, <3>2, <3>3
    <2>3. typing' \in BOOLEAN
      BY <1>0, <1>3 DEF ServerDies, TypesText, Backspace, Enter, Quits, SendFails
    <2> QED BY <1>0, <2>1, <2>2, <2>3 DEF ChatTypeOK
  <1>4. CASE Renders
    <2>1. /\ Head(unread) \in ServerMessage /\ Tail(unread) \in Seq(ServerMessage)
          /\ Len(Tail(unread)) <= MaxUnread
      BY <1>0, <1>4, UnreadAssumption DEF Renders
    <2>2. Head(unread).type = "confirmation_prompt" => Head(unread).request \in Request
      BY <2>1 DEF ServerMessage
    <2>3. /\ pendingApproval' \in {{}} \cup {{r} : r \in Request}
          /\ overwritten' \subseteq Request
      BY <1>0, <1>4, <2>2 DEF Renders
    <2> QED BY <1>0, <1>4, <2>1, <2>3 DEF Renders, ChatTypeOK
  <1>5. ASSUME NEW a \in Answer, AnswersKey(a) PROVE ChatTypeOK'
    BY <1>0, <1>5 DEF AnswersKey, Taken, NotOffered, ChatTypeOK
  <1> QED BY <1>1, <1>2, <1>3, <1>4, <1>5 DEF ChatNext, KeyStep

LEMMA ScreenNext ==
    ASSUME GInv, SentOnce, ChatTypeOK, ScreenInv, [ChatNext]_allVars
    PROVE  ScreenInv'
  <1>0. /\ IInv /\ channel \in Seq(ServerMessage) /\ unread \in Seq(ServerMessage)
        /\ firstAnswer \in [Request -> Answer \cup {"none"}]
        /\ pendingApproval \in {{}} \cup {{r} : r \in Request}
        /\ overwritten \subseteq Request
    BY DEF GInv, IInv, TypeInv, TypeOK, ChatTypeOK
  (* The screen stays, and so does what it shows.                          *)
  <1>1. ASSUME UNCHANGED <<unread, pendingApproval, overwritten, firstAnswer>>,
               shown \subseteq shown'
        PROVE  ScreenInv'
    BY <1>1 DEF ScreenInv, OnScreen
  <1>2. CASE SessionStep
    <2>1. ASSUME NEW t \in Turn, TurnStep(t)
          PROVE  UNCHANGED <<firstAnswer, shown>>
      BY <1>0, <2>1, OneTurnMoves DEF IInv
    <2>2. UNCHANGED <<firstAnswer, shown>>
      BY <1>2, <2>1 DEF SessionStep, InboundStep, InboundUserMessage,
         InboundApprovalResponse, InboundEnds, OutboundLosesMessage, OutboundEnds,
         Cleanup
    <2> QED BY <1>1, <1>2, <2>2 DEF SessionStep, chatVars
  <1>3. CASE ServerDies \/ TypesText \/ Backspace \/ Enter \/ Quits
             \/ UNCHANGED allVars
    BY <1>1, <1>3 DEF ServerDies, TypesText, Backspace, Enter, Quits, allVars,
                      chatVars, vars, ClientSendsUserMessage, ClientCloses
  <1>4. CASE Receives
    <2> DEFINE m == Head(channel)
    <2>1. /\ m \in ServerMessage /\ unread' = Append(unread, m)
          /\ UNCHANGED <<pendingApproval, overwritten, firstAnswer>>
          /\ shown' = IF m.type = "confirmation_prompt"
                      THEN shown \cup {m.request} ELSE shown
      BY <1>0, <1>4 DEF Receives, OutboundDelivers
    <2>2. m.type = "confirmation_prompt" =>
              m.request \in Request /\ Holds(channel, m.request)
      <3>1. m = channel[1] /\ 1 \in 1..Len(channel)
        BY <1>0, <1>4 DEF Receives, OutboundDelivers
      <3> QED BY <2>1, <3>1 DEF Holds, ServerMessage
    <2> HIDE DEF m
    <2>3. m.type = "confirmation_prompt" =>
              m.request \notin shown /\ ~OnScreen(m.request)
                  /\ firstAnswer[m.request] = "none"
      BY <1>0, <2>2 DEF SentOnce, ScreenInv, IInv, ConsentInv, AnswersShown
    <2>4. Once(unread')
      BY <1>0, <2>1, <2>3, AppendHolds DEF ScreenInv, OnScreen
    <2>5. \A r : Holds(unread', r) =>
                     \/ Holds(unread, r)
                     \/ m.type = "confirmation_prompt" /\ m.request = r
      BY <1>0, <2>1, AppendHolds
    <2>6. ASSUME NEW r \in overwritten' \cup pendingApproval' PROVE ~Holds(unread', r)
      BY <2>1, <2>3, <2>5, <2>6 DEF ScreenInv, OnScreen
    <2>7. ASSUME NEW r \in Request, OnScreen(r)'
          PROVE  r \in shown' /\ firstAnswer'[r] = "none"
      BY <2>1, <2>3, <2>5, <2>7 DEF ScreenInv, OnScreen
    <2> QED BY <2>1, <2>4, <2>6, <2>7 DEF ScreenInv
  <1>5. CASE Renders
    <2> DEFINE m == Head(unread)
    <2>1. /\ unread # <<>> /\ unread' = Tail(unread) /\ UNCHANGED <<firstAnswer, shown>>
          /\ IF m.type = "confirmation_prompt"
             THEN /\ pendingApproval' = {m.request}
                  /\ overwritten' = overwritten \cup pendingApproval
             ELSE UNCHANGED <<pendingApproval, overwritten>>
      BY <1>5 DEF Renders, vars
    <2>2. m.type = "confirmation_prompt" =>
              Holds(unread, m.request) /\ ~Holds(unread', m.request)
      <3>1. m = unread[1] /\ 1 \in 1..Len(unread)
        BY <1>0, <2>1
      <3> QED BY <1>0, <2>1, <3>1, TailHolds DEF Holds, ScreenInv
    <2>3. Once(unread') /\ \A r : Holds(unread', r) => Holds(unread, r)
      BY <1>0, <2>1, TailHolds DEF ScreenInv
    <2> HIDE DEF m
    <2>4. overwritten' \cap pendingApproval' = {}
      BY <2>1, <2>2 DEF ScreenInv
    <2>5. ASSUME NEW r \in overwritten' \cup pendingApproval' PROVE ~Holds(unread', r)
      BY <2>1, <2>2, <2>3, <2>5 DEF ScreenInv
    <2>6. ASSUME NEW r \in Request, OnScreen(r)'
          PROVE  r \in shown' /\ firstAnswer'[r] = "none"
      <3>1. OnScreen(r)
        BY <2>1, <2>2, <2>3, <2>6 DEF OnScreen
      <3> QED BY <2>1, <3>1 DEF ScreenInv
    <2> QED BY <2>3, <2>4, <2>5, <2>6 DEF ScreenInv
  <1>6. ASSUME NEW a \in Answer, AnswersKey(a) PROVE ScreenInv'
    <2>1. PICK p \in pendingApproval : ClientAnswers(p, a)
      BY <1>6 DEF AnswersKey
    <2>2. pendingApproval = {p} /\ p \in Request
      BY <1>0, <2>1
    <2>3. /\ pendingApproval' = {} /\ UNCHANGED <<unread, overwritten, shown>>
          /\ \A r \in Request \ {p} : firstAnswer'[r] = firstAnswer[r]
      BY <1>0, <1>6, <2>1 DEF AnswersKey, Taken, ClientAnswers
    <2>4. p \notin overwritten /\ ~Holds(unread, p)
      BY <2>2 DEF ScreenInv
    <2>5. ASSUME NEW r \in Request, OnScreen(r)'
          PROVE  r \in shown' /\ firstAnswer'[r] = "none"
      <3>1. OnScreen(r) /\ r # p
        BY <2>3, <2>4, <2>5 DEF OnScreen
      <3> QED BY <2>3, <3>1 DEF ScreenInv
    <2> QED BY <2>3, <2>5 DEF ScreenInv
  <1>7. CASE SendFails
    <2>1. /\ UNCHANGED <<unread, overwritten, shown, firstAnswer>>
          /\ pendingApproval' \subseteq pendingApproval
      BY <1>7 DEF SendFails, ClientCloses
    <2> QED BY <2>1 DEF ScreenInv, OnScreen
  <1> QED BY <1>2, <1>3, <1>4, <1>5, <1>6, <1>7 DEF ChatNext, KeyStep

-----------------------------------------------------------------------------
LEMMA ChatInvInit == ChatInit => ChatInv
  <1> SUFFICES ASSUME ChatInit PROVE ChatInv
    OBVIOUS
  <1>1. GInv /\ SentOnce
    BY TypeInit, ConsentInit, GateInvInit, SentOnceInit DEF ChatInit, IInv, GInv
  <1>2. ChatTypeOK
    <2>1. unread = <<>> /\ <<>> \in Seq(ServerMessage) /\ Len(<<>>) = 0
      BY DEF ChatInit
    <2>2. unread \in Seq(ServerMessage) /\ Len(unread) <= MaxUnread
      BY <2>1, UnreadAssumption
    <2>3. /\ server \in {"other", "own", "gone"} /\ pendingApproval = {}
          /\ typing = FALSE /\ approvalMode = FALSE /\ overwritten = {}
      BY DEF ChatInit
    <2> QED BY <2>2, <2>3, Zenon DEF ChatTypeOK
  <1>3. ScreenInv
    BY EmptyHolds DEF ChatInit, ScreenInv, OnScreen
  <1> QED BY <1>1, <1>2, <1>3 DEF ChatInv

LEMMA ChatInvNext == ChatInv /\ [ChatNext]_allVars => ChatInv'
  <1> SUFFICES ASSUME ChatInv, [ChatNext]_allVars PROVE ChatInv'
    OBVIOUS
  <1>1. [Next]_vars
    BY ChatStepsAreSteps DEF ChatInv
  <1>2. GInv'
    BY <1>1, TypeNext, ConsentNext, GateInvNext DEF ChatInv, IInv, GInv
  <1>3. SentOnce'
    <2>1. CASE Next
      BY <2>1, SentOnceNext DEF ChatInv
    <2>2. CASE UNCHANGED vars
      <3>1. UNCHANGED <<channel, shown, turn>>
        BY <2>2 DEF vars
      <3> QED BY <3>1 DEF ChatInv, SentOnce, At, Current
    <2> QED BY <1>1, <2>1, <2>2
  <1>4. ChatTypeOK'
    BY ChatTypeNext DEF ChatInv, GInv, IInv, TypeInv
  <1>5. ScreenInv'
    BY ScreenNext DEF ChatInv
  <1> QED BY <1>2, <1>3, <1>4, <1>5 DEF ChatInv

LEMMA ChatInvariant == ChatSpec => []ChatInv
  <1> QED BY ChatInvInit, ChatInvNext, PTL DEF ChatSpec

(* The REPL's state is well typed; in particular the prompt line offers    *)
(* [y] and [n] only while a request is pending, and then only one is.      *)
THEOREM ChatTypeCorrect == ChatSpec => []ChatTypeOK
  <1>1. ChatInv => ChatTypeOK
    BY DEF ChatInv
  <1> QED BY <1>1, ChatInvariant, PTL

(* What the REPL does to its session, the session's own client may do:     *)
(* every theorem about the session holds of a session with this client.    *)
THEOREM ChatIsAClient == ChatSpec => Spec
  <1>1. ChatInit => Init
    BY DEF ChatInit
  <1>2. ChatInv /\ [ChatNext]_allVars => [Next]_vars
    BY ChatStepsAreSteps DEF ChatInv
  <1> QED BY <1>1, <1>2, ChatInvariant, PTL DEF ChatSpec, Spec

(* The same for the promise about consent and the one of the policy chain. *)
THEOREM ChatConsentSafe ==
    ChatSpec => []GatedCallsNeedFirstYes /\ []OnlyReadOnlyRunsUnasked
  <1> QED BY ChatIsAClient, ConsentSafe, ReadOnlyUnasked, PTL

(* A prompt that the next one replaced before it was answered is lost: no  *)
(* later key answers it and its tool never runs.  Nor is a prompt answered *)
(* that is yet to be shown.                                                *)
THEOREM LostStayUnanswered == ChatSpec => []LostPromptsStayUnanswered
  <1>1. ChatInv => LostPromptsStayUnanswered
    <2> SUFFICES ASSUME ChatInv,
                        NEW r \in overwritten \cup pendingApproval \cup Unrendered
                 PROVE  Unanswered(r)
      BY DEF LostPromptsStayUnanswered
    <2>1. r \in Request
      BY DEF ChatInv, ChatTypeOK, Unrendered
    <2>2. OnScreen(r)
      BY DEF OnScreen, Unrendered, Holds
    <2>3. r \in shown /\ firstAnswer[r] = "none"
      BY <2>1, <2>2 DEF ChatInv, ScreenInv
    <2>4. r \in asked
      BY <2>3 DEF ChatInv, GInv, IInv, ConsentInv, PromptsAsked
    <2>5. ~Ran(r)
      BY <2>3, <2>4 DEF ChatInv, GInv, GateInv, AskedIfGated, IInv, ConsentInv,
                        GatedCallsNeedFirstYes, Ran
    <2> QED BY <2>3, <2>5 DEF Unanswered
  <1> QED BY <1>1, ChatInvariant, PTL
=============================================================================
