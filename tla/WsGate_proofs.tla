---------------------------- MODULE WsGate_proofs ----------------------------
(***************************************************************************)
(* The session implements the approval gate, tells the model the truth     *)
(* about each call, and asks the user about exactly the calls the policy   *)
(* chain does not allow: for every number of turns, rounds and calls.      *)
(***************************************************************************)
EXTENDS WsSession_proofs, WsPolicy

(* The loop has left an executed call behind, or is about to: it executes  *)
(* none twice, and asks for none that has run.                             *)
Passed(r) ==
    LET s == turn[r[1]] IN
    \/ r[2] < s.round
    \/ r[2] = s.round /\ r[3] < s.next
    \/ r[2] = s.round /\ r[3] = s.next /\ s.pc = "progress"

RanPast == \A e \in executed : Passed(e[1])

(* While its request is in the map, a turn that waits has no answer yet.   *)
PendingUnanswered ==
    \A r \in pending : Awaits(r) => turn[r[1]].verdict = "none"

(* Whoever waits had to; whoever executes was asked exactly if it had to.  *)
ConsentKnown ==
    \A t \in Turn :
        /\ turn[t].pc \in {"prompt", "wait"} => Gated(CurrentTool(t))
        /\ At(t, "exec") => (Current(t) \in asked <=> Gated(CurrentTool(t)))

AskedIfGated == \A e \in executed : e[1] \in asked <=> Gated(e[2])

(* The results are those of the calls before the loop's position.          *)
ResultsInStep ==
    \A t \in Turn :
        /\ turn[t].pc \in {"check", "prompt", "wait", "exec"} =>
               Len(turn[t].results) + 1 = turn[t].next
        /\ At(t, "progress") => Len(turn[t].results) = turn[t].next
        /\ turn[t].pc \in {"idle", "llm"} =>
               Len(turn[t].results) = Len(turn[t].batch)

ResultsTrue ==
    \A t \in Turn : \A k \in 1..Len(turn[t].results) :
        turn[t].results[k] = "denied" <=>
            \A e \in executed : e[1] # <<t, turn[t].round, k>>

GateInv ==
    /\ RanPast /\ PendingUnanswered /\ ConsentKnown /\ AskedIfGated
    /\ ResultsInStep /\ ResultsTrue

GInv == IInv /\ GateInv

-----------------------------------------------------------------------------
(* What each step of a turn does to the turn's state.                      *)
Keeps(t) ==
    /\ turn'[t].round = turn[t].round /\ turn'[t].batch = turn[t].batch
    /\ turn'[t].next = turn[t].next

LEMMA Facts0 ==
    ASSUME IInv
    PROVE  /\ turn \in [Turn -> LocalState]
           /\ executed \subseteq Request \X Tool
           /\ asked \subseteq Request /\ pending \subseteq asked
           /\ \A t \in Turn : /\ turn[t] \in LocalState /\ Shape(turn[t])
                              /\ turn[t].round \in Nat /\ turn[t].next \in Nat
                              /\ turn[t].results \in Seq({"executed", "denied"})
                              /\ turn[t].batch \in Seq(Tool)
  <1>1. /\ turn \in [Turn -> LocalState] /\ executed \subseteq Request \X Tool
        /\ asked \subseteq Request /\ pending \subseteq asked
    BY DEF IInv, TypeInv, TypeOK, ConsentInv, PromptsAsked
  <1>2. ASSUME NEW t \in Turn
        PROVE  /\ turn[t] \in LocalState /\ Shape(turn[t])
               /\ turn[t].round \in Nat /\ turn[t].next \in Nat
               /\ turn[t].results \in Seq({"executed", "denied"})
               /\ turn[t].batch \in Seq(Tool)
    BY <1>1, BoundAssumption DEF IInv, TypeInv, LoopShape, LocalState
  <1> QED BY <1>1, <1>2

LEMMA MoveFields ==
    ASSUME IInv, NEW t \in Turn, NEW l, OnlyMoves(t, l)
    PROVE  /\ Keeps(t) /\ turn'[t].pc = l
           /\ turn'[t].results = turn[t].results /\ turn'[t].verdict = turn[t].verdict
           /\ UNCHANGED <<asked, executed, pending>>
  BY Facts0 DEF OnlyMoves, Keeps, LocalState

LEMMA CallsFields ==
    ASSUME IInv, NEW t \in Turn, NEW b \in Batch, AgentReturnsCalls(t, b)
    PROVE  /\ turn[t].pc = "llm" /\ turn'[t].pc = "check"
           /\ turn'[t].round = turn[t].round + 1 /\ turn'[t].next = 1
           /\ turn'[t].results = <<>>
           /\ UNCHANGED <<asked, executed, pending>>
  BY Facts0 DEF AgentReturnsCalls, At, LocalState

LEMMA RegistersFields ==
    ASSUME IInv, NEW t \in Turn, RegistersRequest(t)
    PROVE  /\ Keeps(t) /\ turn[t].pc = "check" /\ turn'[t].pc = "prompt"
           /\ turn'[t].results = turn[t].results /\ turn'[t].verdict = "none"
           /\ asked' = asked \cup {Current(t)} /\ pending' = pending \cup {Current(t)}
           /\ executed' = executed
  BY Facts0 DEF RegistersRequest, Keeps, At, LocalState

LEMMA PromptFields ==
    ASSUME IInv, NEW t \in Turn, SendsPrompt(t)
    PROVE  /\ Keeps(t) /\ turn[t].pc = "prompt" /\ turn'[t].pc = "wait"
           /\ turn'[t].results = turn[t].results /\ turn'[t].verdict = turn[t].verdict
           /\ UNCHANGED <<asked, executed, pending>>
  BY Facts0 DEF SendsPrompt, Keeps, At, LocalState

LEMMA DeniedFields ==
    ASSUME IInv, NEW t \in Turn, Denied(t)
    PROVE  /\ turn[t].pc = "wait" /\ turn'[t].pc = "check"
           /\ turn'[t].round = turn[t].round /\ turn'[t].batch = turn[t].batch
           /\ turn'[t].next = turn[t].next + 1
           /\ turn'[t].results = Append(turn[t].results, "denied")
           /\ turn[t].verdict \in {"no", "none"}
           /\ UNCHANGED <<asked, executed, pending>>
  BY Facts0 DEF Denied, PushedDenial, TimerWins, PendingAfterTimeout, At, LocalState

LEMMA ExecutesFields ==
    ASSUME IInv, NEW t \in Turn, ExecutesTool(t)
    PROVE  /\ Keeps(t) /\ turn[t].pc = "exec" /\ turn'[t].pc = "progress"
           /\ turn'[t].results = Append(turn[t].results, "executed")
           /\ executed' = executed \cup {<<Current(t), CurrentTool(t)>>}
           /\ UNCHANGED <<asked, pending>>
  BY Facts0 DEF ExecutesTool, Keeps, At, LocalState

LEMMA ProgressFields ==
    ASSUME IInv, NEW t \in Turn, ReportsProgress(t)
    PROVE  /\ turn[t].pc = "progress" /\ turn'[t].pc = "check"
           /\ turn'[t].round = turn[t].round /\ turn'[t].batch = turn[t].batch
           /\ turn'[t].next = turn[t].next + 1
           /\ turn'[t].results = turn[t].results
           /\ UNCHANGED <<asked, executed, pending>>
  BY Facts0 DEF ReportsProgress, At, LocalState

LEMMA FinalFields ==
    ASSUME IInv, NEW t \in Turn, SendsFinal(t)
    PROVE  /\ Keeps(t) /\ turn[t].pc \in {"respond", "error"} /\ turn'[t].pc = "done"
           /\ turn'[t].results = turn[t].results
           /\ UNCHANGED <<asked, executed, pending>>
  BY Facts0 DEF SendsFinal, Keeps, LocalState

(* The steps that are not a turn's.                                        *)
Quiet == UNCHANGED <<turn, asked, executed, pending>>

Begins(t) ==
    /\ At(t, "idle") /\ Keeps(t) /\ turn'[t].pc = "llm"
    /\ turn'[t].results = turn[t].results
    /\ \A u \in Turn \ {t} : turn'[u] = turn[u]
    /\ UNCHANGED <<asked, executed, pending>>

Hears(r) ==
    /\ r \in Request /\ r = Head(inbox).request /\ Head(inbox).approved \in Answer
    /\ pending' = pending \ {r} /\ UNCHANGED <<asked, executed>>
    /\ \A u \in Turn : /\ Keeps(u) /\ turn'[u].pc = turn[u].pc
                        /\ turn'[u].results = turn[u].results
    /\ IF r \in pending /\ Awaits(r)
       THEN /\ turn'[r[1]].verdict = Head(inbox).approved
            /\ \A u \in Turn \ {r[1]} : turn'[u] = turn[u]
       ELSE turn' = turn

LEMMA StepCases ==
    ASSUME IInv, Next
    PROVE  \/ Quiet
           \/ \E t \in Turn : Begins(t)
           \/ \E r \in Request : Hears(r)
           \/ \E t \in Turn : TurnStep(t)
  <1>1. CASE ClientStep \/ InboundEnds \/ OutboundStep \/ Cleanup
    BY <1>1 DEF Quiet, ClientStep, ClientSendsUserMessage, ClientAnswers,
                ClientCloses, InboundEnds, OutboundStep, OutboundDelivers,
                OutboundLosesMessage, OutboundEnds, Cleanup
  <1>2. CASE InboundUserMessage
    <2> DEFINE t == Head(inbox).turn
    <2>1. /\ Head(inbox) = inbox[1] /\ 1 \in 1..Len(inbox)
          /\ t \in Turn
      BY <1>2, InboxHead DEF InboundUserMessage, IInv, TypeInv, TypeOK
    <2>2. At(t, "idle")
      BY <1>2, <2>1 DEF InboundUserMessage, IInv, ConsentInv, QueuedTurnsIdle,
                        IsUserMessage
    <2>3. /\ Keeps(t) /\ turn'[t].pc = "llm" /\ turn'[t].results = turn[t].results
          /\ \A u \in Turn \ {t} : turn'[u] = turn[u]
      BY <1>2, <2>1, Facts0 DEF InboundUserMessage, Keeps, LocalState
    <2>4. Begins(t)
      BY <1>2, <2>1, <2>2, <2>3 DEF InboundUserMessage, Begins
    <2> QED BY <2>1, <2>4
  <1>3. CASE InboundApprovalResponse
    <2> DEFINE r == Head(inbox).request
    <2>1. r \in Request /\ Head(inbox).approved \in Answer
      BY <1>3, InboxHead DEF InboundApprovalResponse, IInv, TypeInv
    <2>2. r[1] \in Turn
      BY <2>1 DEF Request
    <2>3. /\ r \in pending /\ Awaits(r) =>
                turn' = [turn EXCEPT ![r[1]].verdict = Head(inbox).approved]
          /\ ~(r \in pending /\ Awaits(r)) => turn' = turn
          /\ pending' = pending \ {r} /\ UNCHANGED <<asked, executed>>
      BY <1>3 DEF InboundApprovalResponse
    <2>4. \A u \in Turn : /\ Keeps(u) /\ turn'[u].pc = turn[u].pc
                          /\ turn'[u].results = turn[u].results
      <3>1. SUFFICES ASSUME NEW u \in Turn
                     PROVE  /\ Keeps(u) /\ turn'[u].pc = turn[u].pc
                            /\ turn'[u].results = turn[u].results
        OBVIOUS
      <3>2. turn[u] \in LocalState /\ turn \in [Turn -> LocalState]
        BY Facts0
      <3>3. \/ turn'[u] = turn[u]
            \/ turn'[u] = [turn[u] EXCEPT !.verdict = Head(inbox).approved]
        BY <2>2, <2>3, <3>2
      <3> QED BY <3>2, <3>3 DEF Keeps, LocalState
    <2>5. r \in pending /\ Awaits(r) =>
              /\ turn'[r[1]].verdict = Head(inbox).approved
              /\ \A u \in Turn \ {r[1]} : turn'[u] = turn[u]
      BY <2>2, <2>3, Facts0 DEF LocalState
    <2>6. Hears(r)
      BY <2>1, <2>3, <2>4, <2>5 DEF Hears
    <2> QED BY <2>1, <2>6
  <1> QED BY <1>1, <1>2, <1>3 DEF Next, InboundStep

LEMMA MovesOf ==
    ASSUME NEW t \in Turn
    PROVE  /\ AgentReturnsAnswer(t) => At(t, "llm") /\ OnlyMoves(t, "persist")
           /\ AgentFails(t) => At(t, "llm") /\ OnlyMoves(t, "error")
           /\ Resume(t) => /\ At(t, "check") /\ BatchHandled(t)
                           /\ OnlyMoves(t, "llm")
           /\ PassesCheck(t) => /\ At(t, "check") /\ ~BatchHandled(t)
                                /\ ~Gated(CurrentTool(t)) /\ OnlyMoves(t, "exec")
           /\ Approved(t) => /\ At(t, "wait") /\ turn[t].verdict = "yes"
                             /\ OnlyMoves(t, "exec")
           /\ Persists(t) => At(t, "persist") /\ OnlyMoves(t, "respond")
  BY DEF AgentReturnsAnswer, AgentFails, AfterFailure, Resume, PassesCheck, Approved,
         Persists

Moves(t) ==
    AgentReturnsAnswer(t) \/ AgentFails(t) \/ Resume(t) \/ PassesCheck(t)
        \/ Approved(t) \/ Persists(t)

LEMMA TurnStepCases ==
    ASSUME NEW t \in Turn, TurnStep(t)
    PROVE  \/ Moves(t) \/ \E b \in Batch : AgentReturnsCalls(t, b)
           \/ RegistersRequest(t) \/ SendsPrompt(t) \/ Denied(t)
           \/ ExecutesTool(t) \/ ReportsProgress(t) \/ SendsFinal(t)
  BY DEF TurnStep, Moves

LEMMA MovesFields ==
    ASSUME IInv, NEW t \in Turn, Moves(t)
    PROVE  /\ Keeps(t) /\ turn[t].pc \in {"llm", "check", "wait", "persist"}
           /\ turn'[t].pc \in {"persist", "error", "llm", "exec", "respond"}
           /\ turn'[t].results = turn[t].results /\ turn'[t].verdict = turn[t].verdict
           /\ turn'[t].pc = "exec" => PassesCheck(t) \/ Approved(t)
           /\ turn'[t].pc = "llm" => At(t, "check") /\ BatchHandled(t)
           /\ UNCHANGED <<asked, executed, pending>>
  BY MovesOf, MoveFields DEF Moves, At

-----------------------------------------------------------------------------
LEMMA PassedStays ==
    ASSUME IInv, Next, NEW r \in Request, Passed(r)
    PROVE  Passed(r)'
  <1> DEFINE t == r[1]
  <1>0. /\ t \in Turn /\ r[2] \in Nat /\ r[3] \in Nat
        /\ turn[t].round \in Nat /\ turn[t].next \in Nat
    BY Facts0 DEF Request
  <1>1. ASSUME turn'[t].round = turn[t].round, turn'[t].next = turn[t].next,
               turn'[t].pc = turn[t].pc \/ turn[t].pc # "progress"
        PROVE  Passed(r)'
    BY <1>1 DEF Passed
  <1>2. CASE Quiet
    BY <1>1, <1>2 DEF Quiet
  <1>3. ASSUME NEW u \in Turn, Begins(u) PROVE Passed(r)'
    BY <1>0, <1>1, <1>3 DEF Begins, Keeps, At
  <1>4. ASSUME NEW q \in Request, Hears(q) PROVE Passed(r)'
    BY <1>0, <1>1, <1>4 DEF Hears, Keeps
  <1>5. ASSUME NEW u \in Turn, TurnStep(u), u # t PROVE Passed(r)'
    BY <1>0, <1>1, <1>5, OneTurnMoves DEF IInv
  <1>6. CASE TurnStep(t)
    <2>1. CASE Moves(t) \/ RegistersRequest(t) \/ SendsPrompt(t) \/ ExecutesTool(t)
               \/ SendsFinal(t)
      BY <1>0, <1>1, <2>1, MovesFields, RegistersFields, PromptFields,
         ExecutesFields, FinalFields DEF Keeps
    <2>2. ASSUME NEW b \in Batch, AgentReturnsCalls(t, b) PROVE Passed(r)'
      <3>1. turn'[t].round = turn[t].round + 1
        BY <1>0, <2>2, CallsFields
      <3> QED BY <1>0, <3>1 DEF Passed
    <2>3. CASE Denied(t) \/ ReportsProgress(t)
      <3>1. turn'[t].round = turn[t].round /\ turn'[t].next = turn[t].next + 1
        BY <1>0, <2>3, DeniedFields, ProgressFields
      <3> QED BY <1>0, <3>1 DEF Passed
    <2> QED BY <1>0, <1>6, <2>1, <2>2, <2>3, TurnStepCases
  <1> QED BY <1>2, <1>3, <1>4, <1>5, <1>6, StepCases

(* A call that is being checked, asked for or executed has not run.        *)
LEMMA CurrentNotRun ==
    ASSUME GInv, NEW t \in Turn, turn[t].pc \in {"check", "prompt", "wait", "exec"}
    PROVE  \A e \in executed : e[1] # Current(t)
  <1>1. turn[t].round \in Nat /\ turn[t].next \in Nat
    BY Facts0 DEF GInv
  <1>2. ~Passed(Current(t))
    BY <1>1 DEF Passed, Current
  <1> QED BY <1>2 DEF GInv, GateInv, RanPast

(* Only these two steps change what has run and what has been asked.       *)
LEMMA WhoRuns ==
    ASSUME IInv, Next, executed' # executed
    PROVE  \E t \in Turn : ExecutesTool(t)
  <1>1. PICK t \in Turn : TurnStep(t)
    BY StepCases DEF Quiet, Begins, Hears
  <1> QED BY <1>1, TurnStepFrame

LEMMA WhoAsks ==
    ASSUME IInv, Next, asked' # asked
    PROVE  \E t \in Turn : RegistersRequest(t)
  <1>1. PICK t \in Turn : TurnStep(t)
    BY StepCases DEF Quiet, Begins, Hears
  <1> QED BY <1>1, TurnStepFrame

LEMMA RanPastNext == ASSUME GInv, Next PROVE RanPast'
  <1>0. IInv /\ RanPast /\ executed \subseteq Request \X Tool
    BY Facts0 DEF GInv, GateInv
  <1>1. SUFFICES ASSUME NEW e \in executed' PROVE Passed(e[1])'
    BY DEF RanPast
  <1>2. CASE e \in executed
    <2>1. e[1] \in Request /\ Passed(e[1])
      BY <1>0, <1>2 DEF RanPast
    <2> QED BY <1>0, <2>1, PassedStays
  <1>3. CASE e \notin executed
    <2>1. PICK t \in Turn : ExecutesTool(t)
      BY <1>0, <1>3, WhoRuns
    <2>2. /\ e = <<Current(t), CurrentTool(t)>>
          /\ Keeps(t) /\ turn'[t].pc = "progress"
      BY <1>0, <1>3, <2>1, ExecutesFields
    <2> QED BY <2>2 DEF Passed, Current, Keeps
  <1> QED BY <1>2, <1>3

LEMMA PendingUnansweredNext == ASSUME GInv, Next PROVE PendingUnanswered'
  <1>0. IInv /\ PendingUnanswered /\ pending \subseteq Request
    BY Facts0 DEF GInv, GateInv
  <1>1. SUFFICES ASSUME NEW q \in pending', Awaits(q)'
                 PROVE  turn'[q[1]].verdict = "none"
    BY DEF PendingUnanswered
  <1> DEFINE u == q[1]
  <1>2. q \in Request /\ u \in Turn
    <2>1. pending' \subseteq Request
      BY TypeNext, <1>0 DEF IInv, TypeInv, TypeOK
    <2> QED BY <2>1 DEF Request
  <1>3. turn'[u].pc \in {"prompt", "wait"} /\ Current(u)' = q
    BY <1>1 DEF Awaits
  <1>4. ASSUME q \in pending, turn'[u] = turn[u] PROVE turn'[u].verdict = "none"
    BY <1>0, <1>1, <1>4 DEF PendingUnanswered, Awaits, Current
  <1>5. CASE Quiet
    BY <1>1, <1>4, <1>5 DEF Quiet
  <1>6. ASSUME NEW t \in Turn, Begins(t) PROVE turn'[u].verdict = "none"
    BY <1>1, <1>2, <1>3, <1>4, <1>6 DEF Begins
  <1>7. ASSUME NEW r \in Request, Hears(r) PROVE turn'[u].verdict = "none"
    <2>1. q # r /\ q \in pending
      BY <1>1, <1>7 DEF Hears
    <2>2. CASE r \in pending /\ Awaits(r) /\ r[1] = u
      <3>1. Current(u) = r /\ Current(u)' = Current(u)
        BY <1>2, <1>7, <2>2 DEF Awaits, Hears, Keeps, Current
      <3> QED BY <1>3, <2>1, <3>1
    <2>3. CASE ~(r \in pending /\ Awaits(r) /\ r[1] = u)
      BY <1>2, <1>4, <1>7, <2>1, <2>3 DEF Hears
    <2> QED BY <2>2, <2>3
  <1>8. ASSUME NEW t \in Turn, TurnStep(t), t # u PROVE turn'[u].verdict = "none"
    <2>1. turn'[u] = turn[u]
      BY <1>0, <1>2, <1>8, OneTurnMoves DEF IInv
    <2>2. q \in pending
      BY <1>0, <1>1, <1>8, TurnStepFrame, RegistersFields DEF Current
    <2> QED BY <1>4, <2>1, <2>2
  <1>9. CASE TurnStep(u)
    <2>1. RegistersRequest(u) \/ SendsPrompt(u)
      BY <1>0, <1>2, <1>3, <1>9, WaysIn DEF IInv
    <2>2. CASE RegistersRequest(u)
      BY <1>0, <1>2, <2>2, RegistersFields
    <2>3. CASE SendsPrompt(u)
      <3>1. /\ turn'[u].verdict = turn[u].verdict /\ q \in pending
            /\ Current(u) = q /\ turn[u].pc = "prompt"
        BY <1>0, <1>1, <1>2, <1>3, <2>3, PromptFields DEF Keeps, Current
      <3> QED BY <1>0, <3>1 DEF PendingUnanswered, Awaits
    <2> QED BY <2>1, <2>2, <2>3
  <1> QED BY <1>0, <1>5, <1>6, <1>7, <1>8, <1>9, StepCases

(* A turn that has not moved is where it was, and nobody else's request    *)
(* is its own.                                                             *)
LEMMA CurrentStays ==
    ASSUME GInv, Next, NEW u \in Turn, ~TurnStep(u)
    PROVE  /\ Keeps(u) /\ turn'[u].results = turn[u].results
           /\ turn'[u].pc = turn[u].pc \/ (At(u, "idle") /\ turn'[u].pc = "llm")
           /\ Current(u)' = Current(u) /\ CurrentTool(u)' = CurrentTool(u)
           /\ Current(u) \in asked' <=> Current(u) \in asked
           /\ \A k : (\E e \in executed' : e[1] = <<u, turn[u].round, k>>) <=>
                      (\E e \in executed : e[1] = <<u, turn[u].round, k>>)
  <1>0. IInv
    BY DEF GInv
  <1> DEFINE Stays ==
          /\ Keeps(u) /\ turn'[u].results = turn[u].results
          /\ turn'[u].pc = turn[u].pc \/ (At(u, "idle") /\ turn'[u].pc = "llm")
  <1>1. Stays
    <2>1. ASSUME turn'[u] = turn[u] PROVE Stays
      BY <2>1 DEF Keeps
    <2>2. ASSUME NEW t \in Turn, Begins(t) PROVE Stays
      BY <2>1, <2>2 DEF Begins
    <2>3. ASSUME NEW r \in Request, Hears(r) PROVE Stays
      BY <2>3 DEF Hears
    <2>4. ASSUME NEW t \in Turn, TurnStep(t) PROVE Stays
      BY <1>0, <2>1, <2>4, OneTurnMoves DEF IInv
    <2> QED BY <1>0, <2>1, <2>2, <2>3, <2>4, StepCases DEF Quiet
  <1>2. Current(u)' = Current(u) /\ CurrentTool(u)' = CurrentTool(u)
    BY <1>1 DEF Keeps, Current, CurrentTool
  <1>3. Current(u) \in asked' <=> Current(u) \in asked
    <2>1. CASE asked' # asked
      <3>1. PICK t \in Turn : RegistersRequest(t)
        BY <1>0, <2>1, WhoAsks
      <3>2. t # u
        BY <3>1 DEF TurnStep
      <3> QED BY <1>0, <3>1, <3>2, RegistersFields DEF Current
    <2> QED BY <2>1
  <1>4. \A k : (\E e \in executed' : e[1] = <<u, turn[u].round, k>>) <=>
               (\E e \in executed : e[1] = <<u, turn[u].round, k>>)
    <2>1. CASE executed' # executed
      <3>1. PICK t \in Turn : ExecutesTool(t)
        BY <1>0, <2>1, WhoRuns
      <3>2. t # u
        BY <3>1 DEF TurnStep
      <3> DEFINE new == <<Current(t), CurrentTool(t)>>
      <3>3. executed' = executed \cup {new}
        BY <1>0, <3>1, ExecutesFields
      <3>4. \A k : new[1] # <<u, turn[u].round, k>>
        BY <3>2 DEF Current
      <3> HIDE DEF new
      <3> QED BY <3>3, <3>4
    <2> QED BY <2>1
  <1> QED BY <1>1, <1>2, <1>3, <1>4

LEMMA ConsentKnownNext == ASSUME GInv, Next PROVE ConsentKnown'
  <1>0. IInv /\ ConsentKnown
    BY DEF GInv, GateInv
  <1>1. SUFFICES ASSUME NEW u \in Turn
                 PROVE  /\ turn'[u].pc \in {"prompt", "wait"} => Gated(CurrentTool(u)')
                        /\ turn'[u].pc = "exec" =>
                               (Current(u)' \in asked' <=> Gated(CurrentTool(u)'))
    BY DEF ConsentKnown, At, Gated
  <1>2. CASE ~TurnStep(u)
    BY <1>0, <1>2, CurrentStays DEF ConsentKnown, At
  <1>3. CASE TurnStep(u)
    <2>1. CASE turn'[u].pc = "prompt"
      <3>1. RegistersRequest(u)
        BY <1>0, <1>3, <2>1, WaysIn DEF IInv
      <3>2. CurrentTool(u)' = CurrentTool(u)
        BY <1>0, <3>1, RegistersFields DEF Keeps, CurrentTool
      <3> QED BY <2>1, <3>1, <3>2 DEF RegistersRequest
    <2>2. CASE turn'[u].pc = "wait"
      <3>1. SendsPrompt(u)
        BY <1>0, <1>3, <2>2, WaysIn DEF IInv
      <3>2. CurrentTool(u)' = CurrentTool(u) /\ turn[u].pc = "prompt"
        BY <1>0, <3>1, PromptFields DEF Keeps, CurrentTool
      <3> QED BY <1>0, <2>2, <3>2 DEF ConsentKnown
    <2>3. CASE turn'[u].pc = "exec"
      <3>1. (PassesCheck(u) \/ Approved(u)) /\ OnlyMoves(u, "exec")
        BY <1>0, <1>3, <2>3, WaysIn DEF IInv
      <3>2. /\ CurrentTool(u)' = CurrentTool(u) /\ Current(u)' = Current(u)
            /\ asked' = asked
        BY <1>0, <3>1, MoveFields DEF Keeps, CurrentTool, Current
      <3>3. PassesCheck(u) => /\ ~Gated(CurrentTool(u))
                              /\ Current(u) \notin asked
        BY <1>0, MovesOf, CurrentIsFresh
      <3>4. Approved(u) => Gated(CurrentTool(u)) /\ Current(u) \in asked
        BY <1>0, MovesOf
           DEF At, ConsentKnown, IInv, ConsentInv, PromptsAsked, WaitingAsked
      <3> QED BY <2>3, <3>1, <3>2, <3>3, <3>4
    <2> QED BY <2>1, <2>2, <2>3
  <1> QED BY <1>2, <1>3

LEMMA AskedIfGatedNext == ASSUME GInv, Next PROVE AskedIfGated'
  <1>0. IInv /\ ConsentKnown /\ AskedIfGated
    BY DEF GInv, GateInv
  <1>1. SUFFICES ASSUME NEW e \in executed' PROVE e[1] \in asked' <=> Gated(e[2])
    BY DEF AskedIfGated, Gated
  <1>2. CASE e \in executed
    <2>1. e[1] \in asked' <=> e[1] \in asked
      <3>1. CASE asked' # asked
        <4>1. PICK t \in Turn : RegistersRequest(t)
          BY <1>0, <3>1, WhoAsks
        <4>2. turn[t].pc = "check" /\ asked' = asked \cup {Current(t)}
          BY <1>0, <4>1, RegistersFields
        <4> QED BY <1>2, <4>2, CurrentNotRun
      <3> QED BY <3>1
    <2> QED BY <1>0, <1>2, <2>1 DEF AskedIfGated
  <1>3. CASE e \notin executed
    <2>1. PICK t \in Turn : ExecutesTool(t)
      BY <1>0, <1>3, WhoRuns
    <2>2. /\ e = <<Current(t), CurrentTool(t)>> /\ asked' = asked
          /\ turn[t].pc = "exec"
      BY <1>0, <1>3, <2>1, ExecutesFields
    <2> QED BY <1>0, <2>2 DEF ConsentKnown, At
  <1> QED BY <1>2, <1>3

LEMMA ResultsInStepNext == ASSUME GInv, Next PROVE ResultsInStep'
  <1>0. IInv /\ ResultsInStep
    BY DEF GInv, GateInv
  <1> DEFINE Fits(t) ==
          /\ turn[t].pc \in {"check", "prompt", "wait", "exec"} =>
                 Len(turn[t].results) + 1 = turn[t].next
          /\ turn[t].pc = "progress" => Len(turn[t].results) = turn[t].next
          /\ turn[t].pc \in {"idle", "llm"} =>
                 Len(turn[t].results) = Len(turn[t].batch)
  <1>1. SUFFICES ASSUME NEW u \in Turn PROVE Fits(u)'
    BY DEF ResultsInStep, At
  <1>2. /\ Fits(u) /\ Len(turn[u].results) \in Nat /\ turn[u].next \in Nat
        /\ Len(turn[u].batch) \in Nat /\ turn[u].next <= Len(turn[u].batch) + 1
        /\ turn[u].results \in Seq({"executed", "denied"})
    BY <1>0, Facts0 DEF ResultsInStep, At, Shape
  <1>3. CASE ~TurnStep(u)
    BY <1>2, <1>3, CurrentStays DEF Keeps, At
  <1>4. CASE TurnStep(u)
    <2>1. CASE Moves(u)
      <3>1. CASE turn'[u].pc = "exec"
        BY <1>0, <1>2, <2>1, <3>1, MovesFields, MovesOf DEF Keeps, At
      <3>2. CASE turn'[u].pc = "llm"
        BY <1>0, <1>2, <2>1, <3>2, MovesFields DEF Keeps, At, BatchHandled
      <3> QED BY <1>0, <2>1, <3>1, <3>2, MovesFields
    <2>2. ASSUME NEW b \in Batch, AgentReturnsCalls(u, b) PROVE Fits(u)'
      BY <1>0, <2>2, CallsFields
    <2>3. CASE RegistersRequest(u) \/ SendsPrompt(u)
      BY <1>0, <1>2, <2>3, RegistersFields, PromptFields DEF Keeps
    <2>4. CASE Denied(u)
      BY <1>0, <1>2, <2>4, DeniedFields
    <2>5. CASE ExecutesTool(u)
      BY <1>0, <1>2, <2>5, ExecutesFields DEF Keeps
    <2>6. CASE ReportsProgress(u)
      BY <1>0, <1>2, <2>6, ProgressFields
    <2>7. CASE SendsFinal(u)
      BY <1>0, <2>7, FinalFields
    <2> QED BY <1>4, <2>1, <2>2, <2>3, <2>4, <2>5, <2>6, <2>7, TurnStepCases
  <1> QED BY <1>3, <1>4

LEMMA ResultsTrueNext == ASSUME GInv, Next PROVE ResultsTrue'
  <1>0. IInv /\ ResultsTrue /\ ResultsInStep
    BY DEF GInv, GateInv
  <1> DEFINE RanAt(t, k) == \E e \in executed : e[1] = <<t, turn[t].round, k>>
             True(t) == \A k \in 1..Len(turn[t].results) :
                            turn[t].results[k] = "denied" <=> ~RanAt(t, k)
  <1>1. \A t \in Turn : True(t)
    BY <1>0 DEF ResultsTrue
  <1>2. SUFFICES ASSUME NEW u \in Turn PROVE True(u)'
    BY DEF ResultsTrue
  <1>3. /\ turn[u].results \in Seq({"executed", "denied"})
        /\ turn[u].next \in Nat /\ turn[u].round \in Nat
    BY <1>0, Facts0
  <1>4. ASSUME turn'[u].results = turn[u].results,
               \A k : RanAt(u, k)' <=> RanAt(u, k)
        PROVE  True(u)'
    BY <1>1, <1>4
  <1>5. ASSUME turn'[u].results = turn[u].results, turn'[u].round = turn[u].round,
               executed' = executed
        PROVE  True(u)'
    BY <1>1, <1>5
  <1>6. CASE ~TurnStep(u)
    <2>1. turn'[u].results = turn[u].results /\ turn'[u].round = turn[u].round
      BY <1>6, CurrentStays DEF Keeps
    <2>2. \A k : RanAt(u, k)' <=> RanAt(u, k)
      BY <1>6, <2>1, CurrentStays
    <2> QED BY <1>4, <2>1, <2>2
  <1>7. CASE TurnStep(u)
    <2>1. CASE Moves(u) \/ RegistersRequest(u) \/ SendsPrompt(u) \/ ReportsProgress(u)
               \/ SendsFinal(u)
      BY <1>0, <1>5, <2>1, MovesFields, RegistersFields, PromptFields,
         ProgressFields, FinalFields DEF Keeps
    <2>2. ASSUME NEW b \in Batch, AgentReturnsCalls(u, b) PROVE True(u)'
      BY <1>0, <2>2, CallsFields
    <2>3. CASE Denied(u)
      <3>1. /\ turn[u].pc = "wait" /\ executed' = executed
            /\ turn'[u].round = turn[u].round
            /\ turn'[u].results = Append(turn[u].results, "denied")
            /\ Len(turn[u].results) + 1 = turn[u].next
        BY <1>0, <2>3, DeniedFields DEF ResultsInStep
      <3>2. ~RanAt(u, turn[u].next)
        BY <3>1, CurrentNotRun DEF Current
      <3>3. \A k : RanAt(u, k)' <=> RanAt(u, k)
        BY <3>1
      <3> HIDE DEF RanAt
      <3> QED BY <1>1, <1>3, <3>1, <3>2, <3>3
    <2>4. CASE ExecutesTool(u)
      <3> DEFINE new == <<Current(u), CurrentTool(u)>>
      <3>1. /\ executed' = executed \cup {new}
            /\ turn'[u].round = turn[u].round
            /\ turn'[u].results = Append(turn[u].results, "executed")
            /\ Len(turn[u].results) + 1 = turn[u].next
        BY <1>0, <2>4, ExecutesFields DEF Keeps, ResultsInStep
      <3>2. new[1] = <<u, turn[u].round, turn[u].next>>
        BY DEF Current
      <3> HIDE DEF new
      <3>3. SUFFICES ASSUME NEW k \in 1..Len(turn'[u].results)
                     PROVE  turn'[u].results[k] = "denied" <=>
                                \A e \in executed' : e[1] # <<u, turn'[u].round, k>>
        OBVIOUS
      <3>4. k \in Nat /\ (k \in 1..Len(turn[u].results) \/ k = turn[u].next)
        BY <1>3, <3>1
      <3>5. CASE k = turn[u].next
        <4>1. turn'[u].results[k] = "executed"
          BY <1>3, <3>1, <3>5
        <4>2. new \in executed' /\ new[1] = <<u, turn'[u].round, k>>
          BY <3>1, <3>2, <3>5
        <4> QED BY <4>1, <4>2
      <3>6. CASE k \in 1..Len(turn[u].results)
        <4>1. turn'[u].results[k] = turn[u].results[k] /\ k # turn[u].next
          BY <1>3, <3>1, <3>6
        <4>2. <<u, turn[u].round, k>> # new[1]
          BY <3>2, <4>1
        <4>3. (\A e \in executed' : e[1] # <<u, turn'[u].round, k>>) <=>
              (\A e \in executed : e[1] # <<u, turn[u].round, k>>)
          BY <3>1, <4>2
        <4>4. turn[u].results[k] = "denied" <=>
                  \A e \in executed : e[1] # <<u, turn[u].round, k>>
          BY <1>1, <3>6
        <4> QED BY <4>1, <4>3, <4>4
      <3> QED BY <3>4, <3>5, <3>6
    <2> QED BY <1>7, <2>1, <2>2, <2>3, <2>4, TurnStepCases
  <1> QED BY <1>6, <1>7

LEMMA GateInvInit == Init => GateInv
  BY DEF Init, Idle, GateInv, RanPast, PendingUnanswered, ConsentKnown, AskedIfGated,
         ResultsInStep, ResultsTrue, At

LEMMA GateInvNext == GInv /\ [Next]_vars => GateInv'
  <1>1. CASE GInv /\ Next
    BY <1>1, RanPastNext, PendingUnansweredNext, ConsentKnownNext, AskedIfGatedNext,
       ResultsInStepNext, ResultsTrueNext DEF GateInv
  <1>2. CASE GInv /\ UNCHANGED vars
    <2>1. UNCHANGED <<turn, asked, executed, pending>>
      BY <1>2 DEF vars
    <2>2. GateInv
      BY <1>2 DEF GInv
    <2> QED
      BY <2>1, <2>2 DEF GateInv, RanPast, Passed, PendingUnanswered, Awaits, Current,
         ConsentKnown, AskedIfGated, ResultsInStep, ResultsTrue, At, CurrentTool, Gated
  <1> QED BY <1>1, <1>2

LEMMA GateInvariant == Spec => []GInv
  <1>1. Init => GInv
    BY TypeInit, ConsentInit, GateInvInit DEF IInv, GInv
  <1>2. GInv /\ [Next]_vars => GInv'
    BY TypeNext, ConsentNext, GateInvNext DEF IInv, GInv
  <1> QED BY <1>1, <1>2, PTL DEF Spec

(* The model is told, for each call in order, what happened to it, and is  *)
(* resumed only with a result for every call of its response.              *)
THEOREM OneResult == Spec => []OneResultPerCall
  <1>1. GInv => OneResultPerCall
    BY DEF GInv, GateInv, ResultsInStep, ResultsTrue, OneResultPerCall, At
  <1> QED BY <1>1, GateInvariant, PTL

-----------------------------------------------------------------------------
(* The refinement.  A request that its turn is not at has a phase that     *)
(* depends only on what was asked and what ran.                            *)
Away(q) == ~Awaits(q) /\ ~Cleared(q)

Recorded(q) == (q \in asked' <=> q \in asked) /\ (Ran(q)' <=> Ran(q))

SamePhase(q) == GatePhase(q)' = GatePhase(q)

(* One request moves, the others stay.                                     *)
OneMoves(r, from, to) ==
    /\ GatePhase(r) = from /\ GatePhase(r)' = to
    /\ \A q \in Request \ {r} : SamePhase(q)

LEMMA AwayStays ==
    ASSUME NEW q \in Request, Recorded(q), Away(q), Away(q)'
    PROVE  SamePhase(q)
  BY DEF Recorded, Away, SamePhase, GatePhase, Answered

LEMMA UntouchedStays ==
    ASSUME NEW q \in Request, Recorded(q), Keeps(q[1]),
           turn'[q[1]].pc = turn[q[1]].pc,
           turn'[q[1]].verdict = turn[q[1]].verdict
    PROVE  SamePhase(q)
  <1>1. /\ Current(q[1])' = Current(q[1])
        /\ Awaits(q)' <=> Awaits(q)
        /\ Cleared(q)' <=> Cleared(q)
    BY DEF Keeps, Current, Awaits, Cleared, At
  <1>2. \A a : Answered(q, a)' <=> Answered(q, a)
    BY <1>1 DEF Answered
  <1> QED BY <1>1, <1>2 DEF Recorded, SamePhase, GatePhase

(* A request of a turn that is neither asking nor executing.               *)
LEMMA ElsewhereAway ==
    ASSUME NEW q \in Request
    PROVE  /\ turn[q[1]].pc \notin {"prompt", "wait", "exec"} => Away(q)
           /\ Current(q[1]) # q => Away(q)
  BY DEF Away, Awaits, Cleared, At

(* A turn's step leaves the requests of the others, and those it is not    *)
(* at, where they were.                                                    *)
LEMMA OthersStay ==
    ASSUME GInv, Next, NEW t \in Turn, TurnStep(t),
           NEW q \in Request, Recorded(q), q[1] # t
    PROVE  SamePhase(q)
  <1>1. q[1] \in Turn /\ turn'[q[1]] = turn[q[1]]
    BY OneTurnMoves DEF GInv, IInv, Request
  <1> QED BY <1>1, UntouchedStays DEF Keeps

LEMMA OwnStay ==
    ASSUME NEW t \in Turn, Keeps(t), NEW q \in Request, Recorded(q),
           q[1] = t, q # Current(t)
    PROVE  SamePhase(q)
  <1>1. Current(t)' = Current(t)
    BY DEF Keeps, Current
  <1>2. Away(q) /\ Away(q)'
    BY <1>1 DEF Away, Awaits, Cleared
  <1> QED BY <1>2, AwayStays

LEMMA RecordedStays ==
    ASSUME asked' = asked, executed' = executed, NEW q \in Request
    PROVE  Recorded(q)
  BY DEF Recorded, Ran

LEMMA HearsMoves ==
    ASSUME GInv, NEW r \in Request, Hears(r)
    PROVE  \/ \A q \in Request : SamePhase(q)
           \/ OneMoves(r, "asked", "approved") \/ OneMoves(r, "asked", "refused")
  <1>0. \A q \in Request : Recorded(q) /\ q[1] \in Turn
    BY RecordedStays DEF Hears, Request
  <1>1. CASE ~(r \in pending /\ Awaits(r))
    BY <1>0, <1>1, UntouchedStays DEF Hears, Keeps
  <1>2. CASE r \in pending /\ Awaits(r)
    <2> DEFINE t == r[1]
    <2>1. /\ t \in Turn /\ turn[t].pc \in {"prompt", "wait"} /\ Current(t) = r
          /\ turn[t].verdict = "none" /\ r \in asked
      BY <1>0, <1>2, Facts0 DEF Awaits, GInv, GateInv, PendingUnanswered
    <2>2. ~Ran(r)
      BY <2>1, CurrentNotRun DEF Ran
    <2>3. /\ turn'[t].pc = turn[t].pc /\ Current(t)' = Current(t)
          /\ turn'[t].verdict \in {"yes", "no"}
      BY <1>2, <2>1 DEF Hears, Keeps, Current, Answer
    <2>4. /\ r \in asked' /\ ~Ran(r)'
      BY <1>0, <2>1, <2>2 DEF Recorded
    <2>5. GatePhase(r) = "asked"
      BY <2>1, <2>2 DEF GatePhase, Cleared, Answered, Awaits, At
    <2>6. Awaits(r)' /\ ~Cleared(r)'
      BY <2>1, <2>3 DEF Awaits, Cleared, At
    <2>7. GatePhase(r)' \in {"approved", "refused"}
      BY <2>3, <2>4, <2>6 DEF GatePhase, Answered
    <2>8. ASSUME NEW q \in Request \ {r} PROVE SamePhase(q)
      <3>1. CASE q[1] = t
        BY <1>0, <1>2, <2>1, <2>8, <3>1, OwnStay DEF Hears
      <3>2. CASE q[1] # t
        BY <1>0, <1>2, <2>8, <3>2, UntouchedStays DEF Hears, Keeps
      <3> QED BY <3>1, <3>2
    <2> QED BY <2>5, <2>7, <2>8 DEF OneMoves
  <1> QED BY <1>1, <1>2

LEMMA RegistersMoves ==
    ASSUME GInv, Next, NEW t \in Turn, RegistersRequest(t),
           NEW r \in Request, r = Current(t)
    PROVE  OneMoves(r, "fresh", "asked")
  <1>1. /\ Keeps(t) /\ turn[t].pc = "check" /\ turn'[t].pc = "prompt"
        /\ turn'[t].verdict = "none"
        /\ asked' = asked \cup {r} /\ executed' = executed
    BY RegistersFields DEF GInv
  <1>2. r \notin asked /\ r[1] = t
    BY CurrentIsFresh DEF RegistersRequest, GInv, Current
  <1>3. ~Ran(r)'
    BY <1>1, CurrentNotRun DEF Ran
  <1>4. Current(t)' = r
    BY <1>1 DEF Keeps, Current
  <1>5. GatePhase(r) = "fresh" /\ GatePhase(r)' = "asked"
    BY <1>1, <1>2, <1>3, <1>4 DEF GatePhase, Awaits, Answered, Cleared, At
  <1>6. ASSUME NEW q \in Request \ {r} PROVE SamePhase(q)
    <2>1. Recorded(q)
      BY <1>1, <1>6 DEF Recorded, Ran
    <2>2. CASE q[1] = t
      BY <1>1, <1>6, <2>1, <2>2, OwnStay
    <2>3. CASE q[1] # t
      BY <1>6, <2>1, <2>3, OthersStay DEF TurnStep
    <2> QED BY <2>2, <2>3
  <1> QED BY <1>5, <1>6 DEF OneMoves

LEMMA DeniedMoves ==
    ASSUME GInv, Next, NEW t \in Turn, Denied(t)
    PROVE  \/ \A q \in Request : SamePhase(q)
           \/ \E r \in Request : OneMoves(r, "asked", "refused")
  <1>0. IInv /\ TurnStep(t)
    BY DEF GInv, TurnStep
  <1>1. /\ turn[t].pc = "wait" /\ turn'[t].pc = "check"
        /\ turn[t].verdict \in {"no", "none"}
        /\ UNCHANGED <<asked, executed>>
    BY <1>0, DeniedFields
  <1>2. PICK r \in Request : r = Current(t)
    BY <1>0, <1>1, CurrentIsRequest DEF IInv, Handling
  <1>3. /\ r \in asked /\ r \in asked' /\ ~Ran(r) /\ ~Ran(r)' /\ r[1] = t
    BY <1>0, <1>1, <1>2, CurrentNotRun
       DEF IInv, ConsentInv, PromptsAsked, WaitingAsked, Ran, Current
  <1>4. GatePhase(r) = IF turn[t].verdict = "none" THEN "asked" ELSE "refused"
    BY <1>1, <1>2, <1>3 DEF GatePhase, Awaits, Answered, Cleared, At
  <1>5. GatePhase(r)' = "refused"
    BY <1>1, <1>3 DEF GatePhase, Awaits, Answered, Cleared, At
  <1>6. ASSUME NEW q \in Request \ {r} PROVE SamePhase(q)
    <2>1. Recorded(q)
      BY <1>1, <1>6, RecordedStays
    <2>2. CASE q[1] = t
      <3>1. Away(q)
        BY <1>2, <1>6, <2>2 DEF Away, Awaits, Cleared
      <3>2. Away(q)'
        BY <1>1, <2>2 DEF Away, Awaits, Cleared, At
      <3> QED BY <1>6, <2>1, <3>1, <3>2, AwayStays
    <2>3. CASE q[1] # t
      BY <1>0, <1>6, <2>1, <2>3, OthersStay
    <2> QED BY <2>2, <2>3
  <1> QED BY <1>1, <1>4, <1>5, <1>6 DEF OneMoves, SamePhase

LEMMA ExecutesMoves ==
    ASSUME GInv, Next, NEW t \in Turn, ExecutesTool(t)
    PROVE  \/ \A q \in Request : SamePhase(q)
           \/ \E r \in Request : OneMoves(r, "approved", "executed")
  <1>0. IInv /\ TurnStep(t)
    BY DEF GInv, TurnStep
  <1> DEFINE new == <<Current(t), CurrentTool(t)>>
  <1>1. /\ Keeps(t) /\ turn[t].pc = "exec" /\ turn'[t].pc = "progress"
        /\ executed' = executed \cup {new} /\ asked' = asked
    BY <1>0, ExecutesFields
  <1>2. PICK r \in Request : r = Current(t)
    BY <1>0, <1>1, CurrentIsRequest DEF IInv, Handling
  <1>3. new[1] = r
    BY <1>2
  <1> HIDE DEF new
  <1>4. r[1] = t /\ ~Ran(r) /\ Ran(r)'
    BY <1>1, <1>2, <1>3, CurrentNotRun DEF Ran, Current
  <1>5. ASSUME NEW q \in Request \ {r} PROVE SamePhase(q)
    <2>1. Recorded(q)
      BY <1>1, <1>3, <1>5 DEF Recorded, Ran
    <2>2. CASE q[1] = t
      BY <1>1, <1>2, <1>5, <2>1, <2>2, OwnStay
    <2>3. CASE q[1] # t
      BY <1>0, <1>5, <2>1, <2>3, OthersStay
    <2> QED BY <2>2, <2>3
  <1>6. CASE r \in asked
    <2>1. GatePhase(r) = "approved" /\ GatePhase(r)' = "executed"
      BY <1>1, <1>2, <1>4, <1>6 DEF GatePhase, Cleared, At
    <2> QED BY <1>5, <2>1 DEF OneMoves
  <1>7. CASE r \notin asked
    <2>1. SamePhase(r)
      BY <1>1, <1>7 DEF SamePhase, GatePhase
    <2> QED BY <1>5, <2>1
  <1> QED BY <1>6, <1>7

(* The other steps move no request.                                        *)
LEMMA BeginsMovesNone ==
    ASSUME NEW t \in Turn, Begins(t), NEW q \in Request
    PROVE  SamePhase(q)
  <1>1. Recorded(q) /\ q[1] \in Turn
    BY RecordedStays DEF Begins, Request
  <1>2. CASE q[1] = t
    <2>1. Away(q) /\ Away(q)'
      BY <1>2 DEF Begins, Away, Awaits, Cleared, At
    <2> QED BY <1>1, <2>1, AwayStays
  <1>3. CASE q[1] # t
    BY <1>1, <1>3, UntouchedStays DEF Begins, Keeps
  <1> QED BY <1>2, <1>3

LEMMA MovesMovesNone ==
    ASSUME GInv, Next, NEW t \in Turn, Moves(t), NEW q \in Request
    PROVE  SamePhase(q)
  <1>0. IInv /\ TurnStep(t)
    BY DEF GInv, Moves, TurnStep
  <1>1. /\ Keeps(t) /\ UNCHANGED <<asked, executed>>
        /\ turn[t].pc \in {"llm", "check", "wait", "persist"}
        /\ turn'[t].pc \in {"persist", "error", "llm", "exec", "respond"}
    BY <1>0, MovesFields
  <1>2. Recorded(q)
    BY <1>1, RecordedStays
  <1>3. CASE q[1] # t
    BY <1>0, <1>2, <1>3, OthersStay
  <1>4. CASE q[1] = t /\ q # Current(t)
    BY <1>1, <1>2, <1>4, OwnStay
  <1>5. CASE q[1] = t /\ q = Current(t)
    <2>0. Current(t)' = q
      BY <1>1, <1>5 DEF Keeps, Current
    <2>1. CASE turn'[t].pc # "exec"
      <3>1. turn[t].pc # "wait"
        <4>1. ~Approved(t)
          BY <1>0, <2>1, MovesOf, MoveFields
        <4> QED BY <1>0, <4>1, MovesOf DEF Moves, At
      <3>2. Away(q) /\ Away(q)'
        BY <1>1, <1>5, <2>1, <3>1 DEF Away, Awaits, Cleared, At
      <3> QED BY <1>2, <3>2, AwayStays
    <2>2. CASE PassesCheck(t)
      <3>1. q \notin asked
        BY <1>0, <1>5, <2>2, MovesOf, CurrentIsFresh
      <3> QED BY <1>2, <3>1 DEF Recorded, SamePhase, GatePhase
    <2>3. CASE Approved(t)
      <3>1. turn[t].pc = "wait" /\ turn[t].verdict = "yes" /\ turn'[t].pc = "exec"
        BY <1>0, <2>3, MovesOf, MoveFields DEF At
      <3>2. Answered(q, "yes") /\ Cleared(q)'
        BY <1>5, <2>0, <3>1 DEF Answered, Awaits, Cleared, At
      <3> QED BY <1>2, <3>2 DEF Recorded, SamePhase, GatePhase
    <2> QED BY <1>0, <2>1, <2>2, <2>3, MovesFields
  <1> QED BY <1>3, <1>4, <1>5

(* A step that leaves a turn neither asking nor executing, from a place    *)
(* where it was neither.                                                   *)
LEMMA AwayMovesNone ==
    ASSUME GInv, Next, NEW t \in Turn, TurnStep(t), NEW q \in Request,
           asked' = asked, executed' = executed,
           turn[t].pc \notin {"prompt", "wait", "exec"},
           turn'[t].pc \notin {"prompt", "wait", "exec"}
    PROVE  SamePhase(q)
  <1>1. Recorded(q)
    BY RecordedStays
  <1>2. CASE q[1] = t
    <2>1. Away(q) /\ Away(q)'
      BY <1>2 DEF Away, Awaits, Cleared, At
    <2> QED BY <1>1, <2>1, AwayStays
  <1>3. CASE q[1] # t
    BY <1>1, <1>3, OthersStay
  <1> QED BY <1>2, <1>3

LEMMA PromptMovesNone ==
    ASSUME GInv, Next, NEW t \in Turn, SendsPrompt(t), NEW q \in Request
    PROVE  SamePhase(q)
  <1>0. IInv /\ TurnStep(t)
    BY DEF GInv, TurnStep
  <1>1. /\ Keeps(t) /\ turn[t].pc = "prompt" /\ turn'[t].pc = "wait"
        /\ turn'[t].verdict = turn[t].verdict /\ UNCHANGED <<asked, executed>>
    BY <1>0, PromptFields
  <1>2. Recorded(q)
    BY <1>1, RecordedStays
  <1>3. CASE q[1] # t
    BY <1>0, <1>2, <1>3, OthersStay
  <1>4. CASE q[1] = t
    <2>1. Current(t)' = Current(t)
      BY <1>1 DEF Keeps, Current
    <2>2. \A a : Answered(q, a)' <=> Answered(q, a)
      BY <1>1, <1>4, <2>1 DEF Answered, Awaits
    <2>3. Cleared(q)' <=> Cleared(q)
      BY <1>1, <1>4 DEF Cleared, At
    <2> QED BY <1>2, <2>2, <2>3 DEF Recorded, SamePhase, GatePhase
  <1> QED BY <1>3, <1>4

GateMoves(r) ==
    \/ OneMoves(r, "fresh", "asked") \/ OneMoves(r, "asked", "approved")
    \/ OneMoves(r, "asked", "refused") \/ OneMoves(r, "approved", "executed")

LEMMA StepMoves ==
    ASSUME GInv, [Next]_vars
    PROVE  \/ \A q \in Request : SamePhase(q)
           \/ \E r \in Request : GateMoves(r)
  <1>1. CASE UNCHANGED vars \/ Quiet
    <2>1. UNCHANGED <<turn, asked, executed>>
      BY <1>1 DEF vars, Quiet
    <2> QED BY <2>1, RecordedStays, UntouchedStays DEF Keeps
  <1>2. ASSUME NEW t \in Turn, Begins(t) PROVE \A q \in Request : SamePhase(q)
    BY <1>2, BeginsMovesNone
  <1>3. ASSUME NEW r \in Request, Hears(r)
        PROVE  (\A q \in Request : SamePhase(q)) \/ GateMoves(r)
    BY <1>3, HearsMoves DEF GateMoves
  <1>4. ASSUME Next, NEW t \in Turn, TurnStep(t)
        PROVE  \/ \A q \in Request : SamePhase(q)
               \/ \E r \in Request : GateMoves(r)
    <2>0. IInv
      BY DEF GInv
    <2>1. CASE Moves(t)
      BY <1>4, <2>1, MovesMovesNone
    <2>2. ASSUME NEW b \in Batch, AgentReturnsCalls(t, b)
          PROVE  \A q \in Request : SamePhase(q)
      BY <1>4, <2>0, <2>2, CallsFields, AwayMovesNone
    <2>3. CASE RegistersRequest(t)
      <3>1. PICK r \in Request : r = Current(t)
        BY <2>0, <2>3, CurrentIsFresh DEF RegistersRequest
      <3> QED BY <1>4, <2>3, <3>1, RegistersMoves DEF GateMoves
    <2>4. CASE SendsPrompt(t)
      BY <1>4, <2>4, PromptMovesNone
    <2>5. CASE Denied(t)
      BY <1>4, <2>5, DeniedMoves DEF GateMoves
    <2>6. CASE ExecutesTool(t)
      BY <1>4, <2>6, ExecutesMoves DEF GateMoves
    <2>7. CASE ReportsProgress(t)
      BY <1>4, <2>0, <2>7, ProgressFields, AwayMovesNone
    <2>8. CASE SendsFinal(t)
      BY <1>4, <2>0, <2>8, FinalFields, AwayMovesNone
    <2> QED BY <1>4, <2>1, <2>2, <2>3, <2>4, <2>5, <2>6, <2>7, <2>8, TurnStepCases
  <1> QED BY <1>1, <1>2, <1>3, <1>4, StepCases DEF GInv

LEMMA GateInit == Init => Gate!Init
  BY DEF Init, Gate!Init, GatePhase

LEMMA GateNext == GInv /\ [Next]_vars => [Gate!Next]_([r \in Request |-> GatePhase(r)])
  <1> SUFFICES ASSUME GInv, [Next]_vars
               PROVE  [Gate!Next]_([r \in Request |-> GatePhase(r)])
    OBVIOUS
  <1> DEFINE phase == [r \in Request |-> GatePhase(r)]
             new == [r \in Request |-> GatePhase(r)']
  <1>0. phase' = new
    OBVIOUS
  <1>1. CASE \A q \in Request : SamePhase(q)
    <2>1. new = phase
      BY <1>1 DEF SamePhase
    <2> QED BY <1>0, <2>1
  <1>2. ASSUME NEW r \in Request, GateMoves(r) PROVE Gate!Next
    <2>1. ASSUME NEW from, NEW to, OneMoves(r, from, to) PROVE Gate!Move(r, from, to)
      <3>1. phase[r] = from
        BY <2>1 DEF OneMoves
      <3>2. new = [phase EXCEPT ![r] = to]
        BY <2>1 DEF OneMoves, SamePhase
      <3> QED BY <1>0, <3>1, <3>2 DEF Gate!Move
    <2> QED BY <1>2, <2>1 DEF GateMoves, Gate!Next, Gate!Ask, Gate!Approve,
                              Gate!Refuse, Gate!Execute
  <1> QED BY <1>1, <1>2, StepMoves

(* Each request is asked once, resolved once, and only an approved one is  *)
(* executed.                                                               *)
THEOREM GateImplemented == Spec => ImplementsGate
  <1> QED BY GateInit, GateNext, GateInvariant, PTL DEF Spec, ImplementsGate, Gate!Spec

-----------------------------------------------------------------------------
(***************************************************************************)
(* What a turn tells the client.                                           *)
(***************************************************************************)
IsFinal(m, t) == m.type \in {"agent_response", "agent_error"} /\ m.turn = t

IsAbout(m, t) ==
    IF m.type = "confirmation_prompt" THEN m.request[1] = t ELSE m.turn = t

FinalIn(s, t) == \E k \in 1..Len(s) : IsFinal(s[k], t)
NothingIn(s, t) == \A k \in 1..Len(s) : ~IsAbout(s[k], t)
NothingAfterFinal(s, t) ==
    \A k, j \in 1..Len(s) : IsFinal(s[k], t) /\ k < j => ~IsAbout(s[j], t)

(* As long as the client is there, a turn that is over has told it so, or  *)
(* is about to: its final message is in the channel.                       *)
FinalIsKept ==
    "client" \in live =>
        /\ {"inbound", "outbound"} \subseteq live
        /\ \A t \in Turn : At(t, "done") => t \in replied \/ FinalIn(channel, t)

(* Nothing about a turn follows its final message, so there is only one,   *)
(* and no prompt that the turn would not wait for any more.                *)
FinalIsLast ==
    \A t \in Turn :
        /\ NothingAfterFinal(channel, t)
        /\ FinalIn(channel, t) => At(t, "done")
        /\ t \in replied => At(t, "done") /\ NothingIn(channel, t)

FinalInv == FinalIsKept /\ FinalIsLast

LEMMA FinalsOfTail ==
    ASSUME NEW s \in Seq(ServerMessage), s # <<>>, NEW t
    PROVE  /\ FinalIn(Tail(s), t) => FinalIn(s, t)
           /\ FinalIn(s, t) => IsFinal(Head(s), t) \/ FinalIn(Tail(s), t)
           /\ NothingIn(s, t) => NothingIn(Tail(s), t)
           /\ NothingAfterFinal(s, t) => NothingAfterFinal(Tail(s), t)
           /\ NothingAfterFinal(s, t) /\ IsFinal(Head(s), t) => NothingIn(Tail(s), t)
  <1>1. /\ Len(s) \in Nat /\ Len(s) >= 1 /\ Len(Tail(s)) = Len(s) - 1
        /\ \A k \in 1..Len(Tail(s)) : Tail(s)[k] = s[k + 1] /\ k + 1 \in 1..Len(s)
        /\ Head(s) = s[1] /\ 1 \in 1..Len(s)
        /\ \A k \in 1..Len(s) : k = 1 \/ (k - 1 \in 1..Len(Tail(s)) /\ (k - 1) + 1 = k)
    OBVIOUS
  <1>2. FinalIn(Tail(s), t) => FinalIn(s, t)
    BY <1>1 DEF FinalIn
  <1>3. FinalIn(s, t) => IsFinal(Head(s), t) \/ FinalIn(Tail(s), t)
    <2> SUFFICES ASSUME NEW k \in 1..Len(s), IsFinal(s[k], t)
                 PROVE  IsFinal(Head(s), t) \/ FinalIn(Tail(s), t)
      BY DEF FinalIn
    <2>1. CASE k = 1
      BY <1>1, <2>1
    <2>2. CASE k # 1
      <3>1. k - 1 \in 1..Len(Tail(s)) /\ Tail(s)[k - 1] = s[k]
        BY <1>1, <2>2
      <3> QED
        BY <3>1 DEF FinalIn
    <2> QED
      BY <2>1, <2>2
  <1>4. NothingIn(s, t) => NothingIn(Tail(s), t)
    BY <1>1 DEF NothingIn
  <1>5. NothingAfterFinal(s, t) => NothingAfterFinal(Tail(s), t)
    <2> SUFFICES ASSUME NothingAfterFinal(s, t), NEW k \in 1..Len(Tail(s)),
                        NEW j \in 1..Len(Tail(s)), IsFinal(Tail(s)[k], t), k < j
                 PROVE  ~IsAbout(Tail(s)[j], t)
      BY DEF NothingAfterFinal
    <2>1. /\ k + 1 \in 1..Len(s) /\ j + 1 \in 1..Len(s) /\ k + 1 < j + 1
          /\ IsFinal(s[k + 1], t) /\ Tail(s)[j] = s[j + 1]
      BY <1>1
    <2> QED
      BY <2>1 DEF NothingAfterFinal
  <1>6. NothingAfterFinal(s, t) /\ IsFinal(Head(s), t) => NothingIn(Tail(s), t)
    <2> SUFFICES ASSUME NothingAfterFinal(s, t), IsFinal(Head(s), t),
                        NEW j \in 1..Len(Tail(s))
                 PROVE  ~IsAbout(Tail(s)[j], t)
      BY DEF NothingIn
    <2>1. /\ 1 \in 1..Len(s) /\ j + 1 \in 1..Len(s) /\ 1 < j + 1
          /\ IsFinal(s[1], t) /\ Tail(s)[j] = s[j + 1]
      BY <1>1
    <2> QED
      BY <2>1 DEF NothingAfterFinal
  <1> QED
    BY <1>2, <1>3, <1>4, <1>5, <1>6

LEMMA FinalsOfAppend ==
    ASSUME NEW s \in Seq(ServerMessage), NEW m, NEW t
    PROVE  /\ FinalIn(Append(s, m), t) <=> FinalIn(s, t) \/ IsFinal(m, t)
           /\ NothingIn(s, t) /\ ~IsAbout(m, t) => NothingIn(Append(s, m), t)
           /\ NothingAfterFinal(s, t) /\ (FinalIn(s, t) => ~IsAbout(m, t)) =>
                  NothingAfterFinal(Append(s, m), t)
  <1>1. /\ Len(s) \in Nat /\ Len(Append(s, m)) = Len(s) + 1
        /\ \A k \in 1..Len(s) : Append(s, m)[k] = s[k] /\ k \in 1..(Len(s) + 1)
        /\ Append(s, m)[Len(s) + 1] = m /\ Len(s) + 1 \in 1..(Len(s) + 1)
        /\ \A k \in 1..(Len(s) + 1) : k \in 1..Len(s) \/ k = Len(s) + 1
    OBVIOUS
  <1>2. FinalIn(Append(s, m), t) <=> FinalIn(s, t) \/ IsFinal(m, t)
    BY <1>1 DEF FinalIn
  <1>3. NothingIn(s, t) /\ ~IsAbout(m, t) => NothingIn(Append(s, m), t)
    BY <1>1 DEF NothingIn
  <1>4. ASSUME NothingAfterFinal(s, t), FinalIn(s, t) => ~IsAbout(m, t)
        PROVE  NothingAfterFinal(Append(s, m), t)
    <2> SUFFICES ASSUME NEW k \in 1..(Len(s) + 1), NEW j \in 1..(Len(s) + 1),
                        IsFinal(Append(s, m)[k], t), k < j
                 PROVE  ~IsAbout(Append(s, m)[j], t)
      BY <1>1 DEF NothingAfterFinal
    <2>1. k \in 1..Len(s) /\ IsFinal(s[k], t)
      BY <1>1
    <2>2. CASE j \in 1..Len(s)
      BY <1>1, <1>4, <2>1, <2>2 DEF NothingAfterFinal
    <2>3. CASE j = Len(s) + 1
      BY <1>1, <1>4, <2>1, <2>3 DEF FinalIn
    <2> QED
      BY <1>1, <2>2, <2>3
  <1> QED
    BY <1>2, <1>3, <1>4

LEMMA FinalsOfEmpty ==
    \A t : ~FinalIn(<<>>, t) /\ NothingIn(<<>>, t) /\ NothingAfterFinal(<<>>, t)
  BY DEF FinalIn, NothingIn, NothingAfterFinal

(* A final message is about its turn, and an old one stays where it was.   *)
LEMMA FinalIsAbout ==
    ASSUME NEW m, NEW t, IsFinal(m, t) PROVE IsAbout(m, t)
  BY DEF IsFinal, IsAbout

(* A turn that is over stays over, and ends only with its final message.   *)
LEMMA DoneStays ==
    ASSUME IInv, Next, NEW t \in Turn
    PROVE  /\ At(t, "done") => turn'[t].pc = "done"
           /\ turn'[t].pc = "done" => At(t, "done") \/ SendsFinal(t)
  <1>1. CASE TurnStep(t)
    <2>1. ~At(t, "done")
      BY <1>1, TurnStepCases, MovesFields, CallsFields, RegistersFields, PromptFields,
         DeniedFields, ExecutesFields, ProgressFields, FinalFields DEF At
    <2>2. turn'[t].pc = "done" => SendsFinal(t)
      BY <1>1, TurnStepCases, MovesFields, CallsFields, RegistersFields, PromptFields,
         DeniedFields, ExecutesFields, ProgressFields
    <2> QED
      BY <2>1, <2>2
  <1>2. ASSUME NEW u \in Turn, TurnStep(u), u # t PROVE turn'[t] = turn[t]
    BY <1>2, OneTurnMoves DEF IInv
  <1>3. ASSUME NEW u \in Turn, Begins(u)
        PROVE  /\ At(t, "done") => turn'[t].pc = "done"
               /\ turn'[t].pc = "done" => At(t, "done")
    BY <1>3 DEF Begins, At
  <1>4. ASSUME NEW r \in Request, Hears(r) PROVE turn'[t].pc = turn[t].pc
    BY <1>4 DEF Hears
  <1> QED
    BY <1>1, <1>2, <1>3, <1>4, StepCases DEF Quiet, At

(* Whatever has ended does not come back.                                  *)
LEMMA LiveShrinks ==
    ASSUME Next
    PROVE  live' \subseteq live
  <1>1. CASE ClientStep
    BY <1>1 DEF ClientStep, ClientSendsUserMessage, ClientAnswers, ClientCloses
  <1>2. CASE InboundStep
    BY <1>2 DEF InboundStep, InboundUserMessage, InboundApprovalResponse, InboundEnds
  <1>3. CASE OutboundStep
    BY <1>3 DEF OutboundStep, OutboundDelivers, OutboundLosesMessage, OutboundEnds
  <1>4. CASE Cleanup
    BY <1>4 DEF Cleanup
  <1>5. ASSUME NEW t \in Turn, TurnStep(t) PROVE live' = live
    BY <1>5 DEF TurnStep, AgentReturnsCalls, AgentReturnsAnswer, AgentFails, Resume,
       PassesCheck, RegistersRequest, SendsPrompt, Approved, Denied,
       ExecutesTool, ReportsProgress, Persists, SendsFinal, OnlyMoves
  <1> QED
    BY <1>1, <1>2, <1>3, <1>4, <1>5 DEF Next

(* The client does not come back, and while it is there both pumps run.    *)
LEMMA PumpsStay ==
    ASSUME Next, "client" \in live', {"inbound", "outbound"} \subseteq live
    PROVE  "client" \in live /\ {"inbound", "outbound"} \subseteq live'
  <1>1. CASE ClientStep
    BY <1>1 DEF ClientStep, ClientSendsUserMessage, ClientAnswers, ClientCloses
  <1>2. CASE InboundStep
    BY <1>2 DEF InboundStep, InboundUserMessage, InboundApprovalResponse, InboundEnds
  <1>3. CASE OutboundStep
    BY <1>3 DEF OutboundStep, OutboundDelivers, OutboundLosesMessage, OutboundEnds
  <1>4. CASE Cleanup
    BY <1>4 DEF Cleanup
  <1>5. ASSUME NEW t \in Turn, TurnStep(t) PROVE live' = live
    BY <1>5 DEF TurnStep, AgentReturnsCalls, AgentReturnsAnswer, AgentFails, Resume,
       PassesCheck, RegistersRequest, SendsPrompt, Approved, Denied,
       ExecutesTool, ReportsProgress, Persists, SendsFinal, OnlyMoves
  <1> QED
    BY <1>1, <1>2, <1>3, <1>4, <1>5 DEF Next

(* Who writes to the channel, and who takes from it.                       *)
FinalOf(t) == [type |-> IF At(t, "error") THEN "agent_error" ELSE "agent_response",
               turn |-> t]

Reports(t) ==
    \/ /\ SendsPrompt(t)
       /\ SendToClient([type |-> "confirmation_prompt", request |-> Current(t)])
    \/ ReportsProgress(t) /\ SendToClient([type |-> "tool_executed", turn |-> t])
    \/ SendsFinal(t) /\ SendToClient(FinalOf(t))

LEMMA ChannelSteps ==
    ASSUME Next
    PROVE  \/ UNCHANGED <<channel, replied>> /\ \A t \in Turn : ~SendsFinal(t)
           \/ OutboundDelivers
           \/ OutboundLosesMessage
           \/ replied' = replied /\ live' = live /\ \E t \in Turn : Reports(t)
  <1>1. CASE ClientStep \/ InboundStep \/ OutboundEnds \/ Cleanup
    <2>1. UNCHANGED <<channel, replied>>
      BY <1>1 DEF ClientStep, ClientSendsUserMessage, ClientAnswers, ClientCloses,
         InboundStep, InboundUserMessage, InboundApprovalResponse, InboundEnds,
         OutboundEnds, Cleanup
    <2>2. CASE \E t \in Turn : SendsFinal(t)
      BY <2>1, <2>2 DEF SendsFinal, Reports, FinalOf
    <2> QED
      BY <2>1, <2>2
  <1>2. ASSUME NEW t \in Turn, TurnStep(t)
        PROVE  \/ UNCHANGED <<channel, replied>> /\ \A u \in Turn : ~SendsFinal(u)
               \/ replied' = replied /\ live' = live /\ \E u \in Turn : Reports(u)
    <2>1. /\ replied' = replied /\ live' = live
          /\ channel' = channel \/ Reports(t)
      BY <1>2 DEF TurnStep, AgentReturnsCalls, AgentReturnsAnswer, AgentFails, Resume,
         PassesCheck, RegistersRequest, SendsPrompt, Approved, Denied,
         ExecutesTool, ReportsProgress, Persists, SendsFinal, OnlyMoves,
         Reports, FinalOf
    <2>2. ASSUME NEW u \in Turn, SendsFinal(u) PROVE Reports(u)
      BY <2>2 DEF SendsFinal, Reports, FinalOf
    <2> QED
      BY <2>1, <2>2
  <1> QED
    BY <1>1, <1>2 DEF Next, OutboundStep

LEMMA ReportsAreAbout ==
    ASSUME IInv, NEW u \in Turn, Reports(u)
    PROVE  \E m : /\ SendToClient(m)
                  /\ \A t \in Turn : IsAbout(m, t) <=> t = u
                  /\ \A t \in Turn : IsFinal(m, t) => SendsFinal(u)
                  /\ SendsFinal(u) => IsFinal(m, u)
                  /\ ~At(u, "done")
  <1>1. CASE SendsPrompt(u)
    <2> DEFINE m == [type |-> "confirmation_prompt", request |-> Current(u)]
    <2>1. /\ SendToClient(m) /\ ~At(u, "done") /\ ~SendsFinal(u)
      BY <1>1 DEF SendsPrompt, SendsFinal, At
    <2>2. /\ \A t \in Turn : IsAbout(m, t) <=> t = u
          /\ \A t \in Turn : ~IsFinal(m, t)
      BY DEF IsAbout, IsFinal, Current
    <2> QED
      BY <2>1, <2>2
  <1>2. CASE ReportsProgress(u)
    <2> DEFINE m == [type |-> "tool_executed", turn |-> u]
    <2>1. /\ SendToClient(m) /\ ~At(u, "done") /\ ~SendsFinal(u)
      BY <1>2 DEF ReportsProgress, SendsFinal, At
    <2>2. /\ \A t \in Turn : IsAbout(m, t) <=> t = u
          /\ \A t \in Turn : ~IsFinal(m, t)
      BY DEF IsAbout, IsFinal
    <2> QED
      BY <2>1, <2>2
  <1>3. CASE SendsFinal(u)
    <2>1. SendToClient(FinalOf(u)) /\ ~At(u, "done")
      BY <1>3 DEF SendsFinal, FinalOf, At
    <2>2. /\ FinalOf(u).type \in {"agent_error", "agent_response"}
          /\ FinalOf(u).turn = u
      BY DEF FinalOf
    <2>3. /\ \A t \in Turn : IsAbout(FinalOf(u), t) <=> t = u
          /\ IsFinal(FinalOf(u), u)
      BY <2>2 DEF IsAbout, IsFinal
    <2> QED
      BY <1>3, <2>1, <2>3
  <1> QED
    BY <1>1, <1>2, <1>3 DEF Reports

LEMMA FinalIsKeptNext == ASSUME IInv, FinalInv, Next PROVE FinalIsKept'
  <1>0. channel \in Seq(ServerMessage)
    BY DEF IInv, TypeInv, TypeOK
  <1> SUFFICES ASSUME "client" \in live'
               PROVE  /\ {"inbound", "outbound"} \subseteq live'
                      /\ \A t \in Turn :
                             turn'[t].pc = "done" =>
                                 t \in replied' \/ FinalIn(channel', t)
    BY DEF FinalIsKept, FinalIn, At
  <1>1. /\ "client" \in live /\ {"inbound", "outbound"} \subseteq live
        /\ {"inbound", "outbound"} \subseteq live'
    <2>1. "client" \in live
      BY LiveShrinks
    <2>2. {"inbound", "outbound"} \subseteq live
      BY <2>1 DEF FinalInv, FinalIsKept
    <2> QED
      BY <2>1, <2>2, PumpsStay
  <1>2. ASSUME NEW t \in Turn, turn'[t].pc = "done"
        PROVE  t \in replied' \/ FinalIn(channel', t)
    <2>1. At(t, "done") \/ SendsFinal(t)
      BY <1>2, DoneStays
    <2>2. At(t, "done") => t \in replied \/ FinalIn(channel, t)
      BY <1>1 DEF FinalInv, FinalIsKept
    <2>3. CASE UNCHANGED <<channel, replied>> /\ \A u \in Turn : ~SendsFinal(u)
      BY <2>1, <2>2, <2>3
    <2>4. CASE OutboundDelivers
      <3>1. /\ channel # <<>> /\ channel' = Tail(channel) /\ ~SendsFinal(t)
            /\ replied' = IF Head(channel).type \in {"agent_response", "agent_error"}
                          THEN replied \cup {Head(channel).turn} ELSE replied
        BY <2>4 DEF OutboundDelivers, SendsFinal, SendToClient, ReceiverGone
      <3>2. FinalIn(channel, t) => IsFinal(Head(channel), t) \/ FinalIn(channel', t)
        BY <1>0, <3>1, FinalsOfTail
      <3>3. IsFinal(Head(channel), t) => t \in replied'
        BY <3>1 DEF IsFinal
      <3> QED
        BY <2>1, <2>2, <3>1, <3>2, <3>3
    <2>5. CASE OutboundLosesMessage
      BY <1>1, <2>5 DEF OutboundLosesMessage
    <2>6. ASSUME replied' = replied, NEW u \in Turn, Reports(u)
          PROVE  t \in replied' \/ FinalIn(channel', t)
      <3>1. PICK m : /\ SendToClient(m)
                     /\ SendsFinal(u) => IsFinal(m, u)
        BY <2>6, ReportsAreAbout
      <3>2. channel' = Append(channel, m)
        BY <1>1, <3>1 DEF SendToClient, ReceiverGone
      <3>3. FinalIn(channel', t) <=> FinalIn(channel, t) \/ IsFinal(m, t)
        BY <1>0, <3>2, FinalsOfAppend
      <3>4. SendsFinal(t) => t = u
        <4> SUFFICES ASSUME SendsFinal(t), t # u PROVE FALSE
          OBVIOUS
        <4>1. turn'[u] = turn[u]
          BY OneTurnMoves DEF IInv, TurnStep
        <4>2. turn'[u].pc # turn[u].pc
          BY <2>6, PromptFields, ProgressFields, FinalFields DEF Reports
        <4> QED
          BY <4>1, <4>2
      <3> QED
        BY <2>1, <2>2, <2>6, <3>1, <3>3, <3>4
    <2> QED
      BY <2>3, <2>4, <2>5, <2>6, ChannelSteps
  <1> QED
    BY <1>1, <1>2

LEMMA FinalIsLastNext == ASSUME IInv, FinalInv, Next PROVE FinalIsLast'
  <1>0. channel \in Seq(ServerMessage)
    BY DEF IInv, TypeInv, TypeOK
  <1> SUFFICES ASSUME NEW t \in Turn
               PROVE  /\ NothingAfterFinal(channel', t)
                      /\ FinalIn(channel', t) => turn'[t].pc = "done"
                      /\ t \in replied' => turn'[t].pc = "done" /\ NothingIn(channel', t)
    BY DEF FinalIsLast, FinalIn, NothingIn, NothingAfterFinal, At
  <1>1. /\ NothingAfterFinal(channel, t)
        /\ FinalIn(channel, t) => turn'[t].pc = "done"
        /\ t \in replied => turn'[t].pc = "done" /\ NothingIn(channel, t)
    BY DoneStays DEF FinalInv, FinalIsLast
  <1>2. CASE UNCHANGED <<channel, replied>>
    BY <1>1, <1>2
  <1>3. CASE OutboundDelivers
    <2>1. /\ channel # <<>> /\ channel' = Tail(channel)
          /\ replied' = IF Head(channel).type \in {"agent_response", "agent_error"}
                        THEN replied \cup {Head(channel).turn} ELSE replied
      BY <1>3 DEF OutboundDelivers
    <2>2. /\ FinalIn(channel', t) => FinalIn(channel, t)
          /\ NothingIn(channel, t) => NothingIn(channel', t)
          /\ NothingAfterFinal(channel', t)
          /\ IsFinal(Head(channel), t) => NothingIn(channel', t)
      BY <1>0, <1>1, <2>1, FinalsOfTail
    <2>3. t \in replied' => t \in replied \/ IsFinal(Head(channel), t)
      BY <2>1 DEF IsFinal
    <2>4. IsFinal(Head(channel), t) => FinalIn(channel, t)
      <3>1. Head(channel) = channel[1] /\ 1 \in 1..Len(channel)
        BY <1>0, <2>1
      <3> QED
        BY <3>1 DEF FinalIn
    <2> QED
      BY <1>1, <2>2, <2>3, <2>4
  <1>4. CASE OutboundLosesMessage
    <2>1. /\ replied' = replied
          /\ channel' = <<>> \/ (channel # <<>> /\ channel' = Tail(channel))
      BY <1>4 DEF OutboundLosesMessage
    <2>2. CASE channel' = <<>>
      BY <1>1, <2>1, <2>2, FinalsOfEmpty
    <2>3. CASE channel # <<>> /\ channel' = Tail(channel)
      BY <1>0, <1>1, <2>1, <2>3, FinalsOfTail
    <2> QED
      BY <2>1, <2>2, <2>3
  <1>5. ASSUME replied' = replied, NEW u \in Turn, Reports(u)
        PROVE  /\ NothingAfterFinal(channel', t)
               /\ FinalIn(channel', t) => turn'[t].pc = "done"
               /\ t \in replied' => turn'[t].pc = "done" /\ NothingIn(channel', t)
    <2>1. PICK m : /\ SendToClient(m)
                   /\ IsAbout(m, t) => t = u
                   /\ IsFinal(m, t) => SendsFinal(u)
                   /\ ~At(u, "done")
      BY <1>5, ReportsAreAbout
    <2>2. channel' = channel \/ channel' = Append(channel, m)
      BY <2>1 DEF SendToClient
    <2>3. IsAbout(m, t) => ~FinalIn(channel, t) /\ t \notin replied
      BY <2>1 DEF FinalInv, FinalIsLast
    <2>4. IsFinal(m, t) => turn'[t].pc = "done"
      BY <2>1, FinalIsAbout, FinalFields
    <2>5. CASE channel' = Append(channel, m)
      <3>1. /\ FinalIn(channel', t) <=> FinalIn(channel, t) \/ IsFinal(m, t)
            /\ NothingIn(channel, t) /\ ~IsAbout(m, t) => NothingIn(channel', t)
            /\ NothingAfterFinal(channel, t) /\ (FinalIn(channel, t) => ~IsAbout(m, t)) =>
                   NothingAfterFinal(channel', t)
        BY <1>0, <2>5, FinalsOfAppend
      <3> QED
        BY <1>1, <1>5, <2>3, <2>4, <3>1
    <2> QED
      BY <1>1, <1>5, <2>2, <2>5
  <1> QED
    BY <1>2, <1>3, <1>4, <1>5, ChannelSteps

LEMMA FinalInvariant == Spec => []FinalInv
  <1>1. Init => FinalInv
    BY FinalsOfEmpty DEF Init, Idle, FinalInv, FinalIsKept, FinalIsLast, Part, At
  <1>2. IInv /\ FinalInv /\ [Next]_vars => FinalInv'
    <2>1. CASE IInv /\ FinalInv /\ Next
      BY <2>1, FinalIsKeptNext, FinalIsLastNext DEF FinalInv
    <2>2. CASE FinalInv /\ UNCHANGED vars
      BY <2>2 DEF vars, FinalInv, FinalIsKept, FinalIsLast, FinalIn, NothingIn,
         NothingAfterFinal, At
    <2> QED
      BY <2>1, <2>2
  <1> QED
    BY <1>1, <1>2, ConsentInvariant, PTL DEF Spec

(* A client that stays connected loses no final message: a turn that is    *)
(* over has told it so, or its message is in the channel (SendsFinal, both *)
(* pumps).  This is the part of ClientHearsBack that one state shows.      *)
THEOREM FinalsAreKept == Spec => []FinalIsKept
  <1> QED BY FinalInvariant, PTL DEF FinalInv

(* The final message of a turn is its last and its only one: no prompt and *)
(* no progress of the turn can reach the client after it, and no other     *)
(* final message.                                                          *)
THEOREM FinalsAreLast == Spec => []FinalIsLast
  <1> QED BY FinalInvariant, PTL DEF FinalInv

-----------------------------------------------------------------------------
(* How far a turn is from its end if the model asks for nothing more: the  *)
(* calls the for loop has not passed, and the stage of the one it is at.   *)
CallsLeft(s) == Len(s.batch) + 1 - s.next

Rank(s) ==
    CASE s.pc = "idle"               -> 5
      [] s.pc = "llm"                -> 4
      [] s.pc = "persist"            -> 3
      [] s.pc \in {"respond", "error"} -> 2
      [] s.pc = "done"               -> 1
      [] s.pc = "check"              -> 6 * CallsLeft(s) + 9
      [] s.pc = "prompt"             -> 6 * CallsLeft(s) + 8
      [] s.pc = "wait"               -> 6 * CallsLeft(s) + 7
      [] s.pc = "exec"               -> 6 * CallsLeft(s) + 6
      [] s.pc = "progress"           -> 6 * CallsLeft(s) + 5

RanksAreNat == \A t \in Turn : Rank(turn[t]) \in Nat

(* A step that moves a turn brings it nearer to its end, or is the model's *)
(* answer that opens a round; a step that does not move it takes it no     *)
(* further away.                                                           *)
StepRank(t) ==
    \/ Rank(turn'[t]) < Rank(turn[t])
    \/ turn'[t].round = turn[t].round + 1
    \/ turn'[t].pc = turn[t].pc /\ Rank(turn'[t]) = Rank(turn[t])

(* Only the model prolongs a turn (run_agent_turn's loop).                 *)
OnlyModelProlongs == [][\A t \in Turn : StepRank(t)]_vars

LEMMA RankIsNat ==
    ASSUME IInv, NEW t \in Turn
    PROVE  /\ turn[t].pc \in Location /\ Rank(turn[t]) \in Nat
           /\ CallsLeft(turn[t]) \in Nat
           /\ turn[t].pc \in Handling => CallsLeft(turn[t]) >= 1
  <1>1. /\ turn[t] \in LocalState /\ Shape(turn[t])
        /\ turn[t].next \in Nat /\ turn[t].batch \in Seq(Tool)
    BY Facts0
  <1>2. /\ turn[t].pc \in Location /\ CallsLeft(turn[t]) \in Nat
        /\ turn[t].pc \in Handling => CallsLeft(turn[t]) >= 1
    BY <1>1 DEF LocalState, CallsLeft, Shape
  <1> HIDE DEF CallsLeft
  <1> QED BY <1>2 DEF Rank, Location

LEMMA OneCallLess ==
    ASSUME NEW s, NEW p, s.batch \in Seq(Tool), s.next \in Nat,
           p.batch = s.batch, p.next = s.next + 1
    PROVE  CallsLeft(p) = CallsLeft(s) - 1
  <1>1. Len(s.batch) \in Nat
    OBVIOUS
  <1> QED BY <1>1 DEF CallsLeft

(* A step within one call, or from one call to the next.                   *)
LEMMA RankFalls ==
    ASSUME IInv, NEW t \in Turn, TurnStep(t)
    PROVE  Rank(turn'[t]) < Rank(turn[t]) \/ turn'[t].round = turn[t].round + 1
  <1> DEFINE c == CallsLeft(turn[t])
  <1>1. /\ turn[t].pc \in Location /\ Rank(turn[t]) \in Nat /\ c \in Nat
        /\ turn[t].pc \in Handling => c >= 1
        /\ turn[t].next \in Nat /\ turn[t].batch \in Seq(Tool)
    BY RankIsNat, Facts0
  <1>2. Keeps(t) => CallsLeft(turn'[t]) = c
    BY DEF Keeps, CallsLeft
  <1>3. turn'[t].batch = turn[t].batch /\ turn'[t].next = turn[t].next + 1
            => CallsLeft(turn'[t]) = c - 1
    BY <1>1, OneCallLess
  <1> HIDE DEF c
  <1>4. CASE Moves(t)
    <2>1. /\ CallsLeft(turn'[t]) = c
          /\ turn[t].pc \in {"llm", "check", "wait", "persist"}
          /\ turn'[t].pc \in {"persist", "error", "llm", "exec", "respond"}
          /\ turn'[t].pc = "llm" => turn[t].pc = "check"
          /\ turn'[t].pc = "exec" => turn[t].pc \in {"check", "wait"}
      BY <1>2, <1>4, MovesFields, MovesOf DEF At
    <2>2. /\ turn'[t].pc = "persist" => turn[t].pc = "llm"
          /\ turn'[t].pc = "error" => turn[t].pc = "llm"
          /\ turn'[t].pc = "respond" => turn[t].pc = "persist"
      <3>1. turn \in [Turn -> LocalState]
        BY Facts0
      <3> QED BY <1>4, <3>1, MovesOf, MoveFields DEF Moves, At
    <2> QED BY <1>1, <2>1, <2>2 DEF Rank, c
  <1>5. ASSUME NEW b \in Batch, AgentReturnsCalls(t, b)
        PROVE  turn'[t].round = turn[t].round + 1
    BY <1>5, CallsFields
  <1>6. CASE RegistersRequest(t) \/ SendsPrompt(t) \/ ExecutesTool(t)
    BY <1>1, <1>2, <1>6, RegistersFields, PromptFields, ExecutesFields DEF Rank, c
  <1>7. CASE Denied(t) \/ ReportsProgress(t)
    BY SMTT(40), <1>1, <1>3, <1>7, DeniedFields, ProgressFields DEF Rank, c
  <1>8. CASE SendsFinal(t)
    BY <1>1, <1>8, FinalFields DEF Rank
  <1> QED BY <1>4, <1>5, <1>6, <1>7, <1>8, TurnStepCases

(* A turn's loop over its tool calls runs down: whatever the client, the   *)
(* timer and the tools do, each step of run_agent_turn brings the turn     *)
(* nearer to its final message, and only a response of the model with more *)
(* tool calls gives it more to do.  The rank is a number, so without such  *)
(* a response no turn steps for ever.                                      *)
THEOREM TurnsRunDown == Spec => []RanksAreNat /\ OnlyModelProlongs
  <1>1. IInv => RanksAreNat
    BY RankIsNat DEF RanksAreNat
  <1>2. ASSUME IInv, [Next]_vars
        PROVE  [\A t \in Turn : StepRank(t)]_vars
    <2>1. SUFFICES ASSUME Next, NEW t \in Turn PROVE StepRank(t)
      BY <1>2 DEF StepRank
    <2>2. Keeps(t) /\ turn'[t].pc = turn[t].pc => StepRank(t)
      BY DEF StepRank, Rank, Keeps, CallsLeft
    <2>3. turn'[t] = turn[t] => StepRank(t)
      BY DEF StepRank
    <2>4. Quiet => StepRank(t)
      BY <2>3 DEF Quiet
    <2>5. ASSUME NEW u \in Turn, Begins(u) PROVE StepRank(t)
      <3>1. CASE u = t
        BY <2>5, <3>1 DEF Begins, At, Rank, StepRank
      <3> QED BY <2>3, <2>5, <3>1 DEF Begins
    <2>6. ASSUME NEW r \in Request, Hears(r) PROVE StepRank(t)
      BY <2>2, <2>6 DEF Hears
    <2>7. ASSUME NEW u \in Turn, TurnStep(u) PROVE StepRank(t)
      <3>1. CASE u = t
        BY <1>2, <2>7, <3>1, RankFalls DEF StepRank
      <3>2. CASE u # t
        BY <1>2, <2>3, <2>7, <3>2, OneTurnMoves DEF IInv
      <3> QED BY <3>1, <3>2
    <2> QED BY <1>2, <2>1, <2>4, <2>5, <2>6, <2>7, StepCases
  <1> QED BY <1>1, <1>2, ConsentInvariant, PTL DEF Spec, OnlyModelProlongs

-----------------------------------------------------------------------------
(* The chain's first opinion is the deny list's, and only its second one   *)
(* can be Allow.                                                           *)
LEMMA ChainAllows ==
    ASSUME NEW call \in Tool
    PROVE  Check(call) = "Allow" <=>
               LastPart(call) \in ReadOnly /\ call.command \notin DenyListed
  <1> DEFINE op == DefaultChain(call)
             k == CHOOSE i \in DOMAIN op : Decides(op, i)
  <1>1. /\ DOMAIN op = 1..4 /\ op[1] = DenyList(call) /\ op[2] = AllowList(call)
        /\ op[3] = DestructivePattern(call) /\ op[4] = "RequiresApproval"
    BY DEF DefaultChain, DefaultRequiresApproval
  <1>2. /\ op[1] \in {"Deny", "none"} /\ op[3] \in {"RequiresApproval", "none"}
        /\ op[1] = "none" <=> call.command \notin DenyListed
        /\ op[2] = IF LastPart(call) \in ReadOnly THEN "Allow" ELSE "none"
    BY <1>1 DEF DenyList, AllowList, DestructivePattern
  <1> HIDE DEF op
  <1>3. \E i \in DOMAIN op : Decides(op, i)
    <2>1. CASE op[1] # "none"
      BY <1>1, <2>1 DEF Decides
    <2>2. CASE op[1] = "none" /\ op[2] # "none"
      BY <1>1, <2>2 DEF Decides
    <2>3. CASE op[1] = "none" /\ op[2] = "none" /\ op[3] # "none"
      BY <1>1, <2>3 DEF Decides
    <2>4. CASE op[1] = "none" /\ op[2] = "none" /\ op[3] = "none"
      BY <1>1, <2>4 DEF Decides
    <2> QED BY <2>1, <2>2, <2>3, <2>4
  <1>4. k \in 1..4 /\ Decides(op, k)
    BY <1>1, <1>3
  <1>5. Check(call) = op[k]
    BY DEF Check, op
  <1> HIDE DEF k
  <1>6. k \in {1, 2, 3, 4} /\ (k # 1 => op[1] = "none") /\ (k \in {3, 4} => op[2] = "none")
    BY <1>4 DEF Decides
  <1> QED BY <1>1, <1>2, <1>4, <1>5, <1>6 DEF Decides

(* A call runs without the user having been asked exactly if the last part *)
(* of its name is read-only and its command is not on the deny list.       *)
THEOREM ReadOnlyUnasked == Spec => []OnlyReadOnlyRunsUnasked
  <1>1. GInv => OnlyReadOnlyRunsUnasked
    <2> SUFFICES ASSUME GInv, NEW e \in executed
                 PROVE  e[1] \notin asked <=>
                            LastPart(e[2]) \in ReadOnly /\ e[2].command \notin DenyListed
      BY DEF OnlyReadOnlyRunsUnasked
    <2>1. e[2] \in Tool
      BY Facts0 DEF GInv
    <2>2. e[1] \in asked <=> Permission[e[2]] # "Allow"
      BY DEF GInv, GateInv, AskedIfGated, Gated
    <2>3. Permission[e[2]] = Check(e[2])
      BY <2>1, PolicyAssumption
    <2> QED BY <2>1, <2>2, <2>3, ChainAllows
  <1> QED BY <1>1, GateInvariant, PTL
=============================================================================
