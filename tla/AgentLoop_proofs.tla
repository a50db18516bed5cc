-------------------------- MODULE AgentLoop_proofs --------------------------
(***************************************************************************)
(* Proofs about AgentLoop for every set of tools and every limit, and that *)
(* MCLoops, which runs it beside Scheduler, changes nothing about either.  *)
(***************************************************************************)
EXTENDS MCLoops, SequenceTheorems, FiniteSetTheorems, TLAPS

(* While tool calls are handled the last message is the response that made *)
(* them, and a call that runs or has run is one of its positions.          *)
HandlesResponse ==
    pc \in {"tools", "harness"} =>
        /\ context # <<>>
        /\ LastOf(context).role = "assistant"
        /\ LastOf(context) \in Message
        /\ Len(LastOf(context).calls) <= MaxCalls

IdleCalls == pc # "tools" => running = {} /\ finished = {}

HandedOver ==
    /\ pc = "idle" => record = <<>>
    /\ pc = "harness" => context = record /\ fresh = <<>>

(* A running call that is not concurrency-safe was allowed to start, and   *)
(* still would be.                                                         *)
SerialOrder ==
    pc = "tools" =>
        /\ running \cap finished = {}
        /\ running \cup finished \subseteq Position
        /\ \A k \in running : Concurrent(k) \/ MayStartSerial(k)

IInv ==
    /\ TypeOK
    /\ ContextIsRecord
    /\ HandlesResponse
    /\ IdleCalls
    /\ HandedOver
    /\ SerialOrder

-----------------------------------------------------------------------------
LEMMA CallIds ==
    ASSUME NEW m \in Message, m.role = "assistant"
    PROVE  m.calls \in Seq(Tool) /\ m.number \in Nat /\ m.stop \in StopReason
  BY DEF Message

LEMMA ResultsAreMessages ==
    ASSUME NEW ids \in Seq(CallId)
    PROVE  ToolResults(ids) \in Message
  BY DEF ToolResults, Message

LEMMA UserTextIsMessage == UserText \in Message
  BY DEF UserText, Message

LEMMA ResponseIsMessage ==
    ASSUME responses \in Nat, NEW stop \in StopReason, NEW b \in Seq(Tool)
    PROVE  Response(stop, b) \in Message
  BY DEF Response, Message

LEMMA IdsOfPositions ==
    ASSUME LastOf(context) \in Message, LastOf(context).role = "assistant",
           NEW n \in Nat, NEW s \in [1..n -> Nat]
    PROVE  IdsOf(s) \in Seq(CallId)
  <1>1. s \in Seq(Nat) /\ Len(s) = n
    OBVIOUS
  <1>2. \A i \in 1..n : IdOf(s[i]) \in CallId
    BY CallIds DEF IdOf, CallId
  <1> QED BY <1>1, <1>2 DEF IdsOf

(* What one pass of the loop does to the messages.                         *)
LEMMA PassKeepsRecord ==
    ASSUME IInv, pc = "llm",
           NEW stop \in StopReason, NEW b \in Seq(Tool), NEW added \in Seq(Message),
           Iterates(stop, b, added)
    PROVE  LET m == Response(stop, b) IN
           /\ m \in Message
           /\ context' \in Seq(Message)
           /\ Continues(stop, b, added) =>
                  /\ fresh' \in Seq(Message) /\ record' \in Seq(Message)
                  /\ context' = record' \o fresh'
           /\ Returns(stop, b) /\ added = <<>> =>
                  /\ fresh' \in Seq(Message) /\ record' \in Seq(Message)
                  /\ context' = record' /\ fresh' = <<>>
           /\ added = <<>> => context' # <<>> /\ LastOf(context)' = m
           /\ iterations' \in 0..MaxIterations /\ responses' \in Nat
  <1> DEFINE m == Response(stop, b)
  <1>1. /\ context \in Seq(Message) /\ record \in Seq(Message) /\ fresh \in Seq(Message)
        /\ context = record \o fresh
        /\ responses \in Nat /\ iterations \in 0..MaxIterations
    BY DEF IInv, TypeOK, ContextIsRecord
  <1>2. m \in Message
    BY <1>1, ResponseIsMessage
  <1>3. <<m>> \in Seq(Message) /\ Len(<<m>>) = 1 /\ <<m>>[1] = m
    BY <1>2
  <1> HIDE DEF m
  <1>4. context' = context \o <<m>> \o added
    BY DEF Iterates, m
  <1>5. context' \in Seq(Message)
    BY <1>1, <1>3, <1>4
  <1>6. ASSUME Continues(stop, b, added)
        PROVE  /\ fresh' \in Seq(Message) /\ record' \in Seq(Message)
               /\ context' = record' \o fresh'
    <2>1. fresh' = fresh \o <<m>> \o added /\ record' = record
      BY <1>6 DEF Continues, m
    <2>2. fresh' \in Seq(Message)
      BY <1>1, <1>3, <2>1
    <2>3. (record \o fresh) \o <<m>> = record \o (fresh \o <<m>>)
      BY SMTT(30), <1>1, <1>3, ConcatAssociative
    <2>4. (record \o (fresh \o <<m>>)) \o added = record \o ((fresh \o <<m>>) \o added)
      <3>1. fresh \o <<m>> \in Seq(Message)
        BY <1>1, <1>3
      <3>2. \A s \in Seq(Message) : (record \o s) \o added = record \o (s \o added)
        BY SMTT(30), <1>1, ConcatAssociative
      <3> QED BY <3>1, <3>2
    <2> QED BY <1>1, <1>4, <2>1, <2>2, <2>3, <2>4
  <1>7. ASSUME Returns(stop, b), added = <<>>
        PROVE  /\ fresh' \in Seq(Message) /\ record' \in Seq(Message)
               /\ context' = record' /\ fresh' = <<>>
    <2>1. record' = (record \o fresh) \o <<m>> /\ fresh' = <<>>
      BY <1>7 DEF Returns, m
    <2>2. (context \o <<m>>) \o <<>> = context \o <<m>>
      BY <1>1, <1>3
    <2> QED BY <1>1, <1>3, <1>4, <1>5, <1>7, <2>1, <2>2
  <1>8. ASSUME added = <<>> PROVE context' # <<>> /\ LastOf(context)' = m
    <2>1. context' = context \o <<m>>
      BY <1>1, <1>3, <1>4, <1>8
    <2>2. Len(context') = Len(context) + 1 /\ context'[Len(context) + 1] = m
      BY <1>1, <1>3, <2>1
    <2> QED BY <1>1, <2>2 DEF LastOf
  <1>9. iterations' \in 0..MaxIterations /\ responses' \in Nat
    BY <1>1, LimitAssumption DEF Iterates
  <1> QED BY <1>2, <1>5, <1>6, <1>7, <1>8, <1>9 DEF m

(* The calls a response may make, acted on or not.                         *)
LEMMA BatchCalls ==
    /\ \A b \in Batches(MaxIgnored) : b \in Seq(Tool)
    /\ \A b \in Batch : b \in Seq(Tool) /\ Len(b) <= MaxCalls
  BY LimitAssumption DEF Batch, Batches

LEMMA TypeInit == Init => IInv
  BY LimitAssumption
     DEF Init, IInv, TypeOK, ContextIsRecord, HandlesResponse, IdleCalls, HandedOver,
         SerialOrder, PromptPart, Failure

LEMMA LoopStepKeeps == ASSUME IInv, LoopStep PROVE IInv'
  <1>0. TypeOK /\ IdleCalls /\ StopReason # {}
    BY DEF IInv, StopReason
  <1>1. pc = "llm" /\ running = {} /\ finished = {}
    BY <1>0 DEF LoopStep, EndTurn, MaxTokensContinues, MaxTokensFails, StopSequence,
            ToolUseToHarness, ToolUseToExecutor, LlmFails, IterationsExhausted,
            Iterates, IdleCalls
  <1>2. /\ running' = {} /\ finished' = {}
        /\ executor' = executor /\ prompt' = prompt /\ resumes' = resumes
    BY <1>1 DEF LoopStep, EndTurn, MaxTokensContinues, MaxTokensFails, StopSequence,
                ToolUseToHarness, ToolUseToExecutor, LlmFails, IterationsExhausted,
                Iterates
  <1>3. <<>> \in Seq(Message) /\ <<>> \in Seq(Tool)
    OBVIOUS
  (* The goal for each outcome, with what PassKeepsRecord leaves open.     *)
  <1>4. ASSUME context' \in Seq(Message), fresh' \in Seq(Message),
               record' \in Seq(Message), iterations' \in 0..MaxIterations,
               responses' \in Nat, continuations' \in 0..MaxContinuations,
               pc' \in {"llm", "tools", "harness", "done"} \cup Failure,
               pc' \in {"llm", "tools"} => context' = record' \o fresh',
               pc' = "harness" => context' = record' /\ fresh' = <<>>,
               pc' \in {"tools", "harness"} => HandlesResponse'
        PROVE  IInv'
    BY <1>0, <1>2, <1>4
       DEF IInv, TypeOK, ContextIsRecord, HandlesResponse, IdleCalls, HandedOver,
           SerialOrder, Failure
  <1>5. ASSUME NEW b \in Batches(MaxIgnored), EndTurn(b) PROVE IInv'
    BY <1>0, <1>1, <1>3, <1>4, <1>5, BatchCalls, PassKeepsRecord
       DEF EndTurn, StopReason, TypeOK
  <1>6. ASSUME NEW b \in Batches(MaxIgnored), MaxTokensContinues(b) PROVE IInv'
    <2>1. ContinuePrompt \in Seq(Message)
      BY UserTextIsMessage DEF ContinuePrompt
    <2>2. continuations' \in 0..MaxContinuations
      BY <1>0, <1>6, LimitAssumption DEF MaxTokensContinues, ContinuationsLeft, TypeOK
    <2> QED BY <1>0, <1>1, <1>3, <1>4, <1>6, <2>1, <2>2, BatchCalls, PassKeepsRecord
            DEF MaxTokensContinues, StopReason
  <1>7. ASSUME NEW b \in Batches(MaxIgnored), MaxTokensFails(b) PROVE IInv'
    BY <1>0, <1>1, <1>3, <1>4, <1>7, BatchCalls, PassKeepsRecord
       DEF MaxTokensFails, StopReason, TypeOK, Failure
  <1>8. ASSUME NEW b \in Batches(MaxIgnored), StopSequence(b) PROVE IInv'
    BY <1>0, <1>1, <1>3, <1>4, <1>8, BatchCalls, PassKeepsRecord
       DEF StopSequence, StopReason, TypeOK, Failure
  <1>9. ASSUME NEW b \in Batch, ToolUseToHarness(b) \/ ToolUseToExecutor(b) PROVE IInv'
    <2>1. b \in Seq(Tool) /\ Len(b) <= MaxCalls
      BY BatchCalls
    <2>2. Iterates("tool_use", b, <<>>) /\ "tool_use" \in StopReason
      BY <1>9 DEF ToolUseToHarness, ToolUseToExecutor, StopReason
    <2> DEFINE m == Response("tool_use", b)
    <2>3. m \in Message /\ context' # <<>> /\ LastOf(context)' = m
      BY <1>1, <1>3, <2>1, <2>2, PassKeepsRecord
    <2>4. m.role = "assistant" /\ m.calls = b
      BY DEF Response
    <2>5. HandlesResponse'
      BY <2>1, <2>3, <2>4 DEF HandlesResponse
    <2>6. /\ context' \in Seq(Message) /\ iterations' \in 0..MaxIterations
          /\ responses' \in Nat /\ continuations' \in 0..MaxContinuations
      BY <1>0, <1>1, <1>3, <1>9, <2>1, <2>2, PassKeepsRecord
         DEF ToolUseToHarness, ToolUseToExecutor, TypeOK
    <2>7. CASE ToolUseToHarness(b)
      BY <1>1, <1>3, <1>4, <2>1, <2>2, <2>5, <2>6, <2>7, PassKeepsRecord
         DEF ToolUseToHarness
    <2>8. CASE ToolUseToExecutor(b)
      BY <1>1, <1>3, <1>4, <2>1, <2>2, <2>5, <2>6, <2>8, PassKeepsRecord
         DEF ToolUseToExecutor
    <2> QED BY <1>9, <2>7, <2>8
  <1>10. ASSUME NEW error \in LlmError, LlmFails(error)
         PROVE  IInv'
    BY <1>0, <1>4, <1>10 DEF LlmFails, LlmError, TypeOK, Failure
  <1>11. CASE IterationsExhausted
    BY <1>0, <1>4, <1>11 DEF IterationsExhausted, TypeOK, Failure
  <1> QED BY <1>5, <1>6, <1>7, <1>8, <1>9, <1>10, <1>11 DEF LoopStep

LEMMA ToolStepKeeps == ASSUME IInv, ToolStep PROVE IInv'
  <1>0. /\ TypeOK /\ ContextIsRecord /\ HandlesResponse /\ SerialOrder
        /\ pc = "tools"
    BY DEF IInv, ToolStep, StartsCall, FinishesCall, PushesResults
  <1>1. /\ LastOf(context) \in Message /\ LastOf(context).role = "assistant"
        /\ Calls \in Seq(Tool) /\ Len(Calls) \in Nat /\ Len(Calls) <= MaxCalls
    <2>1. LastOf(context) \in Message /\ LastOf(context).role = "assistant"
      BY <1>0 DEF HandlesResponse
    <2>2. Calls \in Seq(Tool)
      BY <2>1, CallIds DEF Calls
    <2> QED BY <1>0, <2>1, <2>2 DEF HandlesResponse, Calls
  <1>2. Position \subseteq Nat /\ Position \subseteq 1..MaxCalls
    BY <1>1, LimitAssumption DEF Position
  <1>3. /\ running \cap finished = {}
        /\ running \cup finished \subseteq Position
        /\ \A k \in running : Concurrent(k) \/ MayStartSerial(k)
    BY <1>0 DEF SerialOrder
  <1>4. ASSUME UNCHANGED <<executor, pc, iterations, continuations, context, record,
                           fresh, prompt, responses, resumes>>,
               finished \subseteq finished',
               running' \cap finished' = {},
               running' \cup finished' \subseteq Position,
               \A k \in running' : Concurrent(k) \/ MayStartSerial(k)
        PROVE  IInv'
    <2>1. Calls' = Calls /\ Position' = Position
      BY <1>4 DEF Calls, Position, LastOf
    <2>2. \A k \in running' : Concurrent(k)' \/ MayStartSerial(k)'
      <3>1. \A k : Concurrent(k)' = Concurrent(k)
        BY <2>1 DEF Concurrent
      <3>2. \A k : MayStartSerial(k) => MayStartSerial(k)'
        BY <1>4, <2>1, <3>1 DEF MayStartSerial, SafeDone
      <3> QED BY <1>4, <3>1, <3>2
    <2>3. SerialOrder'
      BY <1>4, <2>1, <2>2 DEF SerialOrder
    <2>4. HandlesResponse'
      BY <1>0, <1>4, <2>1 DEF HandlesResponse, LastOf
    <2>5. running' \subseteq 1..MaxCalls /\ finished' \subseteq 1..MaxCalls
      BY <1>2, <1>4
    <2> QED BY <1>0, <1>4, <2>3, <2>4, <2>5
            DEF IInv, TypeOK, ContextIsRecord, IdleCalls, HandedOver
  <1>5. ASSUME NEW k \in 1..MaxCalls, StartsCall(k) PROVE IInv'
    BY <1>3, <1>4, <1>5 DEF StartsCall
  <1>6. ASSUME NEW k \in 1..MaxCalls, FinishesCall(k) PROVE IInv'
    BY <1>3, <1>4, <1>6 DEF FinishesCall
  <1>7. CASE PushesResults
    <2>1. PICK order \in [1..Cardinality(finished) -> finished] :
              /\ context' = Append(context, ToolResults(IdsOf(order)))
              /\ fresh' = Append(fresh, ToolResults(IdsOf(order)))
      BY <1>7 DEF PushesResults
    <2>2. Cardinality(finished) \in Nat /\ finished \subseteq Nat
      <3>1. IsFiniteSet(1..MaxCalls)
        BY LimitAssumption, FS_Interval
      <3>2. finished \subseteq 1..MaxCalls
        BY <1>0 DEF TypeOK
      <3>3. IsFiniteSet(finished)
        BY <3>1, <3>2, FS_Subset
      <3> QED BY <1>2, <1>3, <3>3, FS_CardinalityType
    <2>3. order \in [1..Cardinality(finished) -> Nat]
      BY <2>2
    <2> DEFINE results == ToolResults(IdsOf(order))
    <2>4. results \in Message
      BY <1>1, <2>2, <2>3, IdsOfPositions, ResultsAreMessages
    <2> HIDE DEF results
    <2>5. /\ context \in Seq(Message) /\ record \in Seq(Message) /\ fresh \in Seq(Message)
          /\ context = record \o fresh
      BY <1>0 DEF TypeOK, ContextIsRecord
    <2>6. context' = Append(context, results) /\ fresh' = Append(fresh, results)
          /\ record' = record
      BY <1>7, <2>1 DEF PushesResults, results
    <2>7. Append(record \o fresh, results) = record \o Append(fresh, results)
      <3>1. \A s \in Seq(Message) : Append(s, results) = s \o <<results>>
        BY <2>4, AppendIsConcat
      <3>2. record \o fresh \in Seq(Message) /\ <<results>> \in Seq(Message)
        BY <2>4, <2>5
      <3>3. \A s \in Seq(Message) :
                (record \o fresh) \o s = record \o (fresh \o s)
        BY <2>5, ConcatAssociative
      <3> QED BY <2>5, <3>1, <3>2, <3>3
    <2>8. context' \in Seq(Message) /\ fresh' \in Seq(Message)
          /\ context' = record' \o fresh'
      BY <2>4, <2>5, <2>6, <2>7
    <2>9. /\ pc' = "llm" /\ finished' = {}
          /\ UNCHANGED <<executor, iterations, continuations, prompt, responses, resumes>>
      BY <1>7 DEF PushesResults
    <2>10. running' = {}
      BY <1>3, <1>7 DEF PushesResults, AllCallsDone
    <2> QED BY <1>0, <2>5, <2>6, <2>8, <2>9, <2>10
            DEF IInv, TypeOK, ContextIsRecord, HandlesResponse, IdleCalls, HandedOver,
                SerialOrder
  <1> QED BY <1>5, <1>6, <1>7 DEF ToolStep

LEMMA HarnessStepKeeps == ASSUME IInv, HarnessStep PROVE IInv'
  <1>0. /\ TypeOK /\ HandlesResponse /\ IdleCalls /\ HandedOver
        /\ pc = "harness" /\ running = {} /\ finished = {}
    BY DEF IInv, HarnessStep, HarnessFinishes, HarnessResumes, IdleCalls
  <1>1. CASE HarnessFinishes
    BY <1>0, <1>1 DEF HarnessFinishes, IInv, TypeOK, ContextIsRecord, HandlesResponse,
                      IdleCalls, HandedOver, SerialOrder, Failure
  <1>2. CASE HarnessResumes
    <2> DEFINE results == ToolResults(IdsOf([k \in Position |-> k]))
    <2>1. results \in Message
      <3>1. LastOf(context) \in Message /\ LastOf(context).role = "assistant"
        BY <1>0 DEF HandlesResponse
      <3>2. Len(Calls) \in Nat
        BY <3>1, CallIds DEF Calls
      <3>3. [k \in Position |-> k] \in [1..Len(Calls) -> Nat]
        BY <3>2 DEF Position
      <3> QED BY <3>1, <3>2, <3>3, IdsOfPositions, ResultsAreMessages
    <2>2. /\ context' = Append(record, results) /\ fresh' = <<results>>
          /\ record' = record /\ pc' = "llm" /\ running' = {} /\ finished' = {}
          /\ iterations' = 0 /\ continuations' = 0 /\ resumes' = resumes + 1
          /\ resumes < MaxResumes
          /\ prompt' = ResumedPrompt /\ executor' = executor /\ responses' = responses
      BY <1>0, <1>2 DEF HarnessResumes, ContextFromRecord
    <2> HIDE DEF results
    <2>3. record \in Seq(Message)
      BY <1>0 DEF TypeOK
    <2>4. /\ context' \in Seq(Message) /\ fresh' \in Seq(Message)
          /\ context' = record' \o fresh'
      BY <2>1, <2>2, <2>3
    <2>5. resumes' \in 0..MaxResumes /\ prompt' \subseteq PromptPart
      BY <1>0, <2>2, LimitAssumption DEF TypeOK, ResumedPrompt, PromptPart
    <2> QED BY <1>0, <2>2, <2>3, <2>4, <2>5, LimitAssumption
            DEF IInv, TypeOK, ContextIsRecord, HandlesResponse, IdleCalls, HandedOver,
                SerialOrder
  <1> QED BY <1>1, <1>2 DEF HarnessStep

LEMMA RunKeeps == ASSUME IInv, Run PROVE IInv'
  <1>1. /\ context' = <<UserText>> /\ fresh' = <<UserText>> /\ record' = <<>>
        /\ <<UserText>> \in Seq(Message)
    BY UserTextIsMessage DEF Run, IInv, HandedOver, TypeOK
  <1>2. context' = record' \o fresh'
    BY <1>1
  <1> QED BY <1>1, <1>2
          DEF Run, IInv, TypeOK, ContextIsRecord, HandlesResponse, IdleCalls, HandedOver,
              SerialOrder

LEMMA IInvNext == IInv /\ [Next]_vars => IInv'
  <1> SUFFICES ASSUME IInv, [Next]_vars PROVE IInv'
    OBVIOUS
  <1>1. CASE UNCHANGED vars
    BY <1>1 DEF vars, IInv, TypeOK, ContextIsRecord, HandlesResponse, IdleCalls,
                HandedOver, SerialOrder, LastOf, Calls, Position, Concurrent,
                MayStartSerial, SafeDone
  <1> QED BY <1>1, RunKeeps, LoopStepKeeps, ToolStepKeeps, HarnessStepKeeps DEF Next

LEMMA Invariant == Spec => []IInv
  BY TypeInit, IInvNext, PTL DEF Spec

(* The loop's counters stay within their limits and every message has its  *)
(* form, for every limit and every set of tools.                           *)
THEOREM TypeCorrect == Spec => []TypeOK
  <1>1. IInv => TypeOK
    BY DEF IInv
  <1> QED BY <1>1, Invariant, PTL

(* What the model is shown is what will be persisted: nothing the turn     *)
(* said is missing from the context and nothing is in it twice.            *)
THEOREM ContextRecorded == Spec => []ContextIsRecord
  <1>1. IInv => ContextIsRecord
    BY DEF IInv
  <1> QED BY <1>1, Invariant, PTL

(* A tool that is not safe to run concurrently never overlaps with another *)
(* call of its response.                                                   *)
THEOREM UnsafeAlone == Spec => []UnsafeRunsAlone
  <1>1. ASSUME IInv PROVE UnsafeRunsAlone
    <2>1. SUFFICES ASSUME pc = "tools", NEW k \in running, ~Concurrent(k),
                          NEW j \in running
                   PROVE  j = k
      BY DEF UnsafeRunsAlone
    <2>2. HandlesResponse /\ SerialOrder
      BY <1>1 DEF IInv
    <2>3. /\ running \cap finished = {} /\ k \in Position /\ j \in Position
          /\ MayStartSerial(k) /\ (Concurrent(j) \/ MayStartSerial(j))
      BY <2>1, <2>2 DEF SerialOrder
    <2>4. k \in Nat /\ j \in Nat /\ k >= 1 /\ j >= 1
      <3>1. LastOf(context) \in Message /\ LastOf(context).role = "assistant"
        BY <2>1, <2>2 DEF HandlesResponse
      <3>2. Len(Calls) \in Nat
        BY <3>1, CallIds DEF Calls
      <3> QED BY <2>3, <3>2 DEF Position
    <2>5. ~Concurrent(j)
      BY <2>1, <2>3 DEF MayStartSerial, SafeDone
    <2>6. ~(j < k) /\ ~(k < j)
      BY <2>1, <2>3, <2>4, <2>5 DEF MayStartSerial
    <2> QED BY <2>4, <2>6
  <1> QED BY <1>1, Invariant, PTL

-----------------------------------------------------------------------------
(* What the model is asked with.  A conversation alternates, and up to the *)
(* n-th message its responses are answered unless they are spoiled; it     *)
(* waits for the results of the last response, or for the model.           *)
ResultsFollow(s, k) ==
    s[k].role = "assistant" =>
        k < Len(s) /\ (Answers(s[k + 1], s[k]) <=> ~Spoiled(s[k]))

Alternates(s) == \A k \in 1..Len(s) : s[k].role = "user" <=> k % 2 = 1

Open(s) == /\ Len(s) > 0 /\ Len(s) % 2 = 0 /\ Alternates(s) /\ s[1] = UserText
           /\ LastOf(s).stop = "tool_use"
           /\ \A k \in 1..(Len(s) - 1) : ResultsFollow(s, k)

Ready(s) == /\ Len(s) % 2 = 1 /\ Alternates(s) /\ s[1] = UserText
            /\ \A k \in 1..Len(s) : ResultsFollow(s, k)

Conversing == /\ pc = "llm" => Ready(context)
              /\ pc \in {"tools", "harness"} => Open(context)

LEMMA Parity ==
    ASSUME NEW n \in Nat
    PROVE  /\ n % 2 \in {0, 1} /\ (n % 2 = 0 <=> (n + 1) % 2 = 1)
           /\ (n % 2 = 1 <=> (n + 1) % 2 = 0) /\ (n + 2) % 2 = n % 2
  OBVIOUS

LEMMA ResponseOpens ==
    ASSUME NEW s \in Seq(Message), Ready(s), NEW m \in Message, m.role = "assistant",
           m.stop = "tool_use"
    PROVE  Open(s \o <<m>>)
  <1> DEFINE r == s \o <<m>>
  <1>1. /\ Len(s) \in Nat /\ Len(r) = Len(s) + 1 /\ r[Len(s) + 1] = m
        /\ \A k \in 1..Len(s) : r[k] = s[k]
    OBVIOUS
  <1> HIDE DEF r
  <1>2. Len(r) % 2 = 0 /\ (Len(s) + 1) % 2 = 0
    BY <1>1 DEF Ready
  <1>3. Alternates(r)
    BY <1>1, <1>2 DEF Ready, Alternates
  <1>4. ASSUME NEW k \in 1..(Len(r) - 1) PROVE ResultsFollow(r, k)
    <2>1. k \in 1..Len(s) /\ r[k] = s[k] /\ ResultsFollow(s, k)
      BY <1>1 DEF Ready
    <2>2. k < Len(s) => r[k + 1] = s[k + 1]
      BY <1>1
    <2> QED BY SMTT(30), <1>1, <2>1, <2>2 DEF ResultsFollow
  <1>5. r[1] = UserText /\ Len(r) > 0 /\ LastOf(r).stop = "tool_use"
    BY <1>1, Parity DEF Ready, LastOf
  <1>6. Open(r)
    BY <1>2, <1>3, <1>4, <1>5 DEF Open
  <1> QED BY <1>6 DEF r

(* The prompt to go on answers a response unless that was cut off in a     *)
(* call; results answer it unless there are none.                          *)
LEMMA PromptAnswers ==
    ASSUME NEW m \in Message, m.role = "assistant", m.stop = "max_tokens"
    PROVE  Answers(UserText, m) <=> ~Spoiled(m)
  <1>1. m.calls \in Seq(Tool)
    BY CallIds
  <1>2. m.calls = <<>> <=> Len(m.calls) = 0
    BY <1>1
  <1>3. UserText.text /\ Len(UserText.results) = 0
    BY DEF UserText
  <1>4. 1..0 = {}
    OBVIOUS
  <1>5. CASE Len(m.calls) = 0
    BY <1>2, <1>3, <1>4, <1>5 DEF Answers, Spoiled
  <1>6. CASE Len(m.calls) # 0
    BY <1>2, <1>3, <1>6 DEF Answers, Spoiled
  <1> QED BY <1>5, <1>6

LEMMA ResultsAnswer ==
    ASSUME NEW m \in Message, m.role = "assistant", m.stop = "tool_use",
           NEW ids \in Seq(CallId), Len(ids) = Len(m.calls),
           {ids[i] : i \in 1..Len(m.calls)} = {<<m.number, i>> : i \in 1..Len(m.calls)}
    PROVE  Answers(ToolResults(ids), m) <=> ~Spoiled(m)
  <1>1. m.calls = <<>> <=> ids = <<>>
    BY CallIds
  <1>2. ~ToolResults(ids).text /\ ToolResults(ids).results = ids
    BY DEF ToolResults
  <1> QED BY <1>1, <1>2 DEF Answers, Spoiled

LEMMA ContinuationReady ==
    ASSUME NEW s \in Seq(Message), Ready(s), NEW m \in Message,
           m.role = "assistant", m.stop = "max_tokens"
    PROVE  Ready((s \o <<m>>) \o <<UserText>>)
  <1> DEFINE r == (s \o <<m>>) \o <<UserText>>
  <1>1. /\ Len(s) \in Nat /\ Len(r) = Len(s) + 2 /\ r[Len(s) + 1] = m
        /\ r[Len(s) + 2] = UserText
        /\ \A k \in 1..Len(s) : r[k] = s[k]
    BY UserTextIsMessage
  <1> HIDE DEF r
  <1>2. Len(r) % 2 = 1 /\ (Len(s) + 1) % 2 = 0 /\ (Len(s) + 2) % 2 = 1
    BY <1>1, Parity DEF Ready
  <1>3. Alternates(r)
    <2>1. SUFFICES ASSUME NEW k \in 1..Len(r) PROVE r[k].role = "user" <=> k % 2 = 1
      BY DEF Alternates
    <2>2. CASE k \in 1..Len(s)
      BY <1>1, <2>2 DEF Ready, Alternates
    <2>3. CASE k = Len(s) + 1
      BY <1>1, <1>2, <2>3
    <2>4. CASE k = Len(s) + 2
      BY <1>1, <1>2, <2>4 DEF UserText
    <2> QED BY <1>1, <2>2, <2>3, <2>4
  <1>4. ASSUME NEW k \in 1..Len(r) PROVE ResultsFollow(r, k)
    <2>1. CASE k \in 1..Len(s)
      <3>1. r[k] = s[k] /\ ResultsFollow(s, k)
        BY <1>1, <2>1 DEF Ready
      <3>2. k < Len(s) => r[k + 1] = s[k + 1]
        BY <1>1, <2>1
      <3> QED BY SMTT(30), <1>1, <2>1, <3>1, <3>2 DEF ResultsFollow
    <2>2. CASE k = Len(s) + 1
      <3>1. r[k] = m /\ r[k + 1] = UserText /\ k < Len(r)
        BY <1>1, <2>2
      <3> QED BY <3>1, PromptAnswers DEF ResultsFollow
    <2>3. CASE k = Len(s) + 2
      BY <1>1, <2>3 DEF ResultsFollow, UserText
    <2> QED BY <1>1, <2>1, <2>2, <2>3
  <1>5. r[1] = UserText
    <2>1. 1 \in 1..Len(s)
      BY <1>1, Parity DEF Ready
    <2> QED BY <1>1, <2>1 DEF Ready
  <1>6. Ready(r)
    BY <1>2, <1>3, <1>4, <1>5 DEF Ready
  <1> QED BY <1>6 DEF r

LEMMA ResultsMakeReady ==
    ASSUME NEW s \in Seq(Message), Open(s), LastOf(s).role = "assistant",
           NEW ids \in Seq(CallId), Len(ids) = Len(LastOf(s).calls),
           {ids[i] : i \in 1..Len(LastOf(s).calls)} =
               {<<LastOf(s).number, i>> : i \in 1..Len(LastOf(s).calls)}
    PROVE  Ready(Append(s, ToolResults(ids)))
  <1> DEFINE m == ToolResults(ids)
             r == Append(s, m)
  <1>1. m \in Message /\ m.role = "user" /\ m.results = ids
    BY ResultsAreMessages DEF ToolResults
  <1> HIDE DEF m
  <1>2. /\ Len(s) \in Nat /\ Len(s) > 0 /\ Len(r) = Len(s) + 1 /\ r[Len(s) + 1] = m
        /\ \A k \in 1..Len(s) : r[k] = s[k]
    BY <1>1 DEF Open
  <1> HIDE DEF r
  <1>3. Len(r) % 2 = 1 /\ (Len(s) + 1) % 2 = 1
    BY <1>2, Parity DEF Open
  <1>4. Alternates(r)
    <2>1. SUFFICES ASSUME NEW k \in 1..Len(r) PROVE r[k].role = "user" <=> k % 2 = 1
      BY DEF Alternates
    <2>2. CASE k \in 1..Len(s)
      BY <1>2, <2>2 DEF Open, Alternates
    <2>3. CASE k = Len(s) + 1
      BY <1>1, <1>2, <1>3, <2>3
    <2> QED BY <1>2, <2>2, <2>3
  <1>5. ASSUME NEW k \in 1..Len(r) PROVE ResultsFollow(r, k)
    <2>1. CASE k \in 1..(Len(s) - 1)
      <3>1. k \in 1..Len(s) /\ k + 1 \in 1..Len(s) /\ k < Len(s) /\ k < Len(r)
        BY <1>2, <2>1
      <3>2. r[k] = s[k] /\ r[k + 1] = s[k + 1]
        BY <1>2, <3>1
      <3>3. ResultsFollow(s, k)
        BY <2>1 DEF Open
      <3> QED BY <3>1, <3>2, <3>3 DEF ResultsFollow
    <2>2. CASE k = Len(s)
      <3>1. r[k] = LastOf(s) /\ r[k + 1] = m /\ k < Len(r)
        BY <1>2, <2>2 DEF LastOf
      <3>2. LastOf(s) \in Message
        <4>1. s[Len(s)] \in Message
          BY <1>2
        <4> QED BY <4>1 DEF LastOf
      <3>3. LastOf(s).stop = "tool_use"
        BY DEF Open
      <3>4. Answers(m, LastOf(s)) <=> ~Spoiled(LastOf(s))
        BY <3>2, <3>3, ResultsAnswer DEF m
      <3> QED BY <3>1, <3>4 DEF ResultsFollow
    <2>3. CASE k = Len(s) + 1
      BY <1>1, <1>2, <2>3 DEF ResultsFollow
    <2> QED BY <1>2, <2>1, <2>2, <2>3
  <1>6. r[1] = UserText
    BY <1>2 DEF Open
  <1>7. Ready(r)
    BY <1>3, <1>4, <1>5, <1>6 DEF Ready
  <1> QED BY <1>7 DEF r, m

(* An order of results names each call once.                               *)
LEMMA OrderIsComplete ==
    ASSUME NEW n \in Nat, NEW order \in [1..Cardinality(1..n) -> 1..n],
           InResultOrder(order)
    PROVE  /\ Cardinality(1..n) = n /\ order \in [1..n -> 1..n]
           /\ {order[i] : i \in 1..n} = 1..n
  <1>1. IsFiniteSet(1..n) /\ Cardinality(1..n) = n
    BY FS_Interval
  <1>2. order \in [1..n -> 1..n]
    BY <1>1
  <1>3. ASSUME NEW i \in 1..n, NEW j \in 1..n, order[i] = order[j] PROVE i = j
    <2>1. \A k \in 1..n : ~ResultBefore(k, k)
      BY DEF ResultBefore
    <2>2. ~(i < j) /\ ~(j < i)
      BY <1>2, <1>3, <2>1 DEF InResultOrder
    <2> QED BY <2>2
  <1>4. order \in Injection(1..n, 1..n)
    BY <1>2, <1>3 DEF Injection, IsInjective
  <1>5. order \in Surjection(1..n, 1..n)
    BY <1>1, <1>4, FS_Injection
  <1> QED BY <1>1, <1>2, <1>5 DEF Surjection

LEMMA ConversingLoop == ASSUME IInv, Conversing, LoopStep PROVE Conversing'
  <1>0. /\ context \in Seq(Message) /\ responses \in Nat
        /\ "max_tokens" \in StopReason /\ "tool_use" \in StopReason
    BY DEF IInv, TypeOK, StopReason
  <1>1. ASSUME NEW b \in Batches(MaxIgnored), MaxTokensContinues(b)
        PROVE  Conversing'
    <2> DEFINE m == Response("max_tokens", b)
    <2>1. m \in Message
      BY <1>0, BatchCalls, ResponseIsMessage
    <2>2. m.role = "assistant" /\ m.stop = "max_tokens"
      BY DEF Response
    <2>3. /\ pc = "llm" /\ pc' = "llm" /\ Ready(context)
          /\ context' = (context \o <<m>>) \o <<UserText>>
      BY <1>1 DEF MaxTokensContinues, Iterates, ContinuePrompt, Conversing
    <2> HIDE DEF m
    <2>4. Ready(context')
      BY <1>0, <2>1, <2>2, <2>3, ContinuationReady
    <2> QED BY <2>3, <2>4 DEF Conversing
  <1>2. ASSUME NEW b \in Batch, ToolUseToHarness(b) \/ ToolUseToExecutor(b)
        PROVE  Conversing'
    <2> DEFINE m == Response("tool_use", b)
    <2>1. b \in Seq(Tool)
      BY BatchCalls
    <2>2. m \in Message
      BY <1>0, <2>1, ResponseIsMessage
    <2>3. m.role = "assistant" /\ m.stop = "tool_use"
      BY DEF Response
    <2>4. /\ pc = "llm" /\ pc' \in {"tools", "harness"} /\ Ready(context)
          /\ context' = (context \o <<m>>) \o <<>>
      BY <1>2 DEF ToolUseToHarness, ToolUseToExecutor, Iterates, Conversing
    <2> HIDE DEF m
    <2>5. context' = context \o <<m>>
      BY <1>0, <2>2, <2>4
    <2>6. Open(context')
      BY <1>0, <2>2, <2>3, <2>4, <2>5, ResponseOpens
    <2> QED BY <2>4, <2>6 DEF Conversing
  <1>3. ASSUME \/ \E b \in Batches(MaxIgnored) :
                      EndTurn(b) \/ MaxTokensFails(b) \/ StopSequence(b)
               \/ IterationsExhausted
        PROVE  Conversing'
    BY <1>3 DEF EndTurn, MaxTokensFails, StopSequence, IterationsExhausted, Conversing
  <1>4. ASSUME NEW error \in LlmError, LlmFails(error) PROVE Conversing'
    BY <1>4 DEF LlmFails, LlmError, Conversing
  <1> QED BY <1>1, <1>2, <1>3, <1>4 DEF LoopStep

(* Both ways to answer the calls of the last response.                     *)
LEMMA AnswersMakeReady ==
    ASSUME IInv, Conversing, pc \in {"tools", "harness"},
           NEW order \in [1..Len(Calls) -> Position],
           {order[i] : i \in Position} = Position
    PROVE  Ready(Append(context, ToolResults(IdsOf(order))))
  <1>1. /\ context \in Seq(Message) /\ context # <<>> /\ Open(context)
        /\ LastOf(context) \in Message /\ LastOf(context).role = "assistant"
    BY DEF IInv, TypeOK, HandlesResponse, Conversing
  <1> DEFINE n == Len(Calls)
             ids == IdsOf(order)
  <1>2. n \in Nat /\ Position = 1..n /\ n = Len(LastOf(context).calls)
    BY <1>1, CallIds DEF Calls, Position
  <1>3. Len(order) = n
    BY <1>2
  <1>4. ids \in Seq(CallId)
    <2>1. order \in [1..n -> Nat]
      BY <1>2
    <2> QED BY <1>1, <1>2, <2>1, IdsOfPositions
  <1>5. Len(ids) = n /\ \A i \in 1..n : ids[i] = <<LastOf(context).number, order[i]>>
    <2> DEFINE P(i) == <<LastOf(context).number, order[i]>>
    <2>1. ids = [i \in 1..n |-> P(i)]
      BY <1>3 DEF IdsOf, IdOf
    <2> HIDE DEF ids, n, P
    <2>2. Len(ids) = n /\ \A i \in 1..n : ids[i] = P(i)
      BY <1>2, <2>1
    <2> QED BY <2>2 DEF P
  <1>6. {ids[i] : i \in 1..n} = {<<LastOf(context).number, i>> : i \in 1..n}
    <2>1. \A i \in 1..n : order[i] \in 1..n
      BY <1>2
    <2>2. \A j \in 1..n : \E i \in 1..n : order[i] = j
      BY <1>2
    <2>3. ASSUME NEW x \in {ids[i] : i \in 1..n}
          PROVE  x \in {<<LastOf(context).number, i>> : i \in 1..n}
      BY <1>5, <2>1
    <2>4. ASSUME NEW j \in 1..n
          PROVE  <<LastOf(context).number, j>> \in {ids[i] : i \in 1..n}
      <3>1. PICK i \in 1..n : order[i] = j
        BY <2>2
      <3>2. ids[i] = <<LastOf(context).number, j>>
        BY <1>5, <3>1
      <3> QED BY <3>2
    <2> HIDE DEF ids, n
    <2> QED BY <2>3, <2>4
  <1> HIDE DEF ids
  <1>7. Ready(Append(context, ToolResults(ids)))
    BY <1>1, <1>2, <1>4, <1>5, <1>6, ResultsMakeReady
  <1> QED BY <1>7 DEF ids

LEMMA ConversingNext == IInv /\ Conversing /\ [Next]_vars => Conversing'
  <1> SUFFICES ASSUME IInv, Conversing, [Next]_vars PROVE Conversing'
    OBVIOUS
  <1>0. pc \in {"tools", "harness"} => Len(Calls) \in Nat /\ Position = 1..Len(Calls)
    BY CallIds DEF IInv, HandlesResponse, Calls, Position
  <1>1. CASE Run
    <2>1. pc' = "llm" /\ context' = <<UserText>>
      BY <1>1 DEF Run
    <2>2. Ready(<<UserText>>)
      <3>1. Len(<<UserText>>) = 1 /\ <<UserText>>[1] = UserText
        OBVIOUS
      <3>2. UserText.role = "user" /\ 1 % 2 = 1 /\ 1..1 = {1}
        BY DEF UserText
      <3> QED BY <3>1, <3>2 DEF Ready, Alternates, ResultsFollow
    <2> QED BY <2>1, <2>2 DEF Conversing
  <1>2. CASE ToolStep
    <2>1. ASSUME NEW k \in 1..MaxCalls, StartsCall(k) \/ FinishesCall(k)
          PROVE  Conversing'
      BY <2>1 DEF StartsCall, FinishesCall, Conversing
    <2>2. CASE PushesResults
      <3>1. PICK order \in [1..Cardinality(finished) -> finished] :
                /\ InResultOrder(order)
                /\ context' = Append(context, ToolResults(IdsOf(order)))
        BY <2>2 DEF PushesResults
      <3>2. pc = "tools" /\ pc' = "llm" /\ finished = 1..Len(Calls)
        BY <1>0, <2>2 DEF PushesResults, AllCallsDone
      <3>3. order \in [1..Len(Calls) -> Position] /\ {order[i] : i \in Position} = Position
        BY <1>0, <3>1, <3>2, OrderIsComplete
      <3>4. Ready(context')
        BY <3>1, <3>2, <3>3, AnswersMakeReady
      <3> QED BY <3>2, <3>4 DEF Conversing
    <2> QED BY <1>2, <2>1, <2>2 DEF ToolStep
  <1>3. CASE HarnessFinishes
    BY <1>3 DEF HarnessFinishes, Conversing
  <1>4. CASE HarnessResumes
    <2> DEFINE order == [k \in Position |-> k]
    <2>1. /\ pc = "harness" /\ pc' = "llm" /\ record = context
          /\ context' = Append(context, ToolResults(IdsOf(order)))
      BY <1>4 DEF HarnessResumes, ContextFromRecord, IInv, HandedOver
    <2>2. order \in [1..Len(Calls) -> Position] /\ {order[i] : i \in Position} = Position
      BY <1>0, <2>1
    <2> HIDE DEF order
    <2>3. Ready(context')
      BY <2>1, <2>2, AnswersMakeReady
    <2> QED BY <2>1, <2>3 DEF Conversing
  <1>5. CASE UNCHANGED vars
    BY <1>5 DEF vars, Conversing
  <1> QED BY <1>1, <1>2, <1>3, <1>4, <1>5, ConversingLoop DEF Next, HarnessStep

(* Whenever the model is asked, roles alternate, the user speaks first and *)
(* last, and a response is followed by one message with one result for     *)
(* each of its calls, in whatever order they finished, unless it was cut   *)
(* off in a call or stopped for tools without naming one: then, and only   *)
(* then, it is not, and the API refuses the request.                       *)
THEOREM WellFormed == Spec => []RequestsWellFormed
  <1>1. Init => Conversing
    BY DEF Init, Conversing
  <1>2. Conversing => RequestsWellFormed
    BY DEF Conversing, Ready, Alternates, ResultsFollow, RequestsWellFormed,
           CallsAnswered, RolesAlternate
  <1> QED BY <1>1, <1>2, ConversingNext, Invariant, PTL DEF Spec
-----------------------------------------------------------------------------
(* What is left of one pass of the loop: a response's calls, each of which *)
(* has yet to be started and to be finished.                               *)
PassWork ==
    CASE pc = "llm"   -> 1
      [] pc = "tools" -> 2 + 2 * Len(Calls) - Cardinality(running)
                             - 2 * Cardinality(finished)
      [] OTHER        -> 0

WorkIsNat == PassWork \in Nat

(* Inside agent_loop every step finishes a pass, of which there are at     *)
(* most max_iterations, or leaves less of it.                              *)
StepsOn ==
    pc \in {"llm", "tools"} =>
        iterations < iterations' \/ (iterations' = iterations /\ PassWork' < PassWork)

(* No call of agent_loop steps for ever.                                   *)
LoopRunsDown == [][StepsOn]_vars

LEMMA CallsInHand ==
    ASSUME IInv, pc = "tools"
    PROVE  /\ Len(Calls) \in Nat
           /\ IsFiniteSet(Position) /\ Cardinality(Position) = Len(Calls)
           /\ IsFiniteSet(running) /\ IsFiniteSet(finished)
           /\ Cardinality(running) \in Nat /\ Cardinality(finished) \in Nat
           /\ Cardinality(running) + Cardinality(finished) <= Len(Calls)
  <1>1. Len(Calls) \in Nat
    <2>1. LastOf(context) \in Message /\ LastOf(context).role = "assistant"
      BY DEF IInv, HandlesResponse
    <2> QED BY <2>1, CallIds DEF Calls
  <1>2. IsFiniteSet(Position) /\ Cardinality(Position) = Len(Calls)
    BY SMTT(30), <1>1, FS_Interval DEF Position
  <1>3. running \cup finished \subseteq Position /\ running \cap finished = {}
    BY DEF IInv, SerialOrder
  <1>4. /\ IsFiniteSet(running \cup finished)
        /\ Cardinality(running \cup finished) <= Len(Calls)
    BY <1>2, <1>3, FS_Subset
  <1>5. IsFiniteSet(running) /\ IsFiniteSet(finished)
    BY <1>2, <1>3, FS_Subset
  <1>6. Cardinality(running) \in Nat /\ Cardinality(finished) \in Nat
    BY <1>5, FS_CardinalityType
  <1>7. Cardinality(running \cup finished) =
            Cardinality(running) + Cardinality(finished) - Cardinality({})
    BY <1>3, <1>5, FS_Union
  <1>8. Cardinality({}) = 0
    BY FS_EmptySet
  <1> QED BY <1>1, <1>2, <1>4, <1>5, <1>6, <1>7, <1>8

LEMMA WorkLeft == IInv => WorkIsNat
  <1>1. ASSUME IInv, pc = "tools" PROVE WorkIsNat
    BY <1>1, CallsInHand DEF PassWork, WorkIsNat
  <1>2. ASSUME pc # "tools" PROVE WorkIsNat
    BY <1>2 DEF PassWork, WorkIsNat
  <1> QED BY <1>1, <1>2

LEMMA ToolStepsOn == ASSUME IInv, ToolStep PROVE StepsOn
  <1>1. pc = "tools" /\ iterations' = iterations
    BY DEF ToolStep, StartsCall, FinishesCall, PushesResults
  <1>2. /\ Len(Calls) \in Nat
        /\ IsFiniteSet(running) /\ IsFiniteSet(finished)
        /\ Cardinality(running) \in Nat /\ Cardinality(finished) \in Nat
        /\ Cardinality(Position) = Len(Calls)
    BY <1>1, CallsInHand
  <1>3. ASSUME NEW k \in 1..MaxCalls, StartsCall(k) PROVE PassWork' < PassWork
    <2>1. /\ pc' = "tools" /\ Calls' = Calls /\ finished' = finished
          /\ k \notin running /\ running' = running \cup {k}
      BY <1>1, <1>3 DEF StartsCall, Calls, LastOf
    <2>2. Cardinality(running') = Cardinality(running) + 1
      BY <1>2, <2>1, FS_AddElement
    <2> QED BY <1>1, <1>2, <2>1, <2>2 DEF PassWork
  <1>4. ASSUME NEW k \in 1..MaxCalls, FinishesCall(k) PROVE PassWork' < PassWork
    <2>1. /\ pc' = "tools" /\ Calls' = Calls /\ k \in running /\ k \notin finished
          /\ running' = running \ {k} /\ finished' = finished \cup {k}
      BY <1>1, <1>4 DEF FinishesCall, Calls, LastOf, IInv, SerialOrder
    <2>2. /\ Cardinality(running') = Cardinality(running) - 1
          /\ Cardinality(finished') = Cardinality(finished) + 1
      BY <1>2, <2>1, FS_AddElement, FS_RemoveElement
    <2> QED BY <1>1, <1>2, <2>1, <2>2 DEF PassWork
  <1>5. CASE PushesResults
    <2>1. pc' = "llm" /\ finished = Position
      BY <1>5 DEF PushesResults, AllCallsDone
    <2>2. running = {}
      BY <1>1, <2>1 DEF IInv, SerialOrder
    <2>3. PassWork = 2 /\ PassWork' = 1
      BY <1>1, <1>2, <2>1, <2>2, FS_EmptySet DEF PassWork
    <2> QED BY <1>1, <2>3 DEF StepsOn
  <1> QED BY <1>1, <1>3, <1>4, <1>5 DEF ToolStep, StepsOn

LEMMA LoopStepsOn == ASSUME IInv, LoopStep PROVE StepsOn
  <1>1. iterations \in Nat
    BY LimitAssumption DEF IInv, TypeOK
  <1>2. ASSUME NEW error \in LlmError, LlmFails(error) PROVE StepsOn
    BY <1>1, <1>2 DEF LlmFails, LlmError, StepsOn, PassWork
  <1>3. CASE IterationsExhausted
    BY <1>1, <1>3 DEF IterationsExhausted, StepsOn, PassWork
  <1>4. ASSUME iterations' = iterations + 1 PROVE StepsOn
    BY <1>1, <1>4 DEF StepsOn
  <1> QED BY <1>2, <1>3, <1>4
          DEF LoopStep, EndTurn, MaxTokensContinues, MaxTokensFails, StopSequence,
              ToolUseToHarness, ToolUseToExecutor, Iterates

(* agent_loop and execute_tools come to an end: each of their steps uses   *)
(* up one of max_iterations passes, or leaves less to do in this one, so   *)
(* they run for ever under no choice of responses and of the order in      *)
(* which the tools finish.  It is what LoopReturns needs besides fairness. *)
THEOREM LoopsRunDown == Spec => []WorkIsNat /\ LoopRunsDown
  <1>1. ASSUME IInv, [Next]_vars PROVE [StepsOn]_vars
    <2>1. CASE Run \/ HarnessStep
      BY <2>1 DEF Run, HarnessStep, HarnessFinishes, HarnessResumes, StepsOn
    <2> QED BY <1>1, <2>1, ToolStepsOn, LoopStepsOn DEF Next
  <1> QED BY <1>1, WorkLeft, Invariant, PTL DEF Spec, LoopRunsDown
-----------------------------------------------------------------------------
(* In the composition each loop behaves as it does alone, so what is       *)
(* proved of AgentLoop and of Scheduler holds of it (startup.rs starts the *)
(* scheduler beside the turns; no state of these modules is shared).       *)
THEOREM LoopsBehave == LoopsSpec => Spec /\ Sched!Spec
  <1>1. LoopsInit => Init /\ Sched!Init
    BY DEF LoopsInit
  <1>2. [LoopsNext]_loopsVars => [Next]_vars /\ [Sched!Next]_schedVars
    BY DEF LoopsNext, loopsVars, AgentTakes, SchedulerTakes
  <1>3. [LoopsNext]_loopsVars => [Next]_vars /\ [Sched!Next]_(Sched!vars)
    BY <1>2 DEF schedVars, Sched!vars
  <1> QED
    BY <1>1, <1>3, PTL DEF LoopsSpec, Spec, Sched!Spec

(* In the composition too the context is what will be persisted, requests  *)
(* are well formed unless a response is spoiled, and tools that are not    *)
(* safe together run alone.                                                *)
THEOREM LoopsWellFormed ==
    LoopsSpec => [](TypeOK /\ ContextIsRecord /\ RequestsWellFormed /\ UnsafeRunsAlone)
  <1> QED
    BY LoopsBehave, TypeCorrect, ContextRecorded, WellFormed, UnsafeAlone, PTL
=============================================================================
