------------------------------ MODULE AgentLoop -----------------------------
(***************************************************************************)
(* The ReAct loop of agent-core and the harness that drives it.            *)
(*                                                                         *)
(*   agent-core/agent.rs       Agent::run, Agent::resume, agent_loop and   *)
(*                             execute_tools.                              *)
(*   edgeclaw-server/agent.rs  run_agent_turn, seen from the model's side: *)
(*                             it answers every tool call it was handed    *)
(*                             and resumes (WsSession models how).         *)
(*                                                                         *)
(* One turn.  Without an executor agent_loop hands its tool calls to the   *)
(* harness, which is how the server uses it; with one it executes them.    *)
(* Only the shape of a message matters here: who says it, the tool calls   *)
(* in it, and the calls whose results it carries.                          *)
(***************************************************************************)
EXTENDS Integers, Sequences, FiniteSets

CONSTANTS
    Tool,              \* tools the model may call
    ConcurrentSafe,    \* those with is_concurrent_safe
    MaxIterations,     \* Agent::max_iterations (10 in the code)
    MaxContinuations,  \* Agent::max_continuations (3 in the code)
    MaxCalls,          \* bound: tool calls in one response
    MaxIgnored,        \* bound: those of a response that does not stop for them
    MaxResumes         \* bound: times the harness resumes one turn

ASSUME ToolAssumption == ConcurrentSafe \subseteq Tool

ASSUME LimitAssumption ==
    /\ MaxIterations \in Nat /\ MaxContinuations \in Nat
    /\ MaxCalls \in Nat /\ MaxIgnored \in Nat /\ MaxResumes \in Nat

VARIABLES
    executor,       \* is Agent::tool_executor set?
    pc,             \* where the turn stands
    iterations,     \* passes of agent_loop's for loop, in this call of it
    continuations,  \* continuations_used, in this call of agent_loop
    context,        \* ctx.messages, without the history loaded before
    record,         \* result.new_messages of the harness
    fresh,          \* new_messages of agent_loop
    running,        \* positions of the tool calls being executed
    finished,       \* positions of those that have a result
    prompt,         \* parts of the system prompt in ctx.system_prompt
    responses,      \* observation: responses of the model in this turn
    resumes         \* observation: calls of Agent::resume in this turn

vars == <<executor, pc, iterations, continuations, context, record, fresh,
          running, finished, prompt, responses, resumes>>

StopReason == {"end_turn", "max_tokens", "tool_use", "stop_sequence"}

(* The n-th response's k-th tool call.                                     *)
CallId == Nat \X Nat

Message ==
    [role : {"user"}, text : BOOLEAN, results : Seq(CallId)] \cup
    [role : {"assistant"}, stop : StopReason, number : Nat, calls : Seq(Tool)]

UserText == [role |-> "user", text |-> TRUE, results |-> <<>>]
ToolResults(ids) == [role |-> "user", text |-> FALSE, results |-> ids]

Failure == {"prompt_too_long", "llm_failed", "max_continuations",
            "max_iterations", "stop_sequence"}

PromptPart == {"soul", "hint", "skills"}

TypeOK ==
    /\ executor \in BOOLEAN
    /\ pc \in {"idle", "llm", "tools", "harness", "done"} \cup Failure
    /\ iterations \in 0..MaxIterations
    /\ continuations \in 0..MaxContinuations
    /\ context \in Seq(Message)
    /\ record \in Seq(Message)
    /\ fresh \in Seq(Message)
    /\ running \subseteq 1..MaxCalls
    /\ finished \subseteq 1..MaxCalls
    /\ prompt \subseteq PromptPart
    /\ responses \in Nat
    /\ resumes \in 0..MaxResumes

Init ==
    /\ executor \in BOOLEAN
    /\ pc = "idle"
    /\ iterations = 0 /\ continuations = 0
    /\ context = <<>> /\ record = <<>> /\ fresh = <<>>
    /\ running = {} /\ finished = {}
    /\ prompt = {}
    /\ responses = 0 /\ resumes = 0

-----------------------------------------------------------------------------
LastOf(s) == s[Len(s)]

(* The tool calls of the response that is being handled.                   *)
Calls == LastOf(context).calls
Position == 1..Len(Calls)
IdOf(k) == <<LastOf(context).number, k>>
Concurrent(k) == Calls[k] \in ConcurrentSafe

(* Agent::run on a fresh context.                                          *)
Run ==
    /\ pc = "idle"
    /\ pc' = "llm"
    /\ context' = <<UserText>> /\ fresh' = <<UserText>>
    /\ prompt' = PromptPart
    /\ UNCHANGED <<executor, iterations, continuations, record, running,
                   finished, responses, resumes>>

(* The content is kept whatever the response stops for, and may hold tool  *)
(* calls whatever it stops for: one that runs out of tokens is cut off in  *)
(* one.  Only those of a response that stops for tools are acted on.       *)
Response(stop, b) ==
    [role |-> "assistant", stop |-> stop, number |-> responses + 1, calls |-> b]

(* One pass of the for loop: the response joins the context and, with what *)
(* the loop adds to it, the new messages.                                  *)
Iterates(stop, b, added) ==
    /\ pc = "llm" /\ iterations < MaxIterations
    /\ iterations' = iterations + 1
    /\ responses' = responses + 1
    /\ context' = context \o <<Response(stop, b)>> \o added
    /\ UNCHANGED <<executor, running, finished, prompt, resumes>>

(* The loop goes on, or returns its new messages to the harness, which     *)
(* adds them to its own.                                                   *)
Continues(stop, b, added) ==
    fresh' = fresh \o <<Response(stop, b)>> \o added /\ UNCHANGED record

Returns(stop, b) ==
    record' = record \o fresh \o <<Response(stop, b)>> /\ fresh' = <<>>

EndTurn(b) ==
    /\ Iterates("end_turn", b, <<>>) /\ Returns("end_turn", b)
    /\ pc' = "done"
    /\ UNCHANGED continuations

OneContinuationMore == continuations <= MaxContinuations   \* slip: off by one
ContinuationsLeft == continuations < MaxContinuations

NoPrompting == <<>>           \* slip: the loop just asks again
ContinuePrompt == <<UserText>>

MaxTokensContinues(b) ==
    /\ ContinuationsLeft
    /\ Iterates("max_tokens", b, ContinuePrompt)
    /\ Continues("max_tokens", b, ContinuePrompt)
    /\ continuations' = continuations + 1
    /\ UNCHANGED pc

MaxTokensFails(b) ==
    /\ ~ContinuationsLeft
    /\ Iterates("max_tokens", b, <<>>) /\ Continues("max_tokens", b, <<>>)
    /\ pc' = "max_continuations"
    /\ UNCHANGED continuations

StopSequence(b) ==
    /\ Iterates("stop_sequence", b, <<>>) /\ Continues("stop_sequence", b, <<>>)
    /\ pc' = "stop_sequence"
    /\ UNCHANGED continuations

ToolUseToHarness(b) ==
    /\ ~executor
    /\ Iterates("tool_use", b, <<>>) /\ Returns("tool_use", b)
    /\ pc' = "harness"
    /\ UNCHANGED continuations

ToolUseToExecutor(b) ==
    /\ executor
    /\ Iterates("tool_use", b, <<>>) /\ Continues("tool_use", b, <<>>)
    /\ pc' = "tools"
    /\ UNCHANGED continuations

(* What send_message may fail with; only the first is told apart.          *)
LlmError == {"prompt_too_long", "llm_failed"}

LlmFails(error) ==
    /\ pc = "llm" /\ iterations < MaxIterations
    /\ pc' = error
    /\ UNCHANGED <<executor, iterations, continuations, context, record, fresh,
                   running, finished, prompt, responses, resumes>>

IterationsExhausted ==
    /\ pc = "llm" /\ iterations = MaxIterations
    /\ pc' = "max_iterations"
    /\ UNCHANGED <<executor, iterations, continuations, context, record, fresh,
                   running, finished, prompt, responses, resumes>>

-----------------------------------------------------------------------------
(* execute_tools: the calls safe to run together, all at once under        *)
(* join_all, then the others one by one.  Results come in that order, not  *)
(* in the order of completion; an executor error is a result too.          *)

AllDone == Position \subseteq finished     \* slip: waits for the serial ones too
SafeDone == {k \in Position : Concurrent(k)} \subseteq finished

MayStartAnytime(k) == TRUE                 \* slip: every call joined
MayStartSerial(k) ==
    SafeDone /\ \A j \in 1..(k - 1) : ~Concurrent(j) => j \in finished

StartsCall(k) ==
    /\ pc = "tools" /\ k \in Position \ (running \cup finished)
    /\ Concurrent(k) \/ MayStartSerial(k)
    /\ running' = running \cup {k}
    /\ UNCHANGED <<executor, pc, iterations, continuations, context, record,
                   fresh, finished, prompt, responses, resumes>>

FinishesCall(k) ==
    /\ pc = "tools" /\ k \in running
    /\ running' = running \ {k}
    /\ finished' = finished \cup {k}
    /\ UNCHANGED <<executor, pc, iterations, continuations, context, record,
                   fresh, prompt, responses, resumes>>

ResultBefore(j, k) ==
    \/ Concurrent(j) /\ ~Concurrent(k)
    \/ (Concurrent(j) <=> Concurrent(k)) /\ j < k

InResultOrder(s) == \A i, j \in DOMAIN s : i < j => ResultBefore(s[i], s[j])

IdsOf(positions) == [i \in 1..Len(positions) |-> IdOf(positions[i])]

AllCallsDone == finished = Position

PushesResults ==
    /\ pc = "tools" /\ AllCallsDone
    /\ \E order \in [1..Cardinality(finished) -> finished] :
           /\ InResultOrder(order)
           /\ context' = Append(context, ToolResults(IdsOf(order)))
           /\ fresh' = Append(fresh, ToolResults(IdsOf(order)))
    /\ finished' = {}
    /\ pc' = "llm"
    /\ UNCHANGED <<executor, iterations, continuations, record, running, prompt,
                   responses, resumes>>

-----------------------------------------------------------------------------
(* run_agent_turn: without tool calls the turn is over; otherwise each of  *)
(* them gets a result, in order, and the model is resumed with the history *)
(* and the turn's messages, under a system prompt that is composed anew.   *)

HarnessFinishes ==
    /\ pc = "harness" /\ Calls = <<>>
    /\ pc' = "done"
    /\ UNCHANGED <<executor, iterations, continuations, context, record, fresh,
                   running, finished, prompt, responses, resumes>>

ContextFromFresh == fresh          \* slip: result.new_messages left out
ContextFromRecord == record

ResumedPrompt == {"soul", "hint"}

HarnessResumes ==
    /\ pc = "harness" /\ Calls # <<>> /\ resumes < MaxResumes
    /\ LET results == ToolResults(IdsOf([k \in Position |-> k])) IN
       /\ context' = Append(ContextFromRecord, results)
       /\ fresh' = <<results>>
    /\ prompt' = ResumedPrompt
    /\ iterations' = 0 /\ continuations' = 0
    /\ resumes' = resumes + 1
    /\ pc' = "llm"
    /\ UNCHANGED <<executor, record, running, finished, responses>>

-----------------------------------------------------------------------------
Batches(limit) == UNION {[1..n -> Tool] : n \in 0..limit}
Batch == Batches(MaxCalls)

LoopStep ==
    \/ \E b \in Batches(MaxIgnored) :
           EndTurn(b) \/ MaxTokensContinues(b) \/ MaxTokensFails(b) \/ StopSequence(b)
    \/ \E b \in Batch : ToolUseToHarness(b) \/ ToolUseToExecutor(b)
    \/ \E error \in LlmError : LlmFails(error)
    \/ IterationsExhausted

ToolStep ==
    \/ \E k \in 1..MaxCalls : StartsCall(k) \/ FinishesCall(k)
    \/ PushesResults

HarnessStep == HarnessFinishes \/ HarnessResumes

Next == Run \/ LoopStep \/ ToolStep \/ HarnessStep

Spec == Init /\ [][Next]_vars

(* The task is scheduled, the model's HTTP call returns and every tool     *)
(* ends (a shell command has a timeout).                                   *)
Fairness == WF_vars(LoopStep) /\ WF_vars(ToolStep)

FairSpec == Spec /\ Fairness

-----------------------------------------------------------------------------
(* What the model is shown is what will be persisted: at every request the *)
(* context is the turn's messages so far, none missing, none twice, across *)
(* continuations, tool rounds and resumes.                                 *)
ContextIsRecord ==
    pc \in {"llm", "tools"} => context = record \o fresh

(* Message n gives message m what the Messages API wants after it: some    *)
(* content, and one result for each of its tool calls and no other.        *)
Answers(n, m) ==
    /\ n.text \/ n.results # <<>>
    /\ Len(n.results) = Len(m.calls)
    /\ {n.results[i] : i \in 1..Len(m.calls)} =
           {<<m.number, i>> : i \in 1..Len(m.calls)}

(* Cut off in a call, or stopped for tools without naming one: the loop    *)
(* asks the first to go on and hands the second an empty list of results.  *)
Spoiled(m) ==
    \/ m.stop = "max_tokens" /\ m.calls # <<>>
    \/ m.stop = "tool_use" /\ m.calls = <<>>

(* When the model is asked again, the calls of every response are answered *)
(* unless the response is spoiled, and only then are they not.             *)
CallsAnswered ==
    pc = "llm" => \A k \in 1..Len(context) :
        context[k].role = "assistant" =>
            k < Len(context) /\ (Answers(context[k + 1], context[k]) <=> ~Spoiled(context[k]))

(* The Messages API wants roles to alternate, the user first, with a text, *)
(* and last.                                                               *)
RolesAlternate ==
    pc = "llm" =>
        /\ Len(context) % 2 = 1 /\ context[1] = UserText
        /\ \A k \in 1..Len(context) : context[k].role = "user" <=> k % 2 = 1

(* What the model is asked with is a request the API accepts until one of  *)
(* its responses is spoiled, and from then on the API refuses the turn's   *)
(* requests (agent.rs:94-135 has no case for either).                      *)
RequestsWellFormed == CallsAnswered /\ RolesAlternate

(* A tool that is not safe to run concurrently runs alone.                 *)
UnsafeRunsAlone ==
    pc = "tools" => \A k \in running : Concurrent(k) \/ running = {k}

(* Every call of agent_loop comes back, with calls, an answer or an error. *)
LoopReturns == pc = "llm" ~> pc \in {"harness", "done"} \cup Failure

(* At most max_iterations responses make up a turn (ARCHITECTURE.md: "Max  *)
(* 10 ReAct iterations per turn").                                         *)
IterationsPerTurn == responses <= MaxIterations

(* The model works under one system prompt during a turn (run_agent_turn:  *)
(* "this keeps the prompt consistent with what was sent initially").       *)
PromptKept == [][prompt # {} => prompt' = prompt]_vars
=============================================================================
