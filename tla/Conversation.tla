---------------------------- MODULE Conversation ----------------------------
(***************************************************************************)
(* One user's conversation as it is stored.                                *)
(*                                                                         *)
(*   agent.rs     what run_agent_turn loads from and adds to the messages  *)
(*                table: load_messages before every request to the model,  *)
(*                persist_messages once, at the end.                       *)
(*   handlers.rs  clear_history_handler.                                   *)
(*                                                                         *)
(* Turns of one user come from HTTP requests, WebSocket sessions and the   *)
(* scheduler; nothing keeps them apart, so they interleave at every        *)
(* statement.  Every statement names the user, so one user is enough.      *)
(* Consent is WsSession's business and the loop's limits are AgentLoop's.  *)
(***************************************************************************)
EXTENDS Integers, Sequences, FiniteSets

CONSTANTS
    Turn,         \* agent turns of this user
    Window,       \* messages that load_messages takes (50 in the code)
    MaxRounds,    \* bound: tool rounds and continuations in one turn
    MaxActive,    \* bound: turns in progress at the same time
    MaxClears,    \* bound: times the history is cleared
    MaxFaults,    \* bound: failed INSERTs and crashes
    MaxMishaps    \* bound: both together, and twice the unmet turns, see Unmet

ASSUME WindowAssumption == Window \in Nat \ {0} /\ Window % 2 = 0

ASSUME BoundAssumption ==
    /\ MaxRounds \in Nat /\ MaxActive \in Nat
    /\ MaxClears \in Nat /\ MaxFaults \in Nat /\ MaxMishaps \in Nat

VARIABLES
    messages,     \* the rows of the messages table, by id
    turn,         \* turn[t]: local state of run_agent_turn, see LocalState
    faults,       \* failed INSERTs and crashes so far
    (* Observations that no step of the server reads.                      *)
    clears,       \* times the history was cleared
    cleared,      \* turns that had ended when the history was cleared
    calm          \* turns and clears have so far come one after the other

vars == <<messages, turn, faults, clears, cleared, calm>>

(* What a user says, calls and their results, and what the model says: an  *)
(* answer, or a response with calls that nobody meets with results, since  *)
(* it did not stop for tools.  It is kept like any other.                  *)
Kind == {"text", "tool_use", "results", "answer", "unmet"}
Message == [turn : Turn, position : Nat \ {0}, kind : Kind]
FromUser(m) == m.kind \in {"text", "results"}

LocalState ==
    [pc : {"idle", "llm", "tools", "persist", "done", "failed"},
     loaded : Seq(Message),          \* the history in ctx.messages
     new : Seq(Kind),                \* result.new_messages
     saved : Nat,                    \* position of persist_messages' loop
     clears : 0..MaxClears]          \* observation: clears before the turn

TypeOK ==
    /\ messages \in Seq(Message)
    /\ turn \in [Turn -> LocalState]
    /\ \A t \in Turn : Len(turn[t].loaded) <= Window
    /\ faults \in 0..MaxFaults
    /\ clears \in 0..MaxClears
    /\ cleared \subseteq Turn
    /\ calm \in BOOLEAN

Idle == [pc |-> "idle", loaded |-> <<>>, new |-> <<>>, saved |-> 0, clears |-> 0]

Init ==
    /\ messages = <<>>
    /\ turn = [t \in Turn |-> Idle]
    /\ faults = 0 /\ clears = 0 /\ cleared = {} /\ calm = TRUE

-----------------------------------------------------------------------------
Ended(t, how) == [turn[t] EXCEPT !.pc = how, !.loaded = <<>>, !.saved = 0]

(* Turns with a response whose calls nobody met; the bound on all mishaps. *)
Unmet == {t \in Turn : \E k \in 1..Len(turn[t].new) : turn[t].new[k] = "unmet"}
MishapsLeft(n) == clears + faults + 2 * Cardinality(Unmet) + n <= MaxMishaps

Active == {t \in Turn : turn[t].pc \in {"llm", "tools", "persist"}}

(* The messages of turn t as rows of the table.                            *)
Rows(t, from, to) ==
    [k \in 1..(to - from + 1) |->
        [turn |-> t, position |-> from + k - 1, kind |-> turn[t].new[from + k - 1]]]
New(t) == Rows(t, 1, Len(turn[t].new))

(* ORDER BY id DESC LIMIT ?, then reversed.                                *)
AllMessages == messages  \* slip: no LIMIT
OldestMessages ==        \* slip: ORDER BY id ASC, as the history handler has it
    SubSeq(messages, 1, IF Len(messages) < Window THEN Len(messages) ELSE Window)
LoadedMessages ==
    SubSeq(messages,
           IF Len(messages) > Window THEN Len(messages) - Window + 1 ELSE 1,
           Len(messages))

Starts(t) ==
    /\ turn[t].pc = "idle" /\ Cardinality(Active) < MaxActive
    /\ turn' = [turn EXCEPT ![t] = [pc |-> "llm", loaded |-> LoadedMessages,
                                    new |-> <<"text">>, saved |-> 0,
                                    clears |-> clears]]
    /\ calm' = (calm /\ Active = {})
    /\ UNCHANGED <<messages, faults, clears, cleared>>

LlmReturns(t, l, kinds) ==
    /\ turn[t].pc = "llm"
    /\ turn' = [turn EXCEPT ![t].pc = l, ![t].new = @ \o kinds]
    /\ UNCHANGED <<messages, faults, clears, cleared, calm>>

RoundsLeft(t) == Len(turn[t].new) < 2 * MaxRounds
Answer == IF MishapsLeft(2) THEN {"answer", "unmet"} ELSE {"answer"}

LlmAnswers(t) == \E said \in Answer : LlmReturns(t, "persist", <<said>>)
LlmIsContinued(t) ==
    RoundsLeft(t) /\ \E said \in Answer : LlmReturns(t, "llm", <<said, "text">>)
LlmCallsTools(t) == RoundsLeft(t) /\ LlmReturns(t, "tools", <<"tool_use">>)

(* The tools have run; the history is loaded again and the model resumed.  *)
ToolsReturn(t) ==
    /\ turn[t].pc = "tools"
    /\ turn' = [turn EXCEPT ![t].pc = "llm", ![t].new = Append(@, "results"),
                            ![t].loaded = LoadedMessages]
    /\ UNCHANGED <<messages, faults, clears, cleared, calm>>

(* `?` leaves run_agent_turn before anything is persisted.                 *)
LlmFails(t) ==
    /\ turn[t].pc = "llm"
    /\ turn' = [turn EXCEPT ![t] = Ended(t, "failed")]
    /\ UNCHANGED <<messages, faults, clears, cleared, calm>>

PersistAll(t) ==         \* slip: ctx.messages are persisted, not new_messages
    turn[t].loaded \o New(t)
PersistUnasked(t) ==     \* slip: the user's message is left out
    Tail(New(t))
Persisted(t) == New(t)

(* One INSERT; its error is ignored and the loop goes on.                  *)
AfterInsert(t) ==
    turn' = IF turn[t].saved + 1 < Len(Persisted(t))
            THEN [turn EXCEPT ![t].saved = @ + 1]
            ELSE [turn EXCEPT ![t] = Ended(t, "done")]

Inserts(t) ==
    /\ turn[t].pc = "persist"
    /\ messages' = Append(messages, Persisted(t)[turn[t].saved + 1])
    /\ AfterInsert(t)
    /\ UNCHANGED <<faults, clears, cleared, calm>>

InsertFails(t) ==
    /\ turn[t].pc = "persist" /\ faults < MaxFaults /\ MishapsLeft(1)
    /\ faults' = faults + 1
    /\ AfterInsert(t)
    /\ UNCHANGED <<messages, clears, cleared, calm>>

(* The second DELETE is for pending_approvals, which a turn never fills.   *)
Clear ==
    /\ clears < MaxClears /\ MishapsLeft(1)
    /\ messages' = <<>>
    /\ clears' = clears + 1
    /\ cleared' = {t \in Turn : turn[t].pc \in {"done", "failed"}}
    /\ calm' = (calm /\ Active = {})
    /\ UNCHANGED <<turn, faults>>

(* The server dies and is started again: turns in progress are gone.       *)
Crash ==
    /\ faults < MaxFaults /\ MishapsLeft(1) /\ Active # {}
    /\ turn' = [t \in Turn |-> IF t \in Active
                               THEN Ended(t, "failed") ELSE turn[t]]
    /\ faults' = faults + 1
    /\ UNCHANGED <<messages, clears, cleared, calm>>

-----------------------------------------------------------------------------
TurnStep(t) ==
    \/ LlmAnswers(t) \/ LlmIsContinued(t) \/ LlmCallsTools(t) \/ LlmFails(t)
    \/ ToolsReturn(t) \/ Inserts(t)

Next ==
    \/ \E t \in Turn : Starts(t) \/ TurnStep(t) \/ InsertFails(t)
    \/ Clear \/ Crash

Spec == Init /\ [][Next]_vars

-----------------------------------------------------------------------------
(* What the model is sent in a request of turn t.                          *)
Sent(t) == turn[t].loaded \o New(t)

Follows(m, n) == n.turn = m.turn /\ n.position = m.position + 1

RolesAlternate(c) == \A k \in 1..Len(c) : FromUser(c[k]) <=> k % 2 = 1

HasCalls(m) == m.kind \in {"tool_use", "unmet"}

(* Calls and results meet, as the Messages API wants it; it may begin with *)
(* results, see below.                                                     *)
CallsMet(c) ==
    /\ \A k \in 1..Len(c) : HasCalls(c[k]) =>
           k < Len(c) /\ c[k + 1].kind = "results" /\ Follows(c[k], c[k + 1])
    /\ \A k \in 2..Len(c) : c[k].kind = "results" =>
           HasCalls(c[k - 1]) /\ Follows(c[k - 1], c[k])

(* Between two messages of a turn are those that it said between them.     *)
NoneBetweenMissing(c) ==
    \A i, j \in 1..Len(c) : i < j /\ c[i].turn = c[j].turn =>
        \E k \in i..(j - 1) : Follows(c[k], c[j])

(* While nothing fails, a request leaves out nothing that a turn said      *)
(* between two of the messages it holds, however turns interleave.  While  *)
(* turns and clears come one after the other its roles alternate, and its  *)
(* calls meet their results if, and only if, it holds no response whose    *)
(* calls nobody met: one such response in the window, of whatever turn,    *)
(* and the API refuses the request.  The first message is an exception: a  *)
(* full window may begin with results whose calls it has cut off.          *)
RequestsWellFormed ==
    faults = 0 => \A t \in Turn : turn[t].pc = "llm" =>
        LET request == Sent(t) IN
        /\ NoneBetweenMissing(request)
        /\ calm =>
               /\ RolesAlternate(request)
               /\ CallsMet(request) <=> \A k \in 1..Len(request) : request[k].kind # "unmet"
               /\ request[1].kind = "results" => Len(turn[t].loaded) = Window

(* However turns interleave and whatever fails, the messages of one turn   *)
(* are stored in their order and none twice.                               *)
StoredInOrder ==
    \A i, j \in 1..Len(messages) :
        i < j /\ messages[i].turn = messages[j].turn =>
            messages[i].position < messages[j].position

Stored(t) ==
    {messages[k].position : k \in {i \in 1..Len(messages) : messages[i].turn = t}}

SuffixUpTo(s, n) == \E first \in 1..(n + 1) : s = first..n

(* Without faults a turn is stored wholly or, if it failed, not at all.  A *)
(* clear while it ran takes what was stored by then and nothing else.      *)
WholeOrNot ==
    faults = 0 => \A t \in Turn :
        /\ turn[t].pc = "done" => SuffixUpTo(Stored(t), Len(turn[t].new))
        /\ turn[t].pc = "done" /\ turn[t].clears = clears =>
               Stored(t) = 1..Len(turn[t].new)
        /\ turn[t].pc = "persist" => SuffixUpTo(Stored(t), turn[t].saved)
        /\ turn[t].pc \notin {"done", "persist"} => Stored(t) = {}

(* The positions that the loop of persist_messages has passed, and those   *)
(* of them that are not in the table, of a turn and of all that no clear   *)
(* has met.                                                                *)
Passed(t) == IF turn[t].pc = "persist" THEN turn[t].saved
             ELSE IF turn[t].pc = "done" THEN Len(turn[t].new) ELSE 0
Missing(t) == (1..Passed(t)) \ Stored(t)
AllMissing == UNION {{t} \X Missing(t) : t \in {u \in Turn : turn[u].clears = clears}}

(* Whatever fails, a fault costs one message at most, of all that turns in *)
(* progress and done have come to store; while nothing fails, a turn is    *)
(* stored wholly or not at all.                                            *)
AllOrNothing == WholeOrNot /\ Cardinality(AllMissing) <= faults

(* What had been said when the history was cleared never comes back, not   *)
(* even through a turn that had loaded it before.                          *)
ClearedStaysCleared ==
    \A k \in 1..Len(messages) : messages[k].turn \notin cleared
=============================================================================
