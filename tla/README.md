# EdgeClaw in TLA+

EdgeClaw is a personal AI agent: a server (`edgeclaw-server`, axum and SQLite)
that runs agent turns for users who talk to it over a WebSocket, over HTTP or
through scheduled tasks, asks for consent before it runs a tool that is not
known to be harmless, and a command-line client (`edgeclaw-cli`). This
directory holds TLA+ modules of the parts of it where order matters, the TLC
configurations that check them on small instances, and TLAPS proofs of what
matters most, for every size.

Run everything from this directory:

    tlc -workers 2 -config MCWsSession.cfg MCWsSession      # and so on
    tlapm Scheduler_proofs.tla                              # and so on

## The system

| component | source | state | operations | talks to |
|---|---|---|---|---|
| WebSocket session | `handlers.rs` `handle_ws_connection`, `session.rs` | bounded channel of 32 messages, `pending_approvals` map of oneshot senders, entry in `AppState.sessions` | inbound pump, outbound pump, clean-up; one spawned task per user message | turns (channel, oneshots), client (socket) |
| Harness loop | `edgeclaw-server/agent.rs` `run_agent_turn` | local to the turn: batch of calls, results, accumulated messages | check policy, ask, wait up to 5 minutes, execute, resume, persist | session, agent loop, database, tools |
| Agent loop | `agent-core/agent.rs` | context, new messages, iteration and continuation counters | `run`, `resume`, `agent_loop`, `execute_tools` | LLM client, optional executor |
| Conversation history | `load_messages`, `persist_messages`, `clear_history_handler`, `history_handler`, `handle_approval` | tables `messages` and `pending_approvals` | load the last 50, one INSERT per message, clear | every turn of the user |
| Scheduler | `scheduler.rs`, `schedule_task`, `delete_task` and `list_tasks` handlers | table `scheduled_tasks` | poll every 10 s, re-arm or disable, spawn a turn; add, delete, list | turns, REST clients |
| OAuth flows | `oauth.rs`, `oauth_start`/`oauth_callback` handlers | in-memory map nonce -> flow with a 10-minute expiry | start, complete, exchange the code, clean-up every 60 s | provider, credential store |
| Credential store | `credential-store` | table `credentials`, one encrypted row per user, skill and provider | store, load, load and refresh, delete, list | provider through `TokenRefresher` |
| Encryption | `crypto.rs` | none | derive key, encrypt, decrypt | credential store |
| Skills and MCP client | `skill-registry`, `mcp-client`, skill handlers, `auto_register_skills` | table `skills` with cached tool lists and MCP session ids | register (network), route `skill__tool`, remove, start-up registration with 3 attempts | MCP servers |
| Permission policies | `permissions.rs` | none | deny list, allow list, destructive patterns, default; the first decision wins | harness loop |
| Soul | `soul.rs`, soul handlers, CLI `soul.rs` | table `souls`, one row per user; a temporary file during an edit | create, patch (read, change, write), generate, edit, import, show, export | system prompt |
| Memory tools | `builtins/memory.rs`, `builtin_executor.rs` | table `memory_facts` | store (upsert), fetch, list, delete | turns |
| File and shell tools | `agent-core/builtins` | file system | read, write, edit, glob, grep, bash with a timeout | turns |
| LLM client | `llm.rs` | none | `send_message` | Messages API |
| Start-up and routing | `startup.rs`, `server.rs` | `AppState`, a pool of one connection | configuration, migrations, wiring | all |
| CLI chat | `chat/mod.rs`, `chat/connection.rs` | input buffer, one pending prompt, sometimes the server itself | key presses, server messages | WebSocket session |
| CLI configuration | `config/*` | a TOML file | load, set, edit, connector, wizard, save | file system |

What connects them: every turn is a Tokio task. Turns of one session share its
channel and its map of pending approvals; turns of one user, from any source,
share that user's rows. The pool has a single connection, so statements are
atomic, but a handler of several statements is not: between two statements (and
at every other `await`) anything may happen. Only the database survives a
crash; sessions, pending approvals, OAuth flows and running turns do not.

What is hard about it, and so what the properties are aimed at (the list with
lines is `hazards` in `PROJECT.json`):

* consent: a timer that races an answer, late, repeated and mismatched answers,
  several turns in one map, a client that disappears at any point;
* termination: a full channel, a lost receiver, who drops the last sender;
* the conversation: concurrent turns that persist message by message, failing
  INSERTs, a clear or a crash in the middle, a window that cuts a tool call
  from its result; a context that is rebuilt at each resume;
* the scheduler: re-arming before spawning, crashes between the two, deletes of
  tasks that are already selected, a limit that is counted in one statement and
  used in the next;
* credentials and skills: refreshes and registrations that read a row, wait for
  the network and then overwrite it;
* the terminal: one slot for the prompts of several turns, keys that were meant
  for another prompt, a server that lives in the client's process;
* what tools keep: files that are read and written back in separate system
  calls beside commands that outlive their time-out, facts whose stamps are taken
  before the wait for the database.

## The modules

| module | models | of |
|---|---|---|
| `ApprovalGate` | what consent means, abstractly: each request goes fresh, asked, approved or refused, and only an approved one is executed | the promise of README.md ("approval loop") |
| `WsSession` | one session: client, both pumps, clean-up, and the harness loop of every turn | `handlers.rs` 1056-1181, `session.rs`, `agent.rs` 248-410 |
| `PolicyChain` | what the default chain says of a call: deny list, allow list, destructive patterns, default | `agent-core/permissions.rs` |
| `WsPolicy` | `WsSession` whose tools are calls and whose `Permission` is the chain's verdict | `agent.rs` 248-266 and 290-320 |
| `Chat` | `WsSession` with the client's REPL in place of a free client | CLI `chat/mod.rs`, `chat/connection.rs` |
| `AgentLoop` | one turn from the model's side: `agent_loop`, `execute_tools`, and what the harness puts into the context at each resume | `agent-core/agent.rs`, `agent.rs` 248-395 |
| `Scheduler` | the poll, the rows, the REST requests, crash and restart | `scheduler.rs`, `handlers.rs` 300-414 |
| `Conversation` | the stored messages of one user under concurrent turns, clears and faults | `agent.rs` 54-103 and 248-409, `handlers.rs` 110-131 |
| `Credentials` | the OAuth flows, the credential row of one user, skill and provider, its provider and the callers that race for it | `oauth.rs`, `handlers.rs` 496-680, `store.rs`, `refresh.rs` |
| `Skills` | the skills of one user, their registration at start-up and on request, MCP servers and sessions, the tools of a turn and their routing | `skill-registry`, `mcp-client`, `startup.rs` 30-238, `handlers.rs` 133-208 and 461-483, `builtin_executor.rs` |
| `ConfigFile` | the client's configuration file, its temporary copy and the processes that change them | `config/*` of `edgeclaw-cli` |
| `AtomicFile` | what "writes atomically" promises, abstractly: a save shows at one moment, whole, or never, until two overlap | the promise of `config/mod.rs` 43 |
| `Soul` | the souls, patches, and edits through an editor | `handlers.rs` 684-1052, CLI `soul.rs`, `agent-core/soul.rs`, `load_soul` |
| `Memory` | the facts of one user and the stores in progress | `builtins/memory.rs` |
| `Files` | one file and the calls of several turns that change it | `file_edit.rs`, `file_write.rs`, `bash.rs` of `agent-core/builtins` |
| `MC*` | finite instances, with the `.cfg` of the same beginning; `MCLoops` joins `AgentLoop` and `Scheduler`, `MCSettings` the five modules `Skills`, `ConfigFile`, `Soul`, `Memory`, `Files` | |
| `*_proofs` | TLAPS proofs about the module of that name; `WsGate_proofs` goes on from `WsSession_proofs` to the refinement and to `WsPolicy`, `Chat_proofs` from there to `Chat`, `Settings_proofs` is about the five modules of `MCSettings` and `AgentLoop_proofs` ends with the loop's composition with `Scheduler` in `MCLoops` | |

### WsSession and ApprovalGate

`live` says which parts of the session are up, `inbox` and `channel` are the
two directions of communication (the first is the socket, the second the mpsc
channel), `pending` is the key set of `pending_approvals`, and `turn[t]` is the
local state of one `run_agent_turn`: where it stands, the batch of tool calls,
the position of the `for` loop, the results pushed so far and the content of
its oneshot. A request id is represented by the call it was made for, since a
fresh uuid is generated per call. An action is what happens between two
`await`s. `SendToClient` is `server_tx.send(..).await`: it blocks while the
channel is full, and fails, which the code ignores, once the receiver is gone.
The inbound pump removes the id from the map and puts the answer into the
oneshot, which is lost if the turn gave up on it. A turn's timer may fire
whenever its oneshot is empty, because `tokio::time::timeout` polls the
receiver first. The client may answer any prompt it has seen, any number of
times, and leave at any time, cleanly or not. What the policies say of a tool
is the constant `Permission`, so that the theorems hold for every policy.

The gate is implemented by a refinement mapping that computes the phase of each
request from the turn that made it (`GatePhase`): nothing in the code records
that phase, which is why the property is worth checking.

### PolicyChain and WsPolicy

A call is the name of its tool, as the sequence of the parts between `__`, and
the `command` of its input. Each policy is an operator that returns its verdict
or `none`; `Check` is the verdict of the first one with an opinion. Which texts
contain which pattern is a constant, the names on the read-only list are those of
the code. `WsPolicy` assumes that `Permission` is `Check`, so every run of the
session is a run with the chain.

### Chat

`server` says whether the session's server lives in the client's own process,
`unread` is what the session has sent and the loop of `run_chat` has not
rendered yet, `pendingApproval` the one slot for a request, and `approvalMode`
what the prompt line offers. Every branch of the `select!` is an action, and
each is a step of `WsSession`'s client or leaves the session alone; the module
has no session steps of its own. When the client quits, a server of its own
ends with it in whatever step its turns are; another's server may go at any
time, after which a send may be buffered or end the client. The start of the
connection (waiting for the server, handshake) is over in `ChatInit`.
`overwritten` is an observation.

### AgentLoop

A message is who speaks, whether it has a text, the tool calls in it and the ids
of the calls it has results for. A response keeps its content whatever it stops
for (agent-core/agent.rs:94-101), so one that ends the turn, runs out of tokens or meets a
stop sequence may hold tool calls as well, which nobody acts on. `executor` is chosen in `Init`: the server runs the loop without
one and answers the calls itself (`HarnessResumes`), the other half of the code
executes them (`StartsCall`, `FinishesCall`, `PushesResults`), first the
concurrency-safe ones together, then the others one by one.

### Scheduler

`task` is the table, `poll` the scheduler task with the batch it selected and
the task it holds between UPDATE and spawn, `request` the `schedule_task`
requests that have counted and not yet inserted. A cron expression is the set
of times at which it occurs, finite when it names a year. `Crash` keeps only
the table.

### Conversation

`messages` is the table in the order of its ids, and `turn[t]` a turn with the
history it loaded, the messages it made and how many of them it has tried to
store. Each INSERT is a step, its failure is another (`persist_messages`
ignores it), and a failing model leaves the turn before anything is stored.
A response whose calls are not acted on is of the kind `unmet`; it is stored
and loaded like any other. `clears`, `cleared` and `calm` are observations no
step depends on (apart from the bounds).

### Credentials

`flows` and `expiry` are the map of flows, `row` is the one row of the table
that the model is about (no statement touches the row of another user, skill or
provider), and `call[c]` is a callback or a `load_and_refresh` in progress: the
row it has read, the clock at its request, the token in the answer. Several
calls follow each other in one slot. The provider is external: `token` and
`accepted` are what it knows, and it either replaces a refresh token when it is
used or keeps it. A call waits for the network or the database between its
steps, and anything may happen meanwhile: another caller, a reconnection, an
import of a service account, a delete, a lost answer, a crash. The server does
not call `load_and_refresh` and `delete` yet; they are the crate's interface and
are modelled as such. `exchanged`, `handed`, `imported` and `lasting` are
observations.

### Skills

`skillRow` is the table, `registering` what requests and the start-up have
found out so far: a registration sends `initialize`, then `tools/list`, and
then replaces the row, each after waiting for somebody. `mcp` is the MCP
servers, which are external: one that is `Stateful` issues a session at
`initialize` and answers nothing without it; a restart ends its sessions and
may change its tools. `snapshot` is what a turn has loaded. A name is the
sequence of its parts between `__`, which makes `all_tools` a concatenation
and `dispatch` a split after the first part. The order of the `SKILL_*_URL`
variables is not specified by the environment, so the start-up may take them
in any. `failures` and the `life` in a row are observations.

### ConfigFile

A command is a process: it loads the file (`Loads`), perhaps waits for
answers, empties the temporary file (`Truncates`), writes it (`Writes`,
`WriteFails`), renames it (`Renames`), or dies in between (`Dies`). All of them
use one temporary file, and a process that has it open goes on writing into it
after another one has renamed it: `target` follows its descriptor. `mode`
stands for every plain setting; of a list's entries only the names are kept, so
that a list is how often each name is in it. `raced` and `alone` are
observations. `AtomicFile` is implemented with a mapping that takes a save to be
under way from `Truncates` to `Renames`, and its content to be what the command
is about to save: the temporary file, whatever is in it, does not show.

### Soul

`soulRow` is the table, `job` the patches and edits in progress, `soulFile`
the file `edgeclaw-soul.md` that every `soul edit` on a machine uses. `tone`
stands for the four fields with a fixed choice of words. What YAML makes of a
name and the trimming of a personality are the constants `Yaml` and `Trimmed`.
`calm` and `fetched` are observations.

### Memory

`fact` is the table, `store[s]` a `memory_store` that has taken its stamp
(`Stamps`) and waits for the only connection (`Upserts`, `StoreFails`), so two
of them may reach the table in either order. `Newest` is the set of answers
that `ORDER BY created_at DESC LIMIT` may give: facts of one millisecond come in
any order. `began` and `ended` are observations.

### Files

`disk` is one file, a sequence of words, and the text an edit looks for is
another one, which may be there several times, apart or overlapping:
`str::matches` goes on behind each match it finds, so `MatchesOnce` asks for a
first occurrence that every other one begins inside of. `call[c]` is what turn `c` waits for,
`hand[c]` the `tokio::fs::write` of its `file_edit` or `file_write`, and
`process[c]` the command it started. A writer empties the file and then fills
it from the start, so that one text may lie over the rest of another. A command that
has timed out is reported and not killed, and goes on beside the turn's next
calls. `base` and `crossed` are observations.

## What is checked

| run | instance | shows |
|---|---|---|
| `ws_session` | 1 turn, 2 rounds of up to 2 calls, one that the chain allows and one that it has approved, channel of 1, 1 client message in flight | types; `GatedCallsNeedFirstYes`: a gated call ran only if the first answer to that very request was yes; `OneResultPerCall`: the model is told the truth about each call, in order; `ImplementsGate` |
| `ws_session_live` | 2 turns with one gated call each, channel of 1, 2 messages in flight, fairness | `WaitingIsAnswerable`: no turn waits for a request that has left the map unanswered; the gate's liveness; every turn ends; a connected client hears back; a disconnected session is torn down |
| `ws_deny_listed` (violation) | 1 turn, 1 call with a command of the deny list | ARCHITECTURE.md: the deny list "hard-blocks"; the code treats Deny like RequiresApproval and the call runs once approved |
| `chat` | 2 turns with one of three calls each, which the layers of the chain judge differently, a server of the client's own or another's, 2 messages on the way to the screen | `LostPromptsStayUnanswered`: a prompt that another one replaced on the screen, or that is not shown yet, is never answered and its tool never runs; `OnlyReadOnlyRunsUnasked`: what runs without a question is exactly what is read-only by the last part of its name and not deny-listed |
| `loops` | `AgentLoop`: 3 iterations, 1 continuation, up to 3 calls of 2 tools, a call in responses that stop for something else, 2 resumes, with and without executor; `Scheduler`: up to 2 tasks, 1 fault; fairness of both | `ContextIsRecord`: what the model sees is what will be stored; `RequestsWellFormed`: roles alternate, and calls meet their results unless a response was cut off in a call or named none, from which on the API refuses the turn's requests; an unsafe tool runs alone; the loop comes back; what is due is started unless deleted, or lost by a crash between UPDATE and spawn |
| `turn_iterations` (violation) | the agent loop as in `loops` | ARCHITECTURE.md: "Max 10 ReAct iterations per turn"; the counter restarts at each resume |
| `resumed_prompt` (violation) | the same | a comment in `run_agent_turn` says the resumed prompt is consistent with the first; it lacks the skills' part |
| `scheduler` | up to 3 tasks, one-shot or occurring twice, limit 1, 2 concurrent requests, 2 faults | `StartsAdvance`: no occurrence starts a task twice or early; `DeletedStartsOnceMore`; `TaskCap`: the limit is passed by less than the number of concurrent requests; `NoneForgotten`: a due occurrence stays owed until its task is started for it or deleted or a crash takes it |
| `scheduler_overlap` (violation) | up to 2 tasks, 1 fault | a comment in `poll_once` says a running task is not picked up again; a cron task whose turn outlasts its period is |
| `conversation` | 3 turns, 2 at a time, window of 4, 1 round each, 1 clear and 1 fault, or 1 unmet response | `StoredInOrder`; `AllOrNothing`: a fault costs one message at most, and without faults a turn is stored wholly or not at all; `ClearedStaysCleared`; `RequestsWellFormed`: while nothing fails no request has a gap within a turn, and while turns do not overlap one is well formed exactly if it holds no unmet call |
| `credentials` | 1 flow, an account connected before or not, 2 calls at a time and any number one after the other, 3 tokens, 1 fault | `FlowsUsedOnce`: a flow's code is exchanged once and in time; `HandedOutIsUsable`: a token that is handed out is still accepted; `RowStaysRenewable`: the stored refresh token is one the provider accepts, or the next is on its way |
| `settings` | `Skills`: 2 skills, one of them configured, 2 concurrent requests, an MCP server with sessions that restarts once, one crash; `ConfigFile`: 3 commands, 2 at a time; `Soul`: 2 users, 3 requests or edits, 2 at a time; `Memory`: 2 facts, 2 stores at a time, a list of one; `Files`: 2 turns, 3 calls | `OfferedToolsAnswer`: every tool a turn offers reaches the server that listed it, with its session and header; `StartupRegisters` and `FocusedStartupServes`: the start-up registers what is configured or has tried three times, and ends; `ImplementsAtomicFile`, `ChangesAreEdits`: while saves do not overlap each of them shows at one moment, whole, or never, and the file changes only as asked; `WritesKeepTheRest`: patches and edits leave the rest of a soul alone; `RecentIsListed`: a list leaves out none that is newer than what it shows; `ReportedIsDone`: what a tool that nobody crossed reports as done has been done, and no more: an edit has replaced the first occurrence, which every other one overlaps |

The five modules of `settings` share no state, nor do the two of `loops`, so each
run takes them side by side: `focus` is chosen in the initial state, and only
the module it names takes steps. The state spaces are added and not multiplied,
and nothing is lost.

A violation run checks what a document or comment says and shows what the code
does instead; the findings quote the lines. `CHECK_DEADLOCK` is off throughout:
a session ends, a turn ends, and the bounds end the rest.

### Bounds

* A channel of one slot is full as soon as one message waits, which is the case
  that matters for 32 as well. Two messages in flight are enough for two
  answers to one prompt and for answers to two prompts in either order.
* Two rounds of two calls reach every combination of an earlier and a later
  call in a batch and in a turn, including a late answer to a request of the
  round before. Two turns with one call each share the map and the channel.
* Three iterations with one continuation reach both limits, in both orders;
  two resumes show that the counters restart. Three calls are needed for two
  that run together and one that does not. One ignored call (`MaxIgnored`) is
  enough to leave a response without its results.
* Three tasks are one more than two concurrent requests can add past a limit of
  one. Two occurrences show re-arming and running out; the third clock value
  lets a task be overdue. One fault separates every crash and abort point, two
  let a restart be followed by another crash.
* A window of four holds one turn with a tool round, so the third turn finds
  a window that cuts one open. Two turns at a time are enough to interleave
  their INSERTs; one clear and one fault may fall anywhere. A response whose calls
  nobody meets may take their place (`MaxMishaps`): what it does to later
  requests is a matter of the window, and not of what fails beside it.
* The times of `Credentials` are in units of the longest a call waits: a margin
  of one, a lifetime of three, which expires and is renewed within the clock's
  bound of three when an account is connected at the start. Two calls at a time
  make every race between a callback, a refresh and another refresh; three
  tokens are a first one, a reconnection and a refresh, or two refreshes.

* Two requests and the start-up are every pair of registrations that can race
  for a row; the server with sessions can restart once between any two of their
  steps, and EdgeClaw can crash once. A tool with `__` in its name and a skill
  with the other's server are among what may be registered.
* Two commands at a time with a third to follow show every way to share the
  temporary file and what is left in it afterwards. Two jobs on souls with a
  third write show a lost update and the shared file of two edits.
* Two turns are enough to have two prompts on their way to one slot, and two
  unread messages to have one behind the other. The three calls are one for each pair
  of the chain's layers whose order matters and one that no list knows; calls
  in more than one round are in `ws_session`.
* Two facts with a list of one make every order of two stamps and two
  arrivals; three calls of two turns make an edit, a command that outlives its
  time-out, and a write across both. The text that is looked for is two words
  long and occurs once, twice overlapping, and, after an edit, twice apart.

`MaxRoundTrip` is a bound on what the code calls, not on the code: it sets no
timeout for its requests. Where a call waits for longer than the 60 seconds of
`is_expired`, the callback's expiry may be later than the provider's by more than the
margin, and nothing keeps a token that is handed out valid: the margin is worth exactly what
`MaxRoundTrip <= Margin` says. The lifetime must be more than two round trips,
because a caller may load what another one stored just after it, issued a round
trip earlier; TLC found that with a lifetime of two.

`MaxTokens`, `MaxRounds`, `MaxIgnored`, `MaxMishaps`, `MaxInFlight`, `MaxResumes`, `MaxIds`, `MaxTime`, `MaxFaults`,
`MaxActive`, `MaxClears`, `OnceTimes`, `MaxRestarts`, `MaxCrashes`, `Asked`, `MaxCommands`,
`Typed`, `MaxWrites`, `Change`, `MaxUnread`, `MaxMillis`, `Storing` and
`MaxFileCalls` bound the model only; so does keeping one command per turn in
`Files`. `Capacity`, `MaxIterations`, `MaxContinuations`, `MaxTasks`, `Window`
and `ListLimit` are constants of the code (32, 10, 3, 20 by default, 50 and 100).

### Fairness

* `WsSession`: weak fairness of both pumps, the clean-up and each turn. Tokio
  polls every task that is ready, the LLM request ends (with an error if
  necessary), the timer fires, and a socket write returns or fails. Nothing is
  assumed of the client.
* `AgentLoop`: weak fairness of the loop and of the tools: the request ends,
  and so does a tool.
* `Scheduler`: weak fairness of the poll and of the restart
  (`restart: unless-stopped` in docker-compose.yml). Not of requests, nor of
  the end of turns: the scheduler must not depend on them.
* `Skills`: weak fairness of the start-up: a request to an MCP server is
  answered or fails. `reqwest` is used without a timeout, so this is a
  statement about the network: a server that accepts a connection and never
  answers keeps EdgeClaw from serving. Nothing is assumed of other requests.
* `Chat`, `ConfigFile`, `Soul`, `Memory`, `Files`, `Conversation` and
  `Credentials` have safety properties only. A prompt that was replaced in
  `Chat` still ends: that is the timer's work, and `TurnsEnd` of a session with
  a client that may do nothing.

## What is proved

TLAPS proves, for all values of the constants that satisfy the modules' named
assumptions, every safety property that a passing run checks, and some that no
run does (in italics), among them the safety half of what the liveness
properties say:

| theorem | statement |
|---|---|
| `WsSession_proofs!TypeCorrect`, `ConsentSafe`, `WaitingAnswerable` | `Spec => []TypeOK`, `GatedCallsNeedFirstYes`, `WaitingIsAnswerable` |
| `WsGate_proofs!OneResult`, `GateImplemented`, `ReadOnlyUnasked` | `OneResultPerCall`, `Spec => ImplementsGate`, `OnlyReadOnlyRunsUnasked` |
| `WsGate_proofs!FinalsAreKept`, `FinalsAreLast`, `TurnsRunDown` | *a connected client has a turn's final message or finds it in the channel; nothing of the turn follows it; each step of a turn brings it nearer to its end unless the model asks for more* |
| `Chat_proofs!ChatTypeCorrect`, `ChatIsAClient`, `ChatConsentSafe`, `LostStayUnanswered` | types, `ChatSpec => Spec`, what follows from it, `LostPromptsStayUnanswered` |
| `AgentLoop_proofs!TypeCorrect`, `ContextRecorded`, `UnsafeAlone`, `WellFormed` | types, `ContextIsRecord`, `UnsafeRunsAlone`, `RequestsWellFormed` |
| `AgentLoop_proofs!LoopsRunDown`, `LoopsBehave`, `LoopsWellFormed` | *each step inside the loop uses up a pass or leaves less of it*; the composition of `loops` behaves as its parts do, so the four above hold of it |
| `Scheduler_proofs!TypeCorrect`, `StartsInOrder`, `DeletionHolds`, `TasksCapped` | types, `StartsAdvance`, `DeletedStartsOnceMore`, `TaskCap` |
| `Scheduler_proofs!OccurrencesAreKept`, `LostForGood`, `PollsEnd` | `NoneForgotten`, *what a crash took is never started; each step of a poll leaves less of it* |
| `Conversation_proofs!TypeCorrect`, `OrderKept`, `ClearIsFinal`, `StoredWhole`, `Requests` | types, `StoredInOrder`, `ClearedStaysCleared`, `AllOrNothing`, `RequestsWellFormed` |
| `Credentials_proofs!TypeCorrect`, `FlowsAreUsedOnce`, `HandedOut`, `StaysRenewable` | types, `FlowsUsedOnce`, `HandedOutIsUsable`, `RowStaysRenewable` |
| `Settings_proofs!ToolsAnswer`, `ServesRegistered`, `StartupsRunDown` | `OfferedToolsAnswer`, `StartupRegisters`, *each step of the start-up leaves less of its list or of the attempts for one skill* |
| `Settings_proofs!SavesAreAtomic`, `FileStaysWhole`, `OnlyEditsChange` | `ConfigSpec => ImplementsAtomicFile`, *the file is never half written while saves do not overlap*, `ChangesAreEdits` |
| `Settings_proofs!SoulWritesKeepTheRest`, `RecentFactsListed`, `CallsReportWhatIsDone` | `WritesKeepTheRest`, `RecentIsListed`, `ReportedIsDone` |
| `Settings_proofs!SkillsTypeCorrect`, `ConfigTypeCorrect`, `SoulTypeCorrect`, `MemoryTypeCorrect`, `FilesTypeCorrect` | the five parts of `SettingsTypeOK` |
| `Settings_proofs!PartsBehave`, `SettingsTypeCorrect` | the composition of `settings` behaves as its five parts do, `SettingsSpec => []SettingsTypeOK` |

The assumptions are those a reader would make of the configuration: a policy
gives each tool one of its three verdicts, and a call has a name with at least
one part; capacities and limits are natural numbers, and positive where the
code needs it; there is a user, and finitely many requests are in progress; the
window is positive and even; a call waits for at most the margin of
`is_expired` and less than half a token's lifetime; the name of a skill or of a
built-in tool has no `__` in it; an MCP server takes one header; YAML reads a
name as at most one name, and a blank one as `Assistant`; the markers for a file
that is missing, empty or damaged are not configurations.

**Consent.** That a gated call ran only after a yes says nothing about the
answers that are still under way, so it is not inductive. The invariant follows
the answer: a request is only answered after it was shown and only shown after
it was asked (`PromptsAsked`, `AnswersShown`); every request that was asked
lies at or behind the position of its turn's loop, so that the next one is
fresh (`AskedInPast`); as long as a request is in the map, the first answer to
it is still ahead of all others in the inbox (`FirstAnswerQueued`); hence what
arrives in the oneshot is the first answer (`VerdictIsFirst`), and a gated call
that may run has a first answer of yes (`ExecCleared`). `QueuedTurnsIdle` keeps
a turn from being started twice.

**Gate and results.** The refinement needs more: what has run lies behind the
loop's position (`RanPast`), a turn whose request is in the map has no answer
(`PendingUnanswered`), who waits had to, and who executes was asked exactly if
it had to be (`ConsentKnown`, `AskedIfGated`). Each step of the session then moves
at most one request by one step of the gate (`OneMoves`), and leaves the phase
of all others as it was. For `OneResultPerCall`, the results are as many as the
calls before the position (`ResultsInStep`), and one of them says denied
exactly if its call never ran (`ResultsTrue`).

**Final messages.** `ClientHearsBack` is a liveness property; two halves of it
are facts about states. While the client is there both pumps run
(`PumpsStay`), so a message leaves the channel only towards the client, and a
turn that is over has its final message on one side of it (`FinalIsKept`); and
since `SendsFinal` is the last statement of a turn, which nobody starts again,
nothing about the turn lies behind it (`FinalIsLast`). What fairness has to add
is that the outbound pump moves. For the turn itself the argument is a rank: the
calls that the `for` loop has not passed, and how far the one in hand is
(`Rank`). Every step lowers it but the answer of the model that opens another
round (`StepRank`), and steps of others leave it alone.

**Chat.** Each step of the REPL is a step of the session's client or none
(`ChatStepsAreSteps`), so the theorems about the session carry over. That a lost
prompt stays unanswered follows from two facts: a request is in the channel at
most once and never after it was shown (`SentOnce`), and of those the client has
been sent and not answered, each is in one place only, unrendered, pending or
replaced (`ScreenInv`).

**Context.** `ContextIsRecord` needs to know what the last message is while
calls are handled (`HandlesResponse`) and that the harness holds everything
when the loop has returned (`HandedOver`); `UnsafeRunsAlone` needs that a
running serial call was allowed to start and would be still (`SerialOrder`).

`RequestsWellFormed` is about a
context that is `Ready` for the model: it begins and ends with the user,
alternates, and what follows a response answers its calls unless it is spoiled;
between a response that stopped for tools and its results it is `Open`, and the position in the loop says which
(`Conversing`). The loop ends because a pass that runs tools has a finite
number of calls to start and to finish (`PassWork`), and every other step
starts one of the `MaxIterations` passes (`StepsOn`).

**Scheduler.** The next occurrence of a task is in its row while it is enabled
(`EnabledAhead`), in its row and past while it is in the batch (`BatchAhead`),
in the poll's hands before the spawn (`HandAhead`), and in each place later
than everything the task was started for; `DeletedGone` adds that a deleted
task is at most in one of the last two. The limit is a counting argument: a
request that has counted holds a permit, and tasks plus permits of a user stay
below limit plus requests (`PermitCap`), since permits are given only while the
tasks alone are below the limit and an INSERT exchanges one for the other.

An occurrence is `Owed` while a poll would find it or one holds it. Every step
keeps that or ends it in one of the ways that `OwedIsKept` names, which is what
`DueIsStarted` needs besides fairness; a poll that is cut off before its UPDATE
finds the task again, one that is cut off after it leaves the occurrence in
`lost`, and the row, which has moved on, never brings it back (`LostIsPast`). A
poll ends because it works through the batch of its one SELECT (`PollRank`).

**Conversation.** While a turn is in `persist_messages` its rows come from
positions the loop has passed (`RowsPassed`), so the next row is later than all
of them; a turn that had ended at a clear never gets there again
(`ClearedEnded`), and the loop stays inside the turn's messages
(`LoopInBounds`). A turn that was not cleared in the middle has stored exactly
the positions it has passed while nothing fails (`PassedIsStored`), which makes
it all or nothing at the end. With faults, what is missing of the
positions that turns have passed (`AllMissing`) grows only when an INSERT fails,
by that one; a turn in progress that a crash ends and the turns that a clear
finds drop out of it. For `RequestsWellFormed`, what a turn has
loaded is the end of a table in which each turn's rows are in one run of
positions while nothing fails (`EachWhole`), so nothing is missing in between
however turns interleave. What a turn says has a
shape of its own (`EachSaid`): it alternates, and a response that stopped for
tools, and no other, is followed by results. While turns
come one after the other (`OneActive`) the table is a row of such turns, calls
and results side by side (`Paired`), and ends with a whole turn or with what
the one that stores has reached (`TableEnd`). A call that nobody met is then the
only one without results (`UnmetOnly`). A window of even size cuts it
before a user's message, which is a plain one or, if the window is full, results
(`EachFits`); hence the assumption that the window is even, as 50 is.

**Credentials.** A flow that is still in the map, or was never started, has not
been exchanged (`Flows`). For the times, `Times` says that the expiry on record
is at most a round trip later than the provider's (`ExpiryOK`), that a call's
answer was issued after its request, and that the row a caller loads again was
issued at most a round trip before that caller's request (`Recent`), since
whoever stored it was waiting too. For renewal, `Renewal` says that a refresh
token on its way into the row is accepted and in nobody else's hands
(`OnlyHere`), so that no other caller can use it up before it is stored.
`SawImport` is the one exception: a caller that refreshes while a service
account is imported loads that row and returns its private key as the access
token.

**Skills.** A row, a registration that has its tools and a snapshot are
`Genuine`: in the life of its server in which the tools were listed, that server
took the row's header and issued the row's session. Since a server's offer
changes only with its life, the tools are still its own. That the name of an offered
tool leads back to its skill is a lemma about joining and splitting at the
first `__`. For the start-up, `BootInOrder` counts the attempts that have
failed: a skill is given up only after the third. It ends because a step takes
a configuration off the list or leaves less of the attempts for the one in
hand (`BootLeft`), and nobody else touches either.

**Configuration.** While saves do not overlap, at most one command has the
temporary file, which is empty until it is written and whole when it is
renamed (`OneSaves`); a command that runs alone saves what it was asked for
(`SavesItsOwn`). That a list keeps the entries the edit does not name is what
`Outcome` says for each kind of edit. For the refinement `OneSaves` also says
that what is renamed is what its command was to save: `Truncates` is the
abstract `Begin`, `Renames` its `Commit`, `WriteFails` and `Dies` are `Abort`, and the
steps in between change nothing that shows.

**Soul, memory, files.** A patch or edit that nobody crossed works on the soul
that is stored, and its temporary file holds that soul with the change
(`WorksOnStored`). A row of facts has the stamp of the store that wrote it, which
is between that store's beginning and its end (`StampsInOrder`). Until its own
writer opens the file, a call that nobody crossed has before it the file it
began with (`Uncrossed`).

Only model-checked is liveness (`TurnsEnd`, `ClientHearsBack`,
`SessionIsTornDown`, `ImplementsFairGate`, `LoopReturns`, `FocusedDueIsStarted`,
`FocusedStartupServes`): fairness is stated with `ENABLED`, which is out of the
prover's reach. Of `TurnsEnd`, `LoopReturns` and `FocusedStartupServes` the ranks
are proved, of `ClientHearsBack` and `FocusedDueIsStarted` that nothing gets lost
on the way; what remains to TLC is that each of these actors can take a step
until it has come to its end, and takes it. What a recursive definition
computes for every input cannot be proved either, since the library's induction
theorems take an operator as parameter; the modules that are proved about have no
RECURSIVE operator and use no induction over data.

## What is not modelled

* `handle_approval` and the table `pending_approvals`: rows are inserted by
  `handle_approval` itself only, so the table stays empty unless an older
  version filled it.
* The start of a chat connection (waiting for the server, handshake), drawing
  and argument parsing, the commands that only display: no state that anything
  else depends on.
* Encryption, the LLM client, `file_read`, `glob` and `grep`, the wiring at
  start-up: no state of their own that another component depends on, or pure I/O.
* Text. Prompts, answers, tool inputs and results are reduced to what the
  properties tell apart.

## What the properties do not say

Some statements hold under a condition only, and the condition is worth
knowing:

* A skill that is added with a request has no `skill_context`, and adding one
  that start-up had registered drops it (`AddStores`): the `SKILL.md` bodies that
  README.md:23 and docs/specs/ARCHITECTURE.md:67 promise "when the matching
  skill is registered" come with the registration at start-up alone.
  `StartupRegisters` states that much.
* A session that an MCP server has forgotten is not renewed before the skill is
  registered again; `OfferedToolsAnswer` is about the server's present life.
  A skill whose own name contains `__` is offered and never found
  (`NameAssumption`).
* `save_config` "writes atomically" (config/mod.rs:43) as long as saves do not
  overlap; two that do may leave an empty or a mixed file (`raced`), and the
  later of two commands drops what the other changed (`alone`). The wizard adds
  a personality or a connector whose name is there already, which
  `config set` and `connector add` do not.
* Of two patches that overlap one is lost, and two `soul edit`s on one machine
  may post one user's text as another's (`calm`). `soul edit` takes an error of
  the server for a soul without a name (`fetched`). A text that begins with a
  dash loses it on its way through SOUL.md, a blank name becomes `Assistant`, and
  a name that YAML reads as something else than a string is refused
  (`Expressible`), although ARCHITECTURE.md:109 says the two conversions
  round-trip. A user whose prompt is still in `prefs` loses it with the first
  patch, because only `load_soul` looks there (`Careful`).
* The chain decides alone: what a built-in tool says of itself
  (`needs_approval`) is never consulted. The allow list judges a call by what
  follows the last `__` (permissions.rs:96) while `dispatch` splits at the first,
  so a skill's tool counts as read-only when its name ends like one of the
  built-in tools; `OnlyReadOnlyRunsUnasked` states what the code does.
* In the REPL, `y` and `n` answer a pending prompt even in the middle of a text;
  a key that was meant for one prompt answers a later one that has replaced it
  since; a client whose server has gone waits on until it is closed or a send
  fails, and a server that the client has started dies with it in the middle of
  its turns.
* A response that runs out of tokens in a tool call keeps the call, and "Continue"
  follows it instead of a result (agent-core/agent.rs:94-134): the API refuses the next
  request, and the turn ends with its error. A response that ends a turn with a call in it is stored, and
  then every request whose window holds it is refused, while the turns
  that fail store nothing that would move the window (`unmet`). A response that
  stops for tools and names none is followed by a message without content
  when the loop has an executor (agent-core/agent.rs:161-171), which the API refuses as well.
  Both versions of `RequestsWellFormed` say when this happens, and that nothing
  else does it.
* `file_edit` says that the text it replaces "must be unique in the file"
  and "must match exactly once" (file_edit.rs:27, 16): the count of `str::matches` is of occurrences that do not
  overlap, so `aa` is replaced in `aaa`, at its first place. `ReportedIsDone`
  states that much.
* Turns of one user that overlap store their messages between each other's, so the
  roles of the history need not alternate afterwards; `RequestsWellFormed`
  promises only that nothing is missing in between.
* A command that has timed out goes on. `ReportedIsDone` counts it among those
  that cross the calls after it, so nothing is promised to those.
* `RecentIsListed` takes the clock not to go back. A request that timed out
  stays in `pending_approvals` until its late answer or the end of the session
  (agent.rs:312), which costs memory only. If the answer to a refresh is lost
  after the provider has replaced the token, the account must be connected
  again (store.rs:203); `RowStaysRenewable` excepts it.
* `handle_approval` deletes the rows of `pending_approvals` before the model has
  answered (agent.rs:450): if that request fails, the tools have run and nothing
  records it.

## Plan

Done, in this order: 1 `ApprovalGate`, `WsSession`; 2 `AgentLoop`; 3
`Scheduler`; 4 `Conversation`; 5 `Credentials`; 6 `Skills`; 7 `ConfigFile`; 8
`Soul`; 9 `PolicyChain` and `WsPolicy`; 10 `Chat`; 11 `Memory` and `Files`, each
with proofs of its safety properties.

Then the abstract specification of `save_config` (`AtomicFile`), and for each
component with a liveness property the ranks and safety halves behind it.

Left: `handle_approval`, once something fills its table;
larger instances of the liveness runs, which are what the proofs do not cover.
