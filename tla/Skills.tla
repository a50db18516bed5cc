------------------------------- MODULE Skills -------------------------------
(***************************************************************************)
(* The skills of one user: their registration at MCP servers, the table    *)
(* that keeps it, and the calls that agent turns route through it.         *)
(*                                                                         *)
(*   skill-registry  register, from_rows, all_tools and dispatch.          *)
(*   mcp-client      initialize, list_tools and call_tool, with the        *)
(*                   session id and the auth header they send.             *)
(*   startup.rs      auto_register_skills, before the server serves.       *)
(*   handlers.rs     add_skill_handler and remove_skill_handler.           *)
(*   agent.rs        load_skills, once per turn.                           *)
(*   builtin_executor.rs  execute: a built-in tool or the registry.        *)
(*                                                                         *)
(* A name is the sequence of its parts between "__".  An MCP server is     *)
(* outside: it may be restarted, forgets its sessions then and may offer   *)
(* other tools.  A registration waits for it twice and then overwrites the *)
(* row; meanwhile anything may happen, a crash of the EdgeClaw server      *)
(* included, which leaves the table only.                                  *)
(***************************************************************************)
EXTENDS Naturals, Sequences, Functions

CONSTANTS
    Skill,         \* names of skills
    Tool,          \* names of tools, as the servers list them
    Builtin,       \* names of the built-in tools
    Documented,    \* skills that load_skill_context finds SKILL.md files for
    Configured,    \* skills with a SKILL_*_URL variable ...
    Home,          \* ... its value ...
    Token,         \* ... and the header of its SKILL_*_AUTH_TOKEN
    Url,           \* MCP servers
    Auth,          \* auth headers, no header among them
    Key,           \* Key[u]: the header that server u wants
    Stateful,      \* servers that issue session ids and insist on them
    Catalogue,     \* the sets of tools a server may offer
    Request,       \* add_skill requests that can be in progress together
    Asked,         \* bound: the <<name, url, header>> they may ask for
    Boot,          \* stands for the start-up, which registers as well
    MaxRestarts,   \* bound: MaxRestarts[u] restarts of server u
    MaxCrashes     \* bound: crashes of the EdgeClaw server

ASSUME NameAssumption ==
    /\ \A s \in Skill : s \in Seq(STRING) /\ Len(s) = 1
    /\ \A t \in Tool : t \in Seq(STRING) /\ Len(t) > 0
    /\ \A b \in Builtin : b \in Seq(STRING) /\ Len(b) = 1

ASSUME ServerAssumption ==
    /\ Catalogue \subseteq SUBSET Tool /\ Catalogue # {}
    /\ Key \in [Url -> Auth] /\ Stateful \subseteq Url
    /\ MaxRestarts \in [Url -> Nat] /\ MaxCrashes \in Nat

ASSUME ConfiguredAssumption ==
    /\ Configured \subseteq Skill /\ Documented \subseteq Skill
    /\ Home \in [Configured -> Url] /\ Token \in [Configured -> Auth]

ASSUME RequestAssumption ==
    Boot \notin Request /\ Asked \subseteq Skill \X Url \X Auth

VARIABLES
    skillRow,      \* the table skills: a function of the names in it
    registering,   \* registrations in progress, of requests and Boot
    boot,          \* auto_register_skills, see BootState
    snapshot,      \* the rows that the agent turn has loaded
    mcp,           \* mcp[u]: server u
    crashes,       \* crashes so far
    (* An observation that no step of the server reads.                    *)
    failures       \* failures[s]: failed attempts for s in this start-up

skillsVars == <<skillRow, registering, boot, snapshot, mcp, crashes, failures>>

Process == Request \cup {Boot}
MaxAttempts == 3

(* Sessions of one life of a server need not be told apart.  No session is *)
(* the empty set, a session the set of that one.                           *)
Life == Nat
Session == [url : Url, life : Life]

(* life is for the properties: the life of the server that listed tools.   *)
Row == [url : Url, auth : Auth, tools : Catalogue, session : SUBSET Session,
        context : BOOLEAN, life : Life]
IsTable(f) == DOMAIN f \subseteq Skill /\ f \in [DOMAIN f -> Row]

Registration ==
    [pc : {"initialize", "list", "store"}, skill : Skill, row : Row]

BootState ==
    [todo : SUBSET Configured,        \* configurations not begun
     current : SUBSET Configured,     \* the one the attempts are about
     attempt : 0..MaxAttempts]

SkillsTypeOK ==
    /\ IsTable(skillRow) /\ IsTable(snapshot)
    /\ DOMAIN registering \subseteq Process
    /\ registering \in [DOMAIN registering -> Registration]
    /\ boot \in BootState
    /\ \A s, t \in boot.current : s = t
    /\ mcp \in [Url -> [life : Life, offer : Catalogue]]
    /\ crashes \in 0..MaxCrashes
    /\ failures \in [Configured -> 0..MaxAttempts]
    /\ \A s \in DOMAIN skillRow :
           skillRow[s].session # {} <=> skillRow[s].url \in Stateful

NoRows == [s \in {} |-> s]

Starting == [todo |-> Configured, current |-> {}, attempt |-> 0]
NoFailures == [s \in Configured |-> 0]

SkillsInit ==
    /\ skillRow = NoRows /\ snapshot = NoRows /\ registering = NoRows
    /\ boot = Starting /\ failures = NoFailures
    /\ mcp \in [Url -> [life : {0}, offer : Catalogue]]
    /\ crashes = 0

(* run_server has come to axum::serve.                                     *)
Serving == boot.todo = {} /\ boot.current = {}

-----------------------------------------------------------------------------
(* Names.  all_tools joins, dispatch splits at the first "__".             *)
OfferedName(skill, tool) == skill \o tool
SplitLast(name) ==              \* slip: rsplit_once
    [skill |-> SubSeq(name, 1, Len(name) - 1), tool |-> <<name[Len(name)]>>]
SplitOnce(name) == [skill |-> <<Head(name)>>, tool |-> Tail(name)]

(* A call by the client that from_rows makes of a row.                     *)
RowCall(row, tool) == [url |-> row.url, auth |-> row.auth,
                       session |-> row.session, tool |-> tool]

(* What BuiltinExecutor.execute and dispatch do with a name: the set of    *)
(* the one tool that is called, or nothing if no skill has the prefix.     *)
Execute(rows, name) ==
    LET split == SplitOnce(name)
    IN  IF name \in Builtin THEN {[builtin |-> name]}
        ELSE {RowCall(rows[s], split.tool) :
                  s \in {split.skill} \cap DOMAIN rows}

(* An MCP server answers a request that has its header and, unless it is   *)
(* the initialize, names a session of its present life if it wants one.    *)
CurrentSession(u) ==
    IF u \in Stateful THEN {[url |-> u, life |-> mcp[u].life]} ELSE {}
Answers(u, auth, session) == auth = Key[u] /\ session = CurrentSession(u)

-----------------------------------------------------------------------------
(* Registration                                                            *)

(* A client is made for the url and the header; nothing is known yet.      *)
Fresh(skill, url, auth) ==
    [pc |-> "initialize", skill |-> skill,
     row |-> [url |-> url, auth |-> auth, tools |-> CHOOSE c \in Catalogue : TRUE,
              session |-> {}, context |-> FALSE, life |-> 0]]

Begins(p, entry) == registering' = [q \in DOMAIN registering \cup {p} |->
                        IF q = p THEN entry ELSE registering[q]]
Ends(p) == registering' = Restrict(registering, DOMAIN registering \ {p})

(* initialize succeeds and the client keeps the session id of the answer.  *)
Initialize(p) ==
    /\ p \in DOMAIN registering /\ registering[p].pc = "initialize"
    /\ LET u == registering[p].row.url
       IN  /\ registering[p].row.auth = Key[u]
           /\ registering' =
                  [registering EXCEPT ![p].pc = "list",
                                      ![p].row.session = CurrentSession(u)]
    /\ UNCHANGED <<skillRow, boot, snapshot, mcp, crashes, failures>>

(* tools/list succeeds; get_session_id, and the row is made.               *)
ListTools(p) ==
    /\ p \in DOMAIN registering /\ registering[p].pc = "list"
    /\ LET row == registering[p].row
       IN  /\ Answers(row.url, row.auth, row.session)
           /\ registering' =
                  [registering EXCEPT ![p].pc = "store",
                                      ![p].row.tools = mcp[row.url].offer,
                                      ![p].row.life = mcp[row.url].life]
    /\ UNCHANGED <<skillRow, boot, snapshot, mcp, crashes, failures>>

(* INSERT OR REPLACE                                                       *)
Replace(s, row) == skillRow' = [t \in DOMAIN skillRow \cup {s} |->
                                   IF t = s THEN row ELSE skillRow[t]]

-----------------------------------------------------------------------------
(* add_skill_handler                                                       *)

AddStarts(q, s, u, a) ==
    /\ Serving /\ q \notin DOMAIN registering
    /\ Begins(q, Fresh(s, u, a))
    /\ UNCHANGED <<skillRow, boot, snapshot, mcp, crashes, failures>>

AddStoresWithoutSession(q) ==   \* slip: the session id is not stored
    /\ q \in DOMAIN registering /\ registering[q].pc = "store"
    /\ Replace(registering[q].skill, [registering[q].row EXCEPT !.session = {}])
    /\ Ends(q)
    /\ UNCHANGED <<boot, snapshot, mcp, crashes, failures>>

(* The columns of the statement do not include skill_context.              *)
AddStores(q) ==
    /\ q \in DOMAIN registering /\ registering[q].pc = "store"
    /\ Replace(registering[q].skill, registering[q].row)
    /\ Ends(q)
    /\ UNCHANGED <<boot, snapshot, mcp, crashes, failures>>

(* A request or a statement fails, or the server refuses.                  *)
AddFails(q) ==
    /\ q \in DOMAIN registering
    /\ Ends(q)
    /\ UNCHANGED <<skillRow, boot, snapshot, mcp, crashes, failures>>

RemoveSkill(s) ==
    /\ Serving /\ s \in DOMAIN skillRow
    /\ skillRow' = Restrict(skillRow, DOMAIN skillRow \ {s})
    /\ UNCHANGED <<registering, boot, snapshot, mcp, crashes, failures>>

-----------------------------------------------------------------------------
(* auto_register_skills.  The order of the variables is not specified.     *)

BootTakes(s) ==
    /\ boot.current = {} /\ s \in boot.todo
    /\ boot' = [todo |-> boot.todo \ {s}, current |-> {s}, attempt |-> 0]
    /\ UNCHANGED <<skillRow, registering, snapshot, mcp, crashes, failures>>

(* for attempt in 1..=3                                                    *)
BootAttempts(s) ==
    /\ s \in boot.current /\ Boot \notin DOMAIN registering
    /\ boot.attempt < MaxAttempts
    /\ boot' = [boot EXCEPT !.attempt = @ + 1]
    /\ Begins(Boot, Fresh(s, Home[s], Token[s]))
    /\ UNCHANGED <<skillRow, snapshot, mcp, crashes, failures>>

BootStores(s) ==
    /\ s \in boot.current
    /\ Boot \in DOMAIN registering /\ registering[Boot].pc = "store"
    /\ Replace(s, [registering[Boot].row EXCEPT !.context = s \in Documented])
    /\ Ends(Boot)
    /\ boot' = [boot EXCEPT !.current = {}]
    /\ UNCHANGED <<snapshot, mcp, crashes, failures>>

BootFailsUncounted(s) ==        \* slip: tries until it succeeds
    /\ s \in boot.current /\ Boot \in DOMAIN registering
    /\ Ends(Boot)
    /\ boot' = [boot EXCEPT !.attempt = 0]
    /\ UNCHANGED <<skillRow, snapshot, mcp, crashes, failures>>

(* The registration or the statement fails.                                *)
BootFails(s) ==
    /\ s \in boot.current /\ Boot \in DOMAIN registering
    /\ Ends(Boot)
    /\ failures' = [failures EXCEPT ![s] = @ + 1]
    /\ UNCHANGED <<skillRow, boot, snapshot, mcp, crashes>>

BootSkipsAtOnce(s) ==           \* slip: leaves the loop at the first failure
    /\ s \in boot.current /\ Boot \notin DOMAIN registering
    /\ boot.attempt > 0
    /\ boot' = [boot EXCEPT !.current = {}]
    /\ UNCHANGED <<skillRow, registering, snapshot, mcp, crashes, failures>>

(* "could not auto-register skill ... skipping"                            *)
BootSkips(s) ==
    /\ s \in boot.current /\ Boot \notin DOMAIN registering
    /\ boot.attempt = MaxAttempts
    /\ boot' = [boot EXCEPT !.current = {}]
    /\ UNCHANGED <<skillRow, registering, snapshot, mcp, crashes, failures>>

-----------------------------------------------------------------------------
(* An agent turn loads the rows and keeps them to its end; it goes on      *)
(* without skills if the statement fails.                                  *)
TurnLoads ==
    /\ Serving
    /\ snapshot' \in {skillRow, NoRows}
    /\ UNCHANGED <<skillRow, registering, boot, mcp, crashes, failures>>

McpRestarts(u, offer) ==
    /\ mcp[u].life < MaxRestarts[u]
    /\ mcp' = [mcp EXCEPT ![u] = [life |-> @.life + 1, offer |-> offer]]
    /\ UNCHANGED <<skillRow, registering, boot, snapshot, crashes, failures>>

ServerCrashes ==
    /\ crashes < MaxCrashes
    /\ crashes' = crashes + 1
    /\ registering' = NoRows /\ snapshot' = NoRows
    /\ boot' = Starting /\ failures' = NoFailures
    /\ UNCHANGED <<skillRow, mcp>>

BootStep ==
    \/ Initialize(Boot) \/ ListTools(Boot)
    \/ \E s \in Configured : \/ BootTakes(s) \/ BootAttempts(s)
                             \/ BootStores(s) \/ BootFails(s) \/ BootSkips(s)

RequestStep ==
    \E q \in Request :
        \/ \E ask \in Asked : AddStarts(q, ask[1], ask[2], ask[3])
        \/ Initialize(q) \/ ListTools(q) \/ AddStores(q) \/ AddFails(q)

SkillsNext ==
    \/ BootStep \/ RequestStep
    \/ \E s \in Skill : RemoveSkill(s)
    \/ TurnLoads
    \/ \E u \in Url, offer \in Catalogue : McpRestarts(u, offer)
    \/ ServerCrashes

SkillsSpec == SkillsInit /\ [][SkillsNext]_skillsVars

(* Start-up goes on: a request to an MCP server is answered or fails.      *)
SkillsFairness == WF_skillsVars(BootStep)

-----------------------------------------------------------------------------
(* Every tool that a turn offers to the model, from a skill that was       *)
(* registered since its server last started, reaches that server with      *)
(* what it takes to be answered, and under the name it was listed with:    *)
(* url, header, session and tools of a row come from one registration,     *)
(* whatever registrations, removals, crashes and restarts went on, and     *)
(* the name finds its way back through execute and dispatch.               *)
OfferedToolsAnswer ==
    \A s \in DOMAIN snapshot :
        snapshot[s].life = mcp[snapshot[s].url].life =>
            \A t \in snapshot[s].tools :
                \E call \in Execute(snapshot, OfferedName(s, t)) :
                    /\ call.url = snapshot[s].url /\ call.tool = t
                    /\ Answers(call.url, call.auth, call.session)
                    /\ t \in mcp[call.url].offer

(* When the server begins to serve, each configured skill has been         *)
(* registered as configured, with its SKILL.md, or three attempts for it   *)
(* have failed.                                                            *)
RegisteredAsConfigured(s) ==
    /\ s \in DOMAIN skillRow
    /\ skillRow[s].url = Home[s] /\ skillRow[s].auth = Token[s]
    /\ skillRow[s].context = (s \in Documented)

StartupRegisters ==
    [][~Serving /\ Serving' =>
           \A s \in Configured : \/ failures'[s] = MaxAttempts
                                 \/ RegisteredAsConfigured(s)']_skillsVars

(* MCP servers that refuse or are down delay the start, but do not keep    *)
(* the server from serving.                                                *)
StartupServes == ~Serving ~> Serving
=============================================================================
