--------------------------- MODULE Settings_proofs ---------------------------
(***************************************************************************)
(* Proofs about what users set up and what tools keep for them: the        *)
(* modules Skills, ConfigFile, Soul, Memory and Files, which share no      *)
(* state, and MCSettings, which joins them.  Each part has its own         *)
(* inductive invariant.  Of MCSettings the last theorems use the formulas  *)
(* only: its constants and definitions for an instance are never expanded. *)
(***************************************************************************)
EXTENDS MCSettings, SequenceTheorems, TLAPS

(***************************************************************************)
(* The skills.                                                             *)
(***************************************************************************)

(* A row is genuine when its server, in the life in which it listed the    *)
(* tools, took the header and issued the session; lives only go on.        *)
Genuine(row) ==
    /\ row.life <= mcp[row.url].life
    /\ row.life = mcp[row.url].life =>
           /\ row.auth = Key[row.url] /\ row.session = CurrentSession(row.url)
           /\ row.tools = mcp[row.url].offer

Proceeds(r) ==
    /\ r.pc = "store" => Genuine(r.row)
    /\ r.pc \in {"list", "store"} =>
           (r.row.session # {} <=> r.row.url \in Stateful)

RowsAreGenuine ==
    /\ \A s \in DOMAIN skillRow : Genuine(skillRow[s])
    /\ \A s \in DOMAIN snapshot : Genuine(snapshot[s])
    /\ \A p \in DOMAIN registering : Proceeds(registering[p])

(* The attempts of the start-up are counted, and it registers nothing but  *)
(* what is configured.                                                     *)
BootInOrder ==
    /\ boot.todo \cap boot.current = {}
    /\ ~Serving => DOMAIN registering \subseteq {Boot}
    /\ Boot \in DOMAIN registering =>
           \E s \in boot.current :
               /\ boot.attempt > 0
               /\ registering[Boot].row.url = Home[s]
               /\ registering[Boot].row.auth = Token[s]
    /\ \A s \in boot.todo : failures[s] = 0
    /\ \A s \in boot.current :
           /\ Boot \in DOMAIN registering => failures[s] + 1 = boot.attempt
           /\ Boot \notin DOMAIN registering => failures[s] = boot.attempt
    /\ ~Serving => \A s \in Configured \ (boot.todo \cup boot.current) :
                       failures[s] = MaxAttempts \/ RegisteredAsConfigured(s)

SkillsInv == SkillsTypeOK /\ RowsAreGenuine /\ BootInOrder

-----------------------------------------------------------------------------
LEMMA SkillsTypes ==
  ASSUME SkillsInv
  PROVE  /\ DOMAIN skillRow \subseteq Skill /\ skillRow \in [DOMAIN skillRow -> Row]
         /\ DOMAIN snapshot \subseteq Skill /\ snapshot \in [DOMAIN snapshot -> Row]
         /\ DOMAIN registering \subseteq Process
         /\ registering \in [DOMAIN registering -> Registration]
         /\ boot \in BootState /\ \A s, t \in boot.current : s = t
         /\ mcp \in [Url -> [life : Life, offer : Catalogue]]
         /\ crashes \in 0..MaxCrashes /\ failures \in [Configured -> 0..MaxAttempts]
         /\ \A s \in DOMAIN skillRow :
                skillRow[s].session # {} <=> skillRow[s].url \in Stateful
  BY DEF SkillsInv, SkillsTypeOK, IsTable

LEMMA RegistrationFields ==
  ASSUME NEW r \in Registration
  PROVE  /\ r.pc \in {"initialize", "list", "store"} /\ r.skill \in Skill
         /\ r.row \in Row /\ r.row.url \in Url /\ r.row.auth \in Auth
         /\ \A S \in SUBSET Session :
                LET x == [r EXCEPT !.pc = "list", !.row.session = S]
                IN  /\ x \in Registration /\ x.pc = "list" /\ x.row.session = S
                    /\ x.row.url = r.row.url /\ x.row.auth = r.row.auth
  BY DEF Registration, Row

LEMMA ContextField ==
  ASSUME NEW row \in Row, NEW b \in BOOLEAN
  PROVE  /\ [row EXCEPT !.context = b] \in Row
         /\ [row EXCEPT !.context = b].context = b
         /\ [row EXCEPT !.context = b].url = row.url
         /\ [row EXCEPT !.context = b].auth = row.auth
         /\ [row EXCEPT !.context = b].tools = row.tools
         /\ [row EXCEPT !.context = b].session = row.session
         /\ [row EXCEPT !.context = b].life = row.life
  BY DEF Row

LEMMA FreshType ==
  ASSUME NEW s \in Skill, NEW u \in Url, NEW a \in Auth
  PROVE  /\ Fresh(s, u, a) \in Registration /\ Fresh(s, u, a).pc = "initialize"
         /\ Fresh(s, u, a).row.url = u /\ Fresh(s, u, a).row.auth = a
  <1> DEFINE c == CHOOSE c \in Catalogue : TRUE
             row == [url |-> u, auth |-> a, tools |-> c, session |-> {},
                     context |-> FALSE, life |-> 0]
  <1>1. c \in Catalogue
    BY ServerAssumption
  <1> HIDE DEF c
  <1>2. row \in Row /\ row.url = u /\ row.auth = a
    BY <1>1 DEF Row, Life
  <1>3. Fresh(s, u, a) = [pc |-> "initialize", skill |-> s, row |-> row]
    BY DEF Fresh, c
  <1> HIDE DEF row
  <1> QED
    BY <1>2, <1>3 DEF Registration

LEMMA CurrentType ==
  ASSUME SkillsInv, NEW u \in Url
  PROVE  /\ CurrentSession(u) \in SUBSET Session
         /\ CurrentSession(u) # {} <=> u \in Stateful
         /\ mcp[u].life \in Life /\ mcp[u].offer \in Catalogue
  <1>1. mcp[u].life \in Life /\ mcp[u].offer \in Catalogue
    BY SkillsTypes
  <1>2. [url |-> u, life |-> mcp[u].life] \in Session
    BY <1>1 DEF Session
  <1>3. CASE u \in Stateful
    <2>1. CurrentSession(u) = {[url |-> u, life |-> mcp[u].life]}
      BY <1>3 DEF CurrentSession
    <2> QED
      BY <1>1, <1>2, <1>3, <2>1
  <1>4. CASE u \notin Stateful
    <2>1. CurrentSession(u) = {}
      BY <1>4 DEF CurrentSession
    <2> QED
      BY <1>1, <1>4, <2>1
  <1> QED
    BY <1>3, <1>4

(* Updates of the registrations and of the table.                          *)
LEMMA BeginsType ==
  ASSUME SkillsInv, NEW p \in Process, NEW r \in Registration, Begins(p, r)
  PROVE  /\ DOMAIN registering' = DOMAIN registering \cup {p}
         /\ DOMAIN registering' \subseteq Process
         /\ registering' \in [DOMAIN registering' -> Registration]
         /\ registering'[p] = r
         /\ \A q \in DOMAIN registering : q # p => registering'[q] = registering[q]
  BY SkillsTypes DEF Begins

LEMMA EndsType ==
  ASSUME SkillsInv, NEW p, Ends(p)
  PROVE  /\ DOMAIN registering' = DOMAIN registering \ {p}
         /\ DOMAIN registering' \subseteq Process
         /\ registering' \in [DOMAIN registering' -> Registration]
         /\ \A q \in DOMAIN registering' : registering'[q] = registering[q]
  BY SkillsTypes DEF Ends, Restrict

LEMMA ReplaceType ==
  ASSUME SkillsInv, NEW s \in Skill, NEW row \in Row, Replace(s, row)
  PROVE  /\ DOMAIN skillRow' = DOMAIN skillRow \cup {s}
         /\ DOMAIN skillRow' \subseteq Skill /\ skillRow' \in [DOMAIN skillRow' -> Row]
         /\ skillRow'[s] = row
         /\ \A t \in DOMAIN skillRow : t # s => skillRow'[t] = skillRow[t]
  BY SkillsTypes DEF Replace

LEMMA SameMcp ==
  ASSUME mcp' = mcp, NEW row
  PROVE  Genuine(row) => Genuine(row)'
  <1>1. \A u : CurrentSession(u)' = CurrentSession(u)
    BY DEF CurrentSession
  <1> QED
    BY <1>1 DEF Genuine

LEMMA ProceedsNext ==
  ASSUME mcp' = mcp, NEW r
  PROVE  Proceeds(r) => Proceeds(r)'
  BY SameMcp DEF Proceeds

(* While the MCP servers stay as they are, so do the rows.                 *)
LEMMA RowsStay ==
  ASSUME mcp' = mcp,
         \A s \in DOMAIN skillRow' : \E row : row = skillRow'[s] /\ Genuine(row),
         \A s \in DOMAIN snapshot' : \E row : row = snapshot'[s] /\ Genuine(row),
         \A p \in DOMAIN registering' : \E r : r = registering'[p] /\ Proceeds(r)
  PROVE  RowsAreGenuine'
  <1>1. ASSUME NEW p \in DOMAIN registering' PROVE Proceeds(registering[p])'
    <2>1. PICK x : x = registering'[p] /\ Proceeds(x)
      BY <1>1
    <2>2. Proceeds(x)'
      BY <2>1, ProceedsNext
    <2> QED
      BY <2>1, <2>2 DEF Proceeds, Genuine
  <1>2. ASSUME NEW s \in DOMAIN skillRow' PROVE Genuine(skillRow[s])'
    <2>1. PICK x : x = skillRow'[s] /\ Genuine(x)
      BY <1>2
    <2>2. Genuine(x)'
      BY <2>1, SameMcp
    <2> QED
      BY <2>1, <2>2 DEF Genuine
  <1>3. ASSUME NEW s \in DOMAIN snapshot' PROVE Genuine(snapshot[s])'
    <2>1. PICK x : x = snapshot'[s] /\ Genuine(x)
      BY <1>3
    <2>2. Genuine(x)'
      BY <2>1, SameMcp
    <2> QED
      BY <2>1, <2>2 DEF Genuine
  <1> QED
    BY <1>1, <1>2, <1>3 DEF RowsAreGenuine

LEMMA SameServing ==
  ASSUME boot' = boot
  PROVE  Serving' = Serving
  BY DEF Serving

-----------------------------------------------------------------------------
(* A registration goes a step further.                                     *)
LEMMA RegisterStep ==
  ASSUME SkillsInv, NEW p \in DOMAIN registering, NEW r \in Registration,
         registering' = [registering EXCEPT ![p] = r],
         UNCHANGED <<skillRow, boot, snapshot, mcp, crashes, failures>>,
         Proceeds(r),
         r.row.url = registering[p].row.url, r.row.auth = registering[p].row.auth
  PROVE  SkillsInv'
  <1>1. /\ DOMAIN registering' = DOMAIN registering
        /\ registering' \in [DOMAIN registering' -> Registration]
        /\ registering'[p] = r
        /\ \A q \in DOMAIN registering : q # p => registering'[q] = registering[q]
    BY SkillsTypes
  <1>2. SkillsTypeOK'
    BY <1>1, SkillsTypes DEF SkillsTypeOK, IsTable
  <1>5. RowsAreGenuine'
    BY <1>1, RowsStay DEF SkillsInv, RowsAreGenuine
  <1>6. \A s : RegisteredAsConfigured(s) => RegisteredAsConfigured(s)'
    BY DEF RegisteredAsConfigured
  <1>7. p = Boot \/ (Boot \in DOMAIN registering => registering'[Boot] = registering[Boot])
    BY <1>1
  <1>8. BootInOrder'
    BY <1>1, <1>6, <1>7, SameServing DEF SkillsInv, BootInOrder
  <1> QED
    BY <1>2, <1>5, <1>8 DEF SkillsInv

LEMMA InitializeKeeps ==
  ASSUME SkillsInv, NEW p, Initialize(p)
  PROVE  SkillsInv'
  <1> DEFINE u == registering[p].row.url
             S == CurrentSession(u)
             r == [registering[p] EXCEPT !.pc = "list", !.row.session = S]
  <1>1. /\ p \in DOMAIN registering /\ registering' = [registering EXCEPT ![p] = r]
        /\ UNCHANGED <<skillRow, boot, snapshot, mcp, crashes, failures>>
    BY DEF Initialize
  <1>2. registering[p] \in Registration
    BY <1>1, SkillsTypes
  <1>3. S \in SUBSET Session /\ (S # {} <=> u \in Stateful)
    BY <1>2, RegistrationFields, CurrentType
  <1> HIDE DEF S
  <1>4. /\ r \in Registration /\ r.pc = "list" /\ r.row.session = S
        /\ r.row.url = u /\ r.row.auth = registering[p].row.auth
    BY <1>2, <1>3, RegistrationFields
  <1> HIDE DEF r
  <1>5. Proceeds(r)
    BY <1>3, <1>4 DEF Proceeds
  <1> QED
    BY <1>1, <1>4, <1>5, RegisterStep

LEMMA ListToolsKeeps ==
  ASSUME SkillsInv, NEW p, ListTools(p)
  PROVE  SkillsInv'
  <1> DEFINE row == registering[p].row
             u == row.url
             offer == mcp[u].offer
             life == mcp[u].life
             r == [registering[p] EXCEPT !.pc = "store", !.row.tools = offer,
                                         !.row.life = life]
  <1>1. /\ p \in DOMAIN registering /\ registering[p].pc = "list"
        /\ row.auth = Key[u] /\ row.session = CurrentSession(u)
        /\ registering' = [registering EXCEPT ![p] = r]
        /\ UNCHANGED <<skillRow, boot, snapshot, mcp, crashes, failures>>
    BY DEF ListTools, Answers
  <1>2. registering[p] \in Registration
    BY <1>1, SkillsTypes
  <1>3. /\ offer \in Catalogue /\ life \in Life
        /\ CurrentSession(u) # {} <=> u \in Stateful
    BY <1>2, RegistrationFields, CurrentType
  <1>4. /\ r \in Registration /\ r.pc = "store"
        /\ r.row.tools = offer /\ r.row.life = life
        /\ r.row.url = u /\ r.row.auth = row.auth /\ r.row.session = row.session
    <2>1. PICK j \in Registration, o \in Catalogue, l \in Life :
              j = registering[p] /\ o = offer /\ l = life
      BY <1>2, <1>3
    <2>2. r = [j EXCEPT !.pc = "store", !.row.tools = o, !.row.life = l]
      BY <2>1
    <2> HIDE DEF r
    <2>3. /\ r \in Registration /\ r.pc = "store"
          /\ r.row.tools = o /\ r.row.life = l
          /\ r.row.url = j.row.url /\ r.row.auth = j.row.auth
          /\ r.row.session = j.row.session
      BY <2>2 DEF Registration, Row
    <2> QED
      BY <2>1, <2>3
  <1> HIDE DEF offer, life
  <1> HIDE DEF r
  <1>5. life <= life
    BY <1>3 DEF Life
  <1>6. Proceeds(r)
    BY <1>1, <1>3, <1>4, <1>5 DEF Proceeds, Genuine, offer, life
  <1> QED
    BY <1>1, <1>4, <1>6, RegisterStep

-----------------------------------------------------------------------------
(* A registration begins or ends, by a request: start-up is over then.     *)
LEMMA StartupOver ==
  ASSUME SkillsInv, NEW q \in Request, q \in DOMAIN registering
  PROVE  Serving
  BY RequestAssumption DEF SkillsInv, BootInOrder

LEMMA AddKeeps ==
  ASSUME SkillsInv, NEW q \in Request, NEW a \in Asked,
         AddStarts(q, a[1], a[2], a[3])
  PROVE  SkillsInv'
  <1> DEFINE r == Fresh(a[1], a[2], a[3])
  <1>1. /\ Serving /\ q \notin DOMAIN registering /\ Begins(q, r)
        /\ UNCHANGED <<skillRow, boot, snapshot, mcp, crashes, failures>>
    BY DEF AddStarts
  <1>2. r \in Registration /\ r.pc = "initialize"
    BY RequestAssumption, FreshType
  <1> HIDE DEF r
  <1>3. q \in Process /\ q # Boot
    BY RequestAssumption DEF Process
  <1>4. /\ DOMAIN registering' = DOMAIN registering \cup {q}
        /\ DOMAIN registering' \subseteq Process
        /\ registering' \in [DOMAIN registering' -> Registration]
        /\ registering'[q] = r
        /\ \A p \in DOMAIN registering : p # q => registering'[p] = registering[p]
    BY <1>1, <1>2, <1>3, BeginsType
  <1>5. SkillsTypeOK'
    BY <1>1, <1>4, SkillsTypes DEF SkillsTypeOK, IsTable
  <1>6. RowsAreGenuine'
    BY <1>1, <1>2, <1>4, RowsStay DEF SkillsInv, RowsAreGenuine, Proceeds
  <1>7. BootInOrder'
    <2>1. Serving'
      BY <1>1, SameServing
    <2>2. /\ Boot \in DOMAIN registering' <=> Boot \in DOMAIN registering
          /\ Boot \in DOMAIN registering => registering'[Boot] = registering[Boot]
      BY <1>3, <1>4
    <2> QED
      BY <1>1, <2>1, <2>2 DEF SkillsInv, BootInOrder
  <1> QED
    BY <1>5, <1>6, <1>7 DEF SkillsInv

(* The end of a request, with or without a row.                            *)
LEMMA RequestEnds ==
  ASSUME SkillsInv, NEW q \in Request, q \in DOMAIN registering, Ends(q),
         UNCHANGED <<boot, snapshot, mcp, crashes, failures>>,
         \/ UNCHANGED skillRow
         \/ /\ registering[q].pc = "store"
            /\ Replace(registering[q].skill, registering[q].row)
  PROVE  SkillsInv'
  <1>1. Serving /\ Serving'
    BY StartupOver, SameServing
  <1>2. /\ DOMAIN registering' = DOMAIN registering \ {q}
        /\ DOMAIN registering' \subseteq Process
        /\ registering' \in [DOMAIN registering' -> Registration]
        /\ \A p \in DOMAIN registering' : registering'[p] = registering[p]
    BY EndsType
  <1>3. q # Boot
    BY RequestAssumption
  <1>4. BootInOrder'
    <2>1. /\ Boot \in DOMAIN registering' <=> Boot \in DOMAIN registering
          /\ Boot \in DOMAIN registering => registering'[Boot] = registering[Boot]
      BY <1>2, <1>3
    <2> QED
      BY <1>1, <2>1 DEF SkillsInv, BootInOrder
  <1>5. registering[q] \in Registration
    BY SkillsTypes
  <1>6. registering[q].row \in Row /\ registering[q].skill \in Skill
    BY <1>5, RegistrationFields
  <1>7. CASE UNCHANGED skillRow
    <2>1. SkillsTypeOK'
      BY <1>2, <1>7, SkillsTypes DEF SkillsTypeOK, IsTable
    <2>2. RowsAreGenuine'
      BY <1>2, <1>7, RowsStay DEF SkillsInv, RowsAreGenuine
    <2> QED
      BY <1>4, <2>1, <2>2 DEF SkillsInv
  <1>8. CASE /\ registering[q].pc = "store"
             /\ Replace(registering[q].skill, registering[q].row)
    <2>1. PICK s \in Skill, row \in Row :
              s = registering[q].skill /\ row = registering[q].row
      BY <1>6
    <2>2. Genuine(row) /\ (row.session # {} <=> row.url \in Stateful)
      BY <1>8, <2>1 DEF SkillsInv, RowsAreGenuine, Proceeds
    <2>3. /\ DOMAIN skillRow' = DOMAIN skillRow \cup {s}
          /\ DOMAIN skillRow' \subseteq Skill
          /\ skillRow' \in [DOMAIN skillRow' -> Row] /\ skillRow'[s] = row
          /\ \A t \in DOMAIN skillRow : t # s => skillRow'[t] = skillRow[t]
      BY <1>8, <2>1, ReplaceType
    <2>4. SkillsTypeOK'
      BY <1>2, <2>2, <2>3, SkillsTypes DEF SkillsTypeOK, IsTable
    <2>5. RowsAreGenuine'
      BY <1>2, <2>2, <2>3, RowsStay DEF SkillsInv, RowsAreGenuine
    <2> QED
      BY <1>4, <2>4, <2>5 DEF SkillsInv
  <1> QED
    BY <1>7, <1>8

LEMMA RemoveKeeps ==
  ASSUME SkillsInv, NEW s \in Skill, RemoveSkill(s)
  PROVE  SkillsInv'
  <1>1. /\ Serving /\ skillRow' = Restrict(skillRow, DOMAIN skillRow \ {s})
        /\ UNCHANGED <<registering, boot, snapshot, mcp, crashes, failures>>
    BY DEF RemoveSkill
  <1>2. /\ DOMAIN skillRow' = DOMAIN skillRow \ {s}
        /\ skillRow' \in [DOMAIN skillRow' -> Row]
        /\ \A t \in DOMAIN skillRow' : skillRow'[t] = skillRow[t]
    BY <1>1, SkillsTypes DEF Restrict
  <1>3. SkillsTypeOK'
    BY <1>1, <1>2, SkillsTypes DEF SkillsTypeOK, IsTable
  <1>4. RowsAreGenuine'
    BY <1>1, <1>2, RowsStay DEF SkillsInv, RowsAreGenuine
  <1>5. BootInOrder'
    BY <1>1, SameServing DEF SkillsInv, BootInOrder
  <1> QED
    BY <1>3, <1>4, <1>5 DEF SkillsInv

LEMMA LoadKeeps ==
  ASSUME SkillsInv, TurnLoads
  PROVE  SkillsInv'
  <1>1. /\ snapshot' = skillRow \/ snapshot' = NoRows
        /\ UNCHANGED <<skillRow, registering, boot, mcp, crashes, failures>>
    BY DEF TurnLoads
  <1>2. IsTable(snapshot')
    BY <1>1, SkillsTypes DEF IsTable, NoRows
  <1>3. SkillsTypeOK'
    BY <1>1, <1>2, SkillsTypes DEF SkillsTypeOK, IsTable
  <1>4. RowsAreGenuine'
    BY <1>1, RowsStay DEF SkillsInv, RowsAreGenuine, NoRows
  <1>5. BootInOrder'
    <2>1. \A s : RegisteredAsConfigured(s) => RegisteredAsConfigured(s)'
      BY <1>1 DEF RegisteredAsConfigured
    <2> QED
      BY <1>1, <2>1, SameServing DEF SkillsInv, BootInOrder
  <1> QED
    BY <1>3, <1>4, <1>5 DEF SkillsInv

-----------------------------------------------------------------------------
(* A server that is restarted takes every row of its to a life that is     *)
(* past.                                                                   *)
LEMMA RestartOutdates ==
  ASSUME SkillsInv, NEW u \in Url, NEW offer \in Catalogue, McpRestarts(u, offer),
         NEW row, row.life \in Nat, row.url \in Url, Genuine(row)
  PROVE  Genuine(row)'
  <1>1. /\ mcp' = [mcp EXCEPT ![u] = [life |-> mcp[u].life + 1, offer |-> offer]]
        /\ mcp[u].life \in Nat
    BY SkillsTypes DEF McpRestarts, Life
  <1>2. mcp'[u].life = mcp[u].life + 1
    BY <1>1, SkillsTypes
  <1>3. CASE row.url = u
    <2>1. row.life <= mcp[u].life
      BY <1>3 DEF Genuine
    <2>2. row.life <= mcp'[u].life /\ row.life # mcp'[u].life
      BY <1>1, <1>2, <2>1
    <2> QED
      BY <1>3, <2>2 DEF Genuine
  <1>4. CASE row.url # u
    <2>1. mcp'[row.url] = mcp[row.url]
      BY <1>1, <1>4, SkillsTypes
    <2> QED
      BY <2>1 DEF Genuine, CurrentSession
  <1> QED
    BY <1>3, <1>4

LEMMA RestartKeeps ==
  ASSUME SkillsInv, NEW u \in Url, NEW offer \in Catalogue, McpRestarts(u, offer)
  PROVE  SkillsInv'
  <1>1. /\ mcp' = [mcp EXCEPT ![u] = [life |-> mcp[u].life + 1, offer |-> offer]]
        /\ mcp[u].life \in Nat
        /\ UNCHANGED <<skillRow, registering, boot, snapshot, crashes, failures>>
    BY SkillsTypes DEF McpRestarts, Life
  <1>2. mcp' \in [Url -> [life : Life, offer : Catalogue]]
    BY <1>1, SkillsTypes DEF Life
  <1>3. SkillsTypeOK'
    BY <1>1, <1>2, SkillsTypes DEF SkillsTypeOK, IsTable
  <1>4. \A row \in Row : Genuine(row) => Genuine(row)'
    BY RestartOutdates DEF Row, Life
  <1>5. ASSUME NEW s \in DOMAIN skillRow' PROVE Genuine(skillRow[s])'
    <2>1. PICK row \in Row : row = skillRow[s] /\ Genuine(row)
      BY <1>1, <1>5, SkillsTypes DEF SkillsInv, RowsAreGenuine
    <2>2. Genuine(row)'
      BY <1>4, <2>1
    <2> QED
      BY <1>1, <2>1, <2>2 DEF Genuine
  <1>6. ASSUME NEW s \in DOMAIN snapshot' PROVE Genuine(snapshot[s])'
    <2>1. PICK row \in Row : row = snapshot[s] /\ Genuine(row)
      BY <1>1, <1>6, SkillsTypes DEF SkillsInv, RowsAreGenuine
    <2>2. Genuine(row)'
      BY <1>4, <2>1
    <2> QED
      BY <1>1, <2>1, <2>2 DEF Genuine
  <1>7. ASSUME NEW p \in DOMAIN registering' PROVE Proceeds(registering[p])'
    <2>1. PICK r \in Registration : r = registering[p] /\ Proceeds(r)
      BY <1>1, <1>7, SkillsTypes DEF SkillsInv, RowsAreGenuine
    <2>2. r.row \in Row
      BY RegistrationFields
    <2>3. r.pc = "store" => Genuine(r.row)'
      BY <1>4, <2>1, <2>2 DEF Proceeds
    <2> QED
      BY <1>1, <2>1, <2>3 DEF Proceeds, Genuine
  <1>8. BootInOrder'
    <2>1. \A s : RegisteredAsConfigured(s) => RegisteredAsConfigured(s)'
      BY <1>1 DEF RegisteredAsConfigured
    <2> QED
      BY <1>1, <2>1, SameServing DEF SkillsInv, BootInOrder
  <1> QED
    BY <1>3, <1>5, <1>6, <1>7, <1>8 DEF SkillsInv, RowsAreGenuine

LEMMA StartingType ==
  /\ Starting \in BootState /\ Starting.todo = Configured /\ Starting.current = {}
  /\ NoFailures \in [Configured -> 0..MaxAttempts]
  /\ \A s \in Configured : NoFailures[s] = 0
  /\ DOMAIN NoRows = {}
  BY DEF Starting, BootState, NoFailures, MaxAttempts, NoRows

LEMMA CrashKeeps ==
  ASSUME SkillsInv, ServerCrashes
  PROVE  SkillsInv'
  <1>1. /\ crashes < MaxCrashes /\ crashes' = crashes + 1
        /\ registering' = NoRows /\ snapshot' = NoRows
        /\ boot' = Starting /\ failures' = NoFailures
        /\ UNCHANGED <<skillRow, mcp>>
    BY DEF ServerCrashes
  <1>2. crashes' \in 0..MaxCrashes
    BY <1>1, SkillsTypes, ServerAssumption
  <1>3. SkillsTypeOK'
    <2>1. NoRows \in [{} -> Registration] /\ NoRows \in [{} -> Row]
      BY DEF NoRows
    <2> QED
      BY <1>1, <1>2, <2>1, StartingType, SkillsTypes DEF SkillsTypeOK, IsTable
  <1>4. RowsAreGenuine'
    BY <1>1, RowsStay, StartingType DEF SkillsInv, RowsAreGenuine
  <1>5. BootInOrder'
    BY <1>1, StartingType DEF BootInOrder
  <1> QED
    BY <1>3, <1>4, <1>5 DEF SkillsInv

-----------------------------------------------------------------------------
(* The start-up takes a configuration, or leaves one.                      *)
LEMMA BootMoves ==
  ASSUME SkillsInv, boot' \in BootState, \A s, t \in boot'.current : s = t,
         UNCHANGED <<skillRow, registering, snapshot, mcp, crashes, failures>>,
         BootInOrder'
  PROVE  SkillsInv'
  <1>1. SkillsTypeOK'
    BY SkillsTypes DEF SkillsTypeOK, IsTable
  <1>2. RowsAreGenuine'
    BY RowsStay DEF SkillsInv, RowsAreGenuine
  <1> QED
    BY <1>1, <1>2 DEF SkillsInv

LEMMA StillConfigured ==
  ASSUME skillRow' = skillRow, NEW s
  PROVE  RegisteredAsConfigured(s) => RegisteredAsConfigured(s)'
  BY DEF RegisteredAsConfigured

LEMMA TakeKeeps ==
  ASSUME SkillsInv, NEW s \in Configured, BootTakes(s)
  PROVE  SkillsInv'
  <1> DEFINE b == [todo |-> boot.todo \ {s}, current |-> {s}, attempt |-> 0]
  <1>1. /\ boot.current = {} /\ s \in boot.todo /\ boot' = b
        /\ UNCHANGED <<skillRow, registering, snapshot, mcp, crashes, failures>>
    BY DEF BootTakes
  <1>2. boot \in BootState /\ boot.todo \subseteq Configured
    BY SkillsTypes DEF BootState
  <1>3. /\ b \in BootState /\ b.todo = boot.todo \ {s} /\ b.current = {s}
        /\ b.attempt = 0
    BY <1>2 DEF BootState, MaxAttempts
  <1> HIDE DEF b
  <1>4. ~Serving
    BY <1>1 DEF Serving
  <1>5. Boot \notin DOMAIN registering
    BY <1>1 DEF SkillsInv, BootInOrder
  <1>6. BootInOrder'
    BY <1>1, <1>3, <1>4, <1>5, StillConfigured DEF SkillsInv, BootInOrder
  <1> QED
    BY <1>1, <1>3, <1>6, BootMoves

LEMMA SkipKeeps ==
  ASSUME SkillsInv, NEW s \in Configured, BootSkips(s)
  PROVE  SkillsInv'
  <1> DEFINE b == [boot EXCEPT !.current = {}]
  <1>1. /\ s \in boot.current /\ Boot \notin DOMAIN registering
        /\ boot.attempt = MaxAttempts /\ boot' = b
        /\ UNCHANGED <<skillRow, registering, snapshot, mcp, crashes, failures>>
    BY DEF BootSkips
  <1>2. boot \in BootState /\ boot.current = {s}
    BY <1>1, SkillsTypes
  <1>3. b \in BootState /\ b.todo = boot.todo /\ b.current = {}
    BY <1>2 DEF BootState
  <1> HIDE DEF b
  <1>4. ~Serving
    BY <1>1 DEF Serving
  <1>5. failures[s] = MaxAttempts
    BY <1>1 DEF SkillsInv, BootInOrder
  <1>6. BootInOrder'
    BY <1>1, <1>2, <1>3, <1>4, <1>5, StillConfigured DEF SkillsInv, BootInOrder
  <1> QED
    BY <1>1, <1>3, <1>6, BootMoves

LEMMA AttemptKeeps ==
  ASSUME SkillsInv, NEW s \in Configured, BootAttempts(s)
  PROVE  SkillsInv'
  <1> DEFINE b == [boot EXCEPT !.attempt = @ + 1]
             r == Fresh(s, Home[s], Token[s])
  <1>1. /\ s \in boot.current /\ Boot \notin DOMAIN registering
        /\ boot.attempt < MaxAttempts /\ boot' = b /\ Begins(Boot, r)
        /\ UNCHANGED <<skillRow, snapshot, mcp, crashes, failures>>
    BY DEF BootAttempts
  <1>2. boot \in BootState /\ boot.current = {s}
    BY <1>1, SkillsTypes
  <1>3. /\ boot.attempt \in Nat /\ boot.attempt + 1 \in 0..MaxAttempts
    BY <1>1, <1>2 DEF BootState, MaxAttempts
  <1>4. /\ b \in BootState /\ b.todo = boot.todo /\ b.current = {s}
        /\ b.attempt = boot.attempt + 1
    BY <1>2, <1>3 DEF BootState
  <1>5. /\ r \in Registration /\ r.pc = "initialize"
        /\ r.row.url = Home[s] /\ r.row.auth = Token[s]
    <2>1. s \in Skill /\ Home[s] \in Url /\ Token[s] \in Auth
      BY ConfiguredAssumption
    <2> QED
      BY <2>1, FreshType
  <1> HIDE DEF b, r
  <1>6. /\ DOMAIN registering' = DOMAIN registering \cup {Boot}
        /\ DOMAIN registering' \subseteq Process
        /\ registering' \in [DOMAIN registering' -> Registration]
        /\ registering'[Boot] = r
        /\ \A p \in DOMAIN registering : p # Boot => registering'[p] = registering[p]
    BY <1>1, <1>5, BeginsType DEF Process
  <1>7. SkillsTypeOK'
    BY <1>1, <1>4, <1>6, SkillsTypes DEF SkillsTypeOK, IsTable
  <1>8. RowsAreGenuine'
    BY <1>1, <1>5, <1>6, RowsStay DEF SkillsInv, RowsAreGenuine, Proceeds
  <1>9. ~Serving /\ ~Serving'
    BY <1>1, <1>4 DEF Serving
  <1>10. failures[s] = boot.attempt
    BY <1>1 DEF SkillsInv, BootInOrder
  <1>11. boot.attempt + 1 > 0
    BY <1>3
  <1>12. BootInOrder'
    BY <1>1, <1>2, <1>4, <1>5, <1>6, <1>9, <1>10, <1>11, StillConfigured
       DEF SkillsInv, BootInOrder
  <1> QED
    BY <1>7, <1>8, <1>12 DEF SkillsInv

LEMMA BootStoreKeeps ==
  ASSUME SkillsInv, NEW s \in Configured, BootStores(s)
  PROVE  SkillsInv'
  <1> DEFINE b == [boot EXCEPT !.current = {}]
             got == registering[Boot].row
             d == s \in Documented
             row == [got EXCEPT !.context = d]
  <1>1. /\ s \in boot.current /\ Boot \in DOMAIN registering
        /\ registering[Boot].pc = "store" /\ Replace(s, row) /\ Ends(Boot)
        /\ boot' = b /\ UNCHANGED <<snapshot, mcp, crashes, failures>>
    BY DEF BootStores
  <1>2. boot \in BootState /\ boot.current = {s}
    BY <1>1, SkillsTypes
  <1>3. b \in BootState /\ b.todo = boot.todo /\ b.current = {}
    BY <1>2 DEF BootState
  <1>4. registering[Boot] \in Registration
    BY <1>1, SkillsTypes
  <1>5. got \in Row /\ Proceeds(registering[Boot])
    BY <1>1, <1>4, RegistrationFields DEF SkillsInv, RowsAreGenuine
  <1>6. Genuine(got) /\ (got.session # {} <=> got.url \in Stateful)
    BY <1>1, <1>5 DEF Proceeds
  <1>7. got.url = Home[s] /\ got.auth = Token[s]
    BY <1>1, <1>2 DEF SkillsInv, BootInOrder
  <1> HIDE DEF got
  <1>8. /\ row \in Row /\ row.context = d /\ row.url = got.url
        /\ row.auth = got.auth /\ row.tools = got.tools
        /\ row.session = got.session /\ row.life = got.life
    <2>1. d \in BOOLEAN
      OBVIOUS
    <2> HIDE DEF d
    <2> QED
      BY <1>5, <2>1, ContextField
  <1> HIDE DEF b, row
  <1>9. Genuine(row) /\ (row.session # {} <=> row.url \in Stateful)
    BY <1>6, <1>8 DEF Genuine
  <1>10. s \in Skill
    BY ConfiguredAssumption
  <1>11. /\ DOMAIN skillRow' = DOMAIN skillRow \cup {s}
         /\ DOMAIN skillRow' \subseteq Skill
         /\ skillRow' \in [DOMAIN skillRow' -> Row] /\ skillRow'[s] = row
         /\ \A t \in DOMAIN skillRow : t # s => skillRow'[t] = skillRow[t]
    BY <1>1, <1>8, <1>10, ReplaceType
  <1>12. /\ DOMAIN registering' = DOMAIN registering \ {Boot}
         /\ DOMAIN registering' \subseteq Process
         /\ registering' \in [DOMAIN registering' -> Registration]
         /\ \A p \in DOMAIN registering' : registering'[p] = registering[p]
    BY <1>1, EndsType
  <1>13. SkillsTypeOK'
    BY <1>1, <1>3, <1>9, <1>11, <1>12, SkillsTypes DEF SkillsTypeOK, IsTable
  <1>14. RowsAreGenuine'
    BY <1>1, <1>9, <1>11, <1>12, RowsStay DEF SkillsInv, RowsAreGenuine
  <1>15. ~Serving
    BY <1>1 DEF Serving
  <1>16. RegisteredAsConfigured(s)'
    <2>1. s \in DOMAIN skillRow' /\ skillRow'[s].url = Home[s]
          /\ skillRow'[s].auth = Token[s]
      BY <1>7, <1>8, <1>11
    <2>2. skillRow'[s].context = (s \in Documented)
      BY <1>8, <1>11
    <2> QED
      BY <2>1, <2>2 DEF RegisteredAsConfigured
  <1>17. \A t \in Configured : t # s /\ RegisteredAsConfigured(t) =>
             RegisteredAsConfigured(t)'
    BY <1>11 DEF RegisteredAsConfigured
  <1>18. BootInOrder'
    BY <1>1, <1>2, <1>3, <1>12, <1>15, <1>16, <1>17 DEF SkillsInv, BootInOrder
  <1> QED
    BY <1>13, <1>14, <1>18 DEF SkillsInv

LEMMA BootFailKeeps ==
  ASSUME SkillsInv, NEW s \in Configured, BootFails(s)
  PROVE  SkillsInv'
  <1>1. /\ s \in boot.current /\ Boot \in DOMAIN registering /\ Ends(Boot)
        /\ failures' = [failures EXCEPT ![s] = @ + 1]
        /\ UNCHANGED <<skillRow, boot, snapshot, mcp, crashes>>
    BY DEF BootFails
  <1>2. boot \in BootState /\ boot.current = {s}
    BY <1>1, SkillsTypes
  <1>3. failures[s] + 1 = boot.attempt /\ boot.attempt \in 0..MaxAttempts
    BY <1>1, <1>2 DEF SkillsInv, BootInOrder, BootState
  <1>4. /\ failures' \in [Configured -> 0..MaxAttempts]
        /\ failures'[s] = boot.attempt
        /\ \A t \in Configured : t # s => failures'[t] = failures[t]
    BY <1>1, <1>3, SkillsTypes
  <1>5. /\ DOMAIN registering' = DOMAIN registering \ {Boot}
        /\ DOMAIN registering' \subseteq Process
        /\ registering' \in [DOMAIN registering' -> Registration]
        /\ \A p \in DOMAIN registering' : registering'[p] = registering[p]
    BY <1>1, EndsType
  <1>6. SkillsTypeOK'
    BY <1>1, <1>4, <1>5, SkillsTypes DEF SkillsTypeOK, IsTable
  <1>7. RowsAreGenuine'
    BY <1>1, <1>5, RowsStay DEF SkillsInv, RowsAreGenuine
  <1>8. ~Serving /\ ~Serving' /\ boot.todo \subseteq Configured
    BY <1>1, <1>2 DEF Serving, BootState
  <1>9. BootInOrder'
    BY <1>1, <1>2, <1>4, <1>5, <1>8, StillConfigured DEF SkillsInv, BootInOrder
  <1> QED
    BY <1>6, <1>7, <1>9 DEF SkillsInv

LEMMA SkillsStep ==
  ASSUME SkillsInv, [SkillsNext]_skillsVars
  PROVE  SkillsInv'
  <1>1. CASE BootStep
    BY <1>1, InitializeKeeps, ListToolsKeeps, TakeKeeps, AttemptKeeps, BootStoreKeeps,
       BootFailKeeps, SkipKeeps DEF BootStep
  <1>2. ASSUME NEW q \in Request, AddStores(q) \/ AddFails(q)
        PROVE  SkillsInv'
    BY <1>2, RequestEnds DEF AddStores, AddFails
  <1>3. CASE RequestStep
    BY <1>2, <1>3, AddKeeps, InitializeKeeps, ListToolsKeeps DEF RequestStep
  <1>4. CASE UNCHANGED skillsVars
    <2>1. UNCHANGED <<skillRow, registering, boot, snapshot, mcp, crashes, failures>>
      BY <1>4 DEF skillsVars
    <2>2. boot' \in BootState /\ \A s, t \in boot'.current : s = t
      BY <2>1, SkillsTypes
    <2>3. BootInOrder'
      BY <2>1, StillConfigured, SameServing DEF SkillsInv, BootInOrder
    <2> QED
      BY <2>1, <2>2, <2>3, BootMoves
  <1> QED
    BY <1>1, <1>3, <1>4, RemoveKeeps, LoadKeeps, RestartKeeps, CrashKeeps DEF SkillsNext

LEMMA SkillsInvariant == SkillsSpec => []SkillsInv
  <1>1. SkillsInit => SkillsInv
    <2> SUFFICES ASSUME SkillsInit PROVE SkillsInv
      OBVIOUS
    <2>1. /\ skillRow = NoRows /\ snapshot = NoRows /\ registering = NoRows
          /\ boot = Starting /\ failures = NoFailures
          /\ mcp \in [Url -> [life : {0}, offer : Catalogue]]
          /\ crashes = 0
      BY DEF SkillsInit
    <2>2. mcp \in [Url -> [life : Life, offer : Catalogue]]
      BY <2>1 DEF Life
    <2>3. NoRows \in [{} -> Registration] /\ NoRows \in [{} -> Row]
      BY DEF NoRows
    <2>4. 0 \in 0..MaxCrashes
      BY ServerAssumption
    <2>5. SkillsTypeOK
      BY <2>1, <2>2, <2>3, <2>4, StartingType DEF SkillsTypeOK, IsTable
    <2>6. RowsAreGenuine
      BY <2>1, StartingType DEF RowsAreGenuine
    <2>7. BootInOrder
      BY <2>1, StartingType DEF BootInOrder
    <2> QED
      BY <2>5, <2>6, <2>7 DEF SkillsInv
  <1>2. SkillsInv /\ [SkillsNext]_skillsVars => SkillsInv'
    BY SkillsStep
  <1> QED
    BY <1>1, <1>2, PTL DEF SkillsSpec

(* Rows, registrations and the attempts of the start-up stay of their      *)
(* types, and exactly the rows of servers that want one carry a session    *)
(* (add_skill_handler, auto_register_skills).                              *)
THEOREM SkillsTypeCorrect == SkillsSpec => []SkillsTypeOK
  <1>1. SkillsInv => SkillsTypeOK
    BY DEF SkillsInv
  <1> QED
    BY SkillsInvariant, <1>1, PTL

LEMMA Joined ==
  ASSUME NEW s \in Seq(STRING), Len(s) = 1, NEW t \in Seq(STRING)
  PROVE  /\ s \o t \in Seq(STRING) /\ Len(s \o t) = 1 + Len(t)
         /\ (s \o t)[1] = s[1]
         /\ \A i \in 1..Len(t) : (s \o t)[i + 1] = t[i]
  <1>a. /\ s \o t \in Seq(STRING)
        /\ Len(s \o t) = Len(s) + Len(t)
        /\ \A i \in 1..Len(s) + Len(t) :
               (s \o t)[i] = IF i <= Len(s) THEN s[i] ELSE t[i - Len(s)]
    BY ConcatProperties, Zenon
  <1>1. Len(s \o t) = 1 + Len(t) /\ s \o t \in Seq(STRING) /\ Len(t) \in Nat
    BY <1>a
  <1>2. \A i \in 1..(1 + Len(t)) :
            (s \o t)[i] = IF i <= 1 THEN s[i] ELSE t[i - 1]
    BY <1>a
  <1>3. (s \o t)[1] = s[1]
    BY <1>1, <1>2
  <1>4. ASSUME NEW i \in 1..Len(t) PROVE (s \o t)[i + 1] = t[i]
    <2>1. i + 1 \in 1..(1 + Len(t)) /\ ~(i + 1 <= 1) /\ (i + 1) - 1 = i
      BY <1>1
    <2> QED
      BY <1>2, <2>1
  <1> QED
    BY <1>1, <1>3, <1>4

(* The name under which a tool is offered finds its way back.              *)
LEMMA NameSplits ==
  ASSUME NEW s \in Skill, NEW t \in Tool
  PROVE  /\ SplitOnce(OfferedName(s, t)) = [skill |-> s, tool |-> t]
         /\ OfferedName(s, t) \notin Builtin
  <1>1. /\ s \in Seq(STRING) /\ Len(s) = 1 /\ t \in Seq(STRING) /\ Len(t) > 0
    BY NameAssumption
  <1> DEFINE n == s \o t
  <1>2. n \in Seq(STRING) /\ Len(n) = 1 + Len(t) /\ n # <<>>
    BY <1>1, Joined
  <1>3. /\ n[1] = s[1]
        /\ \A i \in 1..Len(t) : n[i + 1] = t[i]
    BY <1>1, Joined
  <1> HIDE DEF n
  <1>4. Head(n) = s[1]
    BY <1>2, <1>3
  <1>5. <<Head(n)>> = s
    BY <1>1, <1>4
  <1>6. Tail(n) \in Seq(STRING) /\ Len(Tail(n)) = Len(t)
    BY <1>1, <1>2
  <1>7. \A i \in 1..Len(t) : Tail(n)[i] = t[i]
    BY <1>1, <1>2, <1>3, <1>6
  <1>8. Tail(n) = t
    BY <1>1, <1>6, <1>7
  <1>9. n \notin Builtin
    BY <1>1, <1>2, NameAssumption
  <1> QED
    BY <1>5, <1>8, <1>9 DEF SplitOnce, OfferedName, n

(* Whatever registrations, removals, crashes and restarts went on: a tool  *)
(* that a turn offers reaches the server that listed it (from_rows,        *)
(* all_tools and dispatch of skill-registry), unless that was restarted.   *)
THEOREM ToolsAnswer == SkillsSpec => []OfferedToolsAnswer
  <1>1. ASSUME SkillsInv PROVE OfferedToolsAnswer
    <2> SUFFICES ASSUME NEW s \in DOMAIN snapshot,
                        snapshot[s].life = mcp[snapshot[s].url].life,
                        NEW t \in snapshot[s].tools
                 PROVE  \E sent \in Execute(snapshot, OfferedName(s, t)) :
                            /\ sent.url = snapshot[s].url /\ sent.tool = t
                            /\ Answers(sent.url, sent.auth, sent.session)
                            /\ t \in mcp[sent.url].offer
      BY DEF OfferedToolsAnswer
    <2>1. s \in Skill /\ snapshot[s] \in Row /\ Genuine(snapshot[s])
      BY <1>1, SkillsTypes DEF SkillsInv, RowsAreGenuine
    <2>2. t \in Tool
      BY <2>1, ServerAssumption DEF Row
    <2> DEFINE sent == RowCall(snapshot[s], t)
    <2>3. sent \in Execute(snapshot, OfferedName(s, t))
      BY <2>1, <2>2, NameSplits DEF Execute
    <2>4. /\ sent.url = snapshot[s].url /\ sent.tool = t
          /\ sent.auth = snapshot[s].auth /\ sent.session = snapshot[s].session
      BY DEF RowCall
    <2>5. Answers(sent.url, sent.auth, sent.session) /\ t \in mcp[sent.url].offer
      BY <2>1, <2>4 DEF Answers, Genuine
    <2> QED
      BY <2>3, <2>4, <2>5
  <1> QED
    BY SkillsInvariant, <1>1, PTL

(* When the server begins to serve, auto_register_skills (startup.rs) has  *)
(* registered each configured skill as configured or given it up after     *)
(* MaxAttempts attempts.                                                   *)
THEOREM ServesRegistered == SkillsSpec => StartupRegisters
  <1> DEFINE Settled(s) == \/ failures'[s] = MaxAttempts
                            \/ RegisteredAsConfigured(s)'
  <1>1. ASSUME SkillsInv, [SkillsNext]_skillsVars, ~Serving, Serving',
               NEW s \in Configured
        PROVE  Settled(s)
    <2>1. s \notin boot'.todo /\ s \notin boot'.current
      BY <1>1 DEF Serving
    <2>2. \E t \in Configured : BootTakes(t) \/ BootStores(t) \/ BootSkips(t)
      <3>1. boot' # boot
        BY <1>1, SameServing
      <3>2. \A t \in Configured : ~BootAttempts(t)
        <4> SUFFICES ASSUME NEW t \in Configured, BootAttempts(t) PROVE FALSE
          OBVIOUS
        <4>1. t \in boot.current /\ boot \in BootState
              /\ boot' = [boot EXCEPT !.attempt = @ + 1]
          BY <1>1, SkillsTypes DEF BootAttempts
        <4>2. boot'.current = boot.current
          BY <4>1 DEF BootState
        <4> QED
          BY <1>1, <4>1, <4>2 DEF Serving
      <3>3. ~ServerCrashes
        <4> SUFFICES ASSUME ServerCrashes PROVE FALSE
          OBVIOUS
        <4>1. s \in boot'.todo
          BY <1>1, StartingType DEF ServerCrashes
        <4> QED
          BY <2>1, <4>1
      <3> QED
        BY <1>1, <3>1, <3>2, <3>3 DEF SkillsNext, BootStep, RequestStep, skillsVars,
             Initialize, ListTools, AddStarts, AddStores, AddFails, BootFails,
             RemoveSkill, TurnLoads, McpRestarts
    <2>3. PICK t \in Configured : BootTakes(t) \/ BootStores(t) \/ BootSkips(t)
      BY <2>2
    <2>4. ~BootTakes(t)
      BY <1>1 DEF BootTakes, Serving
    <2>5. boot.current = {t} /\ boot'.todo = boot.todo
      <3>1. boot \in BootState /\ t \in boot.current
            /\ boot' = [boot EXCEPT !.current = {}]
        BY <1>1, <2>3, <2>4, SkillsTypes DEF BootStores, BootSkips
      <3> QED
        BY <1>1, <3>1, SkillsTypes DEF BootState
    <2>6. UNCHANGED failures
      BY <2>3, <2>4 DEF BootStores, BootSkips
    <2>7. CASE s # t
      <3>1. failures[s] = MaxAttempts \/ RegisteredAsConfigured(s)
        BY <1>1, <2>1, <2>5, <2>7 DEF SkillsInv, BootInOrder
      <3>2. RegisteredAsConfigured(s) => RegisteredAsConfigured(s)'
        <4>1. /\ s \in DOMAIN skillRow => s \in DOMAIN skillRow'
              /\ s \in DOMAIN skillRow => skillRow'[s] = skillRow[s]
          BY <2>3, <2>4, <2>7 DEF BootStores, BootSkips, Replace
        <4> QED
          BY <4>1 DEF RegisteredAsConfigured
      <3> QED
        BY <2>6, <3>1, <3>2
    <2>8. CASE s = t /\ BootSkips(t)
      BY <1>1, <2>5, <2>6, <2>8 DEF BootSkips, SkillsInv, BootInOrder
    <2>9. CASE s = t /\ BootStores(t)
      <3>1. SkillsInv'
        BY <1>1, SkillsStep
      <3> DEFINE got == registering[Boot].row
                 d == s \in Documented
                 row == [got EXCEPT !.context = d]
      <3>2. Replace(s, row) /\ Boot \in DOMAIN registering
        BY <2>9 DEF BootStores
      <3>3. got.url = Home[s] /\ got.auth = Token[s]
        BY <1>1, <2>5, <2>9, <3>2 DEF SkillsInv, BootInOrder
      <3>4. registering[Boot] \in Registration
        BY <1>1, <3>2, SkillsTypes
      <3>5. got \in Row
        BY <3>4, RegistrationFields
      <3> HIDE DEF got
      <3>6. row.context = d /\ row.url = got.url /\ row.auth = got.auth
        <4>1. d \in BOOLEAN
          OBVIOUS
        <4> HIDE DEF d
        <4> QED
          BY <3>5, <4>1, ContextField
      <3> HIDE DEF row
      <3>7. s \in DOMAIN skillRow' /\ skillRow'[s] = row
        BY <3>2 DEF Replace
      <3>8. /\ skillRow'[s].url = Home[s] /\ skillRow'[s].auth = Token[s]
            /\ skillRow'[s].context = d
        BY <3>3, <3>6, <3>7
      <3> QED
        BY <3>7, <3>8 DEF RegisteredAsConfigured
    <2> QED
      BY <2>3, <2>4, <2>7, <2>8, <2>9
  <1>2. SkillsInv /\ [SkillsNext]_skillsVars =>
            (~Serving /\ Serving' =>
                 \A s \in Configured : \/ failures'[s] = MaxAttempts
                                       \/ RegisteredAsConfigured(s)')
    BY <1>1
  <1> QED
    BY SkillsInvariant, <1>2, PTL DEF SkillsSpec, StartupRegisters

-----------------------------------------------------------------------------
(* How far auto_register_skills is from the end of the configuration it is *)
(* at: the attempts left and the requests left of this one.                *)
AttemptLeft ==
    IF Boot \notin DOMAIN registering THEN 0
    ELSE CASE registering[Boot].pc = "initialize" -> 3
           [] registering[Boot].pc = "list"       -> 2
           [] OTHER                               -> 1

BootLeft ==
    IF boot.current = {} THEN 0
    ELSE 1 + 4 * (MaxAttempts - boot.attempt) + AttemptLeft

BootLeftIsNat == BootLeft \in Nat

(* A step takes a configuration, or leaves less of the one in hand, or it  *)
(* is none of the start-up's and changes nothing about it.                 *)
BootGoesOn ==
    \/ boot'.todo \subseteq boot.todo /\ boot'.todo # boot.todo
    \/ boot'.todo = boot.todo /\ BootLeft' < BootLeft
    \/ boot' = boot /\ BootLeft' = BootLeft

(* Until the server crashes, its start-up only ever gets nearer its end.   *)
StartupRunsDown == [][crashes' = crashes => BootGoesOn]_skillsVars

LEMMA BootNumbers ==
  ASSUME SkillsInv
  PROVE  /\ boot \in BootState /\ boot.attempt \in Nat
         /\ boot.attempt <= MaxAttempts /\ MaxAttempts = 3
         /\ AttemptLeft \in 0..3 /\ BootLeft \in Nat
         /\ Boot \in DOMAIN registering <=> AttemptLeft # 0
         /\ Boot \in DOMAIN registering => boot.current # {}
  <1>1. /\ boot \in BootState /\ boot.attempt \in Nat
        /\ boot.attempt <= MaxAttempts /\ MaxAttempts = 3
    BY SkillsTypes DEF BootState, MaxAttempts
  <1>2. Boot \in DOMAIN registering =>
            registering[Boot].pc \in {"initialize", "list", "store"}
    <2> SUFFICES ASSUME Boot \in DOMAIN registering
                 PROVE  registering[Boot].pc \in {"initialize", "list", "store"}
      OBVIOUS
    <2>1. registering[Boot] \in Registration
      BY SkillsTypes
    <2> QED
      BY <2>1, RegistrationFields
  <1>3. AttemptLeft \in 0..3 /\ (Boot \in DOMAIN registering <=> AttemptLeft # 0)
    BY <1>2 DEF AttemptLeft
  <1>4. BootLeft \in Nat
    BY <1>1, <1>3 DEF BootLeft
  <1>5. Boot \in DOMAIN registering => boot.current # {}
    BY DEF SkillsInv, BootInOrder
  <1> QED
    BY <1>1, <1>3, <1>4, <1>5

LEMMA SameAttempt ==
  ASSUME boot' = boot,
         Boot \in DOMAIN registering' <=> Boot \in DOMAIN registering,
         Boot \in DOMAIN registering => registering'[Boot] = registering[Boot]
  PROVE  BootGoesOn
  <1>1. AttemptLeft' = AttemptLeft
    BY DEF AttemptLeft
  <1> QED
    BY <1>1 DEF BootGoesOn, BootLeft

(* The requests of one attempt.                                            *)
LEMMA AttemptProceeds ==
  ASSUME SkillsInv, NEW p, Initialize(p) \/ ListTools(p)
  PROVE  BootGoesOn
  <1>1. p \in DOMAIN registering /\ boot' = boot
    BY DEF Initialize, ListTools
  <1>2. registering[p] \in Registration
    BY <1>1, SkillsTypes
  <1>3. CASE p = Boot
    <2>1. \/ registering[p].pc = "initialize" /\ registering'[p].pc = "list"
          \/ registering[p].pc = "list" /\ registering'[p].pc = "store"
      BY <1>1, <1>2 DEF Initialize, ListTools, Registration
    <2>2. DOMAIN registering' = DOMAIN registering
      BY DEF Initialize, ListTools
    <2>3. AttemptLeft' = AttemptLeft - 1
      BY <1>1, <1>3, <2>1, <2>2 DEF AttemptLeft
    <2>4. boot.current # {} /\ AttemptLeft \in Nat
      BY <1>1, <1>3, BootNumbers
    <2> QED
      BY <1>1, <2>3, <2>4, BootNumbers DEF BootGoesOn, BootLeft
  <1>4. CASE p # Boot
    <2>1. /\ DOMAIN registering' = DOMAIN registering
          /\ Boot \in DOMAIN registering => registering'[Boot] = registering[Boot]
      BY <1>4, SkillsTypes DEF Initialize, ListTools
    <2> QED
      BY <1>1, <2>1, SameAttempt
  <1> QED
    BY <1>3, <1>4

LEMMA RequestsPassBoot ==
  ASSUME SkillsInv, NEW q \in Request,
         \/ \E s \in Skill, u \in Url, a \in Auth : AddStarts(q, s, u, a)
         \/ AddStores(q) \/ AddFails(q)
  PROVE  BootGoesOn
  <1>1. q # Boot /\ q \in Process /\ boot' = boot
    BY RequestAssumption DEF Process, AddStarts, AddStores, AddFails
  <1>2. /\ Boot \in DOMAIN registering' <=> Boot \in DOMAIN registering
        /\ Boot \in DOMAIN registering => registering'[Boot] = registering[Boot]
    <2>1. CASE Ends(q)
      BY <1>1, <2>1, EndsType
    <2>2. ASSUME NEW s \in Skill, NEW u \in Url, NEW a \in Auth, AddStarts(q, s, u, a)
          PROVE  /\ Boot \in DOMAIN registering' <=> Boot \in DOMAIN registering
                 /\ Boot \in DOMAIN registering =>
                        registering'[Boot] = registering[Boot]
      <3>1. Fresh(s, u, a) \in Registration /\ Begins(q, Fresh(s, u, a))
        BY <2>2, FreshType DEF AddStarts
      <3> QED
        BY <1>1, <3>1, BeginsType
    <2> QED
      BY <2>1, <2>2 DEF AddStores, AddFails
  <1> QED
    BY <1>1, <1>2, SameAttempt

LEMMA BootStepsOn ==
  ASSUME SkillsInv, NEW s \in Configured,
         BootTakes(s) \/ BootAttempts(s) \/ BootStores(s) \/ BootFails(s)
             \/ BootSkips(s)
  PROVE  BootGoesOn
  <1>0. /\ boot \in BootState /\ boot.attempt \in Nat
        /\ boot.attempt <= MaxAttempts /\ MaxAttempts = 3
        /\ AttemptLeft \in 0..3 /\ BootLeft \in Nat
        /\ Boot \in DOMAIN registering <=> AttemptLeft # 0
    BY BootNumbers
  <1>1. CASE BootTakes(s)
    <2>1. boot'.todo = boot.todo \ {s} /\ s \in boot.todo
      BY <1>1 DEF BootTakes
    <2> QED
      BY <2>1 DEF BootGoesOn
  <1>2. CASE BootStores(s) \/ BootSkips(s)
    <2>1. boot'.current = {} /\ boot'.todo = boot.todo /\ boot.current # {}
      BY <1>0, <1>2 DEF BootStores, BootSkips, BootState
    <2>2. BootLeft' = 0 /\ BootLeft > 0
      BY <1>0, <2>1 DEF BootLeft
    <2> QED
      BY <2>1, <2>2 DEF BootGoesOn
  <1>3. CASE BootAttempts(s)
    <2>1. /\ boot'.current = boot.current /\ boot'.todo = boot.todo
          /\ boot.current # {} /\ boot'.attempt = boot.attempt + 1
          /\ Boot \notin DOMAIN registering
      BY <1>0, <1>3 DEF BootAttempts, BootState
    <2>2. AttemptLeft' \in 0..3
      <3>1. SkillsInv'
        BY <1>3, AttemptKeeps
      <3>2. registering'[Boot].pc \in {"initialize", "list", "store"}
        <4>1. s \in Skill /\ Home[s] \in Url /\ Token[s] \in Auth /\ Boot \in Process
          BY ConfiguredAssumption DEF Process
        <4>2. registering'[Boot] = Fresh(s, Home[s], Token[s])
          BY <1>3, <4>1, FreshType, BeginsType DEF BootAttempts
        <4> QED
          BY <4>1, <4>2, FreshType
      <3> QED
        BY <3>2 DEF AttemptLeft
    <2>3. AttemptLeft = 0
      BY <1>0, <2>1
    <2> QED
      BY <1>0, <2>1, <2>2, <2>3 DEF BootGoesOn, BootLeft
  <1>4. CASE BootFails(s)
    <2>1. /\ boot' = boot /\ boot.current # {} /\ Boot \in DOMAIN registering
          /\ Boot \notin DOMAIN registering'
      BY <1>4, EndsType DEF BootFails
    <2>2. AttemptLeft' = 0 /\ AttemptLeft > 0
      <3>1. AttemptLeft' = 0
        BY <2>1 DEF AttemptLeft
      <3> QED
        BY <1>0, <2>1, <3>1
    <2> QED
      BY <1>0, <2>1, <2>2 DEF BootGoesOn, BootLeft
  <1> QED
    BY <1>1, <1>2, <1>3, <1>4

(* auto_register_skills comes to an end: whatever the MCP servers answer   *)
(* and however often they restart, each of its steps takes one of the      *)
(* configurations off its list or leaves less of the three attempts for    *)
(* the one in hand; nobody adds to either.  It is what keeps a server that *)
(* refuses from keeping EdgeClaw from serving, fairness apart.             *)
THEOREM StartupsRunDown == SkillsSpec => []BootLeftIsNat /\ StartupRunsDown
  <1>1. SkillsInv => BootLeftIsNat
    BY BootNumbers DEF BootLeftIsNat
  <1>2. ASSUME SkillsInv, SkillsNext, crashes' = crashes PROVE BootGoesOn
    <2>1. CASE BootStep
      BY <1>2, <2>1, AttemptProceeds, BootStepsOn DEF BootStep
    <2>2. CASE RequestStep
      <3>1. \A wish \in Asked : wish[1] \in Skill /\ wish[2] \in Url /\ wish[3] \in Auth
        BY RequestAssumption
      <3> QED
        BY <1>2, <2>2, <3>1, AttemptProceeds, RequestsPassBoot DEF RequestStep
    <2>3. UNCHANGED <<boot, registering>> => BootGoesOn
      BY DEF BootGoesOn, BootLeft, AttemptLeft
    <2>4. ~ServerCrashes
      BY <1>2, SkillsTypes DEF ServerCrashes
    <2> QED
      BY <1>2, <2>1, <2>2, <2>3, <2>4 DEF SkillsNext, RemoveSkill, TurnLoads, McpRestarts
  <1>3. SkillsInv /\ [SkillsNext]_skillsVars =>
            [crashes' = crashes => BootGoesOn]_skillsVars
    BY <1>2
  <1> QED
    BY <1>1, <1>3, SkillsInvariant, PTL DEF SkillsSpec, StartupRunsDown

(***************************************************************************)
(* The configuration file.                                                 *)
(***************************************************************************)
(* While no two saves overlap, the temporary file is the saver's: empty    *)
(* until it has been written, and what is to be saved when it is renamed.  *)
OneSaves ==
    /\ \A c, d \in Command : Saving(c) /\ Saving(d) => c = d
    /\ \A c \in Command : command[c].pc = "write" =>
           command[c].target = "tmp" /\ tmp = Empty
    /\ \A c \in Command : command[c].pc = "rename" =>
           command[c].target = "tmp" /\ tmp = command[c].new
    /\ file \notin {Empty, Damaged}

(* A command that runs alone saves what it was asked for.                  *)
SavesItsOwn(c) ==
    /\ command[c].pc # "idle"
    /\ \A d \in Command \ {c} : command[d].pc = "idle"
    /\ command[c].pc \in {"save", "write", "rename"} => command[c].new \in Outcome(c)
    /\ command[c].pc = "write" => command[c].target = "tmp" /\ tmp = Empty
    /\ command[c].pc = "rename" => tmp = command[c].new

ConfigInv ==
    /\ ConfigTypeOK
    /\ ~raced => OneSaves
    /\ \A c \in Command : command[c].alone => SavesItsOwn(c)

-----------------------------------------------------------------------------
LEMMA ListField ==
  ASSUME NEW k \in Config, NEW l \in List, NEW f \in [Entry -> Nat]
  PROVE  [k EXCEPT !.list[l] = f] \in Config
  <1>1. k.list \in [List -> [Entry -> Nat]]
    BY DEF Config
  <1>2. [k.list EXCEPT ![l] = f] \in [List -> [Entry -> Nat]]
    BY <1>1
  <1> QED
    BY <1>2 DEF Config

LEMMA ModeField ==
  ASSUME NEW k \in Config, NEW m \in Mode
  PROVE  [k EXCEPT !.mode = m] \in Config
  BY DEF Config

LEMMA DefaultType == Default \in Config /\ Idle \in CommandState
  <1>1. Default \in Config
    BY SettingAssumption DEF Default, NoEntries, Config
  <1>2. [op |-> "edit"] \in Edit
    BY DEF Edit
  <1> HIDE DEF Default
  <1> QED
    BY <1>1, <1>2 DEF Idle, CommandState

LEMMA FirstRunType ==
  ASSUME NEW m \in Mode, NEW n \in Entry, NEW names
  PROVE  FirstRun(m, n, names) \in Config
  <1> DEFINE k == [Default EXCEPT !.mode = m]
             kk == [k EXCEPT !.list["personalities"] = Once({n})]
  <1>1. Once({n}) \in [Entry -> Nat] /\ Once(names) \in [Entry -> Nat]
    BY DEF Once
  <1>2. "personalities" \in List /\ "connectors" \in List
    BY DEF List
  <1>3. k \in Config
    BY DefaultType, ModeField
  <1> HIDE DEF k
  <1>4. kk \in Config
    BY <1>1, <1>2, <1>3, ListField
  <1> HIDE DEF kk
  <1>5. [kk EXCEPT !.list["connectors"] = Once(names)] \in Config
    BY <1>1, <1>2, <1>4, ListField
  <1> QED
    BY <1>5 DEF FirstRun, kk, k

LEMMA ResultType ==
  ASSUME NEW k \in Config, NEW e \in Edit
  PROVE  Result(k, e) \subseteq Config
  <1>1. CASE e.op = "set mode"
    <2>1. e.mode \in Mode
      BY <1>1 DEF Edit
    <2>2. [k EXCEPT !.mode = e.mode] \in Config
      BY <2>1 DEF Config
    <2> QED
      BY <1>1, <2>2 DEF Result
  <1>2. CASE e.op \in {"add", "wizard adds", "remove"}
    <2>1. e.list \in List /\ e.name \in Entry
      BY <1>2 DEF Edit
    <2>2. k.list[e.list][e.name] \in Nat
      BY <2>1 DEF Config
    <2>3. k.list[e.list][e.name] + 1 \in Nat
      BY <2>2
    <2>4. \A v \in Nat : [k EXCEPT !.list[e.list][e.name] = v] \in Config
      <3> SUFFICES ASSUME NEW v \in Nat
                   PROVE  [k EXCEPT !.list[e.list][e.name] = v] \in Config
        OBVIOUS
      <3>1. k.list \in [List -> [Entry -> Nat]] /\ k.list[e.list] \in [Entry -> Nat]
        BY <2>1 DEF Config
      <3>2. [k.list[e.list] EXCEPT ![e.name] = v] \in [Entry -> Nat]
        BY <2>1, <3>1
      <3>3. [k.list EXCEPT ![e.list] = [k.list[e.list] EXCEPT ![e.name] = v]]
              \in [List -> [Entry -> Nat]]
        BY <3>1, <3>2
      <3> QED
        BY <3>3 DEF Config
    <2>5. Pushed(k, e) \in Config /\ Retained(k, e) \in Config
      BY <2>3, <2>4 DEF Pushed, Retained
    <2> HIDE DEF Pushed, Retained
    <2>6. Result(k, e) \subseteq {k, Pushed(k, e), Retained(k, e)}
      BY <1>2 DEF Result
    <2> QED
      BY <2>5, <2>6
  <1>3. CASE e.op \in {"edit", "first run"}
    BY <1>3 DEF Result
  <1> QED
    BY <1>1, <1>2, <1>3 DEF Edit

(* The special contents differ from each other and from configurations.    *)
LEMMA Contents ==
  /\ \A x \in Config \cup {Invalid} : x \notin {Absent, Empty, Damaged}
  /\ Absent \notin {Empty, Damaged} /\ Empty # Damaged
  BY ContentAssumption

LEMMA LoadedType ==
  ASSUME ConfigTypeOK
  PROVE  Loaded(file) \subseteq Config /\ (file = Absent => Loaded(file) = {Default})
  <1>1. CASE file \in {Absent, Empty, Damaged}
    <2>0. file # Invalid
      BY <1>1, ContentAssumption
    <2>1. Loaded(file) = {Default}
      BY <1>1, <2>0 DEF Loaded
    <2> QED
      BY <2>1, DefaultType
  <1>2. CASE file = Invalid
    <2>1. file \notin {Absent, Empty, Damaged}
      BY <1>2, Contents
    <2>2. Loaded(file) = {}
      BY <1>2, <2>1 DEF Loaded
    <2> QED
      BY <2>1, <2>2
  <1>3. CASE file \in Config /\ file # Invalid
    <2>1. file \notin {Absent, Empty, Damaged}
      BY <1>3, Contents
    <2>2. Loaded(file) = {file}
      BY <1>3, <2>1 DEF Loaded
    <2> QED
      BY <1>3, <2>1, <2>2
  <1> QED
    BY <1>1, <1>2, <1>3 DEF ConfigTypeOK

-----------------------------------------------------------------------------
LEMMA SameOutcome ==
  ASSUME NEW c \in Command, file' = file,
         command'[c].edit = command[c].edit, command'[c].new = command[c].new
  PROVE  Outcome(c)' = Outcome(c)
  <1>1. Loaded(file') = Loaded(file)
    OBVIOUS
  <1> QED
    BY <1>1 DEF Outcome

LEMMA BegunGrows ==
  ASSUME ConfigTypeOK, begun < MaxCommands, begun' = begun + 1
  PROVE  begun' \in 0..MaxCommands
  <1>1. MaxCommands \in Nat /\ begun \in 0..MaxCommands
    BY SettingAssumption DEF ConfigTypeOK
  <1> QED
    BY <1>1

LEMMA StartKeepsConfig ==
  ASSUME ConfigInv, NEW c \in Command, NEW e \in Edit, NEW new \in Config,
         NEW p \in {"save", "editor"}, StartsCommand(c, e, new, p),
         p = "save" => \/ e.op = "first run" /\ file = Absent
                       \/ e.op = "edit" /\ new \in Loaded(file)
                       \/ /\ e.op \notin {"first run", "edit"}
                          /\ \E k \in Loaded(file) : new \in Result(k, e)
  PROVE  ConfigInv'
  <1> DEFINE r == [pc |-> p, edit |-> e, new |-> new, target |-> "none",
                   alone |-> NobodyElse(c)]
  <1> USE DEF ConfigInv
  <1>1. /\ command[c].pc = "idle" /\ begun' = begun + 1 /\ begun < MaxCommands
        /\ UNCHANGED <<file, tmp, raced>>
        /\ command' = [d \in Command |-> IF d = c THEN r
                          ELSE [command[d] EXCEPT !.alone = FALSE]]
    BY DEF StartsCommand
  <1>2. command \in [Command -> CommandState]
    BY DEF ConfigTypeOK
  <1>3. /\ r \in CommandState /\ r.pc = p /\ r.edit = e /\ r.new = new
        /\ r.target = "none" /\ r.alone = NobodyElse(c)
    BY DEF CommandState, NobodyElse
  <1> HIDE DEF r
  <1>4. \A d \in Command \ {c} :
            /\ command'[d] \in CommandState /\ command'[d].alone = FALSE
            /\ command'[d].pc = command[d].pc
            /\ command'[d].target = command[d].target
            /\ command'[d].new = command[d].new
    <2> SUFFICES ASSUME NEW d \in Command \ {c}
                 PROVE  /\ command'[d] \in CommandState /\ command'[d].alone = FALSE
                        /\ command'[d].pc = command[d].pc
                        /\ command'[d].target = command[d].target
                        /\ command'[d].new = command[d].new
      OBVIOUS
    <2>1. command[d] \in CommandState
      BY <1>2
    <2> QED
      BY <1>1, <2>1 DEF CommandState
  <1>5. command'[c] = r
    BY <1>1
  <1>6. ConfigTypeOK'
    <2>1. command' \in [Command -> CommandState]
      <3> DEFINE f(d) == IF d = c THEN r ELSE [command[d] EXCEPT !.alone = FALSE]
      <3>1. command' = [d \in Command |-> f(d)]
        BY <1>1
      <3>2. \A d \in Command : f(d) \in CommandState
        <4>1. \A d \in Command : f(d) = command'[d]
          BY <3>1
        <4> HIDE DEF f
        <4> QED
          BY <1>3, <1>4, <1>5, <4>1
      <3> HIDE DEF f
      <3>3. [d \in Command |-> f(d)] \in [Command -> CommandState]
        BY <3>2
      <3> QED
        BY <3>1, <3>3, Zenon
    <2>2. begun' \in 0..MaxCommands
      BY <1>1, BegunGrows
    <2>3. \A d \in Command : command'[d].target = "tmp" => tmp # Absent
      BY <1>3, <1>4, <1>5 DEF ConfigTypeOK
    <2> QED
      BY <1>1, <2>1, <2>2, <2>3 DEF ConfigTypeOK
  <1>7. ~raced => OneSaves'
    BY ZenonT(60), <1>1, <1>3, <1>4, <1>5 DEF OneSaves, Saving
  <1>8. ASSUME NEW d \in Command, command'[d].alone PROVE SavesItsOwn(d)'
    <2>1. d = c /\ NobodyElse(c)
      BY <1>3, <1>4, <1>5, <1>8
    <2>2. \A u \in Command \ {c} : command'[u].pc = "idle"
      BY <1>4, <2>1 DEF NobodyElse
    <2>3. p = "save" => new \in Outcome(c)'
      BY <1>1, <1>3, <1>5 DEF Outcome
    <2> QED
      BY <1>3, <1>5, <2>1, <2>2, <2>3 DEF SavesItsOwn
  <1> QED
    BY <1>1, <1>6, <1>7, <1>8

(* A step of command c that gives it the record r and starts nothing.      *)
LEMMA CommandSteps ==
  ASSUME ConfigInv, NEW c \in Command, command[c].pc # "idle",
         NEW r \in CommandState, command' = [command EXCEPT ![c] = r], UNCHANGED begun,
         raced' \in BOOLEAN, ~raced' => ~raced,
         file' \in Config \cup {Absent, Empty, Damaged, Invalid},
         tmp' \in Config \cup {Absent, Empty, Damaged},
         tmp' = Absent => tmp = Absent, r.target = "tmp" => tmp' # Absent,
         ~raced' => /\ file' \notin {Empty, Damaged}
                    /\ tmp' # tmp => \A d \in Command \ {c} : ~Saving(d)
                    /\ r.pc \in {"write", "rename"} =>
                           /\ \A d \in Command \ {c} : ~Saving(d)
                           /\ r.target = "tmp"
                           /\ r.pc = "write" => tmp' = Empty
                           /\ r.pc = "rename" => tmp' = r.new,
         r.alone => /\ command[c].alone /\ SavesItsOwn(c)'
  PROVE  ConfigInv'
  <1> USE DEF ConfigInv
  <1>1. /\ command' \in [Command -> CommandState] /\ command'[c] = r
        /\ \A d \in Command \ {c} : command'[d] = command[d]
    BY DEF ConfigTypeOK
  <1>2. ConfigTypeOK'
    BY <1>1 DEF ConfigTypeOK
  <1>3. ASSUME ~raced' PROVE OneSaves'
    <2>1. OneSaves
      BY <1>3
    <2>2. \A d, u \in Command : Saving(d)' /\ Saving(u)' => d = u
      BY <1>1, <1>3, <2>1 DEF OneSaves, Saving
    <2>3. \A d \in Command : command'[d].pc = "write" =>
              command'[d].target = "tmp" /\ tmp' = Empty
      BY <1>1, <1>3, <2>1 DEF OneSaves, Saving
    <2>4. \A d \in Command : command'[d].pc = "rename" =>
              command'[d].target = "tmp" /\ tmp' = command'[d].new
      BY <1>1, <1>3, <2>1 DEF OneSaves, Saving
    <2> QED
      BY <1>3, <2>2, <2>3, <2>4 DEF OneSaves
  <1>4. ASSUME NEW d \in Command, command'[d].alone PROVE SavesItsOwn(d)'
    <2>1. CASE d = c
      BY <1>1, <1>4, <2>1
    <2>2. CASE d # c
      <3>1. command[d].alone /\ SavesItsOwn(d)
        BY <1>1, <1>4, <2>2
      <3> QED
        BY <2>2, <3>1 DEF SavesItsOwn
    <2> QED
      BY <2>1, <2>2
  <1> QED
    BY <1>2, <1>3, <1>4

(* What c has open is the temporary file, while no two saves overlap.      *)
LEMMA WritesToFile ==
  ASSUME ConfigInv, NEW c \in Command, Saving(c),
         NEW x \in Config \cup {Damaged}, WritesTo(c, x)
  PROVE  /\ file' \in Config \cup {Absent, Empty, Damaged, Invalid}
         /\ tmp' \in Config \cup {Absent, Empty, Damaged}
         /\ tmp' = Absent => tmp = Absent
         /\ command[c].target = "tmp" => tmp' = x /\ file' = file
         /\ ~raced => /\ command[c].target = "tmp"
                      /\ file' = file /\ file \notin {Empty, Damaged}
                      /\ \A d \in Command \ {c} : ~Saving(d)
  <1>1. x \in Config \cup {Damaged} /\ x # Absent
    BY ContentAssumption
  <1>2. /\ tmp' = IF command[c].target = "tmp" THEN x ELSE tmp
        /\ file' = IF command[c].target = "file" THEN x ELSE file
    BY DEF WritesTo
  <1>3. ~raced => command[c].target = "tmp" /\ file \notin {Empty, Damaged}
                    /\ \A d \in Command \ {c} : ~Saving(d)
    BY DEF ConfigInv, OneSaves, Saving
  <1> QED
    BY <1>1, <1>2, <1>3 DEF ConfigInv, ConfigTypeOK

LEMMA BecomesIdle ==
  ASSUME ConfigInv, NEW c \in Command, command[c].pc # "idle",
         command' = [command EXCEPT ![c] = Idle], UNCHANGED <<begun, raced>>,
         file' \in Config \cup {Absent, Empty, Damaged, Invalid},
         tmp' \in Config \cup {Absent, Empty, Damaged},
         tmp' = Absent => tmp = Absent,
         ~raced => /\ file' \notin {Empty, Damaged}
                   /\ tmp' # tmp => \A d \in Command \ {c} : ~Saving(d)
  PROVE  ConfigInv'
  <1>1. /\ Idle \in CommandState /\ Idle.pc = "idle" /\ Idle.target = "none"
        /\ Idle.alone = FALSE
    BY DefaultType DEF Idle
  <1>2. raced' \in BOOLEAN /\ (~raced' => ~raced)
    BY DEF ConfigInv, ConfigTypeOK
  <1> QED
    BY <1>1, <1>2, CommandSteps

LEMMA RecordFields ==
  ASSUME NEW s \in CommandState, NEW p \in {"write", "rename"}
  PROVE  /\ [s EXCEPT !.pc = p] \in CommandState
         /\ [s EXCEPT !.pc = p].pc = p
         /\ [s EXCEPT !.pc = p].target = s.target
         /\ [s EXCEPT !.pc = p].alone = s.alone
         /\ [s EXCEPT !.pc = p].new = s.new
         /\ [s EXCEPT !.pc = p].edit = s.edit
         /\ [s EXCEPT !.pc = p, !.target = "tmp"] \in CommandState
         /\ [s EXCEPT !.pc = p, !.target = "tmp"].pc = p
         /\ [s EXCEPT !.pc = p, !.target = "tmp"].target = "tmp"
         /\ [s EXCEPT !.pc = p, !.target = "tmp"].alone = s.alone
         /\ [s EXCEPT !.pc = p, !.target = "tmp"].new = s.new
         /\ [s EXCEPT !.pc = p, !.target = "tmp"].edit = s.edit
  BY DEF CommandState

LEMMA TruncateKeepsConfig ==
  ASSUME ConfigInv, NEW c \in Command, Truncates(c)
  PROVE  ConfigInv'
  <1> DEFINE r == [command[c] EXCEPT !.pc = "write", !.target = "tmp"]
  <1>1. /\ command[c].pc = "save" /\ tmp' = Empty
        /\ command' = [command EXCEPT ![c] = r]
        /\ UNCHANGED <<file, begun>>
        /\ raced' = (raced \/ \E d \in Command : command[d].pc \in {"write", "rename"})
    BY DEF Truncates
  <1>2. command[c] \in CommandState
    BY DEF ConfigInv, ConfigTypeOK
  <1>3. /\ r \in CommandState /\ r.pc = "write" /\ r.target = "tmp"
        /\ r.alone = command[c].alone /\ r.new = command[c].new
        /\ r.edit = command[c].edit
    BY <1>2, RecordFields
  <1> HIDE DEF r
  <1>4. /\ command'[c] = r /\ \A d \in Command \ {c} : command'[d] = command[d]
    BY <1>1 DEF ConfigInv, ConfigTypeOK
  <1>5. /\ raced' \in BOOLEAN /\ (~raced' => ~raced)
        /\ ~raced' => \A d \in Command : ~Saving(d)
    BY <1>1 DEF Saving, ConfigInv, ConfigTypeOK
  <1>6. Empty # Absent
    BY ContentAssumption
  <1>7. file' \in Config \cup {Absent, Empty, Damaged, Invalid}
        /\ tmp' \in Config \cup {Absent, Empty, Damaged}
    BY <1>1 DEF ConfigInv, ConfigTypeOK
  <1>8. ~raced' => file' \notin {Empty, Damaged}
    BY <1>1, <1>5 DEF ConfigInv, OneSaves
  <1>9. r.alone => command[c].alone /\ SavesItsOwn(c)'
    <2> SUFFICES ASSUME r.alone PROVE SavesItsOwn(c)'
      BY <1>3
    <2>1. SavesItsOwn(c)
      BY <1>3 DEF ConfigInv
    <2>2. Outcome(c)' = Outcome(c)
      BY <1>1, <1>3, <1>4, SameOutcome
    <2> QED
      BY <1>1, <1>3, <1>4, <2>1, <2>2 DEF SavesItsOwn
  <1> QED
    BY <1>1, <1>3, <1>5, <1>6, <1>7, <1>8, <1>9, CommandSteps

LEMMA WriteKeepsConfig ==
  ASSUME ConfigInv, NEW c \in Command, Writes(c)
  PROVE  ConfigInv'
  <1> DEFINE r == [command[c] EXCEPT !.pc = "rename"]
  <1>1. /\ command[c].pc = "write" /\ command' = [command EXCEPT ![c] = r]
        /\ UNCHANGED <<begun, raced>>
        /\ \/ WritesTo(c, command[c].new)
           \/ ~Holds(c, Empty) /\ WritesTo(c, Damaged)
    BY DEF Writes
  <1>2. command[c] \in CommandState /\ command[c].new \in Config
    BY DEF ConfigInv, ConfigTypeOK, CommandState
  <1>3. /\ r \in CommandState /\ r.pc = "rename" /\ r.target = command[c].target
        /\ r.alone = command[c].alone /\ r.new = command[c].new
        /\ r.edit = command[c].edit
    BY <1>2, RecordFields
  <1> HIDE DEF r
  <1>4. /\ command'[c] = r /\ \A d \in Command \ {c} : command'[d] = command[d]
    BY <1>1 DEF ConfigInv, ConfigTypeOK
  <1>5. raced' \in BOOLEAN /\ (~raced' => ~raced) /\ Saving(c)
    BY <1>1 DEF Saving, ConfigInv, ConfigTypeOK
  <1>6. PICK x \in Config \cup {Damaged} : WritesTo(c, x)
    BY <1>1, <1>2
  <1>7. /\ file' \in Config \cup {Absent, Empty, Damaged, Invalid}
        /\ tmp' \in Config \cup {Absent, Empty, Damaged}
        /\ tmp' = Absent => tmp = Absent
        /\ command[c].target = "tmp" => tmp' = x /\ file' = file
        /\ ~raced => /\ command[c].target = "tmp"
                     /\ file' = file /\ file \notin {Empty, Damaged}
                     /\ \A d \in Command \ {c} : ~Saving(d)
    BY <1>5, <1>6, WritesToFile
  <1>8. command[c].target = "tmp" /\ tmp = Empty =>
            tmp' = command[c].new /\ file' = file
    <2> SUFFICES ASSUME command[c].target = "tmp", tmp = Empty
                 PROVE  tmp' = command[c].new /\ file' = file
      OBVIOUS
    <2>1. Holds(c, Empty)
      BY DEF Holds
    <2>2. WritesTo(c, command[c].new)
      BY <1>1, <2>1
    <2> QED
      BY <2>2 DEF WritesTo
  <1>9. ~raced => tmp' = r.new
    BY <1>1, <1>3, <1>8 DEF ConfigInv, OneSaves
  <1>10. r.target = "tmp" => tmp' # Absent
    BY <1>3, <1>7, ContentAssumption
  <1>11. r.alone => command[c].alone /\ SavesItsOwn(c)'
    <2> SUFFICES ASSUME r.alone PROVE SavesItsOwn(c)'
      BY <1>3
    <2>1. SavesItsOwn(c) /\ command[c].target = "tmp" /\ tmp = Empty
      BY <1>1, <1>3 DEF ConfigInv, SavesItsOwn
    <2>2. file' = file /\ tmp' = command[c].new
      BY <1>8, <2>1
    <2>3. Outcome(c)' = Outcome(c)
      BY <1>3, <1>4, <2>2, SameOutcome
    <2> QED
      BY <1>1, <1>3, <1>4, <2>1, <2>2, <2>3 DEF SavesItsOwn
  <1> QED
    BY <1>1, <1>3, <1>5, <1>7, <1>9, <1>10, <1>11, CommandSteps

LEMMA WriteFailsKeepsConfig ==
  ASSUME ConfigInv, NEW c \in Command, WriteFails(c)
  PROVE  ConfigInv'
  <1>1. /\ command[c].pc = "write" /\ WritesTo(c, Damaged)
        /\ command' = [command EXCEPT ![c] = Idle] /\ UNCHANGED <<begun, raced>>
    BY DEF WriteFails
  <1>2. Saving(c)
    BY <1>1 DEF Saving
  <1>3. /\ file' \in Config \cup {Absent, Empty, Damaged, Invalid}
        /\ tmp' \in Config \cup {Absent, Empty, Damaged}
        /\ tmp' = Absent => tmp = Absent
        /\ ~raced => /\ file' = file /\ file \notin {Empty, Damaged}
                     /\ \A d \in Command \ {c} : ~Saving(d)
    BY <1>1, <1>2, WritesToFile
  <1> QED
    BY <1>1, <1>3, BecomesIdle

(* The rename is the only step that moves what others have open.           *)
LEMMA RenameKeepsConfig ==
  ASSUME ConfigInv, NEW c \in Command, Renames(c)
  PROVE  ConfigInv'
  <1> DEFINE e == [command[c] EXCEPT !.pc = "editor", !.target = "none"]
             m(d) == [command[d] EXCEPT !.target = Moved(@)]
             f(d) == IF d # c THEN m(d)
                     ELSE IF command[c].edit.op # "edit" THEN Idle ELSE e
  <1>1. /\ command[c].pc = "rename" /\ tmp # Absent
        /\ file' = tmp /\ tmp' = Absent /\ UNCHANGED <<begun, raced>>
        /\ command' = [d \in Command |-> f(d)]
    BY DEF Renames
  <1>2. \A d \in Command : command[d] \in CommandState
    BY DEF ConfigInv, ConfigTypeOK
  <1>3. /\ e \in CommandState /\ e.pc = "editor" /\ e.target = "none"
        /\ e.alone = command[c].alone /\ e.new = command[c].new
        /\ e.edit = command[c].edit
    BY <1>2 DEF CommandState
  <1>4. \A d \in Command : /\ m(d) \in CommandState /\ m(d).pc = command[d].pc
                            /\ m(d).target = Moved(command[d].target)
                            /\ m(d).alone = command[d].alone
                            /\ m(d).new = command[d].new
                            /\ m(d).edit = command[d].edit
    <2> SUFFICES ASSUME NEW d \in Command
                 PROVE  /\ m(d) \in CommandState /\ m(d).pc = command[d].pc
                        /\ m(d).target = Moved(command[d].target)
                        /\ m(d).alone = command[d].alone
                        /\ m(d).new = command[d].new
                        /\ m(d).edit = command[d].edit
      OBVIOUS
    <2>1. command[d] \in CommandState
      BY <1>2
    <2>2. Moved(command[d].target) \in {"none", "tmp", "file", "gone"}
      BY <2>1 DEF Moved, CommandState
    <2> HIDE DEF Moved
    <2> QED
      BY <2>1, <2>2 DEF CommandState
  <1>5. \A d \in Command : Moved(command[d].target) # "tmp"
    BY <1>2 DEF Moved, CommandState
  <1>6. /\ Idle \in CommandState /\ Idle.pc = "idle" /\ Idle.target = "none"
        /\ Idle.alone = FALSE
    BY DefaultType DEF Idle
  <1> HIDE DEF e, m, Moved
  <1>7. /\ \A d \in Command \ {c} : command'[d] = m(d)
        /\ command'[c] = IF command[c].edit.op # "edit" THEN Idle ELSE e
    BY <1>1
  <1>8. \A d \in Command : /\ f(d) \in CommandState /\ command'[d] = f(d)
                            /\ f(d).target # "tmp"
    BY <1>1, <1>3, <1>4, <1>5, <1>6
  <1> HIDE DEF f
  <1>9. ConfigTypeOK'
    <2>1. command' \in [Command -> CommandState]
      BY <1>1, <1>8
    <2>2. \A d \in Command : command'[d].target # "tmp"
      BY <1>8
    <2> QED
      BY <1>1, <2>1, <2>2 DEF ConfigInv, ConfigTypeOK
  <1>10. ASSUME ~raced' PROVE OneSaves'
    <2>1. OneSaves
      BY <1>1, <1>10 DEF ConfigInv
    <2>2. \A d \in Command \ {c} : ~Saving(d)
      BY <1>1, <2>1 DEF OneSaves, Saving
    <2>3. \A d \in Command : ~(Saving(d)')
      BY <1>3, <1>4, <1>6, <1>7, <2>2 DEF Saving
    <2>4. tmp \in Config
      BY <1>1, <1>2, <2>1 DEF OneSaves, CommandState
    <2>5. file' \notin {Empty, Damaged}
      BY <1>1, <2>4, ContentAssumption
    <2> QED
      BY <2>3, <2>5 DEF OneSaves, Saving
  <1>11. ASSUME NEW d \in Command, command'[d].alone PROVE SavesItsOwn(d)'
    <2>1. CASE d = c
      <3>1. command'[c] = e /\ command[c].alone
        BY <1>3, <1>6, <1>7, <1>11, <2>1
      <3>2. SavesItsOwn(c)
        BY <3>1 DEF ConfigInv
      <3> QED
        BY <1>3, <1>4, <1>7, <2>1, <3>1, <3>2 DEF SavesItsOwn
    <2>2. CASE d # c
      <3>1. command[d].alone
        BY <1>4, <1>7, <1>11, <2>2
      <3>2. command[c].pc = "idle"
        BY <2>2, <3>1 DEF ConfigInv, SavesItsOwn
      <3> QED
        BY <1>1, <3>2
    <2> QED
      BY <2>1, <2>2
  <1> QED
    BY <1>9, <1>10, <1>11 DEF ConfigInv

LEMMA ConfigStep ==
  ASSUME ConfigInv, [ConfigNext]_configVars
  PROVE  ConfigInv'
  <1>0. ConfigTypeOK
    BY DEF ConfigInv
  <1>1. ASSUME NEW c \in Command, NEW e \in Edit, Loads(c, e) PROVE ConfigInv'
    <2>0. PICK k \in Loaded(file) :
              \E x \in Result(k, e) : StartsCommand(c, e, x, "save")
      BY <1>1 DEF Loads
    <2>1. PICK new \in Result(k, e) : StartsCommand(c, e, new, "save")
      BY <2>0
    <2>2. k \in Config /\ new \in Config
      BY <1>0, <2>1, LoadedType, ResultType
    <2>3. e.op \notin {"first run", "edit"}
      BY <2>1 DEF Result
    <2> QED
      BY <2>1, <2>2, <2>3, StartKeepsConfig
  <1>2. ASSUME NEW c \in Command, NEW m \in Mode, NEW n \in Entry, NEW names,
               RunsFirst(c, FirstRun(m, n, names))
        PROVE  ConfigInv'
    <2> DEFINE new == FirstRun(m, n, names)
               e == [op |-> "first run", mode |-> new.mode]
    <2>1. new \in Config
      BY FirstRunType
    <2>2. file = Absent /\ StartsCommand(c, e, new, "save")
      BY <1>2 DEF RunsFirst
    <2> HIDE DEF new
    <2>3. e \in Edit /\ e.op = "first run"
      BY <2>1 DEF Edit, Config
    <2> HIDE DEF e
    <2> QED
      BY <2>1, <2>2, <2>3, StartKeepsConfig
  <1>3. ASSUME NEW c \in Command, OpensEditor(c) PROVE ConfigInv'
    <2> DEFINE e == [op |-> "edit"]
               p == IF file = Absent THEN "save" ELSE "editor"
    <2>1. e \in Edit /\ e.op = "edit" /\ StartsCommand(c, e, Default, p)
      BY <1>3 DEF OpensEditor, Edit
    <2>2. p \in {"save", "editor"} /\ (p = "save" => Default \in Loaded(file))
      BY <1>0, LoadedType
    <2> HIDE DEF e, p
    <2> QED
      BY <2>1, <2>2, DefaultType, StartKeepsConfig
  <1>4. ASSUME NEW c \in Command, Dies(c) \/ EditorCloses(c) PROVE ConfigInv'
    <2>1. /\ command[c].pc # "idle" /\ command' = [command EXCEPT ![c] = Idle]
          /\ UNCHANGED <<file, tmp, begun, raced>>
      BY <1>4 DEF Dies, EditorCloses
    <2>2. /\ file \in Config \cup {Absent, Empty, Damaged, Invalid}
          /\ tmp \in Config \cup {Absent, Empty, Damaged}
          /\ ~raced => file \notin {Empty, Damaged}
      BY DEF ConfigInv, ConfigTypeOK, OneSaves
    <2> QED
      BY <2>1, <2>2, BecomesIdle
  <1>5. ASSUME NEW c \in Command, NEW content \in Typed, EditorSaves(c, content)
        PROVE  ConfigInv'
    <2>1. /\ command[c].pc = "editor" /\ file' = content
          /\ UNCHANGED <<tmp, command, begun, raced>>
      BY <1>5 DEF EditorSaves
    <2>2. /\ command[c] \in CommandState /\ command' = [command EXCEPT ![c] = command[c]]
      BY <2>1 DEF ConfigInv, ConfigTypeOK
    <2>3. /\ content \in Config \cup {Invalid} /\ content \notin {Empty, Damaged}
      BY SettingAssumption, ContentAssumption
    <2>4. /\ tmp \in Config \cup {Absent, Empty, Damaged} /\ raced \in BOOLEAN
          /\ command[c].target = "tmp" => tmp # Absent
      BY DEF ConfigInv, ConfigTypeOK
    <2>5. command[c].alone => SavesItsOwn(c)'
      BY <2>1 DEF ConfigInv, SavesItsOwn
    <2>6. command[c].pc # "idle" /\ command[c].pc \notin {"write", "rename"}
      BY <2>1
    <2> QED
      BY <2>1, <2>2, <2>3, <2>4, <2>5, <2>6, CommandSteps
  <1>6. CASE UNCHANGED configVars
    <2>1. UNCHANGED <<file, tmp, command, begun, raced>>
      BY <1>6 DEF configVars
    <2>2. ConfigTypeOK' /\ (~raced' => OneSaves')
      BY <2>1 DEF ConfigInv, ConfigTypeOK, OneSaves, Saving
    <2>3. ASSUME NEW c \in Command, command'[c].alone PROVE SavesItsOwn(c)'
      <3>1. Outcome(c)' = Outcome(c)
        BY <2>1, SameOutcome
      <3> QED
        BY <2>1, <2>3, <3>1 DEF ConfigInv, SavesItsOwn
    <2> QED
      BY <2>2, <2>3 DEF ConfigInv
  <1> QED
    BY <1>1, <1>2, <1>3, <1>4, <1>5, <1>6, TruncateKeepsConfig, WriteKeepsConfig,
       WriteFailsKeepsConfig, RenameKeepsConfig DEF ConfigNext

LEMMA ConfigInvariant == ConfigSpec => []ConfigInv
  <1>1. ConfigInit => ConfigInv
    <2> SUFFICES ASSUME ConfigInit PROVE ConfigInv
      OBVIOUS
    <2>1. /\ Idle \in CommandState /\ Idle.pc = "idle" /\ Idle.target = "none"
          /\ Idle.alone = FALSE
      BY DefaultType DEF Idle
    <2>2. Absent \notin {Empty, Damaged}
      BY ContentAssumption
    <2>3. ConfigTypeOK
      <3>1. /\ file = Absent /\ tmp = Absent /\ begun = 0 /\ raced = FALSE
            /\ command = [c \in Command |-> Idle]
        BY DEF ConfigInit
      <3>2. 0 \in 0..MaxCommands
        BY SettingAssumption
      <3> HIDE DEF Idle
      <3> QED
        BY <2>1, <3>1, <3>2 DEF ConfigTypeOK
    <2> QED
      BY <2>1, <2>2, <2>3 DEF ConfigInit, ConfigInv, OneSaves, Saving
  <1>2. ConfigInv /\ [ConfigNext]_configVars => ConfigInv'
    BY ConfigStep
  <1> QED
    BY <1>1, <1>2, PTL DEF ConfigSpec

(* The files, the commands and what each of them is going to save stay of  *)
(* their types; a descriptor of the temporary file means that there is one *)
(* (save_config, run_edit).                                                *)
THEOREM ConfigTypeCorrect == ConfigSpec => []ConfigTypeOK
  <1>1. ConfigInv => ConfigTypeOK
    BY DEF ConfigInv
  <1> QED
    BY ConfigInvariant, <1>1, PTL

(* The file is never a part of a configuration or a mixture of two, as     *)
(* long as no two saves overlap, whatever fails or dies (save_config).     *)
THEOREM FileStaysWhole == ConfigSpec => []ConfigIsWhole
  <1>1. ConfigInv => ConfigIsWhole
    BY DEF ConfigInv, OneSaves, ConfigIsWhole
  <1> QED
    BY ConfigInvariant, <1>1, PTL

-----------------------------------------------------------------------------
(* What AtomicFile sees of the saves.                                      *)
Saves == [c \in Command |-> IF Saving(c) THEN command[c].new ELSE Absent]

LEMMA NoSaveUnchanged ==
  ASSUME ConfigInv, UNCHANGED <<file, raced>>,
         \A c \in Command : /\ Saving(c)' <=> Saving(c)
                            /\ Saving(c) => command'[c].new = command[c].new
  PROVE  UNCHANGED <<file, Saves, raced>>
  BY DEF Saves, Saving

LEMMA SaveOf ==
  ASSUME ConfigInv
  PROVE  \A c \in Command : /\ Saving(c) => Saves[c] = command[c].new
                            /\ Saves[c] # Absent <=> Saving(c)
  <1> SUFFICES ASSUME NEW c \in Command
               PROVE  /\ Saving(c) => Saves[c] = command[c].new
                      /\ Saves[c] # Absent <=> Saving(c)
    OBVIOUS
  <1>1. command[c].new \in Config
    BY DEF ConfigInv, ConfigTypeOK, CommandState
  <1>2. command[c].new # Absent
    BY <1>1, ContentAssumption
  <1>3. Saves[c] = IF Saving(c) THEN command[c].new ELSE Absent
    BY DEF Saves
  <1> QED
    BY <1>2, <1>3

LEMMA SaveBegins ==
  ASSUME ConfigInv, ConfigInv', NEW c \in Command, Truncates(c)
  PROVE  Register!Begin(c)
  <1>1. /\ command[c].pc = "save" /\ file' = file
        /\ raced' = (raced \/ \E d \in Command : Saving(d))
        /\ \A d \in Command \ {c} : command'[d] = command[d]
    BY DEF Truncates, Saving, ConfigInv, ConfigTypeOK
  <1>2. command'[c].pc = "write" /\ command'[c].new = command[c].new
    <2>1. command[c] \in CommandState
      BY DEF ConfigInv, ConfigTypeOK
    <2> DEFINE r == [command[c] EXCEPT !.pc = "write", !.target = "tmp"]
    <2>2. command'[c] = r
      BY DEF Truncates, ConfigInv, ConfigTypeOK
    <2>3. r.pc = "write" /\ r.new = command[c].new
      BY <2>1, RecordFields
    <2> HIDE DEF r
    <2> QED
      BY <2>2, <2>3
  <1>3. Saves[c] = Absent
    BY <1>1, SaveOf DEF Saving
  <1>4. Saves' = [Saves EXCEPT ![c] = command[c].new]
    BY <1>1, <1>2 DEF Saves, Saving
  <1>5. Saves'[c] = command[c].new /\ command[c].new \in Config
    BY <1>4 DEF Saves, ConfigInv, ConfigTypeOK, CommandState
  <1>6. raced' = (raced \/ \E d \in Command : Saves[d] # Absent)
    BY <1>1, SaveOf
  <1>7. Saves' = [Saves EXCEPT ![c] = Saves'[c]]
    BY <1>4, <1>5
  <1> QED
    BY <1>1, <1>3, <1>5, <1>6, <1>7 DEF Register!Begin, Saves

(* A command that becomes idle, or opens its editor, is not saving.        *)
LEMMA LeavesSave ==
  ASSUME ConfigInv, NEW c \in Command, NEW r,
         command' = [command EXCEPT ![c] = r], r.pc \in {"idle", "editor"}
  PROVE  Saves' = [Saves EXCEPT ![c] = Absent]
  <1>1. command'[c] = r /\ \A d \in Command \ {c} : command'[d] = command[d]
    BY DEF ConfigInv, ConfigTypeOK
  <1>2. command'[c].pc \notin {"write", "rename"}
    BY <1>1
  <1> QED
    BY ONLY <1>1, <1>2, c \in Command DEF Saves, Saving

LEMMA SaveAborts ==
  ASSUME ConfigInv, NEW c \in Command, command' = [command EXCEPT ![c] = Idle],
         UNCHANGED <<file, raced>>
  PROVE  Register!Abort(c) \/ UNCHANGED <<file, Saves, raced>>
  <1>1. Saves' = [Saves EXCEPT ![c] = Absent]
    <2>1. Idle.pc = "idle"
      BY DEF Idle
    <2> HIDE DEF Idle
    <2> QED
      BY <2>1, LeavesSave
  <1>2. CASE Saves[c] # Absent
    BY <1>1, <1>2 DEF Register!Abort, Saves
  <1>3. CASE Saves[c] = Absent
    <2>1. Saves' = Saves
      BY <1>1, <1>3 DEF Saves
    <2> QED
      BY <2>1
  <1> QED
    BY <1>2, <1>3

(* The rename shows what c has written, which is what it was to save.      *)
LEMMA SaveCommits ==
  ASSUME ConfigInv, NEW c \in Command, Renames(c), ~raced
  PROVE  Register!Commit(c)
  <1> DEFINE m(d) == [command[d] EXCEPT !.target = Moved(@)]
             e == [command[c] EXCEPT !.pc = "editor", !.target = "none"]
  <1>1. /\ command[c].pc = "rename" /\ file' = tmp /\ raced' = raced
        /\ \A d \in Command \ {c} : command'[d] = m(d)
        /\ command'[c] \in {Idle, e}
    BY DEF Renames
  <1>2. \A d \in Command : m(d).pc = command[d].pc /\ m(d).new = command[d].new
    BY DEF ConfigInv, ConfigTypeOK, CommandState
  <1>3. Idle.pc = "idle" /\ e.pc = "editor"
    BY DEF Idle, ConfigInv, ConfigTypeOK, CommandState
  <1> HIDE DEF m, e, Idle
  <1>4. Saves' = [Saves EXCEPT ![c] = Absent]
    BY <1>1, <1>2, <1>3 DEF Saves, Saving
  <1>5. Saves[c] = command[c].new /\ Saves[c] # Absent
    BY <1>1, SaveOf DEF Saving
  <1>6. tmp = command[c].new
    BY <1>1 DEF ConfigInv, OneSaves
  <1> QED
    BY <1>1, <1>4, <1>5, <1>6 DEF Register!Commit, Saves

(* While no two saves overlap, every step of a command is one of its save  *)
(* or none; otherwise nothing is promised.                                 *)
LEMMA AtomicStep ==
  ASSUME ConfigInv, ConfigInv', [ConfigNext]_configVars
  PROVE  Register!Next \/ UNCHANGED <<file, Saves, raced>>
  <1>1. CASE raced
    <2>1. raced'
      BY <1>1 DEF ConfigNext, configVars, Loads, RunsFirst, OpensEditor,
             StartsCommand, Truncates, Writes, WriteFails, Renames, Dies,
             EditorSaves, EditorCloses
    <2> QED
      BY <1>1, <2>1 DEF Register!Next, Register!AnythingGoes
  <1>2. ASSUME NEW c \in Command, NEW e, NEW new, NEW p \in {"save", "editor"},
               StartsCommand(c, e, new, p)
        PROVE  UNCHANGED <<file, Saves, raced>>
    <2>1. /\ command[c].pc = "idle" /\ UNCHANGED <<file, raced>>
          /\ command'[c].pc \in {"save", "editor"}
          /\ \A d \in Command \ {c} :
                 command'[d] = [command[d] EXCEPT !.alone = FALSE]
      BY <1>2 DEF StartsCommand
    <2>2. \A d \in Command \ {c} : /\ command'[d].pc = command[d].pc
                                   /\ command'[d].new = command[d].new
      BY <2>1 DEF ConfigInv, ConfigTypeOK, CommandState
    <2>3. \A d \in Command : /\ Saving(d)' <=> Saving(d)
                             /\ Saving(d) => command'[d].new = command[d].new
      BY <2>1, <2>2 DEF Saving
    <2> QED
      BY <2>1, <2>3, NoSaveUnchanged
  <1>3. ASSUME NEW c \in Command, NEW e \in Edit, Loads(c, e)
        PROVE  UNCHANGED <<file, Saves, raced>>
    BY <1>2, <1>3 DEF Loads
  <1>4. ASSUME NEW c \in Command, NEW new, RunsFirst(c, new)
        PROVE  UNCHANGED <<file, Saves, raced>>
    BY <1>2, <1>4 DEF RunsFirst
  <1>5. ASSUME NEW c \in Command, OpensEditor(c)
        PROVE  UNCHANGED <<file, Saves, raced>>
    <2>1. \E p \in {"save", "editor"} : StartsCommand(c, [op |-> "edit"], Default, p)
      BY <1>5 DEF OpensEditor
    <2> QED
      BY <1>2, <2>1
  <1>6. ASSUME NEW c \in Command, Writes(c), ~raced
        PROVE  UNCHANGED <<file, Saves, raced>>
    <2>1. /\ command[c].pc = "write" /\ raced' = raced
          /\ command' = [command EXCEPT ![c].pc = "rename"]
          /\ \E x : WritesTo(c, x)
      BY <1>6 DEF Writes
    <2>2. command[c].target = "tmp"
      BY <1>6, <2>1 DEF ConfigInv, OneSaves
    <2>3. file' = file
      BY <2>1, <2>2 DEF WritesTo
    <2>4. /\ command'[c].pc = "rename" /\ command'[c].new = command[c].new
          /\ \A d \in Command \ {c} : command'[d] = command[d]
      BY <2>1 DEF ConfigInv, ConfigTypeOK, CommandState
    <2>5. \A d \in Command : /\ Saving(d)' <=> Saving(d)
                             /\ Saving(d) => command'[d].new = command[d].new
      BY <2>1, <2>4 DEF Saving
    <2> QED
      BY <2>1, <2>3, <2>5, NoSaveUnchanged
  <1>7. ASSUME NEW c \in Command, WriteFails(c) \/ Dies(c) \/ EditorCloses(c), ~raced
        PROVE  Register!Abort(c) \/ UNCHANGED <<file, Saves, raced>>
    <2>1. command' = [command EXCEPT ![c] = Idle] /\ raced' = raced
      BY <1>7 DEF WriteFails, Dies, EditorCloses
    <2>2. file' = file
      <3>1. CASE WriteFails(c)
        BY <1>7, <3>1 DEF WriteFails, WritesTo, ConfigInv, OneSaves
      <3> QED
        BY <1>7, <3>1 DEF Dies, EditorCloses
    <2> QED
      BY <2>1, <2>2, SaveAborts
  <1>8. ASSUME NEW c \in Command, NEW content \in Typed, EditorSaves(c, content)
        PROVE  Register!Type(content)
    <2>1. file' = content /\ Saves' = Saves /\ raced' = raced
      BY <1>8 DEF EditorSaves, Saves, Saving
    <2> QED
      BY <2>1 DEF Register!Type, Saves
  <1>9. CASE ~raced /\ ConfigNext
    <2> PICK c \in Command :
            \/ \E e \in Edit : Loads(c, e)
            \/ \E new : RunsFirst(c, new)
            \/ OpensEditor(c)
            \/ Truncates(c) \/ Writes(c) \/ WriteFails(c) \/ Renames(c) \/ Dies(c)
            \/ \E content \in Typed : EditorSaves(c, content)
            \/ EditorCloses(c)
      BY <1>9 DEF ConfigNext
    <2> QED
      BY <1>3, <1>4, <1>5, <1>6, <1>7, <1>8, <1>9, SaveBegins, SaveCommits
         DEF Register!Next
  <1>10. CASE UNCHANGED configVars
    BY <1>10 DEF configVars, Saves, Saving
  <1> QED
    BY <1>1, <1>9, <1>10

(* save_config "writes atomically" (config/mod.rs:43): a save shows in the *)
(* file at one moment, whole, or never, as long as no two overlap.         *)
THEOREM SavesAreAtomic == ConfigSpec => ImplementsAtomicFile
  <1>1. ConfigInit => Register!Init
    <2> SUFFICES ASSUME ConfigInit PROVE Register!Init
      OBVIOUS
    <2>1. file = Absent /\ raced = FALSE /\ \A c \in Command : command[c].pc = "idle"
      BY DEF ConfigInit, Idle
    <2> QED
      BY <2>1 DEF Register!Init, Saving
  <1>2. ConfigInv /\ ConfigInv' /\ [ConfigNext]_configVars =>
            [Register!Next]_(Register!fileVars)
    <2> SUFFICES ASSUME ConfigInv, ConfigInv', [ConfigNext]_configVars
                 PROVE  [Register!Next]_(Register!fileVars)
      OBVIOUS
    <2>1. Register!Next \/ UNCHANGED <<file, Saves, raced>>
      BY AtomicStep
    <2>2. UNCHANGED <<file, Saves, raced>> => UNCHANGED Register!fileVars
      BY DEF Register!fileVars, Saves
    <2> QED
      BY <2>1, <2>2
  <1> QED
    BY ConfigInvariant, <1>1, <1>2, PTL
       DEF ConfigSpec, ImplementsAtomicFile, Register!Spec

(* A command that ran alone changes in the file what it was asked to.      *)
THEOREM OnlyEditsChange == ConfigSpec => ChangesAreEdits
  <1> DEFINE A == \A c \in Command :
                    command[c].alone /\ file' # file =>
                        \/ command[c].pc = "editor"
                        \/ command[c].pc = "rename" /\ file' \in Outcome(c)
  <1>1. ASSUME ConfigInv, [ConfigNext]_configVars PROVE A
    <2> SUFFICES ASSUME NEW c \in Command, command[c].alone, file' # file
                 PROVE  \/ command[c].pc = "editor"
                        \/ command[c].pc = "rename" /\ file' \in Outcome(c)
      OBVIOUS
    <2>1. SavesItsOwn(c)
      BY <1>1 DEF ConfigInv
    <2>2. \E d \in Command :
              \/ Writes(d) \/ WriteFails(d) \/ Renames(d)
              \/ \E content \in Typed : EditorSaves(d, content)
      <3>1. /\ \A d \in Command, e \in Edit : ~Loads(d, e)
            /\ \A d \in Command : \A new : ~RunsFirst(d, new)
            /\ \A d \in Command : ~OpensEditor(d) /\ ~Truncates(d) /\ ~Dies(d)
                                    /\ ~EditorCloses(d)
        BY DEF Loads, RunsFirst, OpensEditor, StartsCommand, Truncates, Dies,
               EditorCloses
      <3> QED
        BY <1>1, <3>1 DEF ConfigNext, configVars
    <2>3. PICK d \in Command :
              \/ Writes(d) \/ WriteFails(d) \/ Renames(d)
              \/ \E content \in Typed : EditorSaves(d, content)
      BY <2>2
    <2>4. d = c
      <3>1. command[d].pc # "idle"
        BY <2>3 DEF Writes, WriteFails, Renames, EditorSaves
      <3> QED
        BY <2>1, <3>1 DEF SavesItsOwn
    <2>5. CASE Writes(c) \/ WriteFails(c)
      <3>1. command[c].target = "tmp"
        BY <2>1, <2>5 DEF SavesItsOwn, Writes, WriteFails
      <3>2. \E x : WritesTo(c, x)
        BY <2>5 DEF Writes, WriteFails
      <3> QED
        BY <3>1, <3>2 DEF WritesTo
    <2>6. CASE Renames(c)
      BY <2>1, <2>6 DEF SavesItsOwn, Renames
    <2>7. CASE \E content \in Typed : EditorSaves(c, content)
      BY <2>7 DEF EditorSaves
    <2> QED
      BY <2>3, <2>4, <2>5, <2>6, <2>7
  <1> QED
    BY ConfigInvariant, <1>1, PTL DEF ConfigSpec, ChangesAreEdits

-----------------------------------------------------------------------------

(***************************************************************************)
(* The souls.                                                              *)
(***************************************************************************)

(* What a patch or an edit that nobody has crossed works on: the soul that *)
(* is stored, and in the temporary file what its user has saved there.     *)
WorksOnStored(p) ==
    LET j == job[p] IN
    /\ j.pc = "patch" => j.soul = StoredSoul(j.user)
    /\ j.pc = "editor" =>
           /\ soulFile = Patched(j.soul, j.change)
           /\ j.fetched => j.soul = StoredSoul(j.user)
    /\ j.pc = "post" /\ j.fetched =>
           j.soul \in ParseSoulMd(Patched(StoredSoul(j.user), j.change))

SoulInv ==
    /\ SoulTypeOK
    /\ \A p \in Client : job[p].calm => WorksOnStored(p)

-----------------------------------------------------------------------------
LEMMA SoulTypes ==
  ASSUME SoulInv
  PROVE  /\ DOMAIN soulRow \subseteq User /\ soulRow \in [DOMAIN soulRow -> Soul]
         /\ job \in [Client -> Job]
         /\ soulFile \in Text \cup {NoFile} /\ started \in 0..MaxWrites
  BY DEF SoulInv, SoulTypeOK

LEMMA SoulIsText == Soul \subseteq Text
  BY DEF Soul, Text

LEMMA ParsedToneType ==
  /\ \A w : ParsedTone(w) \in Tone
  /\ \A w \in Tone : ParsedTone(w) = w
  BY WordAssumption DEF ParsedTone

LEMMA DefaultSoulType ==
  /\ DefaultSoul \in Soul
  /\ \A n \in Name : [DefaultSoul EXCEPT !.name = n] \in Soul
  BY WordAssumption DEF DefaultSoul, Soul

LEMMA ToneField ==
  ASSUME NEW t \in Text, NEW w \in Tone
  PROVE  /\ [t EXCEPT !.tone = w] \in Soul
         /\ t.tone = w => [t EXCEPT !.tone = w] = t
  BY DEF Text, Soul

LEMMA StoredSoulType ==
  ASSUME SoulInv, NEW u \in User
  PROVE  StoredSoul(u) \in Soul
  <1>1. CASE u \in DOMAIN soulRow
    <2>1. soulRow[u] \in Text
      BY <1>1, SoulTypes, SoulIsText
    <2> QED
      BY <1>1, <2>1, ToneField, ParsedToneType DEF StoredSoul
  <1>2. CASE u \notin DOMAIN soulRow
    BY <1>2, DefaultSoulType DEF StoredSoul
  <1> QED
    BY <1>1, <1>2

LEMMA ChangeFields ==
  ASSUME NEW ch \in Change \cup {Nothing}
  PROVE  /\ ch.name \subseteq Name /\ ch.personality \subseteq Personality
         /\ ch.tone \subseteq Tone \cup {Unknown}
  BY ChangeAssumption DEF Nothing

LEMMA SetType ==
  ASSUME NEW S, NEW x \in S, NEW new \in SUBSET S
  PROVE  Set(x, new) \in S
  BY DEF Set

LEMMA PatchedType ==
  ASSUME NEW soul \in Text, NEW ch \in Change \cup {Nothing}
  PROVE  /\ Patched(soul, ch) \in Text
         /\ soul \in Soul /\ ch.tone \subseteq Tone => Patched(soul, ch) \in Soul
         /\ Patched(soul, Nothing) = soul
  <1>1. /\ soul.name \in Name /\ soul.personality \in Personality
        /\ soul.tone \in Tone \cup {Unknown}
        /\ soul \in Soul => soul.tone \in Tone
        /\ soul = [name |-> soul.name, personality |-> soul.personality,
                   tone |-> soul.tone]
    BY DEF Text, Soul
  <1>2. /\ Set(soul.name, ch.name) \in Name
        /\ Set(soul.personality, ch.personality) \in Personality
        /\ Set(soul.tone, ch.tone) \in Tone \cup {Unknown}
        /\ soul \in Soul /\ ch.tone \subseteq Tone => Set(soul.tone, ch.tone) \in Tone
    BY <1>1, ChangeFields, SetType
  <1>3. \A x : Set(x, {}) = x
    BY DEF Set
  <1>4. Patched(soul, Nothing) = soul
    BY <1>1, <1>3 DEF Patched, Nothing
  <1> HIDE DEF Nothing
  <1>5. Patched(soul, ch) \in Text
    BY <1>2 DEF Patched, Text
  <1>6. soul \in Soul /\ ch.tone \subseteq Tone => Patched(soul, ch) \in Soul
    BY <1>2 DEF Patched, Soul
  <1> QED
    BY <1>4, <1>5, <1>6

LEMMA ParseType ==
  ASSUME NEW soul \in Text
  PROVE  ParseSoulMd(soul) \subseteq Soul
  <1>1. /\ Yaml[soul.name] \subseteq Name /\ Trimmed[soul.personality] \in Personality
    BY ConversionAssumption DEF Text
  <1> QED
    BY <1>1, ParsedToneType DEF ParseSoulMd, Soul

-----------------------------------------------------------------------------
LEMMA UpsertType ==
  ASSUME SoulInv, NEW u \in User, NEW soul \in Soul, Upsert(u, soul)
  PROVE  /\ DOMAIN soulRow' \subseteq User /\ soulRow' \in [DOMAIN soulRow' -> Soul]
         /\ DOMAIN soulRow' = DOMAIN soulRow \cup {u}
         /\ soulRow'[u] = soul
         /\ \A v \in DOMAIN soulRow \ {u} : soulRow'[v] = soulRow[v]
  BY SoulTypes DEF Upsert

(* A write is what its user's turns are told from then on ...              *)
LEMMA UpsertStores ==
  ASSUME SoulInv, NEW u \in User, NEW soul \in Soul, Upsert(u, soul)
  PROVE  TurnSoul(u)' = soul
  <1>1. u \in DOMAIN soulRow' /\ soulRow'[u] = soul
    BY UpsertType
  <1>2. soul \in Text /\ soul.tone \in Tone
    BY SoulIsText DEF Soul
  <1>3. [soul EXCEPT !.tone = ParsedTone(soul.tone)] = soul
    BY <1>2, ToneField, ParsedToneType
  <1> QED
    BY <1>1, <1>3 DEF TurnSoul, StoredSoul

(* ... and nothing to the others.                                          *)
LEMMA UpsertKeepsOthers ==
  ASSUME SoulInv, NEW u \in User, NEW soul \in Soul, Upsert(u, soul),
         NEW v \in User, v # u
  PROVE  StoredSoul(v)' = StoredSoul(v) /\ TurnSoul(v)' = TurnSoul(v)
  <1>0. /\ DOMAIN soulRow' = DOMAIN soulRow \cup {u}
        /\ \A x \in DOMAIN soulRow \ {u} : soulRow'[x] = soulRow[x]
    BY UpsertType
  <1>1. /\ v \in DOMAIN soulRow' <=> v \in DOMAIN soulRow
        /\ v \in DOMAIN soulRow => soulRow'[v] = soulRow[v]
    BY <1>0
  <1>2. StoredSoul(v)' = StoredSoul(v)
    BY <1>1 DEF StoredSoul
  <1> QED
    BY <1>1, <1>2 DEF TurnSoul

(* What others do to a job at most: it is calm no longer.  While it is, it *)
(* has its file to itself, if it is an edit, and its user's row.           *)
Kept(p) ==
    /\ job'[p].pc = job[p].pc /\ job'[p].user = job[p].user
    /\ job'[p].soul = job[p].soul /\ job'[p].change = job[p].change
    /\ job'[p].fetched = job[p].fetched
    /\ job'[p].calm => job[p].calm
    /\ job'[p].calm /\ job[p].pc = "editor" => soulFile' = soulFile
    /\ job'[p].calm =>
           \A u \in User : u = job[p].user => StoredSoul(u)' = StoredSoul(u)

LEMMA DisturbedJob ==
  ASSUME NEW j \in Job, NEW u
  PROVE  /\ Disturbed(j, u) \in Job
         /\ Disturbed(j, u).pc = j.pc /\ Disturbed(j, u).user = j.user
         /\ Disturbed(j, u).soul = j.soul /\ Disturbed(j, u).change = j.change
         /\ Disturbed(j, u).fetched = j.fetched
         /\ Disturbed(j, u).calm => j.calm /\ j.user # u
  <1>1. (j.calm /\ j.user # u) \in BOOLEAN
    OBVIOUS
  <1> QED
    BY <1>1 DEF Disturbed, Job

LEMMA CrossedJob ==
  ASSUME NEW j \in Job
  PROVE  /\ Crossed(j) \in Job
         /\ Crossed(j).pc = j.pc /\ Crossed(j).user = j.user
         /\ Crossed(j).soul = j.soul /\ Crossed(j).change = j.change
         /\ Crossed(j).fetched = j.fetched
         /\ Crossed(j).calm => j.calm /\ j.pc # "editor"
  <1>1. (j.calm /\ j.pc # "editor") \in BOOLEAN
    OBVIOUS
  <1> QED
    BY <1>1 DEF Crossed, Job

LEMMA IdleJobType == IdleJob \in Job /\ IdleJob.pc = "idle" /\ ~IdleJob.calm
  <1>1. (CHOOSE u \in User : TRUE) \in User
    BY WordAssumption
  <1>2. DefaultSoul \in Soul
    BY DefaultSoulType
  <1> HIDE DEF DefaultSoul
  <1> QED
    BY <1>1, <1>2 DEF IdleJob, Job

(* Every step leaves each job as it is, or has it work on what is stored.  *)
LEMMA JobsStep ==
  ASSUME SoulInv, DOMAIN soulRow' \subseteq User, soulRow' \in [DOMAIN soulRow' -> Soul],
         job' \in [Client -> Job], soulFile' \in Text \cup {NoFile},
         started' \in 0..MaxWrites,
         \A p \in Client : Kept(p) \/ (job'[p].calm => WorksOnStored(p)')
  PROVE  SoulInv'
  <1>1. SoulTypeOK'
    BY DEF SoulTypeOK
  <1>2. ASSUME NEW p \in Client, job'[p].calm PROVE WorksOnStored(p)'
    <2>1. CASE Kept(p)
      <3>1. WorksOnStored(p)
        BY <1>2, <2>1 DEF SoulInv, Kept
      <3>2. PICK u \in User : u = job[p].user
        BY SoulTypes DEF Job
      <3>3. job'[p].user = u /\ StoredSoul(u)' = StoredSoul(u)
        BY <1>2, <2>1, <3>2 DEF Kept
      <3> QED
        BY <1>2, <2>1, <3>1, <3>2, <3>3 DEF WorksOnStored, Kept
    <2> QED
      BY <1>2, <2>1
  <1> QED
    BY <1>1, <1>2 DEF SoulInv

(* The others, when the row of u is written, or when the file is used.     *)
LEMMA OthersDisturbed ==
  ASSUME SoulInv, NEW u \in User, NEW soul \in Soul, Upsert(u, soul),
         UNCHANGED soulFile, NEW p \in Client, job'[p] = Disturbed(job[p], u)
  PROVE  Kept(p) /\ job'[p] \in Job
  <1>1. job[p] \in Job
    BY SoulTypes
  <1>3. \A v \in User : v # u => StoredSoul(v)' = StoredSoul(v)
    BY UpsertKeepsOthers
  <1> QED
    BY <1>1, <1>3, DisturbedJob DEF Kept

LEMMA SameRows ==
  ASSUME soulRow' = soulRow, NEW u
  PROVE  StoredSoul(u)' = StoredSoul(u)
  BY DEF StoredSoul

LEMMA OthersCrossed ==
  ASSUME SoulInv, UNCHANGED soulRow, NEW p \in Client, job'[p] = Crossed(job[p])
  PROVE  Kept(p) /\ job'[p] \in Job
  <1>1. job[p] \in Job
    BY SoulTypes
  <1>2. \A u : StoredSoul(u)' = StoredSoul(u)
    BY SameRows
  <1> QED
    BY <1>1, <1>2, CrossedJob DEF Kept

LEMMA OthersAlone ==
  ASSUME SoulInv, UNCHANGED <<soulRow, soulFile>>, NEW p \in Client, job'[p] = job[p]
  PROVE  Kept(p) /\ job'[p] \in Job
  <1>1. job[p] \in Job /\ \A u : StoredSoul(u)' = StoredSoul(u)
    BY SoulTypes, SameRows
  <1> QED
    BY <1>1 DEF Kept

LEMMA CountsType ==
  ASSUME SoulInv, Counts
  PROVE  started' \in 0..MaxWrites
  <1>1. started \in 0..MaxWrites /\ MaxWrites \in Nat /\ started < MaxWrites
        /\ started' = started + 1
    BY SoulTypes, ChangeAssumption DEF Counts
  <1> QED
    BY <1>1

-----------------------------------------------------------------------------
LEMMA WriteKeepsSouls ==
  ASSUME SoulInv, NEW u \in User, NEW soul \in Soul, Upsert(u, soul),
         UNCHANGED soulFile, started' \in 0..MaxWrites,
         job' = [p \in Client |-> Disturbed(job[p], u)]
  PROVE  SoulInv'
  <1>1. \A p \in Client : Kept(p) /\ job'[p] \in Job
    BY OthersDisturbed
  <1>2. job' \in [Client -> Job]
    BY <1>1
  <1> QED
    BY <1>1, <1>2, JobsStep, UpsertType, SoulTypes

(* The last step of a patch or an edit.                                    *)
LEMMA LastWriteKeepsSouls ==
  ASSUME SoulInv, NEW p \in Client, NEW u \in User, NEW soul \in Soul, Upsert(u, soul),
         UNCHANGED <<soulFile, started>>,
         job' = [q \in Client |-> IF q = p THEN IdleJob ELSE Disturbed(job[q], u)]
  PROVE  SoulInv'
  <1>1. \A q \in Client : q # p => Kept(q) /\ job'[q] \in Job
    BY OthersDisturbed
  <1>2. job'[p] = IdleJob
    OBVIOUS
  <1>3. job' \in [Client -> Job]
    <2>1. \A q \in Client : job'[q] \in Job
      BY <1>1, <1>2, IdleJobType
    <2> QED
      BY <2>1
  <1> HIDE DEF IdleJob
  <1>4. \A q \in Client : Kept(q) \/ ~job'[q].calm
    BY <1>1, <1>2, IdleJobType
  <1> QED
    BY <1>3, <1>4, JobsStep, UpsertType, SoulTypes

LEMMA RequestKeepsSouls ==
  ASSUME SoulInv, NEW u \in User, NEW ch \in Change,
         CreateSoul(u, ch) \/ GenerateSoul(u, ch)
  PROVE  SoulInv'
  <1>1. CASE CreateSoul(u, ch)
    <2>1. Patched(DefaultSoul, ch) \in Soul
      BY <1>1, DefaultSoulType, SoulIsText, PatchedType DEF CreateSoul
    <2> QED
      BY <1>1, <2>1, CountsType, WriteKeepsSouls DEF CreateSoul
  <1>2. CASE GenerateSoul(u, ch)
    <2> DEFINE s == Patched([DefaultSoul EXCEPT !.name = Agent], ch)
               t == [s EXCEPT !.tone = ParsedTone(s.tone)]
    <2>1. [DefaultSoul EXCEPT !.name = Agent] \in Soul
      BY DefaultSoulType, WordAssumption
    <2>2. s \in Text
      BY <2>1, SoulIsText, PatchedType
    <2>3. Upsert(u, t) /\ Counts /\ UNCHANGED soulFile
          /\ job' = [p \in Client |-> Disturbed(job[p], u)]
      BY <1>2 DEF GenerateSoul
    <2> HIDE DEF s
    <2>4. t \in Soul
      BY <2>2, ParsedToneType, ToneField
    <2> HIDE DEF t
    <2> QED
      BY <2>3, <2>4, CountsType, WriteKeepsSouls
  <1> QED
    BY <1>1, <1>2

(* A step of job p alone, which becomes r.                                 *)
LEMMA OneJobStep ==
  ASSUME SoulInv, NEW p \in Client, NEW r \in Job, job' = [job EXCEPT ![p] = r],
         UNCHANGED <<soulRow, soulFile>>, started' \in 0..MaxWrites,
         r.calm => WorksOnStored(p)'
  PROVE  SoulInv'
  <1>1. /\ job' \in [Client -> Job] /\ job'[p] = r
        /\ \A q \in Client : q # p => job'[q] = job[q]
    BY SoulTypes
  <1>2. \A q \in Client : q # p => Kept(q)
    BY <1>1, OthersAlone
  <1>3. \A q \in Client : Kept(q) \/ (job'[q].calm => WorksOnStored(q)')
    BY <1>1, <1>2
  <1> QED
    BY <1>1, <1>3, JobsStep, SoulTypes

LEMMA PatchReadKeepsSouls ==
  ASSUME SoulInv, NEW p \in Client, NEW u \in User, NEW ch \in Change,
         PatchReads(p, u, ch)
  PROVE  SoulInv'
  <1> DEFINE r == [pc |-> "patch", user |-> u, change |-> ch,
                   soul |-> StoredSoul(u), calm |-> TRUE, fetched |-> TRUE]
  <1>1. /\ job' = [job EXCEPT ![p] = r] /\ UNCHANGED <<soulRow, soulFile>>
        /\ started' \in 0..MaxWrites
    BY CountsType DEF PatchReads
  <1>2. StoredSoul(u)' = StoredSoul(u) /\ StoredSoul(u) \in Soul
    BY <1>1, SameRows, StoredSoulType
  <1>3. r \in Job /\ r.pc = "patch" /\ r.user = u /\ r.soul = StoredSoul(u)
    BY <1>2 DEF Job
  <1> HIDE DEF r
  <1>4. job'[p] = r
    BY <1>1, SoulTypes
  <1>5. WorksOnStored(p)'
    BY <1>2, <1>3, <1>4 DEF WorksOnStored
  <1> QED
    BY <1>1, <1>3, <1>5, OneJobStep

LEMMA PatchWriteKeepsSouls ==
  ASSUME SoulInv, NEW p \in Client, PatchWrites(p)
  PROVE  SoulInv'
  <1> DEFINE s == Patched(job[p].soul, job[p].change)
  <1>1. /\ Upsert(job[p].user, s) /\ job[p].change.tone \subseteq Tone
        /\ UNCHANGED <<soulFile, started>>
        /\ job' = [q \in Client |-> IF q = p THEN IdleJob
                                    ELSE Disturbed(job[q], job[p].user)]
    BY DEF PatchWrites
  <1>2. job[p] \in Job
    BY SoulTypes
  <1>3. /\ job[p].user \in User /\ job[p].soul \in Soul
        /\ job[p].change \in Change \cup {Nothing}
    BY <1>2 DEF Job
  <1>4. s \in Soul
    BY <1>1, <1>3, SoulIsText, PatchedType
  <1> HIDE DEF s, IdleJob
  <1>5. PICK u \in User : u = job[p].user
    BY <1>3
  <1> QED
    BY <1>1, <1>4, <1>5, LastWriteKeepsSouls

LEMMA FailKeepsSouls ==
  ASSUME SoulInv, NEW p \in Client, JobFails(p)
  PROVE  SoulInv'
  BY IdleJobType, OneJobStep, SoulTypes DEF JobFails

LEMMA FetchKeepsSouls ==
  ASSUME SoulInv, NEW p \in Client, NEW u \in User, NEW fetched \in BOOLEAN,
         EditFetches(p, u, fetched)
  PROVE  SoulInv'
  <1> DEFINE soul == IF fetched THEN StoredSoul(u)
                     ELSE [DefaultSoul EXCEPT !.name = Blank]
             r == [pc |-> "editor", user |-> u, change |-> Nothing,
                   soul |-> soul, calm |-> TRUE, fetched |-> fetched]
  <1>1. /\ soulFile' = soul /\ started' \in 0..MaxWrites /\ UNCHANGED soulRow
        /\ job' = [q \in Client |-> IF q # p THEN Crossed(job[q]) ELSE r]
    BY CountsType DEF EditFetches
  <1>2. soul \in Soul /\ (fetched => soul = StoredSoul(u))
    BY StoredSoulType, DefaultSoulType, WordAssumption
  <1> HIDE DEF soul
  <1>3. /\ r \in Job /\ r.pc = "editor" /\ r.user = u /\ r.soul = soul
        /\ r.change = Nothing /\ r.fetched = fetched
    BY <1>2 DEF Job
  <1> HIDE DEF r
  <1>4. \A q \in Client : q # p => Kept(q) /\ job'[q] \in Job
    BY <1>1, OthersCrossed
  <1>5. job'[p] = r /\ StoredSoul(u)' = StoredSoul(u)
    BY <1>1, SameRows
  <1>6. job' \in [Client -> Job]
    BY <1>1, <1>3, <1>4, <1>5
  <1>7. soulFile' \in Text /\ Patched(soul, Nothing) = soul
    BY <1>1, <1>2, SoulIsText, PatchedType
  <1>8. WorksOnStored(p)'
    BY <1>1, <1>2, <1>3, <1>5, <1>7 DEF WorksOnStored
  <1>9. \A q \in Client : Kept(q) \/ WorksOnStored(q)'
    BY <1>4, <1>8
  <1> QED
    BY <1>1, <1>6, <1>7, <1>9, JobsStep, SoulTypes

LEMMA EditorKeepsSouls ==
  ASSUME SoulInv, NEW p \in Client, NEW ch \in Change, EditorSavesSoul(p, ch)
  PROVE  SoulInv'
  <1> DEFINE r == [job[p] EXCEPT !.change = ch]
  <1>1. /\ job[p].pc = "editor" /\ soulFile' = Patched(job[p].soul, ch)
        /\ UNCHANGED <<soulRow, started>>
        /\ job' = [q \in Client |-> IF q = p THEN r ELSE Crossed(job[q])]
    BY DEF EditorSavesSoul
  <1>2. job[p] \in Job
    BY SoulTypes
  <1>3. /\ r \in Job /\ r.pc = job[p].pc /\ r.user = job[p].user
        /\ r.soul = job[p].soul /\ r.change = ch /\ r.calm = job[p].calm
        /\ r.fetched = job[p].fetched /\ job[p].soul \in Soul /\ job[p].user \in User
    BY <1>2 DEF Job
  <1> HIDE DEF r
  <1>4. \A q \in Client : q # p => Kept(q) /\ job'[q] \in Job
    BY <1>1, OthersCrossed
  <1>5. job'[p] = r
    BY <1>1
  <1>6. job' \in [Client -> Job]
    BY <1>1, <1>3, <1>4, <1>5
  <1>7. soulFile' \in Text
    BY <1>1, <1>3, SoulIsText, PatchedType
  <1>8. r.calm => WorksOnStored(p)'
    <2> SUFFICES ASSUME r.calm PROVE WorksOnStored(p)'
      OBVIOUS
    <2>1. WorksOnStored(p)
      BY <1>3 DEF SoulInv
    <2>2. PICK u \in User : u = job[p].user
      BY <1>3
    <2>3. StoredSoul(u)' = StoredSoul(u)
      BY <1>1, SameRows
    <2> QED
      BY <1>1, <1>3, <1>5, <2>1, <2>2, <2>3 DEF WorksOnStored
  <1>9. \A q \in Client : Kept(q) \/ (job'[q].calm => WorksOnStored(q)')
    BY <1>4, <1>5, <1>8
  <1> QED
    BY <1>1, <1>6, <1>7, <1>9, JobsStep, SoulTypes

LEMMA CloseKeepsSouls ==
  ASSUME SoulInv, NEW p \in Client, EditCloses(p)
  PROVE  SoulInv'
  <1>0. job[p] \in Job /\ IdleJob \in Job /\ ~IdleJob.calm
    BY SoulTypes, IdleJobType
  <1> HIDE DEF IdleJob
  <1>1. /\ job[p].pc = "editor" /\ soulFile # NoFile /\ soulFile' = NoFile
        /\ UNCHANGED <<soulRow, started>>
    BY DEF EditCloses
  <1>2. soulFile \in Text
    BY <1>1, SoulTypes
  <1>3. PICK r :
            /\ job' = [q \in Client |-> IF q = p THEN r ELSE Crossed(job[q])]
            /\ \/ r = IdleJob
               \/ \E soul \in ParseSoulMd(soulFile) :
                      r = [job[p] EXCEPT !.pc = "post", !.soul = soul]
    BY DEF EditCloses
  <1>4. /\ r \in Job
        /\ r.calm => /\ job[p].calm /\ r.pc = "post" /\ r.user = job[p].user
                     /\ r.change = job[p].change /\ r.fetched = job[p].fetched
                     /\ r.soul \in ParseSoulMd(soulFile)
    <2>1. CASE r = IdleJob
      BY <1>0, <2>1
    <2>2. ASSUME NEW soul \in ParseSoulMd(soulFile),
                 r = [job[p] EXCEPT !.pc = "post", !.soul = soul]
          PROVE  /\ r \in Job
                 /\ r.pc = "post" /\ r.user = job[p].user
                 /\ r.change = job[p].change /\ r.fetched = job[p].fetched
                 /\ r.calm = job[p].calm /\ r.soul \in ParseSoulMd(soulFile)
      <3>1. soul \in Soul
        BY <1>2, ParseType
      <3> QED
        BY <1>0, <2>2, <3>1 DEF Job
    <2> QED
      BY <1>3, <2>1, <2>2
  <1>5. \A q \in Client : q # p => Kept(q) /\ job'[q] \in Job
    BY <1>1, <1>3, OthersCrossed
  <1>6. job'[p] = r
    BY <1>3
  <1>7. job' \in [Client -> Job]
    BY <1>3, <1>4, <1>5, <1>6
  <1>8. r.calm => WorksOnStored(p)'
    <2> SUFFICES ASSUME r.calm PROVE WorksOnStored(p)'
      OBVIOUS
    <2>1. WorksOnStored(p)
      BY <1>4 DEF SoulInv
    <2>2. PICK u \in User : u = job[p].user
      BY <1>0 DEF Job
    <2>3. StoredSoul(u)' = StoredSoul(u)
      BY <1>1, SameRows
    <2> QED
      BY <1>1, <1>4, <1>6, <2>1, <2>2, <2>3 DEF WorksOnStored
  <1>9. \A q \in Client : Kept(q) \/ (job'[q].calm => WorksOnStored(q)')
    BY <1>5, <1>6, <1>8
  <1> QED
    BY <1>1, <1>7, <1>9, JobsStep, SoulTypes

LEMMA PostKeepsSouls ==
  ASSUME SoulInv, NEW p \in Client, EditPosts(p)
  PROVE  SoulInv'
  <1>1. /\ Upsert(job[p].user, job[p].soul) /\ UNCHANGED <<soulFile, started>>
        /\ job' = [q \in Client |-> IF q = p THEN IdleJob
                                    ELSE Disturbed(job[q], job[p].user)]
    BY DEF EditPosts
  <1>2. job[p] \in Job
    BY SoulTypes
  <1>3. job[p].user \in User /\ job[p].soul \in Soul
    BY <1>2 DEF Job
  <1> HIDE DEF IdleJob
  <1> QED
    BY <1>1, <1>3, LastWriteKeepsSouls

LEMMA SoulStep ==
  ASSUME SoulInv, [SoulNext]_soulVars
  PROVE  SoulInv'
  <1>1. CASE UNCHANGED soulVars
    <2>1. UNCHANGED <<soulRow, job, soulFile, started>>
      BY <1>1 DEF soulVars
    <2>2. \A p \in Client : Kept(p)
      BY <2>1, OthersAlone
    <2> QED
      BY <2>1, <2>2, JobsStep, SoulTypes
  <1> QED
    BY <1>1, RequestKeepsSouls, PatchReadKeepsSouls, PatchWriteKeepsSouls,
       FailKeepsSouls, FetchKeepsSouls, EditorKeepsSouls, CloseKeepsSouls,
       PostKeepsSouls DEF SoulNext

LEMMA SoulInvariant == SoulSpec => []SoulInv
  <1>1. SoulInit => SoulInv
    <2> SUFFICES ASSUME SoulInit PROVE SoulInv
      OBVIOUS
    <2>1. /\ soulRow = [u \in {} |-> DefaultSoul] /\ job = [p \in Client |-> IdleJob]
          /\ soulFile = NoFile /\ started = 0
      BY DEF SoulInit
    <2>2. 0 \in 0..MaxWrites
      BY ChangeAssumption
    <2> HIDE DEF IdleJob, DefaultSoul
    <2>3. SoulTypeOK
      BY <2>1, <2>2, IdleJobType DEF SoulTypeOK
    <2> QED
      BY <2>1, <2>3, IdleJobType DEF SoulInv
  <1>2. SoulInv /\ [SoulNext]_soulVars => SoulInv'
    BY SoulStep
  <1> QED
    BY <1>1, <1>2, PTL DEF SoulSpec

(* Rows, jobs and the temporary file stay of their types: no unknown word  *)
(* ever reaches the table (create_soul_handler, patch_soul_handler).       *)
THEOREM SoulTypeCorrect == SoulSpec => []SoulTypeOK
  <1>1. SoulInv => SoulTypeOK
    BY DEF SoulInv
  <1> QED
    BY SoulInvariant, <1>1, PTL

(* A patch or an edit that nobody has crossed changes what it was asked to *)
(* and nothing else (patch_soul_handler, run_edit), whatever the names and *)
(* texts are and whatever YAML makes of them.                              *)
THEOREM SoulWritesKeepTheRest == SoulSpec => WritesKeepTheRest
  <1> DEFINE Works(p) ==
                LET j == job[p]
                IN  j.pc \in {"patch", "post"} /\ job'[p].pc = "idle"
                      /\ soulRow' # soulRow /\ Careful(j) =>
                          \A u \in User :
                              TurnSoul(u)' = IF u = j.user
                                               THEN Patched(TurnSoul(u), j.change)
                                               ELSE TurnSoul(u)
  <1>1. ASSUME SoulInv, [SoulNext]_soulVars PROVE \A p \in Client : Works(p)
    <2> SUFFICES ASSUME NEW p \in Client, job[p].pc \in {"patch", "post"},
                        job'[p].pc = "idle", soulRow' # soulRow, Careful(job[p])
                 PROVE  \A u \in User :
                            TurnSoul(u)' = IF u = job[p].user
                                             THEN Patched(TurnSoul(u), job[p].change)
                                             ELSE TurnSoul(u)
      OBVIOUS
    <2>0. job[p] \in Job
      BY <1>1, SoulTypes
    <2>1. PatchWrites(p) \/ EditPosts(p)
      <3>1. PICK q \in Client : PatchWrites(q) \/ EditPosts(q)
        <4>1. ~(UNCHANGED soulVars)
          BY DEF soulVars
        <4>2. ASSUME NEW u \in User, NEW ch \in Change,
                     CreateSoul(u, ch) \/ GenerateSoul(u, ch)
              PROVE  FALSE
          <5>1. job' = [q \in Client |-> Disturbed(job[q], u)]
            BY <4>2 DEF CreateSoul, GenerateSoul
          <5> QED
            BY <2>0, <5>1, DisturbedJob
        <4> QED
          BY <1>1, <4>1, <4>2 DEF SoulNext, PatchReads, JobFails, EditFetches,
                                  EditorSavesSoul, EditCloses
      <3>2. q # p => job'[p] = Disturbed(job[p], job[q].user)
        BY <3>1 DEF PatchWrites, EditPosts
      <3>3. q = p
        BY <2>0, <3>2, DisturbedJob
      <3> QED
        BY <3>1, <3>3
    <2>2. PICK u \in User : u = job[p].user
      BY <2>0 DEF Job
    <2>3. /\ WorksOnStored(p) /\ job[p].fetched /\ TurnSoul(u) = StoredSoul(u)
      BY <1>1, <2>2 DEF SoulInv, Careful, TurnSoul
    <2>4. /\ job[p].soul \in Soul /\ job[p].change \in Change \cup {Nothing}
      BY <2>0 DEF Job
    <2>5. PICK s \in Soul : Upsert(u, s) /\ s = Patched(TurnSoul(u), job[p].change)
      <3>1. CASE PatchWrites(p)
        <4>1. /\ Upsert(u, Patched(job[p].soul, job[p].change))
              /\ job[p].change.tone \subseteq Tone /\ job[p].pc = "patch"
          BY <2>2, <3>1 DEF PatchWrites
        <4>2. job[p].soul = TurnSoul(u)
          BY <2>2, <2>3, <4>1 DEF WorksOnStored
        <4>3. Patched(job[p].soul, job[p].change) \in Soul
          BY <2>4, <4>1, SoulIsText, PatchedType
        <4> QED
          BY <4>1, <4>2, <4>3
      <3>2. CASE EditPosts(p)
        <4>1. Upsert(u, job[p].soul) /\ job[p].pc = "post"
          BY <2>2, <3>2 DEF EditPosts
        <4>2. job[p].soul \in ParseSoulMd(Patched(TurnSoul(u), job[p].change))
          BY <2>2, <2>3, <4>1 DEF WorksOnStored
        <4>3. Expressible(Patched(TurnSoul(u), job[p].change))
          BY <2>2, <4>1 DEF Careful
        <4> QED
          BY <2>4, <4>1, <4>2, <4>3 DEF Expressible
      <3> QED
        BY <2>1, <3>1, <3>2
    <2>6. TurnSoul(u)' = s
      BY <1>1, <2>5, UpsertStores
    <2>7. \A v \in User : v # u => TurnSoul(v)' = TurnSoul(v)
      BY <1>1, <2>5, UpsertKeepsOthers
    <2> QED
      BY <2>2, <2>5, <2>6, <2>7
  <1> HIDE DEF Works
  <1>2. [SoulNext]_soulVars /\ SoulInv => [\A p \in Client : Works(p)]_soulVars
    BY <1>1
  <1>3. SoulSpec => [][\A p \in Client : Works(p)]_soulVars
    BY SoulInvariant, <1>2, PTL DEF SoulSpec
  <1> QED
    BY <1>3 DEF Works, WritesKeepTheRest

-----------------------------------------------------------------------------

(***************************************************************************)
(* The memory tools.                                                       *)
(***************************************************************************)

(* A stamp is not of the future, and a row carries the stamp of the store  *)
(* that wrote it last.                                                     *)
StampsInOrder ==
    /\ \A s \in Storing : store[s] # NoStore => store[s].now <= millis
    /\ \A k \in FactKey : fact[k] # NoFact =>
           /\ fact[k].created_at = began[k]
           /\ began[k] <= ended[k] /\ ended[k] <= millis

MemoryInv == MemoryTypeOK /\ StampsInOrder

LEMMA StoreOf ==
  ASSUME MemoryInv, NEW s \in Storing, store[s] # NoStore
  PROVE  /\ store[s].key \in FactKey /\ store[s].tags \in Tags \cup {NoTags}
         /\ store[s].now \in Nat /\ store[s].now <= millis
  <1>1. store[s] \in StoreState
    BY DEF MemoryInv, MemoryTypeOK
  <1> QED
    BY <1>1 DEF MemoryInv, StampsInOrder, StoreState

LEMMA UpsertKeepsMemory ==
  ASSUME MemoryInv, NEW s \in Storing, Upserts(s)
  PROVE  MemoryInv'
  <1> DEFINE c == store[s]
             row == Excluded(c)
  <1>1. /\ c # NoStore /\ fact' = [fact EXCEPT ![c.key] = row]
        /\ began' = [began EXCEPT ![c.key] = c.now]
        /\ ended' = [ended EXCEPT ![c.key] = millis]
        /\ store' = [store EXCEPT ![s] = NoStore] /\ millis' = millis
    BY DEF Upserts
  <1>2. /\ c.key \in FactKey /\ c.tags \in Tags \cup {NoTags}
        /\ c.now \in Nat /\ c.now <= millis
    BY <1>1, StoreOf
  <1>3. row \in Fact /\ row.created_at = c.now
    BY <1>2 DEF Excluded, Fact
  <1>4. millis \in Nat /\ millis \in 0..MaxMillis
    BY MemoryAssumption DEF MemoryInv, MemoryTypeOK
  <1> HIDE DEF c, row
  <1>5. /\ fact \in [FactKey -> Fact \cup {NoFact}] /\ store \in [Storing -> StoreState]
        /\ began \in [FactKey -> Nat] /\ ended \in [FactKey -> Nat]
    BY DEF MemoryInv, MemoryTypeOK
  <1>6. MemoryTypeOK'
    BY <1>1, <1>2, <1>3, <1>4, <1>5 DEF MemoryTypeOK, StoreState
  <1>7. \A t \in Storing : store'[t] # NoStore => store'[t].now <= millis'
    BY <1>1, <1>5 DEF MemoryInv, StampsInOrder
  <1>8. ASSUME NEW k \in FactKey, fact'[k] # NoFact
        PROVE  /\ fact'[k].created_at = began'[k]
               /\ began'[k] <= ended'[k] /\ ended'[k] <= millis'
    <2>1. CASE k = c.key
      BY <1>1, <1>2, <1>3, <1>4, <1>5, <2>1
    <2>2. CASE k # c.key
      BY <1>1, <1>5, <1>8, <2>2 DEF MemoryInv, StampsInOrder
    <2> QED
      BY <2>1, <2>2
  <1> QED
    BY <1>6, <1>7, <1>8 DEF MemoryInv, StampsInOrder

LEMMA MemoryStep ==
  ASSUME MemoryInv, [MemoryNext]_memoryVars
  PROVE  MemoryInv'
  <1>0. /\ millis \in 0..MaxMillis /\ MaxMillis \in Nat
        /\ fact \in [FactKey -> Fact \cup {NoFact}] /\ store \in [Storing -> StoreState]
        /\ began \in [FactKey -> Nat] /\ ended \in [FactKey -> Nat]
    BY MemoryAssumption DEF MemoryInv, MemoryTypeOK
  <1>a. /\ \A s \in Storing : store[s] # NoStore => store[s].now \in Nat
        /\ NoStore \in StoreState
    BY StoreOf DEF StoreState
  <1>1. CASE Passes
    <2>1. millis' = millis + 1 /\ millis' \in 0..MaxMillis
          /\ UNCHANGED <<fact, store, began, ended>>
      BY <1>0, <1>1 DEF Passes
    <2>2. MemoryTypeOK'
      BY <2>1 DEF MemoryInv, MemoryTypeOK
    <2>3. \A s \in Storing : store[s] # NoStore => store[s].now <= millis + 1
      BY <1>0, <1>a DEF MemoryInv, StampsInOrder
    <2>4. \A k \in FactKey : fact[k] # NoFact => ended[k] <= millis + 1
      BY <1>0 DEF MemoryInv, StampsInOrder
    <2> QED
      BY <2>1, <2>2, <2>3, <2>4 DEF MemoryInv, StampsInOrder
  <1>2. ASSUME NEW s \in Storing, NEW k \in FactKey, NEW t \in Tags \cup {NoTags},
               Stamps(s, k, t)
        PROVE  MemoryInv'
    <2> DEFINE r == [pc |-> "stamped", key |-> k, tags |-> t, now |-> millis]
    <2>1. /\ store' = [store EXCEPT ![s] = r]
          /\ UNCHANGED <<millis, fact, began, ended>>
      BY <1>2 DEF Stamps
    <2>2. r \in StoreState /\ r.now = millis
      BY <1>0 DEF StoreState
    <2> HIDE DEF r
    <2>3. store' \in [Storing -> StoreState]
      BY <1>0, <2>1, <2>2
    <2>4. MemoryTypeOK'
      BY <2>1, <2>3 DEF MemoryInv, MemoryTypeOK
    <2>5. \A u \in Storing : store'[u] # NoStore => store'[u].now <= millis
      BY <1>0, <2>1, <2>2 DEF MemoryInv, StampsInOrder
    <2> QED
      BY <2>1, <2>4, <2>5 DEF MemoryInv, StampsInOrder
  <1>3. ASSUME NEW s \in Storing, StoreFails(s) PROVE MemoryInv'
    BY <1>0, <1>3, <1>a DEF StoreFails, MemoryInv, MemoryTypeOK, StampsInOrder
  <1>4. ASSUME NEW k \in FactKey, Deletes(k) PROVE MemoryInv'
    BY <1>0, <1>4 DEF Deletes, MemoryInv, MemoryTypeOK, StampsInOrder
  <1>5. CASE UNCHANGED memoryVars
    BY <1>5 DEF memoryVars, MemoryInv, MemoryTypeOK, StampsInOrder
  <1> QED
    BY <1>1, <1>2, <1>3, <1>4, <1>5, UpsertKeepsMemory DEF MemoryNext

LEMMA MemoryInvariant == MemorySpec => []MemoryInv
  <1>1. MemoryInit => MemoryInv
    <2> SUFFICES ASSUME MemoryInit PROVE MemoryInv
      OBVIOUS
    <2>1. 0 \in 0..MaxMillis /\ NoStore \in StoreState
      BY MemoryAssumption DEF StoreState
    <2> QED
      BY <2>1 DEF MemoryInit, MemoryInv, MemoryTypeOK, StampsInOrder
  <1>2. MemoryInv /\ [MemoryNext]_memoryVars => MemoryInv'
    BY MemoryStep
  <1> QED
    BY <1>1, <1>2, PTL DEF MemorySpec

(* Facts and stores in progress stay of their types (memory_store).        *)
THEOREM MemoryTypeCorrect == MemorySpec => []MemoryTypeOK
  <1>1. MemoryInv => MemoryTypeOK
    BY DEF MemoryInv
  <1> QED
    BY MemoryInvariant, <1>1, PTL

(* What was stored last is not crowded out of a list by older facts        *)
(* (memory_list, builtins/memory.rs), for every limit and any number of    *)
(* facts and of stores in progress.                                        *)
THEOREM RecentFactsListed == MemorySpec => []RecentIsListed
  <1>1. ASSUME MemoryInv PROVE RecentIsListed
    <2>1. ASSUME NEW keys \in SUBSET Facts PROVE CrowdedOutByNewer(keys)
      <3> SUFFICES ASSUME NEW shown \in Newest(keys), NEW k \in keys \ shown
                   PROVE  /\ Cardinality(shown) = ListLimit
                          /\ \A j \in shown : ended[j] >= began[k]
        BY DEF CrowdedOutByNewer
      <3>1. /\ shown \subseteq keys
            /\ Cardinality(shown) = ListLimit \/ shown = keys
            /\ \A j \in shown : fact[j].created_at >= fact[k].created_at
        BY DEF Newest
      <3>2. \A j \in keys : /\ j \in FactKey /\ fact[j].created_at = began[j]
                            /\ began[j] <= ended[j]
        BY <1>1 DEF Facts, MemoryInv, StampsInOrder
      <3>3. \A j \in FactKey : began[j] \in Nat /\ ended[j] \in Nat
        BY <1>1 DEF MemoryInv, MemoryTypeOK
      <3>4. ASSUME NEW j \in shown PROVE ended[j] >= began[k]
        <4>1. began[j] >= began[k] /\ began[j] <= ended[j]
          BY <3>1, <3>2
        <4> QED
          BY <3>1, <3>2, <3>3, <4>1
      <3> QED
        BY <3>1, <3>4
    <2>2. \A g \in Search : Tagged(g) \subseteq Facts
      BY DEF Tagged
    <2> QED
      BY <2>1, <2>2 DEF RecentIsListed
  <1> QED
    BY MemoryInvariant, <1>1, PTL

-----------------------------------------------------------------------------

(***************************************************************************)
(* The tools that change files.                                            *)
(***************************************************************************)

(* What holds of a call that nobody has crossed: the file is what it was   *)
(* when the call began, until the call's own writer opens it.              *)
Uncrossed(c) ==
    /\ call[c].tool = "edit" =>
           /\ hand[c].pc = "open" => disk = base[c]
           /\ EditApplied(base[c], call[c].asked[1], call[c].asked[2], hand[c].text)
    /\ call[c].tool = "write" => hand[c].text = call[c].asked
    /\ call[c].tool \in {"edit", "write"} /\ hand[c].pc = "fill" => disk = <<>>
    /\ call[c].tool = "bash" =>
           /\ process[c].pc # "off" => process[c].text = call[c].asked
           /\ process[c].pc = "fill" => disk = <<>>
           /\ process[c].pc = "off" => disk = call[c].asked

FilesInv ==
    /\ FilesTypeOK
    /\ \A c \in Caller : hand[c].pc = "fill" \/ process[c].pc = "fill" =>
           disk \in Seq(STRING)
    /\ \A c \in Caller : call[c].tool # "none" /\ c \notin crossed => Uncrossed(c)

-----------------------------------------------------------------------------
LEMMA OverEmpty ==
  ASSUME NEW x \in Seq(STRING)
  PROVE  Over(x, <<>>) = x
  <1>1. SubSeq(<<>>, Len(x) + 1, Len(<<>>)) = <<>>
    OBVIOUS
  <1>2. x \o <<>> = x
    OBVIOUS
  <1> QED
    BY <1>1, <1>2 DEF Over

LEMMA OverType ==
  ASSUME NEW x \in Seq(STRING), NEW y \in Seq(STRING)
  PROVE  Over(x, y) \in Seq(STRING)
  <1>1. SubSeq(y, Len(x) + 1, Len(y)) \in Seq(STRING)
    OBVIOUS
  <1> QED
    BY <1>1 DEF Over

LEMMA ReplacedType ==
  ASSUME NEW x \in Seq(STRING), NEW sought \in Seq(STRING), NEW new \in Seq(STRING),
         NEW k \in Occurrences(x, sought)
  PROVE  ReplacedAt(x, k, sought, new) \in Seq(STRING)
  <1>1. /\ k \in Int /\ 1 <= k /\ k <= Len(x) - Len(sought) + 1
        /\ Len(x) \in Nat /\ Len(sought) \in Nat
    BY DEF Occurrences
  <1>2. SubSeq(x, 1, k - 1) \in Seq(STRING)
    <2>1. \A i \in 1..(k - 1) : x[i] \in STRING
      BY <1>1
    <2> QED
      BY <1>1, <2>1
  <1>3. SubSeq(x, k + Len(sought), Len(x)) \in Seq(STRING)
    <2>1. \A i \in (k + Len(sought))..Len(x) : x[i] \in STRING
      BY <1>1
    <2> QED
      BY <1>1, <2>1
  <1>4. SubSeq(x, 1, k - 1) \o new \in Seq(STRING)
    BY <1>2
  <1> QED
    BY <1>3, <1>4 DEF ReplacedAt

(* What the guard counts once has a first place, the one that is replaced. *)
LEMMA CountedIsFirst ==
  ASSUME NEW x \in Seq(STRING), NEW sought \in Seq(STRING), NEW k \in Occurrences(x, sought),
         CountedOnceAt(x, sought, k)
  PROVE  FirstIn(Occurrences(x, sought)) = k
  <1>1. \A j \in Occurrences(x, sought) : j \in Int
    BY DEF Occurrences
  <1>2. \A j \in Occurrences(x, sought) : k <= j
    BY <1>1 DEF CountedOnceAt
  <1>3. \A j \in Occurrences(x, sought) :
            (\A i \in Occurrences(x, sought) : j <= i) => j = k
    BY <1>1, <1>2
  <1> QED
    BY <1>2, <1>3 DEF FirstIn

LEMMA OffType ==
  /\ Off \in Writer /\ Off.pc = "off"
  /\ \A x \in Seq(STRING) : /\ [pc |-> "open", text |-> x] \in Writer
                            /\ [pc |-> "open", text |-> x] # Off
  BY DEF Off, Writer

LEMMA OpenedType ==
  ASSUME NEW w \in Writer
  PROVE  /\ Opened(w) \in Writer /\ Opened(w).pc = "fill"
         /\ Opened(w).text = w.text /\ w.text \in Seq(STRING)
  BY DEF Writer, Opened

LEMMA DoneType ==
  ASSUME NEW a \in {"ok", "error", "timeout"}
  PROVE  Done(a) \in Waiting /\ Done(a).tool = "none"
  BY DEF Done, Waiting

(* The types, one by one.                                                  *)
LEMMA FilesTypes ==
  ASSUME FilesInv
  PROVE  /\ disk \in {NotThere} \cup Seq(STRING)
         /\ call \in [Caller -> Waiting]
         /\ hand \in [Caller -> Writer] /\ process \in [Caller -> Writer]
         /\ \A c \in Caller : hand[c] # Off => call[c].tool \in {"edit", "write"}
         /\ calls \in 0..MaxFileCalls
         /\ base \in [Caller -> {NotThere} \cup Seq(STRING)]
         /\ crossed \subseteq Caller
  BY DEF FilesInv, FilesTypeOK

-----------------------------------------------------------------------------
(* A call begins; h and p are its writer and its process.                  *)
LEMMA BeginKeepsFiles ==
  ASSUME FilesInv, NEW c \in Caller, NEW w \in Waiting, CallBegins(c, w),
         NEW h \in Writer, NEW p \in Writer,
         hand' = [hand EXCEPT ![c] = h], process' = [process EXCEPT ![c] = p],
         h # Off => w.tool \in {"edit", "write"},
         h.pc # "fill", p.pc = "fill" => process[c].pc = "fill",
         w.tool = "edit" => EditApplied(disk, w.asked[1], w.asked[2], h.text),
         w.tool = "write" => h.text = w.asked,
         w.tool = "bash" => p.pc = "open" /\ p.text = w.asked
  PROVE  FilesInv'
  <1>1. /\ call[c].tool = "none" /\ calls < MaxFileCalls
        /\ call' = [call EXCEPT ![c] = w] /\ calls' = calls + 1
        /\ base' = [base EXCEPT ![c] = disk]
        /\ crossed' = crossed \ {c} /\ disk' = disk
    BY DEF CallBegins
  <1>2. calls' \in 0..MaxFileCalls
    BY <1>1, FilesTypes, FilesAssumption
  <1>3. /\ call'[c] = w /\ hand'[c] = h /\ process'[c] = p
        /\ \A d \in Caller \ {c} :
               /\ call'[d] = call[d] /\ hand'[d] = hand[d]
               /\ process'[d] = process[d] /\ base'[d] = base[d]
    BY <1>1, FilesTypes
  <1>4. base'[c] = disk
    BY <1>1, FilesTypes
  <1>5. FilesTypeOK'
    <2>1. /\ call' \in [Caller -> Waiting]
          /\ hand' \in [Caller -> Writer] /\ process' \in [Caller -> Writer]
          /\ base' \in [Caller -> {NotThere} \cup Seq(STRING)]
      BY <1>1, FilesTypes
    <2>2. \A d \in Caller : hand'[d] # Off => call'[d].tool \in {"edit", "write"}
      BY <1>3, FilesTypes
    <2> QED
      BY <1>1, <1>2, <2>1, <2>2, FilesTypes DEF FilesTypeOK
  <1>6. \A d \in Caller : hand'[d].pc = "fill" \/ process'[d].pc = "fill" =>
            disk' \in Seq(STRING)
    BY <1>1, <1>3 DEF FilesInv
  <1>7. ASSUME NEW d \in Caller, call'[d].tool # "none", d \notin crossed'
        PROVE  Uncrossed(d)'
    <2>1. CASE d = c
      BY <1>1, <1>3, <1>4, <2>1 DEF Uncrossed
    <2>2. CASE d # c
      <3>1. Uncrossed(d)
        BY <1>1, <1>3, <1>7, <2>2 DEF FilesInv
      <3> QED
        BY <1>1, <1>3, <2>2, <3>1 DEF Uncrossed
    <2> QED
      BY <2>1, <2>2
  <1> QED
    BY <1>5, <1>6, <1>7 DEF FilesInv

(* A step of turn c, of its call, its writer or its process, that begins   *)
(* no call: it leaves the file alone or crosses all the others.            *)
LEMMA CallerSteps ==
  ASSUME FilesInv, NEW c \in Caller,
         NEW w \in Waiting, NEW h \in Writer, NEW p \in Writer,
         call' = [call EXCEPT ![c] = w], hand' = [hand EXCEPT ![c] = h],
         process' = [process EXCEPT ![c] = p], UNCHANGED <<calls, base>>,
         h # Off => w.tool \in {"edit", "write"},
         disk' = disk \/ disk' \in Seq(STRING),
         h.pc = "fill" \/ p.pc = "fill" => disk' \in Seq(STRING),
         crossed' \subseteq Caller, crossed \subseteq crossed',
         \/ disk' = disk
         \/ \A d \in Caller \ {c} : call[d].tool # "none" => d \in crossed',
         w.tool # "none" /\ c \notin crossed' => Uncrossed(c)'
  PROVE  FilesInv'
  <1>1. /\ call'[c] = w /\ hand'[c] = h /\ process'[c] = p
        /\ \A d \in Caller \ {c} :
               call'[d] = call[d] /\ hand'[d] = hand[d] /\ process'[d] = process[d]
    BY FilesTypes
  <1>2. FilesTypeOK'
    <2>1. /\ call' \in [Caller -> Waiting]
          /\ hand' \in [Caller -> Writer] /\ process' \in [Caller -> Writer]
      BY FilesTypes
    <2>2. \A d \in Caller : hand'[d] # Off => call'[d].tool \in {"edit", "write"}
      BY <1>1, FilesTypes
    <2> QED
      BY <2>1, <2>2, FilesTypes DEF FilesTypeOK
  <1>3. \A d \in Caller : hand'[d].pc = "fill" \/ process'[d].pc = "fill" =>
            disk' \in Seq(STRING)
    BY <1>1 DEF FilesInv
  <1>4. ASSUME NEW d \in Caller, call'[d].tool # "none", d \notin crossed'
        PROVE  Uncrossed(d)'
    <2>1. CASE d = c
      BY <1>1, <1>4, <2>1
    <2>2. CASE d # c
      <3>1. Uncrossed(d) /\ disk' = disk
        BY <1>1, <1>4, <2>2 DEF FilesInv
      <3> QED
        BY <1>1, <2>2, <3>1 DEF Uncrossed
    <2> QED
      BY <2>1, <2>2
  <1> QED
    BY <1>2, <1>3, <1>4 DEF FilesInv

LEMMA SameCall ==
  ASSUME FilesInv, NEW c \in Caller
  PROVE  /\ call[c] \in Waiting /\ hand[c] \in Writer /\ process[c] \in Writer
         /\ call = [call EXCEPT ![c] = call[c]]
         /\ hand = [hand EXCEPT ![c] = hand[c]]
         /\ process = [process EXCEPT ![c] = process[c]]
  BY FilesTypes

LEMMA CrossesOthers ==
  ASSUME FilesInv, NEW others \in SUBSET Caller, Crosses(others)
  PROVE  /\ crossed' \subseteq Caller /\ crossed \subseteq crossed'
         /\ \A d \in others : call[d].tool # "none" => d \in crossed'
         /\ \A d \in Caller \ others : d \in crossed' => d \in crossed
  BY FilesTypes DEF Crosses

LEMMA ToolKeepsFiles ==
  ASSUME FilesInv, NEW c \in Caller, ToolOpens(c) \/ ToolFills(c) \/ ToolFails(c)
  PROVE  FilesInv'
  <1>0. /\ call[c] \in Waiting /\ hand[c] \in Writer /\ process[c] \in Writer
        /\ call = [call EXCEPT ![c] = call[c]]
        /\ process = [process EXCEPT ![c] = process[c]]
    BY SameCall
  <1>1. Done("ok") \in Waiting /\ Done("error") \in Waiting
        /\ Done("ok").tool = "none" /\ Done("error").tool = "none"
    BY DoneType
  <1>2. Off \in Writer /\ Off.pc = "off"
    BY OffType
  <1>3. process[c].pc = "fill" => disk \in Seq(STRING)
    BY DEF FilesInv
  <1>4. CASE ToolOpens(c)
    <2> DEFINE h == Opened(hand[c])
    <2>1. /\ hand[c].pc = "open" /\ disk' = <<>> /\ hand' = [hand EXCEPT ![c] = h]
          /\ Crosses(Caller \ {c}) /\ UNCHANGED <<call, process, calls, base>>
      BY <1>4 DEF ToolOpens
    <2>2. h \in Writer /\ h.pc = "fill" /\ h.text = hand[c].text
      BY <1>0, OpenedType
    <2> HIDE DEF h
    <2>3. hand[c] # Off /\ call[c].tool \in {"edit", "write"}
      BY <1>2, <2>1, FilesTypes
    <2>4. <<>> \in Seq(STRING)
      OBVIOUS
    <2>5. hand'[c] = h
      BY <2>1, FilesTypes
    <2>6. c \notin crossed' => Uncrossed(c)'
      <3> SUFFICES ASSUME c \notin crossed' PROVE Uncrossed(c)'
        OBVIOUS
      <3>1. Uncrossed(c)
        BY <2>1, <2>3, CrossesOthers DEF FilesInv
      <3> QED
        BY <2>1, <2>2, <2>3, <2>5, <3>1 DEF Uncrossed
    <2> QED
      BY <1>0, <2>1, <2>2, <2>3, <2>4, <2>6, CrossesOthers, CallerSteps
  <1>5. CASE ToolFills(c)
    <2>1. /\ hand[c].pc = "fill" /\ disk' = Over(hand[c].text, disk)
          /\ hand' = [hand EXCEPT ![c] = Off]
          /\ call' = [call EXCEPT ![c] = Done("ok")]
          /\ Crosses(Caller \ {c}) /\ UNCHANGED <<process, calls, base>>
      BY <1>5 DEF ToolFills
    <2>2. disk' \in Seq(STRING)
      BY <1>0, <2>1, OverType, OpenedType DEF FilesInv
    <2> QED
      BY <1>0, <1>1, <1>2, <2>1, <2>2, CrossesOthers, CallerSteps
  <1>6. CASE ToolFails(c)
    <2>1. /\ hand' = [hand EXCEPT ![c] = Off]
          /\ call' = [call EXCEPT ![c] = Done("error")]
          /\ UNCHANGED <<disk, process, calls, base, crossed>>
      BY <1>6 DEF ToolFails
    <2>2. /\ process' = [process EXCEPT ![c] = process[c]] /\ process[c] \in Writer
          /\ UNCHANGED <<calls, base>> /\ disk' = disk
          /\ process[c].pc = "fill" => disk' \in Seq(STRING)
      BY <1>0, <1>3, <2>1
    <2>3. crossed' \subseteq Caller /\ crossed \subseteq crossed'
      BY <2>1, FilesTypes
    <2>4. /\ Off.pc # "fill" /\ Done("error").tool = "none"
          /\ Off \in Writer /\ Done("error") \in Waiting
      BY <1>1, <1>2
    <2> QED
      BY <2>1, <2>2, <2>3, <2>4, CallerSteps
  <1> QED
    BY <1>4, <1>5, <1>6

LEMMA CommandWritesFile ==
  ASSUME FilesInv, NEW c \in Caller, CommandOpens(c) \/ CommandFills(c)
  PROVE  FilesInv'
  <1>0. /\ call[c] \in Waiting /\ hand[c] \in Writer /\ process[c] \in Writer
        /\ call = [call EXCEPT ![c] = call[c]]
        /\ hand = [hand EXCEPT ![c] = hand[c]]
    BY SameCall
  <1>1. /\ Off \in Writer /\ Off.pc = "off"
        /\ hand[c] # Off => call[c].tool \in {"edit", "write"}
    BY OffType, FilesTypes
  <1>2. PICK p \in Writer, x \in Seq(STRING) :
            /\ disk' = x /\ process' = [process EXCEPT ![c] = p]
            /\ p.pc # "off" => p.text = process[c].text /\ p.pc = "fill" /\ x = <<>>
            /\ p.pc = "off" => x = Over(process[c].text, disk)
                                 /\ process[c].pc = "fill"
            /\ process[c].pc # "off"
            /\ Crosses(Beside(c)) /\ UNCHANGED <<call, hand, calls, base>>
    <2>1. CASE CommandOpens(c)
      <3>1. Opened(process[c]) \in Writer /\ Opened(process[c]).pc = "fill"
            /\ Opened(process[c]).text = process[c].text /\ <<>> \in Seq(STRING)
        BY <1>0, OpenedType
      <3> QED
        BY <2>1, <3>1 DEF CommandOpens
    <2>2. CASE CommandFills(c)
      <3>1. Over(process[c].text, disk) \in Seq(STRING)
        BY <1>0, <2>2, OverType, OpenedType DEF FilesInv, CommandFills
      <3> QED
        BY <1>1, <2>2, <3>1 DEF CommandFills
    <2> QED
      BY <2>1, <2>2
  <1>3. process'[c] = p
    BY <1>2, FilesTypes
  <1>4. /\ crossed' \subseteq Caller /\ crossed \subseteq crossed'
        /\ \A d \in Beside(c) : call[d].tool # "none" => d \in crossed'
        /\ \A d \in Caller \ Beside(c) : d \in crossed' => d \in crossed
        /\ Caller \ {c} \subseteq Beside(c)
        /\ call[c].tool # "bash" => c \in Beside(c)
        /\ call[c].tool = "bash" => c \notin Beside(c)
    BY <1>2, CrossesOthers DEF Beside
  <1>5. call[c].tool # "none" /\ c \notin crossed' => Uncrossed(c)'
    <2> SUFFICES ASSUME call[c].tool # "none", c \notin crossed'
                 PROVE  Uncrossed(c)'
      OBVIOUS
    <2>1. call[c].tool = "bash" /\ Uncrossed(c)
      BY <1>4 DEF FilesInv
    <2>2. p.pc = "off" => disk' = process[c].text
      BY <1>0, <1>2, <2>1, OpenedType, OverEmpty DEF Uncrossed
    <2>3. process[c].text = call[c].asked
      BY <1>2, <2>1 DEF Uncrossed
    <2> QED
      BY <1>2, <1>3, <2>1, <2>2, <2>3 DEF Uncrossed
  <1> QED
    BY <1>0, <1>1, <1>2, <1>4, <1>5, CallerSteps

LEMMA CommandReturns ==
  ASSUME FilesInv, NEW c \in Caller,
         CommandEnds(c) \/ CommandFails(c) \/ CommandTimesOut(c)
  PROVE  FilesInv'
  <1>0. /\ hand[c] \in Writer /\ process[c] \in Writer
        /\ hand = [hand EXCEPT ![c] = hand[c]]
        /\ process = [process EXCEPT ![c] = process[c]]
    BY SameCall
  <1>1. /\ Done("ok") \in Waiting /\ Done("error") \in Waiting
        /\ Done("timeout") \in Waiting /\ Off \in Writer /\ Off.pc = "off"
        /\ \A a \in {"ok", "error", "timeout"} : Done(a).tool = "none"
    BY DoneType, OffType
  <1>2. /\ process[c].pc = "fill" => disk \in Seq(STRING)
        /\ hand[c].pc = "fill" => disk \in Seq(STRING)
    BY DEF FilesInv
  <1>3. PICK a \in {"ok", "error", "timeout"}, p \in {Off, process[c]} :
            /\ call[c].tool = "bash"
            /\ call' = [call EXCEPT ![c] = Done(a)]
            /\ process' = [process EXCEPT ![c] = p]
            /\ UNCHANGED <<disk, hand, calls, base, crossed>>
    BY <1>0 DEF CommandEnds, CommandFails, CommandTimesOut
  <1>4. hand[c] = Off
    BY <1>3, FilesTypes
  <1>5. p \in Writer /\ (p.pc = "fill" => disk \in Seq(STRING))
    BY <1>0, <1>1, <1>2, <1>3
  <1> QED
    BY <1>0, <1>1, <1>2, <1>3, <1>4, <1>5, FilesTypes, CallerSteps

-----------------------------------------------------------------------------
LEMMA EditBegins ==
  ASSUME FilesInv, NEW c \in Caller, NEW e \in Replacement, EditReads(c, e[1], e[2])
  PROVE  FilesInv'
  <1> DEFINE k == FirstIn(Occurrences(disk, e[1]))
             x == ReplacedAt(disk, k, e[1], e[2])
             w == [tool |-> "edit", asked |-> <<e[1], e[2]>>]
             h == [pc |-> "open", text |-> x]
  <1>1. /\ disk # NotThere /\ MatchesOnce(disk, e[1]) /\ CallBegins(c, w)
        /\ hand' = [hand EXCEPT ![c] = h] /\ process' = process
    BY DEF EditReads
  <1>2. e[1] \in Seq(STRING) /\ e[2] \in Seq(STRING) /\ <<e[1], e[2]>> = e
    BY FilesAssumption
  <1>3. disk \in Seq(STRING)
    BY <1>1, FilesTypes
  <1>4. k \in Occurrences(disk, e[1]) /\ CountedOnceAt(disk, e[1], k)
    <2>1. PICK j \in Occurrences(disk, e[1]) : CountedOnceAt(disk, e[1], j)
      BY <1>1 DEF MatchesOnce
    <2>2. k = j
      BY <1>2, <1>3, <2>1, CountedIsFirst
    <2> HIDE DEF k
    <2> QED
      BY <2>1, <2>2
  <1> HIDE DEF k
  <1>5. x \in Seq(STRING) /\ EditApplied(disk, e[1], e[2], x)
    BY <1>2, <1>3, <1>4, ReplacedType DEF EditApplied
  <1> HIDE DEF x
  <1>6. h \in Writer /\ h.pc = "open" /\ h.text = x
    BY <1>5 DEF Writer
  <1>7. w \in Waiting /\ w.tool = "edit" /\ w.asked[1] = e[1] /\ w.asked[2] = e[2]
    BY <1>2 DEF Waiting
  <1> HIDE DEF h, w
  <1>8. process[c] \in Writer /\ process = [process EXCEPT ![c] = process[c]]
    BY SameCall
  <1> QED
    BY <1>1, <1>5, <1>6, <1>7, <1>8, BeginKeepsFiles

LEMMA WriteStarts ==
  ASSUME FilesInv, NEW c \in Caller, NEW x \in Written, WriteBegins(c, x)
  PROVE  FilesInv'
  <1> DEFINE w == [tool |-> "write", asked |-> x]
             h == [pc |-> "open", text |-> x]
  <1>1. CallBegins(c, w) /\ hand' = [hand EXCEPT ![c] = h] /\ process' = process
    BY DEF WriteBegins
  <1>2. /\ h \in Writer /\ h.pc = "open" /\ h.text = x
        /\ w \in Waiting /\ w.tool = "write" /\ w.asked = x
    BY FilesAssumption DEF Writer, Waiting
  <1> HIDE DEF h, w
  <1>3. process[c] \in Writer /\ process = [process EXCEPT ![c] = process[c]]
    BY SameCall
  <1> QED
    BY <1>1, <1>2, <1>3, BeginKeepsFiles

LEMMA CommandStarts ==
  ASSUME FilesInv, NEW c \in Caller, NEW x \in Written, CommandBegins(c, x)
  PROVE  FilesInv'
  <1> DEFINE w == [tool |-> "bash", asked |-> x]
             p == [pc |-> "open", text |-> x]
  <1>1. CallBegins(c, w) /\ process' = [process EXCEPT ![c] = p] /\ hand' = hand
    BY DEF CommandBegins
  <1>2. /\ p \in Writer /\ p.pc = "open" /\ p.text = x
        /\ w \in Waiting /\ w.tool = "bash" /\ w.asked = x
    BY FilesAssumption DEF Writer, Waiting
  <1> HIDE DEF p, w
  <1>3. /\ hand[c] \in Writer /\ hand = [hand EXCEPT ![c] = hand[c]]
        /\ Off \in Writer /\ Off.pc = "off"
    BY SameCall, OffType
  <1>4. hand[c] = Off
    BY <1>1, FilesTypes DEF CallBegins
  <1> QED
    BY <1>1, <1>2, <1>3, <1>4, BeginKeepsFiles

LEMMA FilesStep ==
  ASSUME FilesInv, [FilesNext]_filesVars
  PROVE  FilesInv'
  <1>1. CASE UNCHANGED filesVars
    <2>1. UNCHANGED <<disk, call, hand, process, calls, base, crossed>>
      BY <1>1 DEF filesVars
    <2>2. FilesTypeOK'
      BY <2>1 DEF FilesInv, FilesTypeOK
    <2>3. \A c \in Caller : Uncrossed(c) => Uncrossed(c)'
      BY <2>1 DEF Uncrossed
    <2> QED
      BY <2>1, <2>2, <2>3 DEF FilesInv
  <1> QED
    BY <1>1, EditBegins, WriteStarts, CommandStarts, ToolKeepsFiles,
       CommandWritesFile, CommandReturns DEF FilesNext

LEMMA FilesInvariant == FilesSpec => []FilesInv
  <1>1. FilesInit => FilesInv
    <2> SUFFICES ASSUME FilesInit PROVE FilesInv
      OBVIOUS
    <2>1. /\ disk \in {NotThere} \cup Written
          /\ call = [c \in Caller |-> Done("ok")]
          /\ hand = [c \in Caller |-> Off] /\ process = [c \in Caller |-> Off]
          /\ calls = 0 /\ base = [c \in Caller |-> NotThere] /\ crossed = {}
      BY DEF FilesInit
    <2>2. /\ Off \in Writer /\ Off.pc = "off"
          /\ Done("ok") \in Waiting /\ Done("ok").tool = "none"
      BY OffType, DoneType
    <2>3. disk \in {NotThere} \cup Seq(STRING) /\ 0 \in 0..MaxFileCalls
      BY <2>1, FilesAssumption
    <2> QED
      BY <2>1, <2>2, <2>3 DEF FilesInv, FilesTypeOK
  <1>2. FilesInv /\ [FilesNext]_filesVars => FilesInv'
    BY FilesStep
  <1> QED
    BY <1>1, <1>2, PTL DEF FilesSpec

(* The file stays a text however writers overlap, and only a call of       *)
(* file_edit or file_write has a hand on it.                               *)
THEOREM FilesTypeCorrect == FilesSpec => []FilesTypeOK
  <1>1. FilesInv => FilesTypeOK
    BY DEF FilesInv
  <1> QED
    BY FilesInvariant, <1>1, PTL

(* What a call of file_edit, file_write or bash that no other call and no  *)
(* command left running has crossed reports as done has been done          *)
(* (agent-core/builtins), for any number of turns and all texts: an edit   *)
(* has replaced the first occurrence of its text, which every other one    *)
(* overlaps, and kept the rest.                                            *)
THEOREM CallsReportWhatIsDone == FilesSpec => ReportedIsDone
  <1> DEFINE A == \A c \in Caller :
                    call[c].tool # "none" /\ call'[c] = Done("ok") /\ c \notin crossed =>
                        DoneAsAsked(c, disk')
  <1>1. ASSUME FilesInv, [FilesNext]_filesVars PROVE A
    <2> SUFFICES ASSUME NEW c \in Caller, call[c].tool # "none",
                        call'[c] = Done("ok"), c \notin crossed
                 PROVE  DoneAsAsked(c, disk')
      OBVIOUS
    <2>0. /\ Uncrossed(c) /\ call[c] # call'[c] /\ call[c].tool # "none"
          /\ call \in [Caller -> Waiting]
      <3>1. Done("ok").tool = "none"
        BY DoneType
      <3> QED
        BY <1>1, <3>1, FilesTypes DEF FilesInv
    <2>1. ToolFills(c) \/ CommandEnds(c)
      <3>1. /\ Done("error") # Done("ok") /\ Done("timeout") # Done("ok")
        BY DEF Done
      <3>2. ~(UNCHANGED filesVars)
        BY <2>0 DEF filesVars
      <3>3. PICK d \in Caller :
                \/ \E w : CallBegins(d, w)
                \/ UNCHANGED call
                \/ ToolFills(d) \/ ToolFails(d)
                \/ CommandEnds(d) \/ CommandFails(d) \/ CommandTimesOut(d)
        BY <1>1, <3>2 DEF FilesNext, EditReads, WriteBegins, CommandBegins, ToolOpens,
                         CommandOpens, CommandFills
      <3>4. d = c
        BY <2>0, <3>3 DEF CallBegins, ToolFills, ToolFails, CommandEnds, CommandFails,
                         CommandTimesOut
      <3> QED
        BY <2>0, <3>1, <3>3, <3>4 DEF CallBegins, ToolFails, CommandFails,
                                     CommandTimesOut
    <2>2. CASE ToolFills(c)
      <3>1. hand[c].pc = "fill" /\ disk' = Over(hand[c].text, disk)
        BY <2>2 DEF ToolFills
      <3>2. hand[c] \in Writer /\ call[c].tool \in {"edit", "write"}
        BY <1>1, <3>1, FilesTypes, OffType
      <3>3. disk = <<>>
        BY <2>0, <3>1, <3>2 DEF Uncrossed
      <3>4. disk' = hand[c].text
        BY <3>1, <3>2, <3>3, OpenedType, OverEmpty
      <3> QED
        BY <2>0, <3>2, <3>4 DEF Uncrossed, DoneAsAsked
    <2>3. CASE CommandEnds(c)
      <3>1. /\ call[c].tool = "bash" /\ process[c].pc = "off" /\ disk' = disk
        BY <2>3, OffType DEF CommandEnds
      <3> QED
        BY <2>0, <3>1 DEF Uncrossed, DoneAsAsked
    <2> QED
      BY <2>1, <2>2, <2>3
  <1> QED
    BY FilesInvariant, <1>1, PTL DEF FilesSpec, ReportedIsDone

-----------------------------------------------------------------------------

(***************************************************************************)
(* The five together, as MCSettings runs them.                             *)
(***************************************************************************)

(* Whichever part takes the steps, each part behaves as it does alone.     *)
THEOREM PartsBehave ==
  SettingsSpec => SkillsSpec /\ SoulSpec /\ ConfigSpec /\ MemorySpec /\ FilesSpec
  <1>1. SettingsInit => SkillsInit /\ SoulInit /\ ConfigInit /\ MemoryInit /\ FilesInit
    BY DEF SettingsInit
  <1>2. [SettingsNext]_settingsVars =>
            /\ [SkillsNext]_skillsVars /\ [SoulNext]_soulVars
            /\ [ConfigNext]_configVars /\ [MemoryNext]_memoryVars
            /\ [FilesNext]_filesVars
    BY DEF SettingsNext, settingsVars
  <1> QED
    BY <1>1, <1>2, PTL
       DEF SettingsSpec, SkillsSpec, SoulSpec, ConfigSpec, MemorySpec, FilesSpec

(* What users set up and what tools keep for them stays of its types in    *)
(* all five parts (skill-registry, startup, config, soul, memory, files).  *)
THEOREM SettingsTypeCorrect == SettingsSpec => []SettingsTypeOK
  <1>1. /\ SkillsTypeOK /\ SoulTypeOK /\ ConfigTypeOK /\ MemoryTypeOK /\ FilesTypeOK
            => SettingsTypeOK
    BY DEF SettingsTypeOK
  <1> QED
    BY PartsBehave, SkillsTypeCorrect, SoulTypeCorrect, ConfigTypeCorrect,
       MemoryTypeCorrect, FilesTypeCorrect, <1>1, PTL
==============================================================================
