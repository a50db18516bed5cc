-------------------------------- MODULE Soul --------------------------------
(***************************************************************************)
(* The souls: who the agent is for each user.                              *)
(*                                                                         *)
(*   handlers.rs   create, patch and generate_soul_handler, and            *)
(*                 parse_soul_row, which get_soul_handler uses as well.    *)
(*   cli/soul.rs   run_edit, which takes a soul through an editor in the   *)
(*                 form of a SOUL.md file.  run_set and run_import send    *)
(*                 the requests that patch and create answer.              *)
(*   soul.rs       parse_soul_md and to_soul_md.                           *)
(*   agent.rs      load_soul, which a turn makes its prompt from.          *)
(*                                                                         *)
(* A soul has four fields with a fixed choice of words; tone stands for    *)
(* all of them.  The text conversions are constants that say what becomes  *)
(* of a name or of a personality.  A patch reads the row, awaits and       *)
(* overwrites it; an edit does so through a temporary file that all edits  *)
(* on the machine share.                                                   *)
(***************************************************************************)
EXTENDS Naturals, Functions

CONSTANTS
    User,
    Name, Assistant, Agent, Blank,   \* names, and those that the code uses
    Personality, NoText,             \* texts, the empty one among them
    Tone, DefaultTone, Unknown,      \* words, the default, one that is none
    Yaml,            \* Yaml[n]: what "name: n" is read as; {}: an error
    Trimmed,         \* Trimmed[x]: x without dashes and blanks around it
    Custom,          \* Custom[u]: the system_prompt in prefs, if there is one
    Client,          \* patches and edits that can be in progress together
    Change,          \* bound: what requests and users in an editor ask for
    NoFile,
    MaxWrites        \* bound: requests and edits that are begun

Soul == [name : Name, personality : Personality, tone : Tone]
Text == [name : Name, personality : Personality, tone : Tone \cup {Unknown}]

ASSUME WordAssumption ==
    /\ User # {}
    /\ {Assistant, Agent, Blank} \subseteq Name /\ NoText \in Personality
    /\ DefaultTone \in Tone /\ Unknown \notin Tone /\ NoFile \notin Text

ASSUME ConversionAssumption ==
    /\ Yaml \in [Name -> SUBSET Name] /\ Yaml[Blank] = {Assistant}
    /\ \A n \in Name : \A x, y \in Yaml[n] : x = y
    /\ Trimmed \in [Personality -> Personality] /\ Trimmed[NoText] = NoText

(* A field that a change leaves alone is the empty set, one that it sets   *)
(* the set of its new value.                                               *)
ASSUME ChangeAssumption ==
    /\ Change \subseteq [name : SUBSET Name, personality : SUBSET Personality,
                         tone : SUBSET (Tone \cup {Unknown})]
    /\ \A ch \in Change : \A f \in DOMAIN ch : \A x, y \in ch[f] : x = y
    /\ Custom \in [User -> SUBSET Personality]
    /\ \A u \in User : \A x, y \in Custom[u] : x = y
    /\ MaxWrites \in Nat

VARIABLES
    soulRow,         \* the table souls: a function of the users in it
    job,             \* job[p]: the patch or edit that p is in
    soulFile,        \* edgeclaw-soul.md in the temporary directory
    started          \* requests and edits begun, see MaxWrites

soulVars == <<soulRow, job, soulFile, started>>

Nothing == [name |-> {}, personality |-> {}, tone |-> {}]

(* calm and fetched are for the properties: nobody else has written what   *)
(* the job works on; the edit began with the user's soul.                  *)
Job == [pc : {"idle", "patch", "editor", "post"}, user : User, soul : Soul,
        change : Change \cup {Nothing}, calm : BOOLEAN, fetched : BOOLEAN]

SoulTypeOK ==
    /\ DOMAIN soulRow \subseteq User
    /\ soulRow \in [DOMAIN soulRow -> Soul]
    /\ job \in [Client -> Job]
    /\ soulFile \in Text \cup {NoFile}
    /\ started \in 0..MaxWrites

-----------------------------------------------------------------------------
(* Soul::default()                                                         *)
DefaultSoul ==
    [name |-> Assistant, personality |-> NoText, tone |-> DefaultTone]

ParsedTone(word) == IF word \in Tone THEN word ELSE DefaultTone

(* parse_soul_row, or the default, as patch and get have it.               *)
StoredSoul(u) ==
    IF u \in DOMAIN soulRow
      THEN [soulRow[u] EXCEPT !.tone = ParsedTone(@)]
      ELSE DefaultSoul

(* load_soul                                                               *)
TurnSoul(u) ==
    IF u \in DOMAIN soulRow \/ Custom[u] = {} THEN StoredSoul(u)
    ELSE [DefaultSoul EXCEPT !.name = Blank,
                             !.personality = CHOOSE x \in Custom[u] : TRUE]

(* parse_soul_md of a text that to_soul_md or the user has written: no     *)
(* soul, if the name is not a string to YAML.                              *)
ParseSoulMd(text) ==
    {[name |-> n, personality |-> Trimmed[text.personality],
      tone |-> ParsedTone(text.tone)] : n \in Yaml[text.name]}

Set(old, new) == IF new = {} THEN old ELSE CHOOSE x \in new : TRUE
Patched(soul, ch) ==
    [name |-> Set(soul.name, ch.name),
     personality |-> Set(soul.personality, ch.personality),
     tone |-> Set(soul.tone, ch.tone)]

IdleJob == [pc |-> "idle", user |-> CHOOSE u \in User : TRUE,
            soul |-> DefaultSoul, change |-> Nothing,
            calm |-> FALSE, fetched |-> FALSE]

SoulInit ==
    /\ soulRow = [u \in {} |-> DefaultSoul]
    /\ job = [p \in Client |-> IdleJob]
    /\ soulFile = NoFile /\ started = 0

-----------------------------------------------------------------------------
Upsert(u, soul) == soulRow' = [v \in DOMAIN soulRow \cup {u} |->
                                  IF v = u THEN soul ELSE soulRow[v]]

(* Jobs of others that are no longer calm: those on user u whose row is    *)
(* written, or the edits, when somebody uses their file.                   *)
Disturbed(j, u) == [j EXCEPT !.calm = @ /\ j.user # u]
Crossed(j) == [j EXCEPT !.calm = @ /\ j.pc # "editor"]

Counts == started < MaxWrites /\ started' = started + 1

(* create_soul_handler: a name must be given, a word that is unknown is a  *)
(* bad request.                                                            *)
CreateSoul(u, ch) ==
    /\ Counts /\ ch.name # {} /\ ch.tone \subseteq Tone
    /\ Upsert(u, Patched(DefaultSoul, ch))
    /\ job' = [p \in Client |-> Disturbed(job[p], u)]
    /\ UNCHANGED soulFile

(* generate_soul_handler: whatever the LLM has left out or made up is a    *)
(* default.                                                                *)
GenerateSoul(u, ch) ==
    /\ Counts
    /\ LET soul == Patched([DefaultSoul EXCEPT !.name = Agent], ch)
       IN  Upsert(u, [soul EXCEPT !.tone = ParsedTone(@)])
    /\ job' = [p \in Client |-> Disturbed(job[p], u)]
    /\ UNCHANGED soulFile

PatchDefaults(p, u, ch) ==      \* slip: starts from the default
    /\ Counts /\ job[p].pc = "idle"
    /\ job' = [job EXCEPT ![p] = [pc |-> "patch", user |-> u, change |-> ch,
                   soul |-> DefaultSoul, calm |-> TRUE, fetched |-> TRUE]]
    /\ UNCHANGED <<soulRow, soulFile>>

(* patch_soul_handler reads the row ...                                    *)
PatchReads(p, u, ch) ==
    /\ Counts /\ job[p].pc = "idle"
    /\ job' = [job EXCEPT ![p] = [pc |-> "patch", user |-> u, change |-> ch,
                   soul |-> StoredSoul(u), calm |-> TRUE, fetched |-> TRUE]]
    /\ UNCHANGED <<soulRow, soulFile>>

(* ... and overwrites all of it.                                           *)
PatchWrites(p) ==
    /\ job[p].pc = "patch"
    /\ job[p].change.tone \subseteq Tone
    /\ Upsert(job[p].user, Patched(job[p].soul, job[p].change))
    /\ job' = [q \in Client |->
                  IF q = p THEN IdleJob
                  ELSE Disturbed(job[q], job[p].user)]
    /\ UNCHANGED <<soulFile, started>>

(* A bad request, a statement that fails, an editor that exits with an     *)
(* error (the temporary file stays), a server that does not answer.        *)
JobFails(p) ==
    /\ job[p].pc # "idle"
    /\ job' = [job EXCEPT ![p] = IdleJob]
    /\ UNCHANGED <<soulRow, soulFile, started>>

-----------------------------------------------------------------------------
(* run_edit                                                                *)

(* The status of the answer is not looked at: an error is a soul with no   *)
(* name.  The editor opens the text.                                       *)
EditFetches(p, u, fetched) ==
    /\ Counts /\ job[p].pc = "idle"
    /\ LET soul == IF fetched THEN StoredSoul(u)
                   ELSE [DefaultSoul EXCEPT !.name = Blank]
       IN  /\ soulFile' = soul
           /\ job' = [q \in Client |->
                  IF q # p THEN Crossed(job[q])
                  ELSE [pc |-> "editor", user |-> u, change |-> Nothing,
                        soul |-> soul, calm |-> TRUE, fetched |-> fetched]]
    /\ UNCHANGED soulRow

(* The user changes something in the editor's copy and saves that.         *)
EditorSavesSoul(p, ch) ==
    /\ job[p].pc = "editor"
    /\ soulFile' = Patched(job[p].soul, ch)
    /\ job' = [q \in Client |-> IF q = p THEN [job[q] EXCEPT !.change = ch]
                                ELSE Crossed(job[q])]
    /\ UNCHANGED <<soulRow, started>>

(* It is closed: the file is read and removed.                             *)
EditCloses(p) ==
    /\ job[p].pc = "editor" /\ soulFile # NoFile
    /\ soulFile' = NoFile
    /\ \E closed \in {[job[p] EXCEPT !.pc = "post", !.soul = soul] :
                          soul \in ParseSoulMd(soulFile)}
                     \cup {j \in {IdleJob} : ParseSoulMd(soulFile) = {}} :
           job' = [q \in Client |-> IF q = p THEN closed ELSE Crossed(job[q])]
    /\ UNCHANGED <<soulRow, started>>

(* create_soul_handler answers the request with all the fields.            *)
EditPosts(p) ==
    /\ job[p].pc = "post"
    /\ Upsert(job[p].user, job[p].soul)
    /\ job' = [q \in Client |->
                  IF q = p THEN IdleJob
                  ELSE Disturbed(job[q], job[p].user)]
    /\ UNCHANGED <<soulFile, started>>

SoulNext ==
    \/ \E u \in User, ch \in Change : CreateSoul(u, ch) \/ GenerateSoul(u, ch)
    \/ \E p \in Client :
           \/ \E u \in User, ch \in Change : PatchReads(p, u, ch)
           \/ PatchWrites(p) \/ JobFails(p)
           \/ \E u \in User, fetched \in BOOLEAN : EditFetches(p, u, fetched)
           \/ \E ch \in Change : EditorSavesSoul(p, ch)
           \/ EditCloses(p) \/ EditPosts(p)

SoulSpec == SoulInit /\ [][SoulNext]_soulVars

-----------------------------------------------------------------------------
(* A patch or an edit that no other write has crossed changes, in what the *)
(* agent is told to be, the fields it was asked to change and no others,   *)
(* and leaves the other users alone.  It takes a user who has no custom    *)
(* prompt from before there were souls (patch and get do not know of it),  *)
(* and for an edit a soul that was fetched and that SOUL.md can express.   *)
Expressible(soul) == ParseSoulMd(soul) = {soul}

Careful(j) ==
    /\ j.calm /\ j.fetched
    /\ j.user \in DOMAIN soulRow \/ Custom[j.user] = {}
    /\ j.pc = "post" => Expressible(Patched(TurnSoul(j.user), j.change))

WritesKeepTheRest ==
    [][\A p \in Client :
           LET j == job[p]
           IN  j.pc \in {"patch", "post"} /\ job'[p].pc = "idle"
                 /\ soulRow' # soulRow /\ Careful(j) =>
                     \A u \in User :
                         TurnSoul(u)' = IF u = j.user
                                          THEN Patched(TurnSoul(u), j.change)
                                          ELSE TurnSoul(u)]_soulVars
=============================================================================
