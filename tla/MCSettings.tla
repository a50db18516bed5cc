----------------------------- MODULE MCSettings -----------------------------
(***************************************************************************)
(* Skills, Soul, ConfigFile, Memory and Files for TLC.  The five share no  *)
(* state; in each behaviour one of them takes steps, and the run covers    *)
(* them one after the other.                                               *)
(*                                                                         *)
(* Skills: the configured skill github, whose MCP server issues sessions   *)
(* and may be restarted once, can be added again, from its own server or   *)
(* from that of notes, by two requests at a time; one of the tools has     *)
(* "__" in its name.  The EdgeClaw server crashes once.                    *)
(* ConfigFile: three commands, two at a time, over one name.               *)
(* Soul: three requests or edits, two of them at a time, by ana and by     *)
(* ben, who has a custom prompt; a name that YAML does not read as a       *)
(* string, a text that begins with a dash, a word that is unknown.         *)
(* Memory: two stores at a time, two facts, a list of one.                 *)
(* Files: two turns, three calls; an edit of a text that may be there      *)
(* twice, apart or overlapping, which grows when it is replaced; writes    *)
(* and commands that leave a short or a long text.                         *)
(***************************************************************************)
EXTENDS Skills, Soul, ConfigFile, Memory, Files, TLC

CONSTANTS
    q1, q2, plain, bearer, gitMcp, notesMcp,
    ask, auto, slack,
    ana, ben, atlas, odd, text, bullets, old, neutral, formal

VARIABLE focus     \* the module whose steps are taken

settingsVars ==
    <<skillsVars, soulVars, configVars, memoryVars, filesVars, focus>>

MCGithub == <<"github">>
MCNotes == <<"notes">>
MCSkill == {MCGithub, MCNotes}
MCTool == {<<"search">>, <<"github", "search">>}
MCBuiltin == {<<"bash">>}
MCConfigured == {MCGithub}
MCHome == [s \in MCConfigured |-> gitMcp]
MCToken == [s \in MCConfigured |-> bearer]
MCKey == (gitMcp :> bearer) @@ (notesMcp :> plain)
MCCatalogue == {{<<"search">>}, MCTool}
MCRestarts == (gitMcp :> 1) @@ (notesMcp :> 0)
MCAsked == {<<MCGithub, gitMcp, bearer>>, <<MCGithub, notesMcp, plain>>,
            <<MCNotes, notesMcp, plain>>}

MCTyped == {Invalid, [Default EXCEPT !.list["enabled"][slack] = 1]}

MCYaml == [n \in Name |-> CASE n = Blank -> {Assistant}
                            [] n = odd -> {}
                            [] OTHER -> {n}]
MCTrimmed == [x \in Personality |-> IF x = bullets THEN text ELSE x]
MCCustom == (ana :> {}) @@ (ben :> {old})
MCChange == {[Nothing EXCEPT !.name = {atlas}],
             [Nothing EXCEPT !.personality = {bullets}, !.tone = {formal}],
             [Nothing EXCEPT !.name = {odd}, !.tone = {Unknown}]}

MCLike == "pet" :> {"pets"}

MCReplacement == {<< <<"a", "a">>, <<"a", "a", "a">> >>}
MCWritten == {<<"a", "a">>, <<"c", "a", "a", "a">>}

SettingsInit ==
    /\ SkillsInit /\ SoulInit /\ ConfigInit /\ MemoryInit /\ FilesInit
    /\ focus \in {"skills", "soul", "config", "memory", "files"}
    /\ focus # "files" => disk = NotThere
    /\ mcp[notesMcp].offer = MCTool
    /\ focus # "skills" => mcp[gitMcp].offer = MCTool

SettingsNext ==
    /\ \/ focus = "skills" /\ SkillsNext /\ UNCHANGED <<soulVars, configVars,
                                                      memoryVars, filesVars>>
       \/ focus = "soul" /\ SoulNext /\ UNCHANGED <<skillsVars, configVars,
                                                  memoryVars, filesVars>>
       \/ focus = "config" /\ ConfigNext /\ UNCHANGED <<skillsVars, soulVars,
                                                      memoryVars, filesVars>>
       \/ focus = "memory" /\ MemoryNext /\ UNCHANGED <<skillsVars, soulVars,
                                                      configVars, filesVars>>
       \/ focus = "files" /\ FilesNext /\ UNCHANGED <<skillsVars, soulVars,
                                                    configVars, memoryVars>>
    /\ UNCHANGED focus

SettingsSpec ==
    /\ SettingsInit /\ [][SettingsNext]_settingsVars
    /\ WF_settingsVars(focus = "skills" /\ BootStep /\ UNCHANGED
           <<soulVars, configVars, memoryVars, filesVars, focus>>)

(* The types of what users set up and what tools keep for them.            *)
SettingsTypeOK ==
    /\ SkillsTypeOK /\ SoulTypeOK /\ ConfigTypeOK
    /\ MemoryTypeOK /\ FilesTypeOK

(* StartupServes, when it is the turn of Skills: MCP servers that refuse   *)
(* or are down delay the start of the server, but do not keep it from      *)
(* serving.                                                                *)
FocusedStartupServes == focus = "skills" => StartupServes
=============================================================================
