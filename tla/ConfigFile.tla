----------------------------- MODULE ConfigFile -----------------------------
(***************************************************************************)
(* The configuration file of the command-line client.                      *)
(*                                                                         *)
(*   config/mod.rs   load_config and save_config, which writes a temporary *)
(*                   file next to the configuration and renames it.        *)
(*   config/set.rs, connector.rs, wizard.rs  the commands that load the    *)
(*                   file, may wait for the user's answers, and save it.   *)
(*   config/edit.rs  run_edit, which lets an editor write the file itself. *)
(*                                                                         *)
(* Commands are processes of their own: they can be killed at any point,   *)
(* and nothing stops the user from starting one while another (the wizard, *)
(* say) waits.  All of them use the same temporary file.                   *)
(***************************************************************************)
EXTENDS Naturals

CONSTANTS
    Command,         \* processes that can run at the same time
    Mode,            \* values of a plain setting of [model] or [approval]
    DefaultMode,     \* what a missing setting is taken for
    Entry,            \* names of tools, connectors and personalities
    Absent,          \* no such file
    Empty,           \* truncated and not written yet
    Damaged,         \* cut off, or a mixture of what two processes wrote
    Invalid,         \* the user's own text, when it is no configuration
    Typed,           \* bound: what the user writes in the editor
    MaxCommands      \* bound: commands ever started

(* Three lists of named entries: how often each name is in it.  The order  *)
(* of the entries and what else they have does not matter.                 *)
List == {"enabled", "personalities", "connectors"}
Config == [mode : Mode, list : [List -> [Entry -> Nat]]]

ASSUME SettingAssumption ==
    /\ DefaultMode \in Mode /\ MaxCommands \in Nat
    /\ Typed \subseteq Config \cup {Invalid}

ASSUME ContentAssumption ==
    /\ {Absent, Empty, Damaged, Invalid} \cap Config = {}
    /\ Absent \notin {Empty, Damaged, Invalid}
    /\ Empty \notin {Damaged, Invalid} /\ Damaged # Invalid

VARIABLES
    file,            \* what config.toml holds
    tmp,             \* what config.toml.tmp holds
    command,         \* command[c]: the command that process c runs
    begun,           \* commands started so far
    (* An observation that no step reads.                                  *)
    raced            \* a save has begun while another was under way

configVars == <<file, tmp, command, begun, raced>>

Edit ==
    [op : {"set mode", "first run"}, mode : Mode]
      \cup [op : {"add", "wizard adds", "remove"}, list : List, name : Entry]
      \cup [op : {"edit"}]

CommandState ==
    [pc : {"idle", "save", "write", "rename", "editor"},
     edit : Edit,
     new : Config,                               \* what it is going to save
     target : {"none", "tmp", "file", "gone"},   \* what its descriptor is of
     alone : BOOLEAN]           \* no other command has run since it began

ConfigTypeOK ==
    /\ file \in Config \cup {Absent, Empty, Damaged, Invalid}
    /\ tmp \in Config \cup {Absent, Empty, Damaged}
    /\ command \in [Command -> CommandState]
    /\ begun \in 0..MaxCommands /\ raced \in BOOLEAN
    /\ \A c \in Command : command[c].target = "tmp" => tmp # Absent

(* EdgeclawConfig::default()                                               *)
NoEntries == [n \in Entry |-> 0]
Default == [mode |-> DefaultMode, list |-> [l \in List |-> NoEntries]]

Idle == [pc |-> "idle", edit |-> [op |-> "edit"], new |-> Default,
         target |-> "none", alone |-> FALSE]

ConfigInit ==
    /\ file = Absent /\ tmp = Absent
    /\ command = [c \in Command |-> Idle]
    /\ begun = 0 /\ raced = FALSE

-----------------------------------------------------------------------------
(* load_config: the configuration, unless the content does not parse.  A   *)
(* damaged file may by chance, and is then taken for a default here; so is *)
(* an empty one, which says nothing.                                       *)
Loaded(content) ==
    CASE content \in {Absent, Empty, Damaged} -> {Default}
      [] content = Invalid -> {}
      [] OTHER -> {content}

Present(k, e) == k.list[e.list][e.name] > 0
Pushed(k, e) == [k EXCEPT !.list[e.list][e.name] = @ + 1]
Retained(k, e) == [k EXCEPT !.list[e.list][e.name] = 0]

(* What a command makes of the configuration k it has loaded; nothing, if  *)
(* it gives up.  Adding a tool or setting a personality that is there      *)
(* leaves the names as they are, a connector is refused; the wizard adds   *)
(* personalities and connectors without looking.  Only a connector that is *)
(* to be removed must be there.                                            *)
Result(k, e) ==
    CASE e.op = "set mode" -> {[k EXCEPT !.mode = e.mode]}
      [] e.op = "add" /\ ~Present(k, e) -> {Pushed(k, e)}
      [] e.op = "add" -> {x \in {k} : e.list # "connectors"}
      [] e.op = "wizard adds" /\ e.list # "enabled" -> {Pushed(k, e)}
      [] e.op = "remove" /\ e.list = "connectors" -> {Retained(k, e)} \ {k}
      [] e.op = "remove" /\ e.list = "enabled" -> {Retained(k, e)}
      [] OTHER -> {}

(* run_first_run asks for the model, one personality and perhaps one       *)
(* connector.                                                              *)
Once(names) == [n \in Entry |-> IF n \in names THEN 1 ELSE 0]
FirstRun(mode, name, connectors) ==
    [Default EXCEPT !.mode = mode, !.list["personalities"] = Once({name}),
                    !.list["connectors"] = Once(connectors)]

-----------------------------------------------------------------------------
NobodyElse(c) == \A d \in Command \ {c} : command[d].pc = "idle"

(* A new command: those that are running are no longer alone.              *)
StartsCommand(c, edit, new, pc) ==
    /\ command[c].pc = "idle" /\ begun < MaxCommands
    /\ begun' = begun + 1
    /\ command' =
           [d \in Command |->
               IF d = c THEN [pc |-> pc, edit |-> edit, new |-> new,
                              target |-> "none", alone |-> NobodyElse(c)]
               ELSE [command[d] EXCEPT !.alone = FALSE]]
    /\ UNCHANGED <<file, tmp, raced>>

LoadsOrDefault(c, e) ==         \* slip: unwrap_or_default
    \E k \in IF Loaded(file) = {} THEN {Default} ELSE Loaded(file) :
        \E new \in Result(k, e) : StartsCommand(c, e, new, "save")

Loads(c, e) ==
    \E k \in Loaded(file) : \E new \in Result(k, e) : StartsCommand(c, e, new, "save")

RunsFirst(c, new) ==
    /\ file = Absent
    /\ StartsCommand(c, [op |-> "first run", mode |-> new.mode], new, "save")

(* run_edit saves a default first if there is no file.                     *)
OpensEditor(c) ==
    StartsCommand(c, [op |-> "edit"], Default,
           IF file = Absent THEN "save" ELSE "editor")

-----------------------------------------------------------------------------
(* save_config                                                             *)

(* fs::write creates or truncates the temporary file.                      *)
Truncates(c) ==
    /\ command[c].pc = "save"
    /\ tmp' = Empty
    /\ command' = [command EXCEPT ![c].pc = "write", ![c].target = "tmp"]
    /\ raced' = (raced \/ \E d \in Command : command[d].pc \in {"write", "rename"})
    /\ UNCHANGED <<file, begun>>

(* What is in the file that c has open, once c has written x to it.        *)
WritesTo(c, x) ==
    /\ tmp' = IF command[c].target = "tmp" THEN x ELSE tmp
    /\ file' = IF command[c].target = "file" THEN x ELSE file

Holds(c, x) == \/ command[c].target = "tmp" /\ tmp = x
               \/ command[c].target = "file" /\ file = x

(* Another command may have written its own text to the same file; the end *)
(* of a longer one stays.                                                  *)
Writes(c) ==
    /\ command[c].pc = "write"
    /\ \/ WritesTo(c, command[c].new)
       \/ ~Holds(c, Empty) /\ WritesTo(c, Damaged)
    /\ command' = [command EXCEPT ![c].pc = "rename"]
    /\ UNCHANGED <<begun, raced>>

WriteFailsUnseen(c) ==          \* slip: the result is dropped
    /\ command[c].pc = "write"
    /\ WritesTo(c, Damaged)
    /\ command' = [command EXCEPT ![c].pc = "rename"]
    /\ UNCHANGED <<begun, raced>>

(* The disk is full, say; the error ends the command.                      *)
WriteFails(c) ==
    /\ command[c].pc = "write"
    /\ WritesTo(c, Damaged)
    /\ command' = [command EXCEPT ![c] = Idle]
    /\ UNCHANGED <<begun, raced>>

(* What descriptors of the two files are of after the rename.              *)
Moved(target) ==
    CASE target = "tmp" -> "file" [] target = "file" -> "gone"
      [] OTHER -> target

Renames(c) ==
    /\ command[c].pc = "rename" /\ tmp # Absent
    /\ file' = tmp /\ tmp' = Absent
    /\ command' =
           [d \in Command |->
               IF d # c THEN [command[d] EXCEPT !.target = Moved(@)]
               ELSE IF command[c].edit.op # "edit" THEN Idle
               ELSE [command[c] EXCEPT !.pc = "editor", !.target = "none"]]
    /\ UNCHANGED <<begun, raced>>

(* The rename fails, or the process is killed, at whatever point.          *)
Dies(c) ==
    /\ command[c].pc # "idle"
    /\ command' = [command EXCEPT ![c] = Idle]
    /\ UNCHANGED <<file, tmp, begun, raced>>

-----------------------------------------------------------------------------
(* The editor of run_edit saves what the user has made of the file.        *)
EditorSaves(c, content) ==
    /\ command[c].pc = "editor"
    /\ file' = content
    /\ UNCHANGED <<tmp, command, begun, raced>>

(* It is closed; the file parses, or the user does not open it again.      *)
EditorCloses(c) ==
    /\ command[c].pc = "editor"
    /\ command' = [command EXCEPT ![c] = Idle]
    /\ UNCHANGED <<file, tmp, begun, raced>>

ConfigNext ==
    \E c \in Command :
        \/ \E e \in Edit : Loads(c, e)
        \/ \E mode \in Mode, n \in Entry :
               \E connectors \in {{}} \cup {{m} : m \in Entry} :
                   RunsFirst(c, FirstRun(mode, n, connectors))
        \/ OpensEditor(c)
        \/ Truncates(c) \/ Writes(c) \/ WriteFails(c) \/ Renames(c) \/ Dies(c)
        \/ \E content \in Typed : EditorSaves(c, content)
        \/ EditorCloses(c)

ConfigSpec == ConfigInit /\ [][ConfigNext]_configVars

-----------------------------------------------------------------------------
(* However commands fail or are killed, and whatever temporary file they   *)
(* leave behind: as long as no two saves overlap, the configuration is     *)
(* never a part of one or a mixture of two.                                *)
ConfigIsWhole == ~raced => file \notin {Empty, Damaged}

(* save_config writes atomically: every step of the commands is a step of  *)
(* AtomicFile or none.  A save is under way from fs::write to the rename,  *)
(* which alone makes it seen, and whole.                                   *)
Saving(c) == command[c].pc \in {"write", "rename"}

Register ==
    INSTANCE AtomicFile WITH
        Process <- Command, Content <- Config, Start <- Absent, NoSave <- Absent,
        value <- file, overlapped <- raced,
        saving <- [c \in Command |-> IF Saving(c) THEN command[c].new ELSE Absent]

ImplementsAtomicFile == Register!Spec

(* The configuration changes only when a command renames its file or an    *)
(* editor saves, and a command that ran alone changes what it was asked    *)
(* to, on top of all the settings that were there: it saves no stale copy, *)
(* and nothing over a file that it could not read.                         *)
Outcome(c) ==
    IF command[c].edit.op = "first run"
      THEN {new \in {command[c].new} : file = Absent}
    ELSE IF command[c].edit.op = "edit" THEN Loaded(file)
    ELSE UNION {Result(k, command[c].edit) : k \in Loaded(file)}

ChangesAreEdits ==
    [][\A c \in Command :
           command[c].alone /\ file' # file =>
               \/ command[c].pc = "editor"
               \/ command[c].pc = "rename" /\ file' \in Outcome(c)]_configVars
=============================================================================
