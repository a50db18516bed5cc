----------------------------- MODULE AtomicFile -----------------------------
(***************************************************************************)
(* What "writes atomically" (config/mod.rs) promises of a file that        *)
(* several processes save.  A save is under way from its first system call *)
(* on and shows in the file at one moment, whole, or never; a process that *)
(* fails or is killed has changed nothing.  The user, who types into the   *)
(* file with an editor, is the only other writer.  All of this is promised *)
(* until two saves overlap; then anything may be in the file, for good.    *)
(* ConfigFile implements this module.                                      *)
(***************************************************************************)

CONSTANTS
    Process,      \* processes that save the file
    Content,      \* what they save
    Typed,        \* what an editor may leave in the file
    Start,        \* what is in the file at first
    NoSave        \* no save: not in Content

VARIABLES
    value,        \* what a reader finds in the file
    saving,       \* saving[p]: what process p is about to put there, or NoSave
    overlapped    \* two saves have been under way at a time

fileVars == <<value, saving, overlapped>>

Init ==
    /\ value = Start
    /\ saving = [p \in Process |-> NoSave]
    /\ overlapped = FALSE

Begin(p) ==
    /\ saving[p] = NoSave /\ saving'[p] \in Content
    /\ saving' = [saving EXCEPT ![p] = saving'[p]]
    /\ overlapped' = (overlapped \/ \E q \in Process : saving[q] # NoSave)
    /\ UNCHANGED value

Commit(p) ==
    /\ saving[p] # NoSave
    /\ value' = saving[p]
    /\ saving' = [saving EXCEPT ![p] = NoSave]
    /\ UNCHANGED overlapped

Abort(p) ==
    /\ saving[p] # NoSave
    /\ saving' = [saving EXCEPT ![p] = NoSave]
    /\ UNCHANGED <<value, overlapped>>

Type(content) ==
    /\ value' = content
    /\ UNCHANGED <<saving, overlapped>>

(* No promise is left.                                                     *)
AnythingGoes == overlapped /\ overlapped'

Next ==
    \/ \E p \in Process : Begin(p) \/ Commit(p) \/ Abort(p)
    \/ \E content \in Typed : Type(content)
    \/ AnythingGoes

Spec == Init /\ [][Next]_fileVars
=============================================================================
