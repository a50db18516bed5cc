------------------------------- MODULE Files --------------------------------
(***************************************************************************)
(* The tools of agent-core that change a file: file_edit, file_write and   *)
(* bash, called by several turns.  One file; different files do not meet.  *)
(* file_read, glob and grep only read.                                     *)
(*                                                                         *)
(* tokio::fs::write empties the file when it opens it and fills it with a  *)
(* second system call, and a command that bash gives up on after its       *)
(* timeout is not killed (Command::output without kill_on_drop): it goes   *)
(* on beside whatever is called next.  A text is a sequence of words.      *)
(***************************************************************************)
EXTENDS Integers, Sequences

CONSTANTS
    Caller,         \* turns; each of them has one call in progress at most
    Replacement,    \* <<old_text, new_text>> of the edits that are asked for
    Written,        \* texts that file_write and commands write
    NotThere,       \* stands for a file that does not exist
    MaxFileCalls    \* bound: calls begun

ASSUME FilesAssumption ==
    /\ MaxFileCalls \in Nat
    /\ \A x \in Written : x \in Seq(STRING)
    /\ \A e \in Replacement : e \in Seq(STRING) \X Seq(STRING)

VARIABLES
    disk,           \* the file
    call,           \* call[c]: what turn c waits for
    hand,           \* hand[c]: tokio::fs::write of its file_edit or file_write
    process,        \* process[c]: the command it started last
    calls,          \* calls begun so far
    (* Observations.                                                       *)
    base,           \* base[c]: the file when the call looked at it
    crossed         \* calls during which another one has changed the file

filesVars == <<disk, call, hand, process, calls, base, crossed>>

(* A writer is off, about to open the file, or about to fill it.           *)
Off == [pc |-> "off", text |-> <<>>]
Writer == [pc : {"off", "open", "fill"}, text : Seq(STRING)]

Done(answer) == [tool |-> "none", asked |-> answer]
Waiting ==
    [tool : {"none"}, asked : {"ok", "error", "timeout"}] \cup
    [tool : {"edit"}, asked : Replacement] \cup
    [tool : {"write", "bash"}, asked : Written]

FilesTypeOK ==
    /\ disk \in {NotThere} \cup Seq(STRING)
    /\ call \in [Caller -> Waiting]
    /\ hand \in [Caller -> Writer] /\ process \in [Caller -> Writer]
    /\ \A c \in Caller : hand[c] # Off => call[c].tool \in {"edit", "write"}
    /\ calls \in 0..MaxFileCalls
    /\ base \in [Caller -> {NotThere} \cup Seq(STRING)]
    /\ crossed \subseteq Caller

FilesInit ==
    /\ disk \in {NotThere} \cup Written
    /\ call = [c \in Caller |-> Done("ok")]
    /\ hand = [c \in Caller |-> Off] /\ process = [c \in Caller |-> Off]
    /\ calls = 0
    /\ base = [c \in Caller |-> NotThere]
    /\ crossed = {}

-----------------------------------------------------------------------------
CallBegins(c, what) ==
    /\ call[c].tool = "none" /\ calls < MaxFileCalls
    /\ call' = [call EXCEPT ![c] = what]
    /\ calls' = calls + 1
    /\ base' = [base EXCEPT ![c] = disk]
    /\ crossed' = crossed \ {c}
    /\ UNCHANGED disk

Occurrences(text, old) ==
    {k \in 1..(Len(text) - Len(old) + 1) : SubSeq(text, k, k + Len(old) - 1) = old}
ReplacedAt(text, k, old, new) ==
    SubSeq(text, 1, k - 1) \o new \o SubSeq(text, k + Len(old), Len(text))
FirstIn(places) == CHOOSE k \in places : \A j \in places : k <= j

(* str::matches goes on behind each match, so that it counts what does not *)
(* overlap: it counts one if there is a first occurrence and every other   *)
(* one begins inside it.                                                   *)
CountedOnceAt(text, old, k) ==
    /\ k \in Occurrences(text, old)
    /\ \A j \in Occurrences(text, old) : k = j \/ (k < j /\ j < k + Len(old))

(* The guard of file_edit.  A file that cannot be read and a text that is  *)
(* not counted exactly once are refused, which changes nothing.            *)
Found(text, old) ==                              \* slip: count > 1 not refused
    Occurrences(text, old) # {}
MatchesOnce(text, old) == \E k \in Occurrences(text, old) : CountedOnceAt(text, old, k)

EditReads(c, old, new) ==
    /\ disk # NotThere /\ MatchesOnce(disk, old)
    /\ CallBegins(c, [tool |-> "edit", asked |-> <<old, new>>])
    /\ hand' = [hand EXCEPT ![c] = [pc |-> "open",
            text |-> ReplacedAt(disk, FirstIn(Occurrences(disk, old)), old, new)]]
    /\ UNCHANGED process

WriteBegins(c, text) ==
    /\ CallBegins(c, [tool |-> "write", asked |-> text])
    /\ hand' = [hand EXCEPT ![c] = [pc |-> "open", text |-> text]]
    /\ UNCHANGED process

(* The processes of one turn's earlier commands may still be running; of   *)
(* those the model keeps one.                                              *)
CommandBegins(c, text) ==
    /\ process[c] = Off
    /\ CallBegins(c, [tool |-> "bash", asked |-> text])
    /\ process' = [process EXCEPT ![c] = [pc |-> "open", text |-> text]]
    /\ UNCHANGED hand

(* Everybody but c who is waiting sees the file change under their hands.  *)
Crosses(others) == crossed' = crossed \cup {c \in others : call[c].tool # "none"}

(* A writer writes from the start of the file, which may have been filled  *)
(* by another one since it was emptied.                                    *)
Over(text, old) == text \o SubSeq(old, Len(text) + 1, Len(old))

Opened(w) == [w EXCEPT !.pc = "fill"]

ToolOpens(c) ==
    /\ hand[c].pc = "open"
    /\ disk' = <<>>
    /\ hand' = [hand EXCEPT ![c] = Opened(@)]
    /\ Crosses(Caller \ {c})
    /\ UNCHANGED <<call, process, calls, base>>

ToolFills(c) ==
    /\ hand[c].pc = "fill"
    /\ disk' = Over(hand[c].text, disk)
    /\ hand' = [hand EXCEPT ![c] = Off]
    /\ call' = [call EXCEPT ![c] = Done("ok")]
    /\ Crosses(Caller \ {c})
    /\ UNCHANGED <<process, calls, base>>

(* The directory cannot be made, the file not opened or not filled.        *)
ToolFails(c) ==
    /\ hand[c] # Off
    /\ hand' = [hand EXCEPT ![c] = Off]
    /\ call' = [call EXCEPT ![c] = Done("error")]
    /\ UNCHANGED <<disk, process, calls, base, crossed>>

-----------------------------------------------------------------------------
(* The command.  Once its caller has gone on, it crosses that one as well. *)
Beside(c) == IF call[c].tool = "bash" THEN Caller \ {c} ELSE Caller

CommandOpens(c) ==
    /\ process[c].pc = "open"
    /\ disk' = <<>>
    /\ process' = [process EXCEPT ![c] = Opened(@)]
    /\ Crosses(Beside(c))
    /\ UNCHANGED <<call, hand, calls, base>>

CommandFills(c) ==
    /\ process[c].pc = "fill"
    /\ disk' = Over(process[c].text, disk)
    /\ process' = [process EXCEPT ![c] = Off]
    /\ Crosses(Beside(c))
    /\ UNCHANGED <<call, hand, calls, base>>

CommandEnds(c) ==
    /\ call[c].tool = "bash" /\ process[c] = Off
    /\ call' = [call EXCEPT ![c] = Done("ok")]
    /\ UNCHANGED <<disk, hand, process, calls, base, crossed>>

(* sh cannot be started, or the command ends half way with an error.       *)
CommandFails(c) ==
    /\ call[c].tool = "bash" /\ process[c] # Off
    /\ process' = [process EXCEPT ![c] = Off]
    /\ call' = [call EXCEPT ![c] = Done("error")]
    /\ UNCHANGED <<disk, hand, calls, base, crossed>>

(* tokio::time::timeout drops the future of output(), not the process.     *)
CommandTimesOut(c) ==
    /\ call[c].tool = "bash" /\ process[c] # Off
    /\ call' = [call EXCEPT ![c] = Done("timeout")]
    /\ UNCHANGED <<disk, hand, process, calls, base, crossed>>

-----------------------------------------------------------------------------
FilesNext ==
    \E c \in Caller :
        \/ \E e \in Replacement : EditReads(c, e[1], e[2])
        \/ \E x \in Written : WriteBegins(c, x) \/ CommandBegins(c, x)
        \/ ToolOpens(c) \/ ToolFills(c) \/ ToolFails(c)
        \/ CommandOpens(c) \/ CommandFills(c)
        \/ CommandEnds(c) \/ CommandFails(c) \/ CommandTimesOut(c)

FilesSpec == FilesInit /\ [][FilesNext]_filesVars

-----------------------------------------------------------------------------
(* What a call that nobody crossed reports as done has been done, and no   *)
(* more than that: an edit has replaced the first occurrence of its text   *)
(* in the file that was there when it began, which every other one         *)
(* overlaps, and kept the rest; a write and a command have left exactly    *)
(* what they wrote.  A command that timed out counts among those that      *)
(* cross the calls after it.  (An old_text that overlaps itself need not   *)
(* be unique: "aa" is replaced in "aaa".)                                  *)
EditApplied(before, old, new, after) ==
    \E k \in Occurrences(before, old) :
        /\ CountedOnceAt(before, old, k)
        /\ after = ReplacedAt(before, k, old, new)

DoneAsAsked(c, after) ==
    IF call[c].tool = "edit"
    THEN EditApplied(base[c], call[c].asked[1], call[c].asked[2], after)
    ELSE after = call[c].asked

ReportedIsDone ==
    [][\A c \in Caller :
           call[c].tool # "none" /\ call'[c] = Done("ok") /\ c \notin crossed =>
               DoneAsAsked(c, disk')]_filesVars
=============================================================================
