------------------------------ MODULE Scheduler -----------------------------
(***************************************************************************)
(* Scheduled tasks.                                                        *)
(*                                                                         *)
(*   scheduler.rs  start and poll_once: one task that polls the table,     *)
(*                 re-arms or disables what is due and spawns an agent     *)
(*                 turn for it.                                            *)
(*   handlers.rs   schedule_task_handler and delete_task_handler, which    *)
(*                 run concurrently with it and with each other.           *)
(*                                                                         *)
(* One database connection makes each statement atomic; everything else    *)
(* interleaves.  The server may crash and come back: only the table        *)
(* survives.  schedule_task accepts no expression that poll_once cannot    *)
(* parse, so that branch of poll_once is never taken.                      *)
(***************************************************************************)
EXTENDS Integers, Sequences, FiniteSets

CONSTANTS
    User,
    Request,     \* REST requests that can be in progress at the same time
    Cron,        \* cron expressions in use
    Occurs,      \* Occurs[c]: the times at which expression c occurs
    OnceTimes,   \* bound: run_at of the one-shot tasks that are asked for
    MaxTasks,    \* config.max_tasks_per_user (20 by default)
    MaxIds,      \* bound: rows ever inserted
    MaxTime,     \* bound: the clock
    MaxFaults,   \* bound: failed statements and crashes
    Once         \* stands for the NULL in the cron column of a one-shot task

ASSUME CronAssumption == Occurs \in [Cron -> SUBSET Nat] /\ Once \notin Cron

ASSUME UserAssumption == User # {}

ASSUME BoundAssumption ==
    /\ IsFiniteSet(Request)
    /\ OnceTimes \subseteq Nat
    /\ MaxTasks \in Nat \ {0}
    /\ MaxIds \in Nat /\ MaxTime \in Nat /\ MaxFaults \in Nat

VARIABLES
    clock,       \* Utc::now
    lastId,      \* rows 1..lastId of scheduled_tasks exist
    task,        \* task[i]: row i
    request,     \* request[q]: a schedule_task request in progress
    poll,        \* the scheduler task, see PollState
    running,     \* running[i]: agent turns in progress for task i
    faults,      \* failed statements and crashes so far
    (* Observations that no step of the server reads.                      *)
    started,     \* started[i]: the occurrences task i was started for
    deleted,     \* <<i, n>>: task i was deleted after it was started n times
    lost         \* occurrences that a crash took between UPDATE and spawn

vars == <<clock, lastId, task, request, poll, running, faults,
          started, deleted, lost>>

Id == 1..MaxIds

Row == [user : User, cron : Cron \cup {Once}, run_at : Nat, enabled : BOOLEAN]

RequestState == [pc : {"idle", "counted"}, row : Row]

PollState ==
    [pc : {"sleep", "select", "tasks", "spawn", "down"},
     cutoff : Nat,               \* now, as read before the SELECT
     batch : SUBSET Id,          \* selected tasks not handled yet
     current : Id \cup {0},      \* the task to be spawned
     occurrence : Nat]           \* the run_at it was selected with

TypeOK ==
    /\ clock \in Nat
    /\ lastId \in 0..MaxIds
    /\ task \in [Id -> Row]
    /\ request \in [Request -> RequestState]
    /\ poll \in PollState
    /\ poll.pc = "spawn" <=> poll.current # 0
    /\ running \in [Id -> Nat]
    /\ faults \in 0..MaxFaults
    /\ started \in [Id -> Seq(Nat)]
    /\ deleted \subseteq Id \X Nat
    /\ lost \subseteq Id \X Nat

(* Blank stands for a row that does not exist yet.                         *)
Blank == [user |-> CHOOSE u \in User : TRUE, cron |-> Once, run_at |-> 0,
          enabled |-> FALSE]

Sleeping == [pc |-> "sleep", cutoff |-> 0, batch |-> {}, current |-> 0,
             occurrence |-> 0]
Unused == [pc |-> "idle", row |-> Blank]

Init ==
    /\ clock = 0 /\ lastId = 0 /\ faults = 0
    /\ task = [i \in Id |-> Blank]
    /\ request = [q \in Request |-> Unused]
    /\ poll = Sleeping
    /\ running = [i \in Id |-> 0]
    /\ started = [i \in Id |-> <<>>]
    /\ deleted = {} /\ lost = {}

-----------------------------------------------------------------------------
(* schedule.upcoming(Utc).next()                                           *)
NotPast(c) == {t \in Occurs[c] : t >= clock}    \* slip: includes this moment
Upcoming(c) == {t \in Occurs[c] : t > clock}
First(times) == {t \in times : \A u \in times : t <= u}

(* The run_at a task is re-armed with, if there is one.                    *)
NextRun(i) ==
    IF task[i].cron = Once THEN {} ELSE First(Upcoming(task[i].cron))

EnabledTasks(u) == {i \in 1..lastId : task[i].user = u /\ task[i].enabled}

Tick ==
    /\ clock < MaxTime
    /\ clock' = clock + 1
    /\ UNCHANGED <<lastId, task, request, poll, running, faults,
                   started, deleted, lost>>

-----------------------------------------------------------------------------
(* schedule_task_handler: the row is made up and the enabled tasks are     *)
(* counted; the INSERT is a statement of its own.                          *)

NewRow(u, c, at) == [user |-> u, cron |-> c, run_at |-> at, enabled |-> TRUE]

AtMostTheLimit(u) == Cardinality(EnabledTasks(u)) <= MaxTasks   \* slip
BelowLimit(u) == Cardinality(EnabledTasks(u)) < MaxTasks

ScheduleCounts(q, row) ==
    /\ poll.pc # "down" /\ request[q].pc = "idle"
    /\ BelowLimit(row.user)
    /\ request' = [request EXCEPT ![q] = [pc |-> "counted", row |-> row]]
    /\ UNCHANGED <<clock, lastId, task, poll, running, faults,
                   started, deleted, lost>>

ScheduleOnce(q) ==
    \E u \in User, at \in OnceTimes : ScheduleCounts(q, NewRow(u, Once, at))

ScheduleCron(q) ==
    \E u \in User, c \in Cron : \E at \in First(Upcoming(c)) :
        ScheduleCounts(q, NewRow(u, c, at))

ScheduleInserts(q) ==
    /\ request[q].pc = "counted" /\ lastId < MaxIds
    /\ lastId' = lastId + 1
    /\ task' = [task EXCEPT ![lastId'] = request[q].row]
    /\ request' = [request EXCEPT ![q] = Unused]
    /\ UNCHANGED <<clock, poll, running, faults, started, deleted, lost>>

(* One UPDATE; a task that is not enabled, or another user's, is not found. *)
Delete(u, i) ==
    /\ poll.pc # "down"
    /\ i \in EnabledTasks(u)
    /\ task' = [task EXCEPT ![i].enabled = FALSE]
    /\ deleted' = deleted \cup {<<i, Len(started[i])>>}
    /\ UNCHANGED <<clock, lastId, request, poll, running, faults, started, lost>>

-----------------------------------------------------------------------------
(* start and poll_once.                                                    *)

PollStarts ==
    /\ poll.pc = "sleep"
    /\ poll' = [Sleeping EXCEPT !.pc = "select", !.cutoff = clock]
    /\ UNCHANGED <<clock, lastId, task, request, running, faults,
                   started, deleted, lost>>

DueExactly(i) ==          \* slip: looks at the present moment only
    i \in 1..lastId /\ task[i].enabled /\ task[i].run_at = poll.cutoff
Selected(i) ==
    i \in 1..lastId /\ task[i].enabled /\ task[i].run_at <= poll.cutoff

PollSelects ==
    /\ poll.pc = "select"
    /\ poll' = [Sleeping EXCEPT !.pc = "tasks", !.batch = {i \in Id : Selected(i)}]
    /\ UNCHANGED <<clock, lastId, task, request, running, faults,
                   started, deleted, lost>>

(* The UPDATE before the spawn.  A tick between upcoming() and the UPDATE  *)
(* is the same as one after it: the new run_at is due either way.          *)
RearmedAndEnabled(i, at) ==     \* slip: the UPDATE sets enabled as well
    [task EXCEPT ![i].run_at = at, ![i].enabled = TRUE]
Rearmed(i, at) == [task EXCEPT ![i].run_at = at]
Disabled(i) == [task EXCEPT ![i].enabled = FALSE]

TakesFromBatch(i) ==
    /\ poll.pc = "tasks" /\ i \in poll.batch
    /\ poll' = [poll EXCEPT !.pc = "spawn", !.batch = @ \ {i}, !.current = i,
                            !.occurrence = task[i].run_at]
    /\ UNCHANGED <<clock, lastId, request, running, faults,
                   started, deleted, lost>>

PollRearms(i) ==
    /\ TakesFromBatch(i)
    /\ \E at \in NextRun(i) : task' = Rearmed(i, at)

(* Neither a task without a next occurrence nor a one-shot task waits for  *)
(* another poll: the spawn comes after the UPDATE that disables it.        *)
PollDisablesAndContinues(i) ==  \* slip: `continue`, as for a wrong expression
    /\ poll.pc = "tasks" /\ i \in poll.batch
    /\ NextRun(i) = {}
    /\ poll' = [poll EXCEPT !.batch = @ \ {i}]
    /\ task' = Disabled(i)
    /\ UNCHANGED <<clock, lastId, request, running, faults,
                   started, deleted, lost>>

PollDisables(i) ==
    /\ TakesFromBatch(i)
    /\ NextRun(i) = {}
    /\ task' = Disabled(i)

PollSpawns ==
    /\ poll.pc = "spawn"
    /\ running' = [running EXCEPT ![poll.current] = @ + 1]
    /\ started' = [started EXCEPT ![poll.current] = Append(@, poll.occurrence)]
    /\ poll' = [poll EXCEPT !.pc = "tasks", !.current = 0, !.occurrence = 0]
    /\ UNCHANGED <<clock, lastId, task, request, faults, deleted, lost>>

PollEnds ==
    /\ poll.pc = "tasks" /\ poll.batch = {}
    /\ poll' = Sleeping
    /\ UNCHANGED <<clock, lastId, task, request, running, faults,
                   started, deleted, lost>>

(* A statement fails and `?` leaves poll_once: the rest of the batch is    *)
(* dropped until the next poll.                                            *)
PollAborts ==
    /\ faults < MaxFaults
    /\ poll.pc = "select" \/ (poll.pc = "tasks" /\ poll.batch # {})
    /\ poll' = Sleeping
    /\ faults' = faults + 1
    /\ UNCHANGED <<clock, lastId, task, request, running, started, deleted, lost>>

(* run_agent_turn has returned, with an answer or an error.  (last_run is  *)
(* then written and only ever listed.)                                     *)
RunEnds(i) ==
    /\ running[i] > 0 /\ poll.pc # "down"
    /\ running' = [running EXCEPT ![i] = @ - 1]
    /\ UNCHANGED <<clock, lastId, task, request, poll, faults,
                   started, deleted, lost>>

-----------------------------------------------------------------------------
Crash ==
    /\ poll.pc # "down" /\ faults < MaxFaults
    /\ poll' = [Sleeping EXCEPT !.pc = "down"]
    /\ request' = [q \in Request |-> Unused]
    /\ running' = [i \in Id |-> 0]
    /\ lost' = IF poll.pc = "spawn"
               THEN lost \cup {<<poll.current, poll.occurrence>>} ELSE lost
    /\ faults' = faults + 1
    /\ UNCHANGED <<clock, lastId, task, started, deleted>>

Restart ==
    /\ poll.pc = "down"
    /\ poll' = Sleeping
    /\ UNCHANGED <<clock, lastId, task, request, running, faults,
                   started, deleted, lost>>

-----------------------------------------------------------------------------
RequestStep ==
    \/ \E q \in Request : ScheduleOnce(q) \/ ScheduleCron(q) \/ ScheduleInserts(q)
    \/ \E u \in User, i \in Id : Delete(u, i)

PollWork ==
    \/ PollStarts \/ PollSelects \/ PollSpawns \/ PollEnds
    \/ \E i \in Id : PollRearms(i) \/ PollDisables(i)

Next ==
    \/ Tick \/ RequestStep \/ PollWork \/ PollAborts
    \/ \E i \in Id : RunEnds(i)
    \/ Crash \/ Restart

Spec == Init /\ [][Next]_vars

(* Tokio runs the scheduler task and its sleep ends; a server that went    *)
(* down is started again (docker-compose.yml: "restart: unless-stopped").  *)
(* Turns need not end and requests need not be finished.                   *)
Fairness == WF_vars(PollWork) /\ WF_vars(Restart)

FairSpec == Spec /\ Fairness

-----------------------------------------------------------------------------
(* A task never starts early and never twice for one occurrence, restarts, *)
(* aborted polls and concurrent requests included.  A one-shot task has    *)
(* one occurrence, so it starts at most once.                              *)
StartsAdvance ==
    \A i \in Id : \A k \in 1..Len(started[i]) :
        /\ started[i][k] <= clock
        /\ \A j \in 1..(k - 1) : started[i][j] < started[i][k]

(* After its deletion was confirmed a task starts at most once more: for   *)
(* the occurrence the scheduler had already selected.                      *)
DeletedStartsOnceMore ==
    \A d \in deleted : Len(started[d[1]]) <= d[2] + 1

(* schedule_task counts and inserts in two statements: the limit can be    *)
(* passed, but by less than one task per concurrent request.               *)
TaskCap ==
    \A u \in User :
        Cardinality(EnabledTasks(u)) < MaxTasks + Cardinality(Request)

(* What becomes of an occurrence.  It is owed from the moment it is due,   *)
(* in its row or, once the UPDATE has moved the row on, in the poll's      *)
(* hands.                                                                  *)
Due(i, t) == task[i].enabled /\ task[i].run_at = t /\ t <= clock
InHand(i) == poll.pc = "spawn" /\ poll.current = i
Owed(i, t) == Due(i, t) \/ (InHand(i) /\ poll.occurrence = t)
StartedFor(i, t) == \E k \in 1..Len(started[i]) : started[i][k] = t
IsDeleted(i) == \E d \in deleted : d[1] = i

(* No step of poll_once, of a request or of a restart forgets an           *)
(* occurrence: it stays owed, through aborted polls too, until the task    *)
(* has been started for it or deleted, or a crash has struck between the   *)
(* UPDATE and the spawn.                                                   *)
OwedIsKept ==
    \A i \in Id, t \in 0..clock :
        Owed(i, t) => \/ Owed(i, t)' \/ StartedFor(i, t)'
                      \/ IsDeleted(i)' \/ <<i, t>> \in lost'

NoneForgotten == [][OwedIsKept]_vars

(* A task that is due is started for that occurrence in the end, whatever  *)
(* polls are aborted, with the same two exceptions.                        *)
DueIsStarted ==
    \A i \in Id, t \in 0..MaxTime :
        Due(i, t) ~> (StartedFor(i, t) \/ IsDeleted(i) \/ <<i, t>> \in lost)

(* No task is started while it is still running (scheduler.rs: "Re-arm or  *)
(* disable the task BEFORE spawning execution, so the next poll cycle      *)
(* won't pick it up again while it's still running").                      *)
NotStartedWhileRunning == \A i \in Id : running[i] <= 1
=============================================================================
