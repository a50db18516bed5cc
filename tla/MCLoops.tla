------------------------------ MODULE MCLoops -------------------------------
(***************************************************************************)
(* The two loops that must come back to their work, under fairness: the    *)
(* agent loop of one turn and the scheduler's poll.  They share no state;  *)
(* in each behaviour one of them takes steps, as in MCSettings.            *)
(*                                                                         *)
(* AgentLoop: one tool that may run concurrently and one that may not.     *)
(* Scheduler: an expression that occurs at 1 and 2 and then runs out.      *)
(***************************************************************************)
EXTENDS MCAgentLoop

CONSTANTS User, Request, Cron, OnceTimes, MaxTasks, MaxIds, MaxTime,
          MaxFaults, Once

VARIABLES
    focus,     \* the module whose steps are taken
    clock, lastId, task, request, poll, runs, faults, started, deleted, lost

Sched == INSTANCE Scheduler WITH
    running <- runs, Occurs <- [c \in Cron |-> {1, 2}]

schedVars == <<clock, lastId, task, request, poll, runs, faults,
               started, deleted, lost>>

loopsVars == <<vars, schedVars, focus>>

LoopsInit ==
    /\ Init /\ Sched!Init
    /\ focus \in {"agent", "scheduler"}
    /\ focus = "scheduler" => ~executor

AgentTakes(A) == focus = "agent" /\ A /\ UNCHANGED <<schedVars, focus>>
SchedulerTakes(A) == focus = "scheduler" /\ A /\ UNCHANGED <<vars, focus>>

LoopsNext == AgentTakes(Next) \/ SchedulerTakes(Sched!Next)

(* The fairness of each module for the behaviours it moves in.             *)
LoopsSpec ==
    /\ LoopsInit /\ [][LoopsNext]_loopsVars
    /\ WF_loopsVars(AgentTakes(LoopStep)) /\ WF_loopsVars(AgentTakes(ToolStep))
    /\ WF_loopsVars(SchedulerTakes(Sched!PollWork))
    /\ WF_loopsVars(SchedulerTakes(Sched!Restart))

(* DueIsStarted, when it is the turn of Scheduler: a task that is due is   *)
(* started for that occurrence unless it is deleted first or a crash       *)
(* strikes between the UPDATE and the spawn.                               *)
FocusedDueIsStarted == focus = "scheduler" => Sched!DueIsStarted
=============================================================================
