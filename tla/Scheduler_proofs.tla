-------------------------- MODULE Scheduler_proofs --------------------------
(***************************************************************************)
(* What is proved of Scheduler, for every number of users, requests,       *)
(* tasks, expressions and faults.                                          *)
(***************************************************************************)
EXTENDS Scheduler, FiniteSetTheorems, TLAPS

-----------------------------------------------------------------------------
(* Type correctness.                                                       *)

LEMMA BlankType == Blank \in Row
  BY UserAssumption DEF Blank, Row

LEMMA SleepingType ==
  Sleeping \in PollState /\ Sleeping.pc = "sleep" /\ Sleeping.current = 0
  BY DEF Sleeping, PollState

(* A row stays a row when a task is re-armed, disabled or deleted.         *)
LEMMA RowUpdate ==
  ASSUME NEW r \in Row, NEW at \in Nat, NEW on \in BOOLEAN
  PROVE  /\ [r EXCEPT !.run_at = at] \in Row
         /\ [r EXCEPT !.enabled = on] \in Row
  BY DEF Row

LEMMA UpcomingTimes ==
  ASSUME NEW c \in Cron, NEW at \in First(Upcoming(c)), clock \in Nat
  PROVE  at \in Nat /\ at > clock
  BY CronAssumption DEF First, Upcoming

LEMMA NextRunTimes ==
  ASSUME TypeOK, NEW i \in Id, NEW at \in NextRun(i)
  PROVE  at \in Nat /\ at > clock
  BY UpcomingTimes DEF NextRun, TypeOK, Row

LEMMA TakesType ==
  ASSUME TypeOK, NEW i \in Id, TakesFromBatch(i)
  PROVE  poll' \in PollState /\ poll'.pc = "spawn" /\ poll'.current # 0
  <1>1. task[i].run_at \in Nat /\ i # 0
    BY DEF TypeOK, Row, Id
  <1> QED
    BY <1>1 DEF TypeOK, PollState, TakesFromBatch

LEMMA TypeStep ==
  ASSUME TypeOK, [Next]_vars
  PROVE  TypeOK'
  <1> USE DEF TypeOK
  <1>1. CASE Tick
    BY <1>1 DEF Tick
  <1>2. ASSUME NEW q \in Request, NEW row \in Row, ScheduleCounts(q, row)
        PROVE  TypeOK'
    <2>1. [pc |-> "counted", row |-> row] \in RequestState
      BY DEF RequestState
    <2> QED
      BY <1>2, <2>1 DEF ScheduleCounts
  <1>3. ASSUME NEW q \in Request, ScheduleOnce(q) PROVE TypeOK'
    <2>1. \A u \in User, at \in OnceTimes : NewRow(u, Once, at) \in Row
      BY BoundAssumption DEF NewRow, Row
    <2> QED
      BY <1>2, <1>3, <2>1 DEF ScheduleOnce
  <1>4. ASSUME NEW q \in Request, ScheduleCron(q) PROVE TypeOK'
    <2>1. \A u \in User, c \in Cron : \A at \in First(Upcoming(c)) :
              NewRow(u, c, at) \in Row
      BY UpcomingTimes DEF NewRow, Row
    <2> QED
      BY <1>2, <1>4, <2>1 DEF ScheduleCron
  <1>5. ASSUME NEW q \in Request, ScheduleInserts(q) PROVE TypeOK'
    <2>1. request[q].row \in Row /\ Unused \in RequestState
      BY BlankType DEF RequestState, Unused
    <2>2. lastId' \in 0..MaxIds
      BY <1>5, BoundAssumption DEF ScheduleInserts
    <2>3. task' \in [Id -> Row]
      BY <1>5, <2>1 DEF ScheduleInserts
    <2> QED
      BY <1>5, <2>1, <2>2, <2>3 DEF ScheduleInserts
  <1>6. ASSUME NEW u \in User, NEW i \in Id, Delete(u, i) PROVE TypeOK'
    <2>1. [task[i] EXCEPT !.enabled = FALSE] \in Row
      BY RowUpdate
    <2>2. <<i, Len(started[i])>> \in Id \X Nat
      OBVIOUS
    <2> QED
      BY <1>6, <2>1, <2>2 DEF Delete
  <1>7. CASE PollStarts
    BY <1>7 DEF PollStarts, PollState, Sleeping
  <1>8. CASE PollSelects
    BY <1>8 DEF PollSelects, PollState, Sleeping
  <1>9. CASE PollSpawns
    <2>1. poll.current \in Id \cup {0} /\ poll.occurrence \in Nat
      BY DEF PollState
    <2>2. poll' \in PollState /\ poll'.pc # "spawn" /\ poll'.current = 0
      BY <1>9 DEF PollSpawns, PollState
    <2>3. running' \in [Id -> Nat]
      <3>1. \A i \in Id : running[i] + 1 \in Nat
        OBVIOUS
      <3>2. poll.current \in Id
        BY <1>9, <2>1 DEF PollSpawns
      <3> QED
        BY <1>9, <3>1, <3>2 DEF PollSpawns
    <2>4. started' \in [Id -> Seq(Nat)]
      <3>1. \A i \in Id : Append(started[i], poll.occurrence) \in Seq(Nat)
        BY <2>1
      <3> QED
        BY <1>9, <3>1 DEF PollSpawns
    <2> QED
      BY <1>9, <2>2, <2>3, <2>4 DEF PollSpawns
  <1>10. CASE PollEnds
    BY <1>10, SleepingType DEF PollEnds
  <1>11. ASSUME NEW i \in Id, PollRearms(i) PROVE TypeOK'
    <2>1. PICK at \in NextRun(i) : task' = Rearmed(i, at)
      BY <1>11 DEF PollRearms
    <2>2. [task[i] EXCEPT !.run_at = at] \in Row
      BY RowUpdate, NextRunTimes
    <2>3. task' \in [Id -> Row]
      BY <2>1, <2>2 DEF Rearmed
    <2> QED
      BY <1>11, <2>3, TakesType DEF PollRearms, TakesFromBatch
  <1>12. ASSUME NEW i \in Id, PollDisables(i) PROVE TypeOK'
    <2>1. [task[i] EXCEPT !.enabled = FALSE] \in Row
      BY RowUpdate
    <2>2. task' \in [Id -> Row]
      BY <1>12, <2>1 DEF PollDisables, Disabled
    <2> QED
      BY <1>12, <2>2, TakesType DEF PollDisables, TakesFromBatch
  <1>13. CASE PollAborts
    BY <1>13, SleepingType, BoundAssumption DEF PollAborts
  <1>14. ASSUME NEW i \in Id, RunEnds(i) PROVE TypeOK'
    BY <1>14 DEF RunEnds
  <1>15. CASE Crash
    <2>1. poll' \in PollState
      BY <1>15 DEF Crash, Sleeping, PollState
    <2>2. Unused \in RequestState
      BY BlankType DEF RequestState, Unused
    <2>3. lost' \subseteq Id \X Nat
      <3>1. CASE poll.pc = "spawn"
        <4>1. poll.current \in Id /\ poll.occurrence \in Nat
          BY <3>1 DEF PollState
        <4> QED
          BY <1>15, <3>1, <4>1 DEF Crash
      <3>2. CASE poll.pc # "spawn"
        BY <1>15, <3>2 DEF Crash
      <3> QED
        BY <3>1, <3>2
    <2>4. poll'.pc # "spawn" /\ poll'.current = 0
      BY <1>15 DEF Crash, Sleeping
    <2>5. request' \in [Request -> RequestState]
      BY <1>15, <2>2 DEF Crash
    <2> QED
      BY <1>15, <2>1, <2>3, <2>4, <2>5, BoundAssumption DEF Crash
  <1>16. CASE Restart
    BY <1>16, SleepingType DEF Restart
  <1>17. CASE UNCHANGED vars
    BY <1>17 DEF vars
  <1> QED
    BY <1>1, <1>3, <1>4, <1>5, <1>6, <1>7, <1>8, <1>9, <1>10, <1>11, <1>12,
       <1>13, <1>14, <1>15, <1>16, <1>17
    DEF Next, RequestStep, PollWork

LEMMA TypeInit == Init => TypeOK
  BY BlankType, SleepingType, BoundAssumption
  DEF Init, TypeOK, Unused, RequestState, Id

(* Every variable keeps its type, rows are only ever rows, and the poll    *)
(* holds a task exactly between its UPDATE and the spawn.                  *)
THEOREM TypeCorrect == Spec => []TypeOK
  <1>1. TypeOK /\ [Next]_vars => TypeOK'
    BY TypeStep
  <1> QED
    BY TypeInit, <1>1, PTL DEF Spec

-----------------------------------------------------------------------------
(* No occurrence twice.  What makes StartsAdvance inductive is where a     *)
(* task's next occurrence can be: in its row while the task is enabled, in *)
(* its row and due while it is in the batch, in the poll's hands before    *)
(* the spawn; it is later than every occurrence the task was started for.  *)

StartedBefore(i, t) ==
    \A k \in 1..Len(started[i]) : started[i][k] < t

(* Nothing is known of a row that does not exist yet.                      *)
Unborn == \A i \in Id : i > lastId =>
    started[i] = <<>> /\ i \notin poll.batch /\ ~InHand(i) /\ ~task[i].enabled

CutoffPast == poll.cutoff <= clock

EnabledAhead ==
    \A i \in Id : task[i].enabled => StartedBefore(i, task[i].run_at)

BatchAhead ==
    \A i \in poll.batch :
        StartedBefore(i, task[i].run_at) /\ task[i].run_at <= clock

HandAhead ==
    \A i \in Id : InHand(i) =>
        /\ i \notin poll.batch
        /\ StartedBefore(i, poll.occurrence) /\ poll.occurrence <= clock
        /\ task[i].enabled => poll.occurrence < task[i].run_at

(* Once deleted a task is never selected again.                            *)
DeletedGone ==
    \A d \in deleted :
        /\ d[1] <= lastId /\ ~task[d[1]].enabled
        /\ d[1] \in poll.batch \/ InHand(d[1]) => Len(started[d[1]]) <= d[2]

IInv ==
    /\ TypeOK
    /\ Unborn
    /\ CutoffPast
    /\ EnabledAhead
    /\ BatchAhead
    /\ HandAhead
    /\ StartsAdvance
    /\ DeletedGone
    /\ DeletedStartsOnceMore

-----------------------------------------------------------------------------
(* The clock alone.                                                        *)
LEMMA TickKeeps ==
  ASSUME IInv, Tick
  PROVE  IInv'
  <1> USE DEF IInv, TypeOK, Tick
  <1>1. TypeOK'
    BY TypeStep DEF Next
  <1>2. \A t \in Nat : t <= clock => t <= clock'
    OBVIOUS
  <1>3. /\ \A i \in Id : task[i].run_at \in Nat
        /\ poll.occurrence \in Nat /\ poll.cutoff \in Nat
        /\ poll.batch \subseteq Id
    BY DEF Row, PollState
  <1>4. \A i \in Id : \A k \in 1..Len(started[i]) : started[i][k] \in Nat
    OBVIOUS
  <1>5. Unborn' /\ EnabledAhead'
    BY DEF Unborn, InHand, EnabledAhead, StartedBefore
  <1>6. CutoffPast' /\ BatchAhead' /\ HandAhead'
    <2>1. UNCHANGED <<task, poll, started>>
      OBVIOUS
    <2>2. CutoffPast'
      BY <1>2, <1>3, <2>1 DEF CutoffPast
    <2> HIDE DEF Tick, TypeOK
    <2>3. BatchAhead'
      BY <1>2, <1>3, <2>1 DEF BatchAhead, StartedBefore
    <2>4. HandAhead'
      BY <1>2, <1>3, <2>1 DEF HandAhead, InHand, StartedBefore
    <2> QED
      BY <2>2, <2>3, <2>4
  <1>7. StartsAdvance'
    BY <1>2, <1>4 DEF StartsAdvance
  <1>8. DeletedGone' /\ DeletedStartsOnceMore'
    BY DEF DeletedGone, DeletedStartsOnceMore, InHand
  <1> QED
    BY <1>1, <1>5, <1>6, <1>7, <1>8

(* Steps that touch none of the variables the invariant speaks of.         *)
LEMMA OthersKeep ==
  ASSUME IInv, TypeOK', UNCHANGED <<clock, lastId, task, poll, started, deleted>>
  PROVE  IInv'
  BY DEF IInv, Unborn, InHand, CutoffPast, EnabledAhead, BatchAhead, HandAhead,
         StartsAdvance, DeletedGone, DeletedStartsOnceMore, StartedBefore

(* The poll holds nothing: it starts, ends, aborts, or the server is down. *)
LEMMA EmptyHandsKeep ==
  ASSUME IInv, TypeOK', UNCHANGED <<clock, lastId, task, started, deleted>>,
         poll'.batch = {}, poll'.pc # "spawn", poll'.cutoff <= clock
  PROVE  IInv'
  BY DEF IInv, Unborn, InHand, CutoffPast, EnabledAhead, BatchAhead, HandAhead,
         StartsAdvance, DeletedGone, DeletedStartsOnceMore, StartedBefore

(* A new row: it was never started, selected or deleted.                   *)
LEMMA InsertKeeps ==
  ASSUME IInv, NEW q \in Request, ScheduleInserts(q)
  PROVE  IInv'
  <1> DEFINE n == lastId + 1
  <1> USE DEF IInv, TypeOK, ScheduleInserts
  <1>1. TypeOK'
    BY TypeStep DEF Next, RequestStep
  <1>2. n \in Id /\ n > lastId /\ lastId' = n
    BY BoundAssumption DEF Id
  <1>3. started[n] = <<>> /\ n \notin poll.batch /\ ~InHand(n)
    BY <1>2 DEF Unborn
  <1>4. \A i \in Id : i # n => task'[i] = task[i]
    BY <1>2
  <1>5. UNCHANGED <<clock, poll, started, deleted>>
    OBVIOUS
  <1>6. poll.batch \subseteq Id
    BY DEF PollState
  <1>7. \A d \in deleted : d[1] \in Id /\ d[1] # n
    BY <1>2 DEF DeletedGone
  <1> HIDE DEF n, ScheduleInserts
  <1>8. Unborn'
    <2> SUFFICES ASSUME NEW i \in Id, i > n
                 PROVE  (started[i] = <<>> /\ i \notin poll.batch
                         /\ ~InHand(i) /\ ~task[i].enabled)'
      BY <1>2 DEF Unborn
    <2>1. i > lastId /\ i # n
      BY <1>2 DEF Id
    <2> QED
      BY <2>1, <1>4, <1>5 DEF Unborn, InHand
  <1>9. CutoffPast' /\ StartsAdvance' /\ DeletedStartsOnceMore'
    BY <1>5 DEF CutoffPast, StartsAdvance, DeletedStartsOnceMore
  <1>10. EnabledAhead'
    <2> SUFFICES ASSUME NEW i \in Id, task'[i].enabled
                 PROVE  StartedBefore(i, task[i].run_at)'
      BY DEF EnabledAhead
    <2>1. CASE i = n
      BY <2>1, <1>3, <1>5 DEF StartedBefore
    <2>2. CASE i # n
      BY <2>2, <1>4, <1>5 DEF EnabledAhead, StartedBefore
    <2> QED
      BY <2>1, <2>2
  <1>11. BatchAhead'
    BY <1>3, <1>4, <1>5, <1>6 DEF BatchAhead, StartedBefore
  <1>12. HandAhead'
    BY <1>3, <1>4, <1>5 DEF HandAhead, InHand, StartedBefore
  <1>13. DeletedGone'
    <2> SUFFICES ASSUME NEW d \in deleted
                 PROVE  /\ d[1] <= n /\ ~task'[d[1]].enabled
                        /\ d[1] \in poll.batch \/ InHand(d[1]) =>
                               Len(started[d[1]]) <= d[2]
      BY <1>2, <1>5 DEF DeletedGone, InHand
    <2>1. d[1] <= n
      BY <1>2, <1>7 DEF DeletedGone, Id
    <2> QED
      BY <2>1, <1>4, <1>7 DEF DeletedGone
  <1> QED
    BY <1>1, <1>8, <1>9, <1>10, <1>11, <1>12, <1>13

LEMMA DeleteKeeps ==
  ASSUME IInv, NEW u \in User, NEW i \in Id, Delete(u, i)
  PROVE  IInv'
  <1> USE DEF IInv, TypeOK, Delete
  <1>1. TypeOK'
    BY TypeStep DEF Next, RequestStep
  <1>2. \A j \in Id : task'[j].run_at = task[j].run_at
                     /\ (task'[j].enabled => task[j].enabled)
    BY DEF Row
  <1>3. ~task'[i].enabled /\ i <= lastId
    BY DEF Row, EnabledTasks
  <1>4. UNCHANGED <<clock, lastId, poll, started>>
    OBVIOUS
  <1>5. poll.batch \subseteq Id
    BY DEF PollState
  <1>6. \A d \in deleted : d[1] \in Id
    OBVIOUS
  <1>7. deleted' = deleted \cup {<<i, Len(started[i])>>} /\ Len(started[i]) \in Nat
    OBVIOUS
  <1> HIDE DEF Delete
  <1>8. Unborn' /\ CutoffPast' /\ StartsAdvance'
    BY <1>2, <1>4 DEF Unborn, CutoffPast, StartsAdvance, InHand
  <1>9. EnabledAhead' /\ BatchAhead'
    BY <1>2, <1>4, <1>5 DEF EnabledAhead, BatchAhead, StartedBefore
  <1>10. HandAhead'
    BY <1>2, <1>4 DEF HandAhead, InHand, StartedBefore
  <1>11. DeletedGone' /\ DeletedStartsOnceMore'
    <2> DEFINE e == <<i, Len(started[i])>>
    <2>1. e[1] = i /\ e[2] = Len(started[i])
      OBVIOUS
    <2> HIDE DEF e
    <2>2. ASSUME NEW d \in deleted'
          PROVE  /\ d[1] <= lastId /\ ~task'[d[1]].enabled
                 /\ d[1] \in poll.batch \/ InHand(d[1]) =>
                        Len(started[d[1]]) <= d[2]
                 /\ Len(started[d[1]]) <= d[2] + 1
      <3>1. CASE d = e
        BY <1>3, <1>7, <2>1, <3>1
      <3>2. CASE d \in deleted
        BY <1>2, <1>6, <3>2 DEF DeletedGone, DeletedStartsOnceMore
      <3> QED
        BY <1>7, <2>2, <3>1, <3>2 DEF e
    <2> QED
      BY <1>4, <2>2 DEF DeletedGone, DeletedStartsOnceMore, InHand
  <1> QED
    BY <1>1, <1>8, <1>9, <1>10, <1>11

LEMMA SelectKeeps ==
  ASSUME IInv, PollSelects
  PROVE  IInv'
  <1> USE DEF IInv, TypeOK, PollSelects
  <1>1. TypeOK'
    BY TypeStep DEF Next, PollWork
  <1>2. /\ poll'.batch = {i \in Id : Selected(i)}
        /\ poll'.pc = "tasks" /\ poll'.cutoff = 0
    BY DEF Sleeping
  <1>3. \A i \in poll'.batch : /\ i \in Id /\ i <= lastId
                               /\ task[i].enabled /\ task[i].run_at <= clock
    <2> SUFFICES ASSUME NEW i \in Id, Selected(i)
                 PROVE  i <= lastId /\ task[i].enabled /\ task[i].run_at <= clock
      BY <1>2
    <2>1. task[i].run_at \in Nat /\ poll.cutoff \in Nat
      BY DEF Row, PollState
    <2> QED
      BY <2>1 DEF Selected, CutoffPast
  <1>4. UNCHANGED <<clock, lastId, task, started, deleted>>
    OBVIOUS
  <1> HIDE DEF PollSelects
  <1>5. Unborn' /\ CutoffPast' /\ EnabledAhead' /\ StartsAdvance'
    <2>1. ASSUME NEW i \in Id, i > lastId PROVE i \notin poll'.batch
      BY <1>3, <2>1, BoundAssumption DEF Id
    <2>2. Unborn'
      BY <1>2, <1>4, <2>1 DEF Unborn, InHand
    <2>3. CutoffPast'
      BY <1>2, <1>4 DEF CutoffPast
    <2>4. EnabledAhead' /\ StartsAdvance'
      BY <1>4 DEF EnabledAhead, StartsAdvance, StartedBefore
    <2> QED
      BY <2>2, <2>3, <2>4
  <1>6. BatchAhead' /\ HandAhead'
    BY <1>2, <1>3, <1>4
    DEF BatchAhead, HandAhead, EnabledAhead, InHand, StartedBefore
  <1>7. DeletedGone' /\ DeletedStartsOnceMore'
    BY <1>2, <1>3, <1>4 DEF DeletedGone, DeletedStartsOnceMore, InHand
  <1> QED
    BY <1>1, <1>5, <1>6, <1>7

-----------------------------------------------------------------------------
(* The poll takes a task: its occurrence moves from the row to the hand,   *)
(* and the row, if it stays enabled, holds a later one.                    *)
LEMMA TakeKeeps ==
  ASSUME IInv, TypeOK', NEW i \in Id, TakesFromBatch(i), i \in poll.batch,
         \A j \in Id \ {i} : task'[j] = task[j],
         task'[i].enabled => task[i].enabled /\ task'[i].run_at > clock
  PROVE  IInv'
  <1> USE DEF IInv, TypeOK
  <1>1. UNCHANGED <<clock, lastId, started, deleted>>
    BY DEF TakesFromBatch
  <1>2. /\ poll'.pc = "spawn" /\ poll.pc = "tasks"
        /\ poll'.batch = poll.batch \ {i} /\ poll'.current = i
        /\ poll'.occurrence = task[i].run_at /\ poll'.cutoff = poll.cutoff
    BY DEF TakesFromBatch, PollState
  <1>3. /\ \A j \in Id : task[j].run_at \in Nat /\ task'[j].run_at \in Nat
        /\ \A j \in Id : started[j] \in Seq(Nat)
        /\ poll.batch \subseteq Id /\ clock \in Nat
    BY DEF Row, PollState
  <1>4. StartedBefore(i, task[i].run_at) /\ task[i].run_at <= clock
    BY DEF BatchAhead
  <1>5. \A j \in Id : \A k \in 1..Len(started[j]) : started[j][k] \in Nat
    BY SMTT(30), <1>3
  <1>6. \A d \in deleted : d[1] \in Id
    OBVIOUS
  <1>7. i <= lastId
    BY DEF Unborn, Id
  <1> HIDE DEF TypeOK
  <1>8. Unborn'
    BY <1>1, <1>2, <1>7 DEF Unborn, InHand, Id
  <1>9. CutoffPast' /\ StartsAdvance' /\ DeletedStartsOnceMore'
    BY <1>1, <1>2 DEF CutoffPast, StartsAdvance, DeletedStartsOnceMore
  <1>10. EnabledAhead'
    <2> SUFFICES ASSUME NEW j \in Id, task'[j].enabled
                 PROVE  StartedBefore(j, task[j].run_at)'
      BY DEF EnabledAhead
    <2>1. CASE j = i
      <3>1. task'[i].run_at > clock
        BY <2>1
      <3>2. task[i].run_at < task'[i].run_at
        BY <1>3, <1>4, <3>1
      <3>3. \A k \in 1..Len(started[i]) : started[i][k] < task'[i].run_at
        BY <1>3, <1>4, <1>5, <3>2 DEF StartedBefore
      <3> QED
        BY <1>1, <2>1, <3>3 DEF StartedBefore
    <2>2. CASE j # i
      BY <1>1, <2>2 DEF EnabledAhead, StartedBefore
    <2> QED
      BY <2>1, <2>2
  <1>11. BatchAhead'
    BY <1>1, <1>2, <1>3 DEF BatchAhead, StartedBefore
  <1>12. HandAhead'
    <2> SUFFICES ASSUME NEW j \in Id, InHand(j)'
                 PROVE  (/\ j \notin poll.batch
                         /\ StartedBefore(j, poll.occurrence)
                         /\ poll.occurrence <= clock
                         /\ task[j].enabled => poll.occurrence < task[j].run_at)'
      BY DEF HandAhead
    <2>1. j = i
      BY <1>2 DEF InHand
    <2> QED
      BY <1>1, <1>2, <1>3, <1>4, <2>1 DEF StartedBefore
  <1>13. DeletedGone'
    BY <1>1, <1>2, <1>6 DEF DeletedGone, InHand
  <1> QED
    BY <1>8, <1>9, <1>10, <1>11, <1>12, <1>13

LEMMA RearmKeeps ==
  ASSUME IInv, NEW i \in Id, PollRearms(i)
  PROVE  IInv'
  <1> USE DEF IInv
  <1>1. TypeOK'
    BY TypeStep DEF Next, PollWork
  <1>2. PICK at \in NextRun(i) : task' = Rearmed(i, at)
    BY DEF PollRearms
  <1>3. at \in Nat /\ at > clock
    BY NextRunTimes
  <1>4. /\ \A j \in Id \ {i} : task'[j] = task[j]
        /\ task'[i].run_at = at /\ task'[i].enabled = task[i].enabled
    BY <1>2 DEF Rearmed, TypeOK, Row
  <1>5. TakesFromBatch(i) /\ i \in poll.batch
    BY DEF PollRearms, TakesFromBatch
  <1> QED
    BY <1>1, <1>3, <1>4, <1>5, TakeKeeps

LEMMA DisableKeeps ==
  ASSUME IInv, NEW i \in Id, PollDisables(i)
  PROVE  IInv'
  <1> USE DEF IInv
  <1>1. TypeOK'
    BY TypeStep DEF Next, PollWork
  <1>2. (\A j \in Id \ {i} : task'[j] = task[j]) /\ ~task'[i].enabled
    BY DEF PollDisables, Disabled, TypeOK, Row
  <1>3. TakesFromBatch(i) /\ i \in poll.batch
    BY DEF PollDisables, TakesFromBatch
  <1> QED
    BY <1>1, <1>2, <1>3, TakeKeeps

(* The start itself: the occurrence in hand is later than all before it.   *)
LEMMA SpawnKeeps ==
  ASSUME IInv, PollSpawns
  PROVE  IInv'
  <1> DEFINE i == poll.current
             occ == poll.occurrence
             n == Len(started[i])
  <1> USE DEF IInv, TypeOK
  <1>1. TypeOK'
    BY TypeStep DEF Next, PollWork
  <1>2. i \in Id /\ occ \in Nat /\ poll.pc = "spawn" /\ InHand(i)
    BY DEF PollSpawns, PollState, InHand
  <1>3. UNCHANGED <<clock, lastId, task, deleted>>
    BY DEF PollSpawns
  <1>4. /\ poll'.pc = "tasks" /\ poll'.batch = poll.batch
        /\ poll'.cutoff = poll.cutoff
    BY DEF PollSpawns, PollState
  <1>5. /\ started'[i] = Append(started[i], occ)
        /\ \A j \in Id \ {i} : started'[j] = started[j]
    BY <1>2 DEF PollSpawns
  <1>6. /\ i \notin poll.batch /\ StartedBefore(i, occ) /\ occ <= clock
        /\ task[i].enabled => occ < task[i].run_at
    BY <1>2 DEF HandAhead
  <1>7. started[i] \in Seq(Nat) /\ n \in Nat
    BY <1>2
  <1>8. /\ Len(started'[i]) = n + 1 /\ started'[i][n + 1] = occ
        /\ \A k \in 1..n : started'[i][k] = started[i][k] /\ started[i][k] < occ
    BY <1>5, <1>6, <1>7 DEF StartedBefore
  <1>9. i <= lastId
    BY <1>2 DEF Unborn, Id
  <1>10. /\ poll.batch \subseteq Id
         /\ \A j \in Id : task[j].run_at \in Nat
         /\ \A d \in deleted : d[1] \in Id /\ d[2] \in Nat
         /\ \A k \in 1..n : started[i][k] \in Nat
    BY SMTT(30), <1>7 DEF Row, PollState
  <1> HIDE DEF TypeOK, i, occ, n
  <1>11. Unborn' /\ CutoffPast' /\ HandAhead'
    BY <1>2, <1>3, <1>4, <1>5, <1>9
    DEF Unborn, CutoffPast, HandAhead, InHand, Id
  <1>12. EnabledAhead'
    <2> SUFFICES ASSUME NEW j \in Id, task[j].enabled
                 PROVE  \A k \in 1..Len(started'[j]) :
                            started'[j][k] < task[j].run_at
      BY <1>3 DEF EnabledAhead, StartedBefore
    <2>1. CASE j = i
      BY <1>2, <1>6, <1>7, <1>8, <1>10, <2>1
    <2>2. CASE j # i
      BY <1>5, <2>2 DEF EnabledAhead, StartedBefore
    <2> QED
      BY <2>1, <2>2
  <1>13. BatchAhead'
    BY <1>3, <1>4, <1>5, <1>6, <1>10 DEF BatchAhead, StartedBefore
  <1>14. StartsAdvance'
    <2> SUFFICES ASSUME NEW j \in Id, NEW k \in 1..Len(started'[j])
                 PROVE  /\ started'[j][k] <= clock
                        /\ \A l \in 1..(k - 1) : started'[j][l] < started'[j][k]
      BY <1>3 DEF StartsAdvance
    <2>1. CASE j # i
      BY <1>5, <2>1 DEF StartsAdvance
    <2>2. CASE j = i /\ k = n + 1
      BY <1>6, <1>7, <1>8, <2>2
    <2>3. CASE j = i /\ k # n + 1
      <3>1. k \in 1..n /\ \A l \in 1..(k - 1) : l \in 1..n
        BY <1>7, <1>8, <2>3
      <3> QED
        BY <1>2, <1>8, <2>3, <3>1 DEF StartsAdvance, n
    <2> QED
      BY <2>1, <2>2, <2>3
  <1>15. DeletedGone' /\ DeletedStartsOnceMore'
    <2> SUFFICES ASSUME NEW d \in deleted
                 PROVE  /\ d[1] <= lastId /\ ~task[d[1]].enabled
                        /\ d[1] \in poll.batch => Len(started'[d[1]]) <= d[2]
                        /\ Len(started'[d[1]]) <= d[2] + 1
      BY <1>3, <1>4 DEF DeletedGone, DeletedStartsOnceMore, InHand
    <2>1. CASE d[1] = i
      <3>1. n <= d[2]
        BY <1>2, <2>1 DEF DeletedGone, n
      <3> QED
        BY <1>6, <1>7, <1>8, <1>10, <2>1, <3>1 DEF DeletedGone
    <2>2. CASE d[1] # i
      BY <1>5, <1>10, <2>2 DEF DeletedGone, DeletedStartsOnceMore
    <2> QED
      BY <2>1, <2>2
  <1> QED
    BY <1>1, <1>11, <1>12, <1>13, <1>14, <1>15

LEMMA StepKeeps ==
  ASSUME IInv, [Next]_vars
  PROVE  IInv'
  <1>1. TypeOK'
    BY TypeStep DEF IInv
  <1>2. poll.cutoff \in Nat /\ clock \in Nat
    BY DEF IInv, TypeOK, PollState
  <1>3. /\ Sleeping.batch = {} /\ Sleeping.pc # "spawn"
        /\ Sleeping.cutoff = 0
    BY DEF Sleeping
  <1>4. CASE Tick
    BY <1>4, TickKeeps
  <1>5. ASSUME NEW q \in Request, ScheduleOnce(q) \/ ScheduleCron(q)
        PROVE  IInv'
    BY <1>1, <1>5, OthersKeep DEF ScheduleOnce, ScheduleCron, ScheduleCounts
  <1>6. ASSUME NEW q \in Request, ScheduleInserts(q) PROVE IInv'
    BY <1>6, InsertKeeps
  <1>7. ASSUME NEW u \in User, NEW i \in Id, Delete(u, i) PROVE IInv'
    BY <1>7, DeleteKeeps
  <1>8. CASE PollStarts
    <2>1. /\ poll'.batch = {} /\ poll'.pc # "spawn" /\ poll'.cutoff = clock
      BY <1>8 DEF PollStarts, Sleeping
    <2> QED
      BY <1>1, <1>2, <1>8, <2>1, EmptyHandsKeep DEF PollStarts
  <1>9. CASE PollSelects
    BY <1>9, SelectKeeps
  <1>10. CASE PollSpawns
    BY <1>10, SpawnKeeps
  <1>11. CASE PollEnds \/ PollAborts \/ Restart
    BY <1>1, <1>2, <1>3, <1>11, EmptyHandsKeep DEF PollEnds, PollAborts, Restart
  <1>12. ASSUME NEW i \in Id, PollRearms(i) PROVE IInv'
    BY <1>12, RearmKeeps
  <1>13. ASSUME NEW i \in Id, PollDisables(i) PROVE IInv'
    BY <1>13, DisableKeeps
  <1>14. ASSUME NEW i \in Id, RunEnds(i) PROVE IInv'
    BY <1>1, <1>14, OthersKeep DEF RunEnds
  <1>15. CASE Crash
    <2>1. /\ poll'.batch = {} /\ poll'.pc # "spawn" /\ poll'.cutoff = 0
      BY <1>15 DEF Crash, Sleeping
    <2> QED
      BY <1>1, <1>2, <1>15, <2>1, EmptyHandsKeep DEF Crash
  <1>16. CASE UNCHANGED vars
    BY <1>1, <1>16, OthersKeep DEF vars
  <1> QED
    BY <1>4, <1>5, <1>6, <1>7, <1>8, <1>9, <1>10, <1>11, <1>12, <1>13, <1>14,
       <1>15, <1>16 DEF Next, RequestStep, PollWork

LEMMA IInvInit == Init => IInv
  <1> SUFFICES ASSUME Init PROVE IInv
    OBVIOUS
  <1>1. TypeOK
    BY TypeInit
  <1>2. /\ poll.batch = {} /\ poll.pc # "spawn" /\ poll.cutoff = 0
        /\ \A i \in Id : started[i] = <<>> /\ task[i].enabled = FALSE
    BY DEF Init, Sleeping, Blank
  <1> QED
    BY <1>1, <1>2
    DEF Init, IInv, Unborn, InHand, CutoffPast, EnabledAhead, BatchAhead,
        HandAhead, StartsAdvance, DeletedGone, DeletedStartsOnceMore,
        StartedBefore

LEMMA OrderInvariant == Spec => []IInv
  <1>1. IInv /\ [Next]_vars => IInv'
    BY StepKeeps
  <1> QED
    BY IInvInit, <1>1, PTL DEF Spec

(* No occurrence starts a task twice or early, and so a one-shot task      *)
(* starts at most once, across crashes, aborted polls and deletions.       *)
THEOREM StartsInOrder == Spec => []StartsAdvance
  <1>1. IInv => StartsAdvance
    BY DEF IInv
  <1> QED
    BY OrderInvariant, <1>1, PTL

(* A deleted task starts at most once more.                                *)
THEOREM DeletionHolds == Spec => []DeletedStartsOnceMore
  <1>1. IInv => DeletedStartsOnceMore
    BY DEF IInv
  <1> QED
    BY OrderInvariant, <1>1, PTL

-----------------------------------------------------------------------------
(* The task limit.  A request that has counted holds a permit; tasks and   *)
(* permits together stay below the limit plus the number of requests: a    *)
(* permit is only given while the tasks alone are below the limit, and the *)
(* INSERT turns one permit into one task.                                  *)

Permitted(u) ==
    {q \in Request : request[q].pc = "counted" /\ request[q].row.user = u}

PermitCap ==
    \A u \in User : Cardinality(EnabledTasks(u)) + Cardinality(Permitted(u))
                        < MaxTasks + Cardinality(Request)

LEMMA FiniteTasks ==
  ASSUME TypeOK, NEW u \in User
  PROVE  /\ IsFiniteSet(EnabledTasks(u)) /\ IsFiniteSet(Permitted(u))
         /\ Cardinality(EnabledTasks(u)) \in Nat
         /\ Cardinality(Permitted(u)) \in Nat
         /\ Cardinality(Request) \in Nat
         /\ Cardinality(Permitted(u)) <= Cardinality(Request)
  <1>1. IsFiniteSet(1..lastId)
    BY FS_Interval DEF TypeOK
  <1>2. EnabledTasks(u) \subseteq 1..lastId /\ Permitted(u) \subseteq Request
    BY DEF EnabledTasks, Permitted
  <1>3. IsFiniteSet(Request)
    BY BoundAssumption
  <1>4. /\ IsFiniteSet(EnabledTasks(u)) /\ IsFiniteSet(Permitted(u))
        /\ Cardinality(Permitted(u)) <= Cardinality(Request)
    BY <1>1, <1>2, <1>3, FS_Subset
  <1> QED
    BY <1>3, <1>4, FS_CardinalityType

(* Fewer tasks or fewer permits keep the cap.                              *)
LEMMA FewerKeep ==
  ASSUME TypeOK, TypeOK', PermitCap,
         \A u \in User : /\ EnabledTasks(u)' \subseteq EnabledTasks(u)
                         /\ Permitted(u)' \subseteq Permitted(u)
  PROVE  PermitCap'
  <1> SUFFICES ASSUME NEW u \in User
               PROVE  Cardinality(EnabledTasks(u)') + Cardinality(Permitted(u)')
                          < MaxTasks + Cardinality(Request)
    BY DEF PermitCap
  <1> DEFINE a == Cardinality(EnabledTasks(u))
             b == Cardinality(Permitted(u))
             c == Cardinality(EnabledTasks(u)')
             d == Cardinality(Permitted(u)')
             n == Cardinality(Request)
  <1>1. c <= a /\ d <= b
    BY FiniteTasks, FS_Subset
  <1>2. c \in Nat /\ d \in Nat
    <2>1. /\ EnabledTasks(u)' \subseteq EnabledTasks(u)
          /\ Permitted(u)' \subseteq Permitted(u)
      OBVIOUS
    <2>2. IsFiniteSet(EnabledTasks(u)') /\ IsFiniteSet(Permitted(u)')
      BY <2>1, FiniteTasks, FS_Subset
    <2> QED
      BY <2>2, FS_CardinalityType
  <1>3. a \in Nat /\ b \in Nat /\ n \in Nat /\ a + b < MaxTasks + n
    BY FiniteTasks DEF PermitCap
  <1> HIDE DEF a, b, c, d, n
  <1>4. c + d < MaxTasks + n
    BY <1>1, <1>2, <1>3, BoundAssumption
  <1> QED
    BY <1>4 DEF c, d, n

LEMMA CountKeepsCap ==
  ASSUME TypeOK, TypeOK', PermitCap, NEW q \in Request, NEW row \in Row,
         ScheduleCounts(q, row)
  PROVE  PermitCap'
  <1> SUFFICES ASSUME NEW u \in User
               PROVE  Cardinality(EnabledTasks(u)') + Cardinality(Permitted(u)')
                          < MaxTasks + Cardinality(Request)
    BY DEF PermitCap
  <1>1. EnabledTasks(u)' = EnabledTasks(u)
    BY DEF ScheduleCounts, EnabledTasks
  <1>2. /\ request'[q] = [pc |-> "counted", row |-> row]
        /\ \A r \in Request \ {q} : request'[r] = request[r]
    BY DEF ScheduleCounts, TypeOK
  <1>3. CASE row.user = u
    <2>1. Cardinality(EnabledTasks(u)) < MaxTasks
      BY <1>3 DEF ScheduleCounts, BelowLimit
    <2>2. Permitted(u)' \subseteq Request
      BY DEF Permitted
    <2>3. /\ Cardinality(Permitted(u)') \in Nat
          /\ Cardinality(Permitted(u)') <= Cardinality(Request)
      BY <2>2, BoundAssumption, FS_Subset, FS_CardinalityType
    <2> QED
      BY <1>1, <2>1, <2>3, FiniteTasks, BoundAssumption
  <1>4. CASE row.user # u
    <2>1. Permitted(u)' = Permitted(u)
      BY <1>2, <1>4 DEF Permitted, ScheduleCounts
    <2> QED
      BY <1>1, <2>1 DEF PermitCap
  <1> QED
    BY <1>3, <1>4

LEMMA InsertKeepsCap ==
  ASSUME TypeOK, TypeOK', PermitCap, NEW q \in Request, ScheduleInserts(q)
  PROVE  PermitCap'
  <1> SUFFICES ASSUME NEW u \in User
               PROVE  Cardinality(EnabledTasks(u)') + Cardinality(Permitted(u)')
                          < MaxTasks + Cardinality(Request)
    BY DEF PermitCap
  <1> DEFINE n == lastId + 1
             a == Cardinality(EnabledTasks(u))
             b == Cardinality(Permitted(u))
             c == Cardinality(EnabledTasks(u)')
             d == Cardinality(Permitted(u)')
             m == Cardinality(Request)
  <1>1. /\ lastId' = n /\ n \in Id /\ n \notin 1..lastId /\ lastId \in Nat
        /\ task'[n] = request[q].row
        /\ \A j \in Id \ {n} : task'[j] = task[j]
    BY BoundAssumption DEF ScheduleInserts, TypeOK, Id
  <1>2. /\ request'[q].pc = "idle" /\ request[q].pc = "counted"
        /\ \A r \in Request \ {q} : request'[r] = request[r]
    BY DEF ScheduleInserts, TypeOK, Unused
  <1>3. \A j \in 1..lastId : j \in Id /\ j # n
    BY <1>1, BoundAssumption DEF Id, TypeOK
  <1>4. EnabledTasks(u)' \subseteq EnabledTasks(u) \cup {n}
    BY <1>1, <1>3 DEF EnabledTasks
  <1>5. /\ a \in Nat /\ b \in Nat /\ m \in Nat /\ a + b < MaxTasks + m
        /\ IsFiniteSet(EnabledTasks(u)) /\ IsFiniteSet(Permitted(u))
    BY FiniteTasks DEF PermitCap
  <1>6. Permitted(u)' = Permitted(u) \ {q}
    BY <1>2 DEF Permitted
  <1>7. n \notin EnabledTasks(u)
    BY <1>1 DEF EnabledTasks
  <1>8. CASE request[q].row.user = u
    <2>1. q \in Permitted(u)
      BY <1>2, <1>8 DEF Permitted
    <2>2. d = b - 1 /\ d \in Nat
      BY <1>5, <1>6, <2>1, FS_RemoveElement, FS_CardinalityType
    <2>3. /\ IsFiniteSet(EnabledTasks(u) \cup {n})
          /\ Cardinality(EnabledTasks(u) \cup {n}) = a + 1
      BY <1>5, <1>7, FS_AddElement
    <2>4. c <= a + 1 /\ c \in Nat
      BY <1>4, <2>3, FS_Subset, FS_CardinalityType
    <2> HIDE DEF a, b, c, d, m
    <2>5. c + d < MaxTasks + m
      BY <1>5, <2>2, <2>4, BoundAssumption
    <2> QED
      BY <2>5 DEF c, d, m
  <1>9. CASE request[q].row.user # u
    <2>1. EnabledTasks(u)' \subseteq EnabledTasks(u)
      BY <1>1, <1>3, <1>4, <1>9 DEF EnabledTasks
    <2>2. Permitted(u)' = Permitted(u)
      BY <1>6, <1>9 DEF Permitted
    <2>3. c <= a /\ c \in Nat
      BY <1>5, <2>1, FS_Subset, FS_CardinalityType
    <2> HIDE DEF a, b, c, d, m
    <2>4. d = b
      BY <2>2 DEF b, d
    <2>5. c + d < MaxTasks + m
      BY <1>5, <2>3, <2>4, BoundAssumption
    <2> QED
      BY <2>5 DEF c, d, m
  <1> QED
    BY <1>8, <1>9

LEMMA CapInit == Init => PermitCap
  <1> SUFFICES ASSUME Init, NEW u \in User
               PROVE  Cardinality(EnabledTasks(u)) + Cardinality(Permitted(u))
                          < MaxTasks + Cardinality(Request)
    BY DEF PermitCap
  <1>1. EnabledTasks(u) = {} /\ Permitted(u) = {}
    BY DEF Init, EnabledTasks, Permitted, Unused
  <1>2. Cardinality(Request) \in Nat
    BY BoundAssumption, FS_CardinalityType
  <1> QED
    BY <1>1, <1>2, FS_EmptySet, BoundAssumption

LEMMA CapStep ==
  ASSUME TypeOK, PermitCap, [Next]_vars
  PROVE  PermitCap'
  <1>1. TypeOK'
    BY TypeStep
  <1>2. ASSUME UNCHANGED <<lastId, task, request>> PROVE PermitCap'
    BY <1>2 DEF PermitCap, EnabledTasks, Permitted
  <1>3. ASSUME NEW q \in Request, ScheduleOnce(q) \/ ScheduleCron(q)
        PROVE  PermitCap'
    <2>1. PICK row \in Row : ScheduleCounts(q, row)
      <3>1. \A u \in User, at \in OnceTimes : NewRow(u, Once, at) \in Row
        BY BoundAssumption DEF NewRow, Row
      <3>2. \A u \in User, c \in Cron : \A at \in First(Upcoming(c)) :
                NewRow(u, c, at) \in Row
        BY UpcomingTimes DEF NewRow, Row, TypeOK
      <3> QED
        BY <1>3, <3>1, <3>2 DEF ScheduleOnce, ScheduleCron
    <2> QED
      BY <1>1, <2>1, CountKeepsCap
  <1>4. ASSUME NEW q \in Request, ScheduleInserts(q) PROVE PermitCap'
    BY <1>1, <1>4, InsertKeepsCap
  <1>5. ASSUME NEW u \in User, NEW i \in Id, Delete(u, i) PROVE PermitCap'
    <2>1. /\ UNCHANGED <<lastId, request>>
          /\ \A j \in Id : /\ task'[j].user = task[j].user
                           /\ task'[j].enabled => task[j].enabled
      BY <1>5 DEF Delete, TypeOK, Row
    <2>2. \A j \in 1..lastId : j \in Id
      BY BoundAssumption DEF TypeOK, Id
    <2>3. \A v \in User : /\ EnabledTasks(v)' \subseteq EnabledTasks(v)
                          /\ Permitted(v)' \subseteq Permitted(v)
      BY <2>1, <2>2 DEF EnabledTasks, Permitted
    <2> QED
      BY <1>1, <2>3, FewerKeep
  <1>6. ASSUME NEW i \in Id, PollRearms(i) \/ PollDisables(i) PROVE PermitCap'
    <2>1. /\ UNCHANGED <<lastId, request>>
          /\ \A j \in Id : /\ task'[j].user = task[j].user
                           /\ task'[j].enabled => task[j].enabled
      <3>1. CASE PollRearms(i)
        <4>1. PICK at \in NextRun(i) : task' = Rearmed(i, at)
          BY <3>1 DEF PollRearms
        <4> QED
          BY <3>1, <4>1 DEF PollRearms, TakesFromBatch, Rearmed, TypeOK, Row
      <3>2. CASE PollDisables(i)
        BY <3>2 DEF PollDisables, TakesFromBatch, Disabled, TypeOK, Row
      <3> QED
        BY <1>6, <3>1, <3>2
    <2>2. \A j \in 1..lastId : j \in Id
      BY BoundAssumption DEF TypeOK, Id
    <2>3. \A v \in User : /\ EnabledTasks(v)' \subseteq EnabledTasks(v)
                          /\ Permitted(v)' \subseteq Permitted(v)
      BY <2>1, <2>2 DEF EnabledTasks, Permitted
    <2> QED
      BY <1>1, <2>3, FewerKeep
  <1>7. CASE Crash
    <2>1. \A q \in Request : request'[q].pc = "idle"
      BY <1>7 DEF Crash, Unused
    <2>2. \A v \in User : /\ EnabledTasks(v)' \subseteq EnabledTasks(v)
                          /\ Permitted(v)' \subseteq Permitted(v)
      BY <1>7, <2>1 DEF Crash, EnabledTasks, Permitted
    <2> QED
      BY <1>1, <2>2, FewerKeep
  <1>8. ASSUME \/ Tick \/ PollStarts \/ PollSelects \/ PollSpawns \/ PollEnds
               \/ PollAborts \/ Restart \/ (\E i \in Id : RunEnds(i))
               \/ UNCHANGED vars
        PROVE  PermitCap'
    BY <1>2, <1>8 DEF Tick, PollStarts, PollSelects, PollSpawns, PollEnds,
                      PollAborts, Restart, RunEnds, vars
  <1> QED
    BY <1>3, <1>4, <1>5, <1>6, <1>7, <1>8 DEF Next, RequestStep, PollWork

(* However many requests race, the enabled tasks of a user stay below the  *)
(* limit plus the number of requests in progress.                          *)
THEOREM TasksCapped == Spec => []TaskCap
  <1>1. TypeOK /\ PermitCap /\ [Next]_vars => TypeOK' /\ PermitCap'
    BY TypeStep, CapStep
  <1>2. TypeOK /\ PermitCap => TaskCap
    <2> SUFFICES ASSUME TypeOK, PermitCap, NEW u \in User
                 PROVE  Cardinality(EnabledTasks(u)) < MaxTasks + Cardinality(Request)
      BY DEF TaskCap
    <2> QED
      BY FiniteTasks, BoundAssumption DEF PermitCap
  <1> QED
    BY TypeInit, CapInit, <1>1, <1>2, PTL DEF Spec
-----------------------------------------------------------------------------
(* What a crash took is not started after all.                             *)
LostIsNotStarted == \A d \in lost : ~StartedFor(d[1], d[2])

(* Wherever the task's next occurrence is, it is a later one.              *)
LostIsPast ==
    \A d \in lost :
        /\ d[1] <= lastId
        /\ task[d[1]].enabled => d[2] < task[d[1]].run_at
        /\ d[1] \in poll.batch => d[2] < task[d[1]].run_at
        /\ InHand(d[1]) => d[2] < poll.occurrence

LEMMA RowTypes ==
  ASSUME TypeOK
  PROVE  /\ \A i \in Id : /\ task[i] \in Row /\ task[i].run_at \in Nat
                          /\ started[i] \in Seq(Nat)
         /\ poll.occurrence \in Nat /\ poll.batch \subseteq Id
         /\ lost \subseteq Id \X Nat /\ clock \in Nat /\ lastId \in Nat
         /\ poll.pc \in {"sleep", "select", "tasks", "spawn", "down"}
         /\ poll.current \in Id \cup {0} /\ 0 \notin Id
  BY BoundAssumption DEF TypeOK, Row, PollState, Id

(* Steps that leave the poll's hands as they are.                          *)
LEMMA OwedStays ==
  ASSUME TypeOK, clock <= clock', clock' \in Nat, started' = started,
         deleted \subseteq deleted', poll' = poll \/ poll.pc # "spawn",
         \A i \in Id : task[i].enabled =>
             IsDeleted(i)' \/ (task'[i].enabled /\ task'[i].run_at = task[i].run_at)
  PROVE  OwedIsKept
  <1> SUFFICES ASSUME NEW i \in Id, NEW t \in 0..clock, Owed(i, t)
               PROVE  Owed(i, t)' \/ IsDeleted(i)'
    BY DEF OwedIsKept
  <1>1. CASE Due(i, t)
    BY <1>1, RowTypes DEF Due, Owed
  <1>2. CASE InHand(i) /\ poll.occurrence = t
    BY <1>2 DEF InHand, Owed
  <1> QED
    BY <1>1, <1>2 DEF Owed

LEMMA TakeKeepsOwed ==
  ASSUME TypeOK, NEW i \in Id, PollRearms(i) \/ PollDisables(i)
  PROVE  OwedIsKept
  <1> SUFFICES ASSUME NEW j \in Id, NEW t \in 0..clock, Owed(j, t)
               PROVE  Owed(j, t)'
    BY DEF OwedIsKept
  <1>1. /\ poll.pc = "tasks" /\ poll'.pc = "spawn" /\ poll'.current = i
        /\ poll'.occurrence = task[i].run_at /\ clock' = clock
    BY RowTypes DEF PollRearms, PollDisables, TakesFromBatch, TypeOK, PollState
  <1>2. Due(j, t)
    BY <1>1 DEF Owed, InHand
  <1>3. CASE j = i
    BY <1>1, <1>2, <1>3 DEF Due, Owed, InHand
  <1>4. CASE j # i
    <2>1. task'[j] = task[j]
      BY <1>4, RowTypes DEF PollRearms, PollDisables, Rearmed, Disabled, TypeOK
    <2> QED
      BY <1>1, <1>2, <2>1 DEF Due, Owed
  <1> QED
    BY <1>3, <1>4

LEMMA SpawnKeepsOwed == ASSUME TypeOK, PollSpawns PROVE OwedIsKept
  <1> SUFFICES ASSUME NEW i \in Id, NEW t \in 0..clock, Owed(i, t)
               PROVE  Owed(i, t)' \/ StartedFor(i, t)'
    BY DEF OwedIsKept
  <1>1. CASE Due(i, t)
    BY <1>1 DEF PollSpawns, Due, Owed
  <1>2. CASE InHand(i) /\ poll.occurrence = t
    <2>1. started'[i] = Append(started[i], t) /\ started[i] \in Seq(Nat)
      BY <1>2, RowTypes DEF PollSpawns, InHand, TypeOK
    <2>2. LET k == Len(started[i]) + 1
          IN  k \in 1..Len(started'[i]) /\ started'[i][k] = t
      BY <2>1
    <2> QED
      BY <2>2 DEF StartedFor
  <1> QED
    BY <1>1, <1>2 DEF Owed

LEMMA CrashKeepsOwed == ASSUME TypeOK, Crash PROVE OwedIsKept
  <1> SUFFICES ASSUME NEW i \in Id, NEW t \in 0..clock, Owed(i, t)
               PROVE  Owed(i, t)' \/ <<i, t>> \in lost'
    BY DEF OwedIsKept
  <1>1. CASE Due(i, t)
    BY <1>1 DEF Crash, Due, Owed
  <1>2. CASE InHand(i) /\ poll.occurrence = t
    BY <1>2 DEF Crash, InHand
  <1> QED
    BY <1>1, <1>2 DEF Owed

LEMMA InsertFresh ==
  ASSUME IInv, NEW q \in Request, ScheduleInserts(q)
  PROVE  /\ lastId' \in Id /\ lastId < lastId' /\ ~task[lastId'].enabled
         /\ \A i \in Id \ {lastId'} : task'[i] = task[i]
  <1>1. lastId' \in Id /\ lastId < lastId'
    BY BoundAssumption DEF ScheduleInserts, IInv, TypeOK, Id
  <1>2. ~task[lastId'].enabled
    BY <1>1 DEF IInv, Unborn
  <1>3. \A i \in Id \ {lastId'} : task'[i] = task[i]
    BY DEF ScheduleInserts, IInv, TypeOK
  <1> QED
    BY <1>1, <1>2, <1>3

LEMMA DeleteUpdates ==
  ASSUME TypeOK, NEW u \in User, NEW i \in Id, Delete(u, i)
  PROVE  /\ IsDeleted(i)' /\ ~task'[i].enabled
         /\ task'[i].run_at = task[i].run_at
         /\ \A j \in Id \ {i} : task'[j] = task[j]
  <1>1. <<i, Len(started[i])>> \in deleted'
    BY DEF Delete
  <1> QED
    BY <1>1, RowTypes DEF Delete, IsDeleted, TypeOK, Row

LEMMA OwedStep == ASSUME IInv, Next PROVE OwedIsKept
  <1>0. TypeOK /\ clock \in Nat /\ clock <= clock
    BY RowTypes DEF IInv
  <1>1. CASE Tick
    BY <1>0, <1>1, OwedStays DEF Tick
  <1>2. ASSUME NEW q \in Request, ScheduleOnce(q) \/ ScheduleCron(q)
        PROVE  OwedIsKept
    BY <1>0, <1>2, OwedStays DEF ScheduleOnce, ScheduleCron, ScheduleCounts
  <1>3. ASSUME NEW q \in Request, ScheduleInserts(q) PROVE OwedIsKept
    <2>1. /\ \A i \in Id : task[i].enabled => task'[i] = task[i]
          /\ UNCHANGED <<clock, started, deleted, poll>>
      BY <1>3, InsertFresh DEF ScheduleInserts
    <2> QED
      BY <1>0, <2>1, OwedStays
  <1>4. ASSUME NEW u \in User, NEW i \in Id, Delete(u, i) PROVE OwedIsKept
    <2>1. /\ \A j \in Id : IsDeleted(j)' \/ task'[j] = task[j]
          /\ UNCHANGED <<clock, started, poll>> /\ deleted \subseteq deleted'
      BY <1>0, <1>4, DeleteUpdates DEF Delete
    <2> QED
      BY <1>0, <2>1, OwedStays
  <1>5. CASE PollStarts \/ PollSelects \/ PollEnds \/ PollAborts \/ Restart
    BY <1>0, <1>5, OwedStays
       DEF PollStarts, PollSelects, PollEnds, PollAborts, Restart, InHand
  <1>6. ASSUME NEW i \in Id, RunEnds(i) PROVE OwedIsKept
    BY <1>0, <1>6, OwedStays DEF RunEnds
  <1> QED
    BY <1>0, <1>1, <1>2, <1>3, <1>4, <1>5, <1>6, SpawnKeepsOwed, CrashKeepsOwed,
       TakeKeepsOwed
    DEF Next, RequestStep, PollWork

(* No occurrence is forgotten: once a task is due, the occurrence stays    *)
(* owed, through aborted polls, restarts and concurrent requests, until    *)
(* the task has been started for it, has been deleted, or a crash between  *)
(* poll_once's UPDATE and its spawn took it.  This is what DueIsStarted    *)
(* needs of each step.                                                     *)
THEOREM OccurrencesAreKept == Spec => NoneForgotten
  <1>1. IInv /\ [Next]_vars => [OwedIsKept]_vars
    BY OwedStep
  <1> QED
    BY OrderInvariant, <1>1, PTL DEF Spec, NoneForgotten
-----------------------------------------------------------------------------
LostInv == LostIsNotStarted /\ LostIsPast

LEMMA LostTypes ==
  ASSUME TypeOK, NEW d \in lost
  PROVE  d[1] \in Id /\ d[2] \in Nat /\ d = <<d[1], d[2]>>
  BY DEF TypeOK

(* Steps that start nothing and move no occurrence.                        *)
LEMMA LostStays ==
  ASSUME TypeOK, LostInv, lost' = lost, started' = started,
         lastId <= lastId', lastId' \in Nat,
         \A i \in Id : i <= lastId =>
             /\ task'[i].run_at = task[i].run_at
             /\ task'[i].enabled => task[i].enabled,
         \/ poll' = poll
         \/ poll'.pc # "spawn" /\ \A i \in poll'.batch : task[i].enabled
  PROVE  LostInv'
  <1> SUFFICES ASSUME NEW d \in lost
               PROVE  /\ ~StartedFor(d[1], d[2])' /\ d[1] <= lastId'
                      /\ task'[d[1]].enabled => d[2] < task'[d[1]].run_at
                      /\ d[1] \in poll'.batch => d[2] < task'[d[1]].run_at
                      /\ InHand(d[1])' => d[2] < poll'.occurrence
    BY DEF LostInv, LostIsNotStarted, LostIsPast
  <1>1. d[1] \in Id /\ d[1] \in Nat /\ d[2] \in Nat /\ lastId \in Nat
    BY LostTypes, RowTypes, BoundAssumption DEF Id
  <1>2. /\ ~StartedFor(d[1], d[2]) /\ d[1] <= lastId
        /\ task[d[1]].enabled => d[2] < task[d[1]].run_at
        /\ d[1] \in poll.batch => d[2] < task[d[1]].run_at
        /\ InHand(d[1]) => d[2] < poll.occurrence
    BY DEF LostInv, LostIsNotStarted, LostIsPast
  <1>3. ~StartedFor(d[1], d[2])' /\ d[1] <= lastId'
    BY <1>1, <1>2 DEF StartedFor
  <1>4. /\ task'[d[1]].run_at = task[d[1]].run_at
        /\ task'[d[1]].enabled => task[d[1]].enabled
    BY <1>1, <1>2
  <1> QED
    BY <1>2, <1>3, <1>4 DEF InHand

LEMMA TakeKeepsLost ==
  ASSUME IInv, LostInv, NEW i \in Id, PollRearms(i) \/ PollDisables(i)
  PROVE  LostInv'
  <1>0. TypeOK /\ task[i].run_at <= clock
    BY DEF IInv, BatchAhead, PollRearms, PollDisables, TakesFromBatch
  <1>1. /\ i \in poll.batch /\ poll'.current = i /\ poll'.batch = poll.batch \ {i}
        /\ poll'.occurrence = task[i].run_at
        /\ UNCHANGED <<lost, started, lastId>>
    BY <1>0 DEF PollRearms, PollDisables, TakesFromBatch, TypeOK, PollState
  <1>2. /\ \A j \in Id \ {i} : task'[j] = task[j]
        /\ task'[i].enabled => task'[i].run_at > clock
    <2>1. CASE PollDisables(i)
      BY <1>0, <2>1, RowTypes DEF PollDisables, Disabled, TypeOK, Row
    <2>2. CASE PollRearms(i)
      <3>1. PICK at \in NextRun(i) : task' = Rearmed(i, at)
        BY <2>2 DEF PollRearms
      <3>2. at > clock
        BY <1>0, NextRunTimes
      <3> QED
        BY <1>0, <3>1, <3>2, RowTypes DEF Rearmed, TypeOK, Row
    <2> QED
      BY <2>1, <2>2
  <1> SUFFICES ASSUME NEW d \in lost
               PROVE  /\ ~StartedFor(d[1], d[2])' /\ d[1] <= lastId'
                      /\ task'[d[1]].enabled => d[2] < task'[d[1]].run_at
                      /\ d[1] \in poll'.batch => d[2] < task'[d[1]].run_at
                      /\ InHand(d[1])' => d[2] < poll'.occurrence
    BY <1>1 DEF LostInv, LostIsNotStarted, LostIsPast
  <1>3. d[1] \in Id /\ d[2] \in Nat
    BY <1>0, LostTypes
  <1>4. /\ ~StartedFor(d[1], d[2]) /\ d[1] <= lastId
        /\ task[d[1]].enabled => d[2] < task[d[1]].run_at
        /\ d[1] \in poll.batch => d[2] < task[d[1]].run_at
    BY DEF LostInv, LostIsNotStarted, LostIsPast
  <1>5. ~StartedFor(d[1], d[2])' /\ d[1] <= lastId'
    BY <1>1, <1>4 DEF StartedFor
  <1>6. CASE d[1] = i
    <2>1. /\ d[2] < task[i].run_at /\ task[i].run_at \in Nat /\ clock \in Nat
          /\ task'[i].enabled => task'[i].run_at \in Nat
      <3>1. TypeOK'
        BY TypeStep DEF IInv, Next, PollWork
      <3>2. task'[i].run_at \in Nat
        BY <3>1 DEF TypeOK, Row
      <3> QED
        BY <1>0, <1>1, <1>4, <1>6, <3>2, RowTypes
    <2> QED
      BY <1>0, <1>1, <1>2, <1>3, <1>5, <1>6, <2>1 DEF InHand
  <1>7. CASE d[1] # i
    BY <1>1, <1>2, <1>3, <1>4, <1>5, <1>7 DEF InHand
  <1> QED
    BY <1>6, <1>7

LEMMA SpawnKeepsLost == ASSUME TypeOK, LostInv, PollSpawns PROVE LostInv'
  <1>0. /\ UNCHANGED <<lost, lastId, task>> /\ poll.pc = "spawn"
        /\ poll'.pc = "tasks" /\ poll'.batch = poll.batch
    BY DEF PollSpawns, TypeOK, PollState
  <1>1. LostIsPast'
    BY <1>0 DEF LostInv, LostIsPast, InHand
  <1>2. ASSUME NEW d \in lost PROVE ~StartedFor(d[1], d[2])'
    <2>1. /\ d[1] \in Id /\ d[2] \in Nat /\ ~StartedFor(d[1], d[2])
          /\ InHand(d[1]) => d[2] # poll.occurrence
      BY LostTypes, RowTypes DEF LostInv, LostIsNotStarted, LostIsPast
    <2>2. started[d[1]] \in Seq(Nat)
      BY <2>1, RowTypes
    <2>3. CASE InHand(d[1])
      <3>1. started'[d[1]] = Append(started[d[1]], poll.occurrence)
        BY <2>1, <2>3 DEF PollSpawns, InHand, TypeOK
      <3> QED
        BY <2>1, <2>2, <2>3, <3>1 DEF StartedFor
    <2>4. CASE ~InHand(d[1])
      <3>1. started'[d[1]] = started[d[1]]
        BY <1>0, <2>1, <2>4 DEF PollSpawns, InHand, TypeOK
      <3> QED
        BY <2>1, <3>1 DEF StartedFor
    <2> QED
      BY <2>3, <2>4
  <1> QED
    BY <1>0, <1>1, <1>2 DEF LostInv, LostIsNotStarted

LEMMA CrashKeepsLost == ASSUME IInv, LostInv, Crash PROVE LostInv'
  <1>0. TypeOK
    BY DEF IInv
  <1>1. /\ UNCHANGED <<task, started, lastId>>
        /\ poll'.pc # "spawn" /\ poll'.batch = {}
    BY DEF Crash, Sleeping
  <1>2. CASE poll.pc # "spawn"
    BY <1>0, <1>1, <1>2, LostStays, RowTypes DEF Crash
  <1>3. CASE poll.pc = "spawn"
    <2> DEFINE i == poll.current
               t == poll.occurrence
    <2>1. lost' = lost \cup {<<i, t>>} /\ InHand(i) /\ i \in Id /\ t \in Nat
      BY <1>3, <1>0, RowTypes DEF Crash, InHand, TypeOK
    <2>2. StartedBefore(i, t) /\ (task[i].enabled => t < task[i].run_at)
      BY <2>1 DEF IInv, HandAhead
    <2>3. ~StartedFor(i, t)
      BY <2>1, <2>2, RowTypes DEF StartedBefore, StartedFor
    <2>4. i <= lastId
      BY <2>1, RowTypes, BoundAssumption DEF IInv, Unborn, Id
    <2> HIDE DEF i, t
    <2>5. ASSUME NEW d \in lost'
          PROVE  /\ ~StartedFor(d[1], d[2]) /\ d[1] <= lastId
                 /\ task[d[1]].enabled => d[2] < task[d[1]].run_at
      BY <2>1, <2>2, <2>3, <2>4 DEF LostInv, LostIsNotStarted, LostIsPast
    <2> QED
      BY <1>1, <2>5 DEF LostInv, LostIsNotStarted, LostIsPast, StartedFor, InHand
  <1> QED
    BY <1>2, <1>3

LEMMA LostStep == ASSUME IInv, LostInv, [Next]_vars PROVE LostInv'
  <1>0. TypeOK /\ lastId \in Nat /\ lastId <= lastId
    BY RowTypes DEF IInv
  <1>1. CASE Tick \/ UNCHANGED vars \/ (\E i \in Id : RunEnds(i))
    BY <1>0, <1>1, LostStays DEF Tick, vars, RunEnds
  <1>2. ASSUME NEW q \in Request, ScheduleOnce(q) \/ ScheduleCron(q)
        PROVE  LostInv'
    BY <1>0, <1>2, LostStays DEF ScheduleOnce, ScheduleCron, ScheduleCounts
  <1>3. ASSUME NEW q \in Request, ScheduleInserts(q) PROVE LostInv'
    <2>1. /\ \A i \in Id : i <= lastId => task'[i] = task[i]
          /\ lastId' \in Nat /\ lastId <= lastId'
          /\ UNCHANGED <<lost, started, poll>>
      BY <1>0, <1>3, InsertFresh, BoundAssumption DEF ScheduleInserts, Id
    <2> QED
      BY <1>0, <2>1, LostStays
  <1>4. ASSUME NEW u \in User, NEW i \in Id, Delete(u, i) PROVE LostInv'
    <2>1. /\ \A j \in Id : /\ task'[j].run_at = task[j].run_at
                           /\ task'[j].enabled => task[j].enabled
          /\ UNCHANGED <<lost, started, lastId, poll>>
      BY <1>0, <1>4, DeleteUpdates DEF Delete
    <2> QED
      BY <1>0, <2>1, LostStays
  <1>5. CASE PollStarts \/ PollEnds \/ PollAborts \/ Restart
    <2>1. /\ poll'.pc # "spawn" /\ poll'.batch = {}
          /\ UNCHANGED <<lost, started, lastId, task>>
      <3>1. Sleeping.pc # "spawn" /\ Sleeping.batch = {}
        BY DEF Sleeping
      <3>2. CASE PollStarts
        BY <3>2 DEF PollStarts, Sleeping
      <3>3. CASE PollEnds \/ PollAborts \/ Restart
        BY <3>1, <3>3 DEF PollEnds, PollAborts, Restart
      <3> QED
        BY <1>5, <3>2, <3>3
    <2> QED
      BY <1>0, <2>1, LostStays
  <1>6. CASE PollSelects
    <2>1. /\ poll'.pc # "spawn" /\ poll'.batch = {i \in Id : Selected(i)}
          /\ UNCHANGED <<lost, started, lastId, task>>
      BY <1>6 DEF PollSelects, Sleeping
    <2>2. \A i \in poll'.batch : task[i].enabled
      BY <2>1 DEF Selected
    <2> QED
      BY <1>0, <2>1, <2>2, LostStays
  <1> QED
    BY <1>0, <1>1, <1>2, <1>3, <1>4, <1>5, <1>6, TakeKeepsLost, SpawnKeepsLost,
       CrashKeepsLost
    DEF Next, RequestStep, PollWork

(* A crash between poll_once's UPDATE and its spawn costs the occurrence:  *)
(* no later poll and no restart starts the task for it, because the row    *)
(* has moved on.  The scheduler starts a task at most once and, exactly in *)
(* this case, not at all.                                                  *)
THEOREM LostForGood == Spec => []LostIsNotStarted
  <1>1. Init => LostInv
    BY DEF Init, LostInv, LostIsNotStarted, LostIsPast
  <1> QED
    BY <1>1, LostStep, OrderInvariant, PTL DEF Spec, LostInv

-----------------------------------------------------------------------------
(* How much is left of one poll: the SELECT, then an UPDATE and a spawn    *)
(* for each task it selected.                                              *)
PollRank ==
    CASE poll.pc = "select" -> 2 * MaxIds + 2
      [] poll.pc = "tasks"  -> 2 * Cardinality(poll.batch) + 1
      [] poll.pc = "spawn"  -> 2 * Cardinality(poll.batch) + 2
      [] OTHER              -> 0

PollRankIsNat == PollRank \in Nat

(* Each step of a poll leaves less of it, and nobody else adds to it.      *)
PollGoesOn ==
    poll.pc \in {"select", "tasks", "spawn"} => poll' = poll \/ PollRank' < PollRank

(* No poll goes on for ever.                                               *)
PollsRunDown == [][PollGoesOn]_vars

LEMMA BatchSize ==
  ASSUME NEW b \in SUBSET Id
  PROVE  /\ IsFiniteSet(b) /\ Cardinality(b) \in Nat /\ Cardinality(b) <= MaxIds
         /\ \A i \in b : Cardinality(b \ {i}) = Cardinality(b) - 1
  <1>1. IsFiniteSet(Id) /\ Cardinality(Id) = MaxIds
    BY BoundAssumption, FS_Interval DEF Id
  <1>2. IsFiniteSet(b) /\ Cardinality(b) <= MaxIds
    BY <1>1, FS_Subset
  <1> QED
    BY <1>2, FS_CardinalityType, FS_RemoveElement

LEMMA PollStepsOn == ASSUME TypeOK, Next PROVE PollGoesOn
  <1> DEFINE n == Cardinality(poll.batch)
  <1>0. /\ n \in Nat /\ n <= MaxIds /\ MaxIds \in Nat
        /\ \A i \in poll.batch : Cardinality(poll.batch \ {i}) = n - 1
    BY RowTypes, BatchSize, BoundAssumption
  <1>1. CASE PollSelects
    <2>1. /\ poll.pc = "select" /\ poll'.pc = "tasks"
          /\ poll'.batch = {i \in Id : Selected(i)}
      BY <1>1 DEF PollSelects, Sleeping
    <2>2. Cardinality(poll'.batch) \in Nat /\ Cardinality(poll'.batch) <= MaxIds
      BY <2>1, BatchSize
    <2> QED
      BY <1>0, <2>1, <2>2 DEF PollGoesOn, PollRank
  <1>2. ASSUME NEW i \in Id, TakesFromBatch(i) PROVE PollGoesOn
    <2>1. /\ poll.pc = "tasks" /\ poll'.pc = "spawn" /\ i \in poll.batch
          /\ poll'.batch = poll.batch \ {i}
      BY <1>2 DEF TakesFromBatch, TypeOK, PollState
    <2>2. Cardinality(poll'.batch) = n - 1
      BY <1>0, <2>1
    <2> QED
      BY <1>0, <2>1, <2>2 DEF PollGoesOn, PollRank
  <1>3. CASE PollSpawns
    <2>1. poll.pc = "spawn" /\ poll'.pc = "tasks" /\ poll'.batch = poll.batch
      BY <1>3 DEF PollSpawns, TypeOK, PollState
    <2> QED
      BY <1>0, <2>1 DEF PollGoesOn, PollRank
  <1>4. CASE PollEnds \/ PollAborts \/ Crash
    <2>1. poll'.pc \in {"sleep", "down"}
      BY <1>4 DEF PollEnds, PollAborts, Crash, Sleeping
    <2> QED
      BY <1>0, <2>1 DEF PollGoesOn, PollRank
  <1>5. CASE Tick \/ RequestStep \/ (\E i \in Id : RunEnds(i))
    BY <1>5 DEF Tick, RequestStep, ScheduleOnce, ScheduleCron, ScheduleCounts,
                ScheduleInserts, Delete, RunEnds, PollGoesOn
  <1>6. CASE PollStarts \/ Restart
    BY <1>6 DEF PollStarts, Restart, PollGoesOn
  <1> QED
    BY <1>1, <1>2, <1>3, <1>4, <1>5, <1>6
    DEF Next, PollWork, PollRearms, PollDisables

(* A poll ends: every step of poll_once leaves less of it, and no request, *)
(* no turn and no tick of the clock gives it more to do, since a task that *)
(* becomes due meanwhile waits for the next SELECT.                        *)
THEOREM PollsEnd == Spec => []PollRankIsNat /\ PollsRunDown
  <1>1. TypeOK => PollRankIsNat
    <2> SUFFICES ASSUME TypeOK PROVE PollRank \in Nat
      BY DEF PollRankIsNat
    <2>1. Cardinality(poll.batch) \in Nat /\ MaxIds \in Nat
      BY RowTypes, BatchSize, BoundAssumption
    <2> QED
      BY <2>1 DEF PollRank
  <1>2. TypeOK /\ [Next]_vars => [PollGoesOn]_vars
    BY PollStepsOn
  <1> QED
    BY <1>1, <1>2, TypeCorrect, PTL DEF Spec, PollsRunDown
=============================================================================
