------------------------- MODULE Conversation_proofs ------------------------
(***************************************************************************)
(* What is proved of Conversation, for every number of turns, every even   *)
(* window and any number of clears and faults.                             *)
(***************************************************************************)
EXTENDS Conversation, SequenceTheorems, FiniteSetTheorems, TLAPS

(* Only a turn that has come to persist_messages has rows, and while it is *)
(* there they come from the positions its loop has passed.                 *)
RowsPassed ==
    \A k \in 1..Len(messages) :
        /\ turn[messages[k].turn].pc \in {"persist", "done", "failed"}
        /\ turn[messages[k].turn].pc = "persist" =>
               messages[k].position <= turn[messages[k].turn].saved

(* The loop of persist_messages has not passed the end.                    *)
LoopInBounds ==
    \A t \in Turn : IF turn[t].pc = "persist"
                    THEN turn[t].saved < Len(turn[t].new)
                    ELSE turn[t].saved = 0

ClearedEnded == \A t \in cleared : turn[t].pc \in {"done", "failed"}

IInv ==
    /\ TypeOK
    /\ LoopInBounds
    /\ RowsPassed
    /\ StoredInOrder
    /\ ClearedEnded
    /\ ClearedStaysCleared

-----------------------------------------------------------------------------
(* What the operators return.                                              *)

LEMMA LoadedType ==
  ASSUME TypeOK
  PROVE  LoadedMessages \in Seq(Message) /\ Len(LoadedMessages) <= Window
  <1> DEFINE n == Len(messages)
             from == IF n > Window THEN n - Window + 1 ELSE 1
  <1>1. messages \in Seq(Message) /\ n \in Nat /\ Window \in Nat \ {0}
    BY WindowAssumption DEF TypeOK
  <1>2. from \in 1..(n + 1) /\ n - from + 1 <= Window
    BY <1>1
  <1>3. \A i \in from..n : messages[i] \in Message
    BY <1>1, <1>2
  <1>4. SubSeq(messages, from, n) \in Seq(Message)
    BY <1>1, <1>2, <1>3, SubSeqProperties
  <1>5. Len(SubSeq(messages, from, n)) = IF from <= n THEN n - from + 1 ELSE 0
    BY <1>1, <1>2, <1>3, SubSeqProperties
  <1> HIDE DEF from
  <1>6. Len(SubSeq(messages, from, n)) <= Window
    BY <1>1, <1>2, <1>5
  <1> QED
    BY <1>4, <1>6 DEF LoadedMessages, from

(* The rows of a turn are its messages, numbered.                          *)
LEMMA PersistedRows ==
  ASSUME TypeOK, NEW t \in Turn
  PROVE  /\ Len(Persisted(t)) = Len(turn[t].new)
         /\ \A k \in 1..Len(turn[t].new) :
                /\ Persisted(t)[k] \in Message
                /\ Persisted(t)[k].turn = t /\ Persisted(t)[k].position = k
  <1> DEFINE n == Len(turn[t].new)
             row(k) == [turn |-> t, position |-> 1 + k - 1,
                        kind |-> turn[t].new[1 + k - 1]]
  <1>1. turn[t].new \in Seq(Kind) /\ n \in Nat
    BY DEF TypeOK, LocalState
  <1>2. \A k \in 1..n : /\ row(k) \in Message
                        /\ row(k).turn = t /\ row(k).position = k
    <2> SUFFICES ASSUME NEW k \in 1..n
                 PROVE  /\ row(k) \in Message
                        /\ row(k).turn = t /\ row(k).position = k
      OBVIOUS
    <2>1. 1 + k - 1 = k /\ k \in Nat \ {0} /\ turn[t].new[k] \in Kind
      BY <1>1
    <2> QED
      BY <2>1 DEF Message
  <1>3. n - 1 + 1 = n
    BY <1>1
  <1>4. Persisted(t) = [k \in 1..n |-> row(k)]
    BY <1>3 DEF Persisted, New, Rows
  <1> HIDE DEF row, n
  <1>5. [k \in 1..n |-> row(k)] \in Seq(Message)
    BY <1>1, <1>2
  <1>6. Len([k \in 1..n |-> row(k)]) = n
    BY <1>1
  <1> QED
    BY <1>2, <1>4, <1>5, <1>6 DEF n

LEMMA RowTurns ==
  ASSUME TypeOK
  PROVE  \A k \in 1..Len(messages) :
             /\ messages[k] \in Message /\ messages[k].turn \in Turn
             /\ messages[k].position \in Nat
  <1>1. messages \in Seq(Message)
    BY DEF TypeOK
  <1>2. \A k \in 1..Len(messages) : messages[k] \in Message
    BY <1>1
  <1>3. \A m \in Message : m.turn \in Turn /\ m.position \in Nat
    BY DEF Message
  <1> QED
    BY <1>2, <1>3

-----------------------------------------------------------------------------
(* A step of a turn that has not come to persist_messages and has no rows. *)
LEMMA EarlyStep ==
  ASSUME IInv, NEW t \in Turn, turn[t].pc \in {"idle", "llm", "tools"},
         NEW r \in LocalState, turn' = [turn EXCEPT ![t] = r],
         Len(r.loaded) <= Window,
         r.pc = "persist" => r.saved < Len(r.new),
         r.pc # "persist" => r.saved = 0,
         UNCHANGED <<messages, faults, clears, cleared>>, calm' \in BOOLEAN
  PROVE  IInv'
  <1> USE DEF IInv
  <1>1. /\ turn'[t] = r /\ turn' \in [Turn -> LocalState]
        /\ \A u \in Turn \ {t} : turn'[u] = turn[u]
    BY DEF TypeOK
  <1>2. \A k \in 1..Len(messages) : messages[k].turn \in Turn \ {t}
    <2> QED
      BY RowTurns DEF RowsPassed
  <1>3. TypeOK' /\ LoopInBounds'
    BY <1>1 DEF TypeOK, LoopInBounds
  <1>4. RowsPassed'
    BY <1>1, <1>2 DEF RowsPassed
  <1>5. ClearedEnded'
    BY <1>1 DEF ClearedEnded, TypeOK
  <1>6. StoredInOrder' /\ ClearedStaysCleared'
    BY DEF StoredInOrder, ClearedStaysCleared
  <1> QED
    BY <1>3, <1>4, <1>5, <1>6

LEMMA StartKeeps ==
  ASSUME IInv, NEW t \in Turn, Starts(t)
  PROVE  IInv'
  <1> DEFINE r == [pc |-> "llm", loaded |-> LoadedMessages, new |-> <<"text">>,
                   saved |-> 0, clears |-> clears]
  <1>1. LoadedMessages \in Seq(Message) /\ Len(LoadedMessages) <= Window
    BY LoadedType DEF IInv
  <1>2. <<"text">> \in Seq(Kind) /\ clears \in 0..MaxClears
    BY DEF Kind, IInv, TypeOK
  <1>3. r \in LocalState /\ r.pc = "llm" /\ r.saved = 0 /\ Len(r.loaded) <= Window
    BY <1>1, <1>2 DEF LocalState
  <1>4. /\ turn[t].pc = "idle" /\ turn' = [turn EXCEPT ![t] = r]
        /\ calm' \in BOOLEAN /\ UNCHANGED <<messages, faults, clears, cleared>>
    BY DEF Starts, IInv, TypeOK
  <1> HIDE DEF r
  <1> QED
    BY <1>3, <1>4, EarlyStep

(* What a request may come to, and of which kinds its messages are.        *)
LEMMA Outcomes ==
  ASSUME NEW t \in Turn, LlmAnswers(t) \/ LlmIsContinued(t) \/ LlmCallsTools(t)
  PROVE  \E said \in {"answer", "unmet"} :
             \/ LlmReturns(t, "persist", <<said>>)
             \/ LlmReturns(t, "llm", <<said, "text">>)
             \/ LlmReturns(t, "tools", <<"tool_use">>)
  BY DEF LlmAnswers, LlmIsContinued, LlmCallsTools, Answer

LEMMA OutcomeKinds ==
  /\ \A said \in {"answer", "unmet"} :
         /\ <<said>> \in Seq(Kind) /\ Len(<<said>>) > 0
         /\ <<said, "text">> \in Seq(Kind) /\ Len(<<said, "text">>) > 0
  /\ <<"tool_use">> \in Seq(Kind) /\ Len(<<"tool_use">>) > 0
  BY DEF Kind

LEMMA LlmKeeps ==
  ASSUME IInv, NEW t \in Turn, NEW l \in {"llm", "tools", "persist"},
         NEW kinds \in Seq(Kind), LlmReturns(t, l, kinds),
         l = "persist" => Len(kinds) > 0
  PROVE  IInv'
  <1> DEFINE r == [turn[t] EXCEPT !.pc = l, !.new = @ \o kinds]
  <1>1. turn[t] \in LocalState /\ turn[t].pc = "llm" /\ turn[t].saved = 0
    BY DEF IInv, TypeOK, LlmReturns, LoopInBounds
  <1>2. turn[t].new \in Seq(Kind) /\ turn[t].new \o kinds \in Seq(Kind)
    BY <1>1 DEF LocalState
  <1>3. Len(turn[t].new \o kinds) = Len(turn[t].new) + Len(kinds)
    BY <1>2
  <1>4. r \in LocalState
    BY <1>1, <1>2 DEF LocalState
  <1>5. /\ r.pc = l /\ r.saved = 0 /\ r.loaded = turn[t].loaded
        /\ r.new = turn[t].new \o kinds
    BY <1>1 DEF LocalState
  <1>6. Len(r.loaded) <= Window
    BY <1>5 DEF IInv, TypeOK
  <1>7. r.pc = "persist" => r.saved < Len(r.new)
    BY <1>2, <1>3, <1>5
  <1>8. /\ turn' = [turn EXCEPT ![t] = r]
        /\ calm' \in BOOLEAN /\ UNCHANGED <<messages, faults, clears, cleared>>
    BY DEF LlmReturns, IInv, TypeOK
  <1> HIDE DEF r
  <1> QED
    BY <1>1, <1>4, <1>5, <1>6, <1>7, <1>8, EarlyStep

LEMMA ToolsKeep ==
  ASSUME IInv, NEW t \in Turn, ToolsReturn(t)
  PROVE  IInv'
  <1> DEFINE r == [turn[t] EXCEPT !.pc = "llm", !.new = Append(@, "results"),
                                  !.loaded = LoadedMessages]
  <1>1. turn[t] \in LocalState /\ turn[t].pc = "tools" /\ turn[t].saved = 0
    BY DEF IInv, TypeOK, ToolsReturn, LoopInBounds
  <1>2. Append(turn[t].new, "results") \in Seq(Kind)
    BY <1>1 DEF LocalState, Kind
  <1>3. LoadedMessages \in Seq(Message) /\ Len(LoadedMessages) <= Window
    BY LoadedType DEF IInv
  <1>4. r \in LocalState
    BY <1>1, <1>2, <1>3 DEF LocalState
  <1>5. r.pc = "llm" /\ r.saved = 0 /\ r.loaded = LoadedMessages
    BY <1>1 DEF LocalState
  <1>6. /\ turn' = [turn EXCEPT ![t] = r]
        /\ calm' \in BOOLEAN /\ UNCHANGED <<messages, faults, clears, cleared>>
    BY DEF ToolsReturn, IInv, TypeOK
  <1> HIDE DEF r
  <1> QED
    BY <1>1, <1>3, <1>4, <1>5, <1>6, EarlyStep

LEMMA EndedFields ==
  ASSUME NEW r \in LocalState, NEW l \in Seq(Message), NEW n \in Nat,
         NEW p \in {"idle", "llm", "tools", "persist", "done", "failed"}
  PROVE  [r EXCEPT !.pc = p, !.loaded = l, !.saved = n] \in LocalState
  BY DEF LocalState

LEMMA EndedType ==
  ASSUME TypeOK, NEW t \in Turn, NEW how \in {"done", "failed"}
  PROVE  /\ Ended(t, how) \in LocalState
         /\ Ended(t, how).pc = how /\ Ended(t, how).saved = 0
         /\ Ended(t, how).loaded = <<>> /\ Len(Ended(t, how).loaded) <= Window
  <1>1. turn[t] \in LocalState
    BY DEF TypeOK
  <1>2. <<>> \in Seq(Message) /\ 0 \in Nat
    OBVIOUS
  <1>4. how \in {"idle", "llm", "tools", "persist", "done", "failed"}
    OBVIOUS
  <1>5. Ended(t, how) \in LocalState
    BY <1>1, <1>2, <1>4, EndedFields DEF Ended
  <1>6. /\ Ended(t, how).pc = how /\ Ended(t, how).saved = 0
        /\ Ended(t, how).loaded = <<>>
    BY <1>1 DEF Ended, LocalState
  <1>3. Len(<<>>) <= Window
    BY WindowAssumption
  <1> QED
    BY <1>3, <1>5, <1>6

-----------------------------------------------------------------------------
LEMMA SavedField ==
  ASSUME NEW r \in LocalState, NEW n \in Nat
  PROVE  /\ [r EXCEPT !.saved = n] \in LocalState
         /\ [r EXCEPT !.saved = n].saved = n
         /\ [r EXCEPT !.saved = n].pc = r.pc
         /\ [r EXCEPT !.saved = n].new = r.new
         /\ [r EXCEPT !.saved = n].loaded = r.loaded
  <1>1. [r EXCEPT !.saved = n] \in LocalState
    BY DEF LocalState
  <1>2. /\ [r EXCEPT !.saved = n].saved = n /\ [r EXCEPT !.saved = n].pc = r.pc
        /\ [r EXCEPT !.saved = n].new = r.new
        /\ [r EXCEPT !.saved = n].loaded = r.loaded
    BY DEF LocalState
  <1> QED
    BY <1>1, <1>2

(* One pass of persist_messages' loop, whether its INSERT succeeds or not. *)
LEMMA PassOfLoop ==
  ASSUME IInv, NEW t \in Turn, turn[t].pc = "persist", AfterInsert(t)
  PROVE  /\ turn' \in [Turn -> LocalState]
         /\ \A u \in Turn \ {t} : turn'[u] = turn[u]
         /\ turn'[t].pc \in {"persist", "done"}
         /\ turn'[t].pc = "persist" => /\ turn'[t].saved = turn[t].saved + 1
                                      /\ turn'[t].saved < Len(turn'[t].new)
         /\ turn'[t].pc = "done" => turn'[t].saved = 0
         /\ Len(turn'[t].loaded) <= Window
  <1> DEFINE r == [turn[t] EXCEPT !.saved = turn[t].saved + 1]
  <1>1. /\ turn[t] \in LocalState /\ turn[t].saved \in Nat
        /\ turn \in [Turn -> LocalState] /\ Len(turn[t].loaded) <= Window
    BY DEF IInv, TypeOK, LocalState
  <1>2. Len(Persisted(t)) = Len(turn[t].new)
    BY PersistedRows DEF IInv
  <1>3. CASE turn[t].saved + 1 < Len(Persisted(t))
    <2>1. turn' = [turn EXCEPT ![t] = r]
      BY <1>3 DEF AfterInsert
    <2>2. /\ r \in LocalState /\ r.pc = "persist" /\ r.saved = turn[t].saved + 1
          /\ r.new = turn[t].new /\ r.loaded = turn[t].loaded
      <3>1. turn[t].saved + 1 \in Nat
        BY <1>1
      <3> QED
        BY <1>1, <3>1, SavedField
    <2> HIDE DEF r
    <2>3. turn'[t] = r
      BY <1>1, <2>1
    <2> QED
      BY <1>1, <1>2, <1>3, <2>1, <2>2, <2>3
  <1>4. CASE ~(turn[t].saved + 1 < Len(Persisted(t)))
    <2>1. turn' = [turn EXCEPT ![t] = Ended(t, "done")]
      BY <1>4 DEF AfterInsert
    <2>2. /\ Ended(t, "done") \in LocalState /\ Ended(t, "done").pc = "done"
          /\ Ended(t, "done").saved = 0 /\ Len(Ended(t, "done").loaded) <= Window
      BY EndedType DEF IInv
    <2>3. turn'[t] = Ended(t, "done")
      BY <1>1, <2>1
    <2> QED
      BY <1>1, <2>1, <2>2, <2>3
  <1> QED
    BY <1>3, <1>4

(* A loop in progress cannot belong to a turn that a clear found ended.    *)
LEMMA InsertKeeps ==
  ASSUME IInv, NEW t \in Turn, Inserts(t) \/ InsertFails(t)
  PROVE  IInv'
  <1> DEFINE n == Len(messages)
             row == Persisted(t)[turn[t].saved + 1]
  <1> USE DEF IInv
  <1>1. turn[t].pc = "persist" /\ AfterInsert(t) /\ UNCHANGED <<clears, cleared, calm>>
    BY DEF Inserts, InsertFails
  <1>2. /\ turn' \in [Turn -> LocalState]
        /\ \A u \in Turn \ {t} : turn'[u] = turn[u]
        /\ turn'[t].pc \in {"persist", "done"}
        /\ turn'[t].pc = "persist" => /\ turn'[t].saved = turn[t].saved + 1
                                     /\ turn'[t].saved < Len(turn'[t].new)
        /\ turn'[t].pc = "done" => turn'[t].saved = 0
        /\ Len(turn'[t].loaded) <= Window
    BY <1>1, PassOfLoop
  <1>3. turn[t].saved \in Nat /\ turn[t].saved < Len(turn[t].new)
    BY <1>1 DEF TypeOK, LocalState, LoopInBounds
  <1>4. turn[t].saved + 1 \in 1..Len(turn[t].new)
    <2>1. Len(turn[t].new) \in Nat
      BY DEF TypeOK, LocalState
    <2> QED
      BY <1>3, <2>1
  <1>5. row \in Message /\ row.turn = t /\ row.position = turn[t].saved + 1
    BY <1>4, PersistedRows
  <1>6. t \notin cleared
    BY <1>1 DEF ClearedEnded
  <1>7. faults' \in 0..MaxFaults
    BY BoundAssumption DEF TypeOK, Inserts, InsertFails
  <1>8. \/ messages' = messages
        \/ messages' = Append(messages, row)
    BY DEF Inserts, InsertFails
  <1>9. messages \in Seq(Message) /\ n \in Nat
    BY DEF TypeOK
  <1> HIDE DEF row, n
  <1>10. \A k \in 1..n :
            /\ messages[k].turn \in Turn /\ messages[k].position \in Nat
            /\ messages[k].turn = t => messages[k].position <= turn[t].saved
    BY <1>1, <1>9, RowTurns DEF RowsPassed, n
  <1>11. TypeOK' /\ LoopInBounds'
    <2>1. messages' \in Seq(Message)
      BY <1>5, <1>8, <1>9
    <2>2. \A u \in Turn : Len(turn'[u].loaded) <= Window
      BY <1>2 DEF TypeOK
    <2> QED
      BY <1>1, <1>2, <1>7, <2>1, <2>2 DEF TypeOK, LoopInBounds
  <1>12. ClearedEnded'
    BY <1>1, <1>2, <1>6 DEF ClearedEnded, TypeOK
  <1>13. \A k \in 1..n :
            /\ turn'[messages[k].turn].pc \in {"persist", "done", "failed"}
            /\ turn'[messages[k].turn].pc = "persist" =>
                   messages[k].position <= turn'[messages[k].turn].saved
    <2> SUFFICES ASSUME NEW k \in 1..n
                 PROVE  /\ turn'[messages[k].turn].pc \in {"persist", "done", "failed"}
                        /\ turn'[messages[k].turn].pc = "persist" =>
                               messages[k].position <= turn'[messages[k].turn].saved
      OBVIOUS
    <2>1. CASE messages[k].turn = t
      <3>1. messages[k].position \in Nat /\ messages[k].position <= turn[t].saved
        BY <1>10, <2>1
      <3>2. messages[k].position <= turn[t].saved + 1
        BY <1>3, <3>1
      <3> QED
        BY <1>2, <2>1, <3>2
    <2>2. CASE messages[k].turn # t
      <3>1. turn'[messages[k].turn] = turn[messages[k].turn]
        BY <1>2, <1>10, <2>2
      <3> QED
        BY <3>1 DEF RowsPassed, n
    <2> QED
      BY <2>1, <2>2
  <1>14. CASE messages' = messages
    <2>1. RowsPassed'
      <3> SUFFICES ASSUME NEW k \in 1..n
                   PROVE  /\ turn'[messages[k].turn].pc \in {"persist", "done", "failed"}
                          /\ turn'[messages[k].turn].pc = "persist" =>
                                 messages[k].position <= turn'[messages[k].turn].saved
        BY <1>14 DEF RowsPassed, n
      <3> QED
        BY <1>13
    <2>2. StoredInOrder' /\ ClearedStaysCleared'
      BY <1>1, <1>14 DEF StoredInOrder, ClearedStaysCleared
    <2> QED
      BY <1>11, <1>12, <2>1, <2>2
  <1>15. CASE messages' = Append(messages, row)
    <2>1. /\ Len(messages') = n + 1 /\ messages'[n + 1] = row
          /\ \A k \in 1..n : messages'[k] = messages[k]
          /\ \A k \in 1..(n + 1) : k # n + 1 => k \in 1..n
      BY <1>9, <1>15 DEF n
    <2>2. RowsPassed'
      <3> SUFFICES ASSUME NEW k \in 1..(n + 1)
                   PROVE  /\ turn'[messages'[k].turn].pc \in {"persist", "done", "failed"}
                          /\ turn'[messages'[k].turn].pc = "persist" =>
                                 messages'[k].position <= turn'[messages'[k].turn].saved
        BY <2>1 DEF RowsPassed
      <3>1. CASE k = n + 1
        BY <1>2, <1>3, <1>5, <2>1, <3>1
      <3>2. CASE k # n + 1
        <4>1. k \in 1..n /\ messages'[k] = messages[k]
          BY <2>1, <3>2
        <4> QED
          BY <4>1, <1>13
      <3> QED
        BY <3>1, <3>2
    <2>3. StoredInOrder'
      <3> SUFFICES ASSUME NEW i \in 1..(n + 1), NEW j \in 1..(n + 1), i < j,
                          messages'[i].turn = messages'[j].turn
                   PROVE  messages'[i].position < messages'[j].position
        BY <2>1 DEF StoredInOrder
      <3>1. i # n + 1 /\ i \in 1..n
        BY <1>9, <2>1
      <3>2. CASE j = n + 1
        <4>1. /\ messages'[j].position = turn[t].saved + 1
              /\ messages[i].turn = t /\ messages'[i] = messages[i]
          BY <1>5, <2>1, <3>1, <3>2
        <4>2. messages[i].position \in Nat /\ messages[i].position <= turn[t].saved
          BY <1>10, <3>1, <4>1
        <4> QED
          BY <1>3, <4>1, <4>2
      <3>3. CASE j # n + 1
        BY <2>1, <3>1, <3>3 DEF StoredInOrder, n
      <3> QED
        BY <3>2, <3>3
    <2>4. ClearedStaysCleared'
      <3> SUFFICES ASSUME NEW k \in 1..(n + 1)
                   PROVE  messages'[k].turn \notin cleared
        BY <1>1, <2>1 DEF ClearedStaysCleared
      <3>1. CASE k = n + 1
        BY <1>5, <1>6, <2>1, <3>1
      <3>2. CASE k # n + 1
        BY <2>1, <3>2 DEF ClearedStaysCleared, n
      <3> QED
        BY <3>1, <3>2
    <2> QED
      BY <1>11, <1>12, <2>2, <2>3, <2>4
  <1> QED
    BY <1>8, <1>14, <1>15

LEMMA ClearKeeps ==
  ASSUME IInv, Clear
  PROVE  IInv'
  <1>1. /\ messages' = <<>> /\ turn' = turn /\ faults' = faults
        /\ clears' \in 0..MaxClears /\ calm' \in BOOLEAN
        /\ cleared' = {t \in Turn : turn[t].pc \in {"done", "failed"}}
    BY BoundAssumption DEF Clear, IInv, TypeOK
  <1>2. messages' \in Seq(Message) /\ Len(messages') = 0
    BY <1>1
  <1> QED
    BY <1>1, <1>2
    DEF IInv, TypeOK, LoopInBounds, RowsPassed, StoredInOrder, ClearedEnded,
        ClearedStaysCleared

LEMMA CrashKeeps ==
  ASSUME IInv, Crash
  PROVE  IInv'
  <1> USE DEF IInv
  <1>1. UNCHANGED <<messages, clears, cleared, calm>> /\ faults' \in 0..MaxFaults
    BY BoundAssumption DEF Crash, TypeOK
  <1>2. \A t \in Turn : turn'[t] = turn[t] \/ turn'[t] = Ended(t, "failed")
    BY DEF Crash
  <1>3. \A t \in Turn : turn'[t] = turn[t] =>
            turn[t].pc \in {"idle", "done", "failed"}
    <2> SUFFICES ASSUME NEW t \in Turn, turn'[t] = turn[t],
                        turn[t].pc \notin {"idle", "done", "failed"}
                 PROVE  FALSE
      OBVIOUS
    <2>1. t \in Active
      BY DEF TypeOK, LocalState, Active
    <2>2. turn'[t] = Ended(t, "failed") /\ Ended(t, "failed").pc = "failed"
      BY <2>1, EndedType DEF Crash
    <2> QED
      BY <2>2
  <1>4. \A t \in Turn : /\ Ended(t, "failed") \in LocalState
                       /\ Ended(t, "failed").pc = "failed"
                       /\ Ended(t, "failed").saved = 0
                       /\ Len(Ended(t, "failed").loaded) <= Window
    BY EndedType
  <1>5. turn' \in [Turn -> LocalState]
    BY <1>4 DEF Crash, TypeOK
  <1>6. \A t \in Turn : Len(turn'[t].loaded) <= Window
    BY <1>2, <1>4 DEF TypeOK
  <1>7. LoopInBounds'
    BY <1>2, <1>4 DEF LoopInBounds
  <1>8. RowsPassed'
    BY <1>1, <1>2, <1>4, RowTurns DEF RowsPassed
  <1>9. ClearedEnded'
    BY <1>1, <1>2, <1>4 DEF ClearedEnded, TypeOK
  <1> QED
    BY <1>1, <1>5, <1>6, <1>7, <1>8, <1>9
    DEF TypeOK, StoredInOrder, ClearedStaysCleared

LEMMA StepKeeps ==
  ASSUME IInv, [Next]_vars
  PROVE  IInv'
  <1>3. ASSUME NEW t \in Turn, Starts(t) PROVE IInv'
    BY <1>3, StartKeeps
  <1>4. ASSUME NEW t \in Turn, NEW l \in {"llm", "tools", "persist"},
               NEW kinds \in Seq(Kind), Len(kinds) > 0, LlmReturns(t, l, kinds)
        PROVE  IInv'
    BY <1>4, LlmKeeps
  <1>5. ASSUME NEW t \in Turn, LlmAnswers(t) \/ LlmIsContinued(t) \/ LlmCallsTools(t)
        PROVE  IInv'
    <2>1. PICK said \in {"answer", "unmet"} :
              \/ LlmReturns(t, "persist", <<said>>)
              \/ LlmReturns(t, "llm", <<said, "text">>)
              \/ LlmReturns(t, "tools", <<"tool_use">>)
      BY <1>5, Outcomes
    <2> QED
      BY <1>4, <2>1, OutcomeKinds
  <1>6. ASSUME NEW t \in Turn, LlmFails(t) PROVE IInv'
    <2>1. /\ turn' = [turn EXCEPT ![t] = Ended(t, "failed")] /\ calm' \in BOOLEAN
          /\ UNCHANGED <<messages, faults, clears, cleared>> /\ turn[t].pc = "llm"
      BY <1>6 DEF LlmFails, IInv, TypeOK
    <2>2. /\ Ended(t, "failed") \in LocalState /\ Ended(t, "failed").pc = "failed"
          /\ Ended(t, "failed").saved = 0 /\ Len(Ended(t, "failed").loaded) <= Window
      BY EndedType DEF IInv
    <2> QED
      BY <2>1, <2>2, EarlyStep
  <1>7. ASSUME NEW t \in Turn, ToolsReturn(t) PROVE IInv'
    BY <1>7, ToolsKeep
  <1>8. ASSUME NEW t \in Turn, Inserts(t) \/ InsertFails(t) PROVE IInv'
    BY <1>8, InsertKeeps
  <1>9. CASE Clear
    BY <1>9, ClearKeeps
  <1>10. CASE Crash
    BY <1>10, CrashKeeps
  <1>11. CASE UNCHANGED vars
    BY <1>11 DEF vars, IInv, TypeOK, LoopInBounds, RowsPassed, StoredInOrder,
                 ClearedEnded, ClearedStaysCleared
  <1> QED
    BY <1>3, <1>5, <1>6, <1>7, <1>8, <1>9, <1>10, <1>11 DEF Next, TurnStep

LEMMA IInvInit == Init => IInv
  <1> SUFFICES ASSUME Init PROVE IInv
    OBVIOUS
  <1>1. <<>> \in Seq(Message) /\ <<>> \in Seq(Kind) /\ Len(<<>>) = 0
    OBVIOUS
  <1>2. Idle \in LocalState
    BY <1>1, BoundAssumption DEF Idle, LocalState
  <1>3. /\ Idle.saved = 0 /\ Idle.pc = "idle" /\ Len(Idle.loaded) <= Window
    BY <1>1, WindowAssumption DEF Idle
  <1>4. TypeOK
    BY <1>1, <1>2, <1>3, BoundAssumption DEF Init, TypeOK
  <1>5. LoopInBounds
    BY <1>3 DEF Init, LoopInBounds
  <1> QED
    BY <1>1, <1>4, <1>5
    DEF Init, IInv, RowsPassed, StoredInOrder, ClearedEnded, ClearedStaysCleared

LEMMA Invariant == Spec => []IInv
  <1>1. IInv /\ [Next]_vars => IInv'
    BY StepKeeps
  <1> QED
    BY IInvInit, <1>1, PTL DEF Spec

(* The tables and the turns keep their types, and no request carries more  *)
(* history than the window.                                                *)
THEOREM TypeCorrect == Spec => []TypeOK
  <1>1. IInv => TypeOK
    BY DEF IInv
  <1> QED
    BY Invariant, <1>1, PTL

(* The messages of a turn are stored in order and none twice, however many *)
(* turns interleave and whatever fails.                                    *)
THEOREM OrderKept == Spec => []StoredInOrder
  <1>1. IInv => StoredInOrder
    BY DEF IInv
  <1> QED
    BY Invariant, <1>1, PTL

(* Nothing of a turn that had ended comes back after a clear.              *)
THEOREM ClearIsFinal == Spec => []ClearedStaysCleared
  <1>1. IInv => ClearedStaysCleared
    BY DEF IInv
  <1> QED
    BY Invariant, <1>1, PTL
-----------------------------------------------------------------------------
(* All or nothing.  WholeOrNot does not say that a turn in progress has  *)
(* stored all it has passed since the history was last cleared, nor that   *)
(* a turn cannot have begun after clears that are still to come.           *)
ClearsBefore == \A t \in Turn : turn[t].clears <= clears

PassedIsStored ==
    faults = 0 => \A t \in Turn :
        turn[t].pc = "persist" /\ turn[t].clears = clears =>
            Stored(t) = 1..turn[t].saved

Whole == ClearsBefore /\ PassedIsStored /\ WholeOrNot

LEMMA LocalFields ==
  ASSUME TypeOK, NEW t \in Turn
  PROVE  /\ turn[t] \in LocalState /\ turn[t].saved \in Nat
         /\ turn[t].clears \in Nat /\ Len(turn[t].new) \in Nat /\ clears \in Nat
  BY BoundAssumption DEF TypeOK, LocalState

(* A turn that does not yet persist has nothing to show.                   *)
LEMMA EarlyWhole ==
  ASSUME TypeOK, Whole, NEW t \in Turn, turn[t].pc \in {"idle", "llm", "tools"},
         NEW r \in LocalState, turn' = [turn EXCEPT ![t] = r],
         r.pc # "done", r.pc = "persist" => r.saved = 0, r.clears <= clears,
         UNCHANGED <<messages, faults, clears>>
  PROVE  Whole'
  <1>1. turn'[t] = r /\ \A u \in Turn \ {t} : turn'[u] = turn[u]
    BY DEF TypeOK
  <1>2. \A u \in Turn : Stored(u)' = Stored(u)
    BY DEF Stored
  <1>3. ClearsBefore'
    BY <1>1 DEF Whole, ClearsBefore
  <1>4. faults = 0 => Stored(t) = {}
    BY DEF Whole, WholeOrNot
  <1>5. 1..0 = {} /\ SuffixUpTo({}, 0)
    BY DEF SuffixUpTo
  <1>6. PassedIsStored'
    <2> SUFFICES ASSUME faults = 0, NEW u \in Turn, turn'[u].pc = "persist",
                        turn'[u].clears = clears
                 PROVE  Stored(u) = 1..turn'[u].saved
      BY <1>2 DEF PassedIsStored
    <2>1. CASE u = t
      BY <1>1, <1>4, <1>5, <2>1
    <2>2. CASE u # t
      BY <1>1, <2>2 DEF Whole, PassedIsStored
    <2> QED
      BY <2>1, <2>2
  <1>7. WholeOrNot'
    <2> SUFFICES ASSUME faults = 0, NEW u \in Turn
                 PROVE  /\ turn'[u].pc = "done" =>
                               SuffixUpTo(Stored(u), Len(turn'[u].new))
                        /\ turn'[u].pc = "done" /\ turn'[u].clears = clears =>
                               Stored(u) = 1..Len(turn'[u].new)
                        /\ turn'[u].pc = "persist" =>
                               SuffixUpTo(Stored(u), turn'[u].saved)
                        /\ turn'[u].pc \notin {"done", "persist"} => Stored(u) = {}
      BY <1>2 DEF WholeOrNot
    <2>1. CASE u = t
      BY <1>1, <1>4, <1>5, <2>1
    <2>2. CASE u # t
      BY <1>1, <2>2 DEF Whole, WholeOrNot
    <2> QED
      BY <2>1, <2>2
  <1> QED
    BY <1>3, <1>6, <1>7 DEF Whole

(* A row more in the table is a position more of its turn.                 *)
LEMMA RowIsStored ==
  ASSUME TypeOK, NEW t \in Turn, NEW p \in Nat, NEW row \in Message,
         row.turn = t, row.position = p, messages' = Append(messages, row)
  PROVE  /\ Stored(t)' = Stored(t) \cup {p}
         /\ \A u \in Turn \ {t} : Stored(u)' = Stored(u)
  <1> DEFINE n == Len(messages)
  <1>1. messages \in Seq(Message) /\ n \in Nat
    BY DEF TypeOK
  <1>2. /\ Len(messages') = n + 1 /\ messages'[n + 1] = row
        /\ \A k \in 1..n : messages'[k] = messages[k]
    BY <1>1
  <1>3. 1..(n + 1) = 1..n \cup {n + 1}
    BY <1>1
  <1> HIDE DEF n
  <1>4. \A u \in Turn : Stored(u)' =
            {messages'[k].position : k \in {i \in 1..(n + 1) : messages'[i].turn = u}}
    BY <1>2 DEF Stored
  <1>5. \A u \in Turn : Stored(u) =
            {messages[k].position : k \in {i \in 1..n : messages[i].turn = u}}
    BY DEF Stored, n
  <1>6. {messages'[k].position : k \in {i \in 1..(n + 1) : messages'[i].turn = t}}
          = {messages[k].position : k \in {i \in 1..n : messages[i].turn = t}}
              \cup {p}
    BY <1>2, <1>3
  <1>7. ASSUME NEW u \in Turn \ {t}
        PROVE  {messages'[k].position : k \in {i \in 1..(n + 1) : messages'[i].turn = u}}
                 = {messages[k].position : k \in {i \in 1..n : messages[i].turn = u}}
    BY <1>2, <1>3
  <1> QED
    BY <1>4, <1>5, <1>6, <1>7

LEMMA SuffixGrows ==
  ASSUME NEW n \in Nat, NEW s, SuffixUpTo(s, n)
  PROVE  SuffixUpTo(s \cup {n + 1}, n + 1)
  <1> PICK first \in 1..(n + 1) : s = first..n
    BY DEF SuffixUpTo
  <1>1. first \in 1..(n + 1 + 1) /\ s \cup {n + 1} = first..(n + 1)
    OBVIOUS
  <1> QED
    BY <1>1 DEF SuffixUpTo

(* What a pass of the loop leaves as it was, and when it ends.             *)
LEMMA PassKeeps ==
  ASSUME IInv, NEW t \in Turn, turn[t].pc = "persist", AfterInsert(t)
  PROVE  /\ turn'[t].new = turn[t].new /\ turn'[t].clears = turn[t].clears
         /\ turn'[t].pc = "done" => turn[t].saved + 1 = Len(turn[t].new)
  <1> DEFINE r == [turn[t] EXCEPT !.saved = turn[t].saved + 1]
  <1>1. /\ turn[t] \in LocalState /\ turn[t].saved \in Nat
        /\ turn[t].saved < Len(turn[t].new) /\ Len(turn[t].new) \in Nat
        /\ turn \in [Turn -> LocalState]
    BY LocalFields DEF IInv, TypeOK, LoopInBounds
  <1>2. Len(Persisted(t)) = Len(turn[t].new)
    BY PersistedRows DEF IInv
  <1>3. CASE turn[t].saved + 1 < Len(Persisted(t))
    <2>1. turn' = [turn EXCEPT ![t] = r]
      BY <1>3 DEF AfterInsert
    <2>2. r.new = turn[t].new /\ r.clears = turn[t].clears /\ r.pc = "persist"
      BY <1>1 DEF LocalState
    <2> HIDE DEF r
    <2> QED
      BY <1>1, <2>1, <2>2
  <1>4. CASE ~(turn[t].saved + 1 < Len(Persisted(t)))
    <2>1. turn' = [turn EXCEPT ![t] = Ended(t, "done")]
      BY <1>4 DEF AfterInsert
    <2>2. /\ Ended(t, "done").new = turn[t].new
          /\ Ended(t, "done").clears = turn[t].clears
      BY <1>1 DEF Ended, LocalState
    <2> QED
      BY <1>1, <1>2, <1>4, <2>1, <2>2
  <1> QED
    BY <1>3, <1>4

LEMMA InsertWhole ==
  ASSUME IInv, Whole, NEW t \in Turn, Inserts(t)
  PROVE  Whole'
  <1> DEFINE row == Persisted(t)[turn[t].saved + 1]
             n == turn[t].saved
  <1>1. /\ turn[t].pc = "persist" /\ AfterInsert(t)
        /\ messages' = Append(messages, row) /\ faults' = faults /\ clears' = clears
    BY DEF Inserts
  <1>2. /\ \A u \in Turn \ {t} : turn'[u] = turn[u]
        /\ turn'[t].pc \in {"persist", "done"}
        /\ turn'[t].pc = "persist" => turn'[t].saved = n + 1
    BY <1>1, PassOfLoop
  <1>3. /\ turn'[t].new = turn[t].new /\ turn'[t].clears = turn[t].clears
        /\ turn'[t].pc = "done" => n + 1 = Len(turn[t].new)
    BY <1>1, PassKeeps
  <1>4. n \in Nat /\ n < Len(turn[t].new) /\ Len(turn[t].new) \in Nat
    BY <1>1, LocalFields DEF IInv, LoopInBounds
  <1>5. row \in Message /\ row.turn = t /\ row.position = n + 1
    <2>1. n + 1 \in 1..Len(turn[t].new)
      BY <1>4
    <2> QED
      BY <2>1, PersistedRows DEF IInv
  <1> HIDE DEF row
  <1>6. /\ Stored(t)' = Stored(t) \cup {n + 1}
        /\ \A u \in Turn \ {t} : Stored(u)' = Stored(u)
    BY <1>1, <1>4, <1>5, RowIsStored DEF IInv
  <1>7. ClearsBefore'
    BY <1>1, <1>2, <1>3 DEF Whole, ClearsBefore
  <1>8. faults = 0 => SuffixUpTo(Stored(t)', n + 1)
    <2>1. faults = 0 => SuffixUpTo(Stored(t), n)
      BY <1>1 DEF Whole, WholeOrNot
    <2> QED
      BY <1>4, <1>6, <2>1, SuffixGrows
  <1>9. faults = 0 /\ turn[t].clears = clears => Stored(t)' = 1..(n + 1)
    <2>1. faults = 0 /\ turn[t].clears = clears => Stored(t) = 1..n
      BY <1>1 DEF Whole, PassedIsStored
    <2>2. 1..n \cup {n + 1} = 1..(n + 1)
      BY <1>4
    <2> QED
      BY <1>6, <2>1, <2>2
  <1> HIDE DEF n
  <1>10. PassedIsStored'
    <2> SUFFICES ASSUME faults = 0, NEW u \in Turn, turn'[u].pc = "persist",
                        turn'[u].clears = clears
                 PROVE  Stored(u)' = 1..turn'[u].saved
      BY <1>1 DEF PassedIsStored
    <2>1. CASE u = t
      BY <1>2, <1>3, <1>9, <2>1
    <2>2. CASE u # t
      BY <1>2, <1>6, <2>2 DEF Whole, PassedIsStored
    <2> QED
      BY <2>1, <2>2
  <1>11. WholeOrNot'
    <2> SUFFICES ASSUME faults = 0, NEW u \in Turn
                 PROVE  /\ turn'[u].pc = "done" =>
                               SuffixUpTo(Stored(u)', Len(turn'[u].new))
                        /\ turn'[u].pc = "done" /\ turn'[u].clears = clears =>
                               Stored(u)' = 1..Len(turn'[u].new)
                        /\ turn'[u].pc = "persist" =>
                               SuffixUpTo(Stored(u)', turn'[u].saved)
                        /\ turn'[u].pc \notin {"done", "persist"} =>
                               Stored(u)' = {}
      BY <1>1 DEF WholeOrNot
    <2>1. CASE u = t
      BY <1>2, <1>3, <1>8, <1>9, <2>1
    <2>2. CASE u # t
      BY <1>2, <1>6, <2>2 DEF Whole, WholeOrNot
    <2> QED
      BY <2>1, <2>2
  <1> QED
    BY <1>7, <1>10, <1>11 DEF Whole

(* Once something has failed, only the count of clears matters.            *)
LEMMA FaultWhole ==
  ASSUME TypeOK, Whole, faults' = faults + 1, clears' = clears,
         \A t \in Turn : turn'[t].clears = turn[t].clears
  PROVE  Whole'
  <1>1. faults' # 0
    BY DEF TypeOK
  <1> QED
    BY <1>1 DEF Whole, ClearsBefore, PassedIsStored, WholeOrNot

LEMMA InsertFailsWhole ==
  ASSUME IInv, Whole, NEW t \in Turn, InsertFails(t)
  PROVE  Whole'
  <1>1. turn[t].pc = "persist" /\ AfterInsert(t) /\ faults' = faults + 1
        /\ clears' = clears
    BY DEF InsertFails
  <1>2. \A u \in Turn : turn'[u].clears = turn[u].clears
    BY <1>1, PassOfLoop, PassKeeps
  <1> QED
    BY <1>1, <1>2, FaultWhole DEF IInv

LEMMA ClearWhole ==
  ASSUME TypeOK, Whole, Clear
  PROVE  Whole'
  <1>1. /\ messages' = <<>> /\ turn' = turn /\ clears' = clears + 1 /\ faults' = faults
    BY DEF Clear
  <1>2. \A t \in Turn : Stored(t)' = {}
    <2>1. Len(messages') = 0 /\ 1..0 = {}
      BY <1>1
    <2> QED
      BY <2>1 DEF Stored
  <1>3. \A t \in Turn : turn[t].clears <= clears /\ turn[t].clears # clears + 1
                        /\ turn[t].clears <= clears + 1
    BY LocalFields DEF Whole, ClearsBefore
  <1>4. \A m \in Nat : SuffixUpTo({}, m)
    <2> SUFFICES ASSUME NEW m \in Nat PROVE SuffixUpTo({}, m)
      OBVIOUS
    <2>1. m + 1 \in 1..(m + 1) /\ (m + 1)..m = {}
      OBVIOUS
    <2> QED
      BY <2>1 DEF SuffixUpTo
  <1>5. \A t \in Turn : turn[t].saved \in Nat /\ Len(turn[t].new) \in Nat
    BY LocalFields
  <1> QED
    BY <1>1, <1>2, <1>3, <1>4, <1>5
    DEF Whole, ClearsBefore, PassedIsStored, WholeOrNot

LEMMA EndedClears ==
  ASSUME TypeOK, NEW t \in Turn, NEW how \in {"done", "failed"}
  PROVE  Ended(t, how).clears = turn[t].clears
  BY LocalFields DEF Ended, LocalState

LEMMA StepWhole ==
  ASSUME IInv, Whole, [Next]_vars
  PROVE  Whole'
  <1>0. TypeOK
    BY DEF IInv
  <1>1. ASSUME NEW t \in Turn, Starts(t) PROVE Whole'
    <2> DEFINE r == [pc |-> "llm", loaded |-> LoadedMessages, new |-> <<"text">>,
                     saved |-> 0, clears |-> clears]
    <2>1. LoadedMessages \in Seq(Message) /\ <<"text">> \in Seq(Kind)
          /\ clears \in 0..MaxClears
      BY LoadedType, <1>0 DEF Kind, TypeOK
    <2>2. r \in LocalState /\ r.pc = "llm" /\ r.clears = clears
      BY <2>1 DEF LocalState
    <2>3. /\ turn[t].pc = "idle" /\ turn' = [turn EXCEPT ![t] = r]
          /\ UNCHANGED <<messages, faults, clears>>
      BY <1>1 DEF Starts
    <2>4. r.clears <= clears
      BY <1>0, <2>2, LocalFields
    <2> HIDE DEF r
    <2> QED
      BY <1>0, <2>2, <2>3, <2>4, EarlyWhole
  <1>2. ASSUME NEW t \in Turn, NEW l \in {"llm", "tools", "persist"},
               NEW kinds \in Seq(Kind), LlmReturns(t, l, kinds)
        PROVE  Whole'
    <2> DEFINE r == [turn[t] EXCEPT !.pc = l, !.new = @ \o kinds]
    <2>1. turn[t] \in LocalState /\ turn[t].pc = "llm" /\ turn[t].saved = 0
      BY <1>2 DEF IInv, TypeOK, LlmReturns, LoopInBounds
    <2>2. turn[t].new \o kinds \in Seq(Kind)
      BY <2>1 DEF LocalState
    <2>3. r \in LocalState
      BY <2>1, <2>2 DEF LocalState
    <2>4. r.pc = l /\ r.saved = 0 /\ r.clears = turn[t].clears
      BY <2>1 DEF LocalState
    <2>5. turn' = [turn EXCEPT ![t] = r] /\ UNCHANGED <<messages, faults, clears>>
      BY <1>2 DEF LlmReturns
    <2>6. r.clears <= clears
      BY <2>4 DEF Whole, ClearsBefore
    <2> HIDE DEF r
    <2> QED
      BY <1>0, <2>1, <2>3, <2>4, <2>5, <2>6, EarlyWhole
  <1>3. ASSUME NEW t \in Turn, LlmAnswers(t) \/ LlmIsContinued(t) \/ LlmCallsTools(t)
        PROVE  Whole'
    <2>1. PICK said \in {"answer", "unmet"} :
              \/ LlmReturns(t, "persist", <<said>>)
              \/ LlmReturns(t, "llm", <<said, "text">>)
              \/ LlmReturns(t, "tools", <<"tool_use">>)
      BY <1>3, Outcomes
    <2> QED
      BY <1>2, <2>1, OutcomeKinds
  <1>4. ASSUME NEW t \in Turn, LlmFails(t) PROVE Whole'
    <2>1. /\ turn' = [turn EXCEPT ![t] = Ended(t, "failed")]
          /\ UNCHANGED <<messages, faults, clears>> /\ turn[t].pc = "llm"
      BY <1>4 DEF LlmFails
    <2>2. /\ Ended(t, "failed") \in LocalState /\ Ended(t, "failed").pc = "failed"
          /\ Ended(t, "failed").clears = turn[t].clears
      BY <1>0, EndedType, EndedClears
    <2>3. Ended(t, "failed").clears <= clears
      BY <2>2 DEF Whole, ClearsBefore
    <2> QED
      BY <1>0, <2>1, <2>2, <2>3, EarlyWhole
  <1>5. ASSUME NEW t \in Turn, ToolsReturn(t) PROVE Whole'
    <2> DEFINE r == [turn[t] EXCEPT !.pc = "llm", !.new = Append(@, "results"),
                                    !.loaded = LoadedMessages]
    <2>1. turn[t] \in LocalState /\ turn[t].pc = "tools"
      BY <1>0, <1>5 DEF TypeOK, ToolsReturn
    <2>2. /\ Append(turn[t].new, "results") \in Seq(Kind)
          /\ LoadedMessages \in Seq(Message)
      BY <1>0, <2>1, LoadedType DEF LocalState, Kind
    <2>3. r \in LocalState
      BY <2>1, <2>2 DEF LocalState
    <2>4. r.pc = "llm" /\ r.clears = turn[t].clears
      BY <2>1 DEF LocalState
    <2>5. turn' = [turn EXCEPT ![t] = r] /\ UNCHANGED <<messages, faults, clears>>
      BY <1>5 DEF ToolsReturn
    <2>6. r.clears <= clears
      BY <2>4 DEF Whole, ClearsBefore
    <2> HIDE DEF r
    <2> QED
      BY <1>0, <2>1, <2>3, <2>4, <2>5, <2>6, EarlyWhole
  <1>6. ASSUME NEW t \in Turn, Inserts(t) \/ InsertFails(t) PROVE Whole'
    BY <1>6, InsertWhole, InsertFailsWhole
  <1>7. CASE Clear
    BY <1>0, <1>7, ClearWhole
  <1>8. CASE Crash
    <2>1. faults' = faults + 1 /\ clears' = clears
          /\ \A t \in Turn : turn'[t] = turn[t] \/ turn'[t] = Ended(t, "failed")
      BY <1>8 DEF Crash
    <2>2. \A t \in Turn : turn'[t].clears = turn[t].clears
      BY <1>0, <2>1, EndedClears
    <2> QED
      BY <1>0, <2>1, <2>2, FaultWhole
  <1>9. CASE UNCHANGED vars
    <2>1. UNCHANGED <<messages, turn, faults, clears>>
      BY <1>9 DEF vars
    <2>2. \A t \in Turn : Stored(t)' = Stored(t)
      BY <2>1 DEF Stored
    <2> QED
      BY <2>1, <2>2 DEF Whole, ClearsBefore, PassedIsStored, WholeOrNot
  <1> QED
    BY <1>1, <1>3, <1>4, <1>5, <1>6, <1>7, <1>8, <1>9 DEF Next, TurnStep

LEMMA WholeKept == Spec => []Whole
  <1>1. Init => Whole
    <2> SUFFICES ASSUME Init PROVE Whole
      OBVIOUS
    <2>1. \A t \in Turn : turn[t].pc = "idle" /\ turn[t].clears = 0 /\ clears = 0
      BY DEF Init, Idle
    <2>2. \A t \in Turn : Stored(t) = {}
      BY DEF Init, Stored
    <2> QED
      BY <2>1, <2>2 DEF Whole, ClearsBefore, PassedIsStored, WholeOrNot
  <1>2. IInv /\ Whole /\ [Next]_vars => Whole'
    BY StepWhole
  <1> QED
    BY Invariant, <1>1, <1>2, PTL DEF Spec
-----------------------------------------------------------------------------
(* What faults cost.  With faults WholeOrNot says nothing; what is still   *)
(* true is that each of them takes one message at most, wherever it falls, *)
(* of all that the turns since the last clear have come to save.           *)
MissingPairs ==
    {m \in Turn \X Nat : turn[m[1]].clears = clears /\ m[2] \in Missing(m[1])}

FewLost == IsFiniteSet(MissingPairs) /\ Cardinality(MissingPairs) <= faults

LEMMA MissNoMore ==
  ASSUME TypeOK, TypeOK', FewLost, clears' = clears, faults' >= faults,
         \A t \in Turn :
             \/ Missing(t)' = {}
             \/ turn'[t].clears = turn[t].clears /\ Missing(t)' \subseteq Missing(t)
  PROVE  FewLost'
  <1> DEFINE before == MissingPairs
             after == MissingPairs'
  <1>1. faults \in Nat /\ faults' \in Nat
    BY BoundAssumption DEF TypeOK
  <1>2. after \in SUBSET before
    BY DEF MissingPairs
  <1>3. IsFiniteSet(before) /\ Cardinality(before) <= faults
    BY DEF FewLost
  <1> HIDE DEF before, after
  <1>4. IsFiniteSet(after) /\ Cardinality(after) <= Cardinality(before)
    BY <1>2, <1>3, FS_Subset
  <1>5. Cardinality(after) \in Nat /\ Cardinality(before) \in Nat
    BY <1>3, <1>4, FS_CardinalityType
  <1>6. Cardinality(after) <= faults'
    BY <1>1, <1>3, <1>4, <1>5
  <1> QED
    BY <1>4, <1>6 DEF FewLost, after

(* What a pass of the loop does to what is missing.                        *)
LEMMA PassMisses ==
  ASSUME IInv, NEW t \in Turn, turn[t].pc = "persist", AfterInsert(t)
  PROVE  /\ Passed(t) = turn[t].saved /\ Passed(t)' = turn[t].saved + 1
         /\ \A u \in Turn \ {t} : Passed(u)' = Passed(u)
         /\ \A u \in Turn : turn'[u].clears = turn[u].clears
  <1>1. /\ \A u \in Turn \ {t} : turn'[u] = turn[u]
        /\ turn'[t].pc \in {"persist", "done"}
        /\ turn'[t].pc = "persist" => turn'[t].saved = turn[t].saved + 1
    BY PassOfLoop
  <1>2. /\ turn'[t].new = turn[t].new /\ turn'[t].clears = turn[t].clears
        /\ turn'[t].pc = "done" => turn[t].saved + 1 = Len(turn[t].new)
    BY PassKeeps
  <1>3. Passed(t)' = turn[t].saved + 1
    BY <1>1, <1>2 DEF Passed
  <1>4. \A u \in Turn \ {t} : Passed(u)' = Passed(u)
    BY <1>1 DEF Passed
  <1> QED
    BY <1>1, <1>2, <1>3, <1>4 DEF Passed

LEMMA InsertMisses ==
  ASSUME IInv, IInv', FewLost, NEW t \in Turn, Inserts(t)
  PROVE  FewLost'
  <1> DEFINE row == Persisted(t)[turn[t].saved + 1]
             n == turn[t].saved
  <1>1. /\ turn[t].pc = "persist" /\ AfterInsert(t)
        /\ messages' = Append(messages, row) /\ faults' = faults /\ clears' = clears
    BY DEF Inserts
  <1>2. n \in Nat /\ n < Len(turn[t].new) /\ Len(turn[t].new) \in Nat
    BY <1>1, LocalFields DEF IInv, LoopInBounds
  <1>3. row \in Message /\ row.turn = t /\ row.position = n + 1
    <2>1. n + 1 \in 1..Len(turn[t].new)
      BY <1>2
    <2> QED
      BY <2>1, PersistedRows DEF IInv
  <1> HIDE DEF row
  <1>4. /\ Stored(t)' = Stored(t) \cup {n + 1}
        /\ \A u \in Turn \ {t} : Stored(u)' = Stored(u)
    BY <1>1, <1>2, <1>3, RowIsStored DEF IInv
  <1>5. /\ Passed(t) = n /\ Passed(t)' = n + 1
        /\ \A u \in Turn \ {t} : Passed(u)' = Passed(u)
        /\ \A u \in Turn : turn'[u].clears = turn[u].clears
    BY <1>1, PassMisses
  <1>6. 1..(n + 1) = 1..n \cup {n + 1}
    BY <1>2
  <1> HIDE DEF n
  <1>7. Missing(t)' \subseteq Missing(t)
    BY <1>4, <1>5, <1>6 DEF Missing
  <1>8. \A u \in Turn \ {t} : Missing(u)' = Missing(u)
    BY <1>4, <1>5 DEF Missing
  <1>9. faults' >= faults
    BY <1>1, BoundAssumption DEF IInv, TypeOK
  <1>10. TypeOK /\ TypeOK'
    BY DEF IInv
  <1> QED
    BY <1>1, <1>5, <1>7, <1>8, <1>9, <1>10, MissNoMore

LEMMA InsertFailsMisses ==
  ASSUME IInv, IInv', FewLost, NEW t \in Turn, InsertFails(t)
  PROVE  FewLost'
  <1> DEFINE n == turn[t].saved
  <1>1. /\ turn[t].pc = "persist" /\ AfterInsert(t)
        /\ messages' = messages /\ faults' = faults + 1 /\ clears' = clears
    BY DEF InsertFails
  <1>2. n \in Nat /\ faults \in Nat
    BY LocalFields, BoundAssumption DEF IInv, TypeOK
  <1>3. \A u \in Turn : Stored(u)' = Stored(u)
    BY <1>1 DEF Stored
  <1>4. /\ Passed(t) = n /\ Passed(t)' = n + 1
        /\ \A u \in Turn \ {t} : Passed(u)' = Passed(u)
        /\ \A u \in Turn : turn'[u].clears = turn[u].clears
    BY <1>1, PassMisses
  <1>5. 1..(n + 1) = 1..n \cup {n + 1}
    BY <1>2
  <1> HIDE DEF n
  <1>6. Missing(t)' \subseteq Missing(t) \cup {n + 1}
    BY <1>3, <1>4, <1>5 DEF Missing
  <1>7. \A u \in Turn \ {t} : Missing(u)' = Missing(u)
    BY <1>3, <1>4 DEF Missing
  <1> DEFINE before == MissingPairs
             after == MissingPairs'
             it == <<t, n + 1>>
  <1>8. IsFiniteSet(before) /\ Cardinality(before) <= faults
    BY DEF FewLost
  <1>9. after \in SUBSET (before \cup {it})
    BY <1>1, <1>4, <1>6, <1>7 DEF MissingPairs
  <1> HIDE DEF before, after, it
  <1>10. /\ IsFiniteSet(before \cup {it})
         /\ Cardinality(before \cup {it}) \in {Cardinality(before), Cardinality(before) + 1}
    BY <1>8, FS_AddElement
  <1>11. /\ IsFiniteSet(after)
         /\ Cardinality(after) <= Cardinality(before \cup {it})
    BY <1>9, <1>10, FS_Subset
  <1>12. Cardinality(after) \in Nat /\ Cardinality(before) \in Nat
    BY <1>8, <1>11, FS_CardinalityType
  <1>13. Cardinality(after) <= faults'
    BY <1>1, <1>2, <1>8, <1>10, <1>11, <1>12
  <1> QED
    BY <1>11, <1>13 DEF FewLost, after

(* A step of one turn that is not saving yet: it has passed nothing.       *)
LEMMA EarlyMisses ==
  ASSUME IInv, IInv', FewLost, NEW t \in Turn, NEW r,
         turn' = [turn EXCEPT ![t] = r], r.pc # "done", r.pc = "persist" => r.saved = 0,
         UNCHANGED <<messages, faults, clears>>
  PROVE  FewLost'
  <1>1. turn'[t] = r /\ \A u \in Turn \ {t} : turn'[u] = turn[u]
    BY DEF IInv, TypeOK
  <1>2. \A u \in Turn : Stored(u)' = Stored(u)
    BY DEF Stored
  <1>3. Passed(t)' = 0 /\ \A u \in Turn \ {t} : Passed(u)' = Passed(u)
    BY <1>1 DEF Passed
  <1>4. 1..0 = {}
    OBVIOUS
  <1>5. Missing(t)' = {} /\ \A u \in Turn \ {t} : Missing(u)' = Missing(u)
    BY <1>2, <1>3, <1>4 DEF Missing
  <1>6. faults' >= faults /\ clears' = clears
    BY BoundAssumption DEF IInv, TypeOK
  <1>7. TypeOK /\ TypeOK'
    BY DEF IInv
  <1> QED
    BY <1>1, <1>5, <1>6, <1>7, MissNoMore

LEMMA StepMisses ==
  ASSUME IInv, IInv', Whole, FewLost, [Next]_vars
  PROVE  FewLost'
  <1>0. TypeOK /\ TypeOK'
    BY DEF IInv
  <1>1. ASSUME NEW t \in Turn, Starts(t) PROVE FewLost'
    <2> DEFINE r == [pc |-> "llm", loaded |-> LoadedMessages, new |-> <<"text">>,
                     saved |-> 0, clears |-> clears]
    <2>1. r.pc = "llm"
      OBVIOUS
    <2>2. turn' = [turn EXCEPT ![t] = r] /\ UNCHANGED <<messages, faults, clears>>
      BY <1>1 DEF Starts
    <2> HIDE DEF r
    <2> QED
      BY <2>1, <2>2, EarlyMisses
  <1>2. ASSUME NEW t \in Turn, NEW l \in {"llm", "tools", "persist"},
               NEW kinds \in Seq(Kind), LlmReturns(t, l, kinds)
        PROVE  FewLost'
    <2> DEFINE r == [turn[t] EXCEPT !.pc = l, !.new = @ \o kinds]
    <2>1. turn[t] \in LocalState /\ turn[t].pc = "llm" /\ turn[t].saved = 0
      BY <1>2 DEF IInv, TypeOK, LlmReturns, LoopInBounds
    <2>2. r.pc = l /\ r.saved = 0
      BY <2>1 DEF LocalState
    <2>3. turn' = [turn EXCEPT ![t] = r] /\ UNCHANGED <<messages, faults, clears>>
      BY <1>2 DEF LlmReturns
    <2> HIDE DEF r
    <2> QED
      BY <2>2, <2>3, EarlyMisses
  <1>3. ASSUME NEW t \in Turn, LlmAnswers(t) \/ LlmIsContinued(t) \/ LlmCallsTools(t)
        PROVE  FewLost'
    <2>1. PICK said \in {"answer", "unmet"} :
              \/ LlmReturns(t, "persist", <<said>>)
              \/ LlmReturns(t, "llm", <<said, "text">>)
              \/ LlmReturns(t, "tools", <<"tool_use">>)
      BY <1>3, Outcomes
    <2> QED
      BY <1>2, <2>1, OutcomeKinds
  <1>4. ASSUME NEW t \in Turn, LlmFails(t) PROVE FewLost'
    <2>1. /\ turn' = [turn EXCEPT ![t] = Ended(t, "failed")]
          /\ UNCHANGED <<messages, faults, clears>>
      BY <1>4 DEF LlmFails
    <2>2. Ended(t, "failed").pc = "failed"
      BY <1>0, EndedType
    <2> QED
      BY <2>1, <2>2, EarlyMisses
  <1>5. ASSUME NEW t \in Turn, ToolsReturn(t) PROVE FewLost'
    <2> DEFINE r == [turn[t] EXCEPT !.pc = "llm", !.new = Append(@, "results"),
                                    !.loaded = LoadedMessages]
    <2>1. r.pc = "llm"
      BY <1>0 DEF TypeOK, LocalState
    <2>2. turn' = [turn EXCEPT ![t] = r] /\ UNCHANGED <<messages, faults, clears>>
      BY <1>5 DEF ToolsReturn
    <2> HIDE DEF r
    <2> QED
      BY <2>1, <2>2, EarlyMisses
  <1>6. ASSUME NEW t \in Turn, Inserts(t) \/ InsertFails(t) PROVE FewLost'
    BY <1>6, InsertMisses, InsertFailsMisses
  <1>7. CASE Clear
    <2>1. turn' = turn /\ clears' = clears + 1
      BY <1>7 DEF Clear
    <2>2. \A t \in Turn : turn[t].clears # clears + 1
      BY <1>0, LocalFields DEF Whole, ClearsBefore
    <2>3. MissingPairs' = {}
      BY <2>1, <2>2 DEF MissingPairs
    <2>4. faults' \in Nat
      BY <1>0, BoundAssumption DEF TypeOK
    <2> QED
      BY <2>3, <2>4, FS_EmptySet DEF FewLost
  <1>8. CASE Crash
    <2>1. /\ faults' = faults + 1 /\ clears' = clears /\ messages' = messages
          /\ \A t \in Turn : turn'[t] = turn[t] \/ turn'[t] = Ended(t, "failed")
      BY <1>8 DEF Crash
    <2>2. \A t \in Turn : Ended(t, "failed").pc = "failed"
      BY <1>0, EndedType
    <2>3. \A t \in Turn : Stored(t)' = Stored(t)
      BY <2>1 DEF Stored
    <2>4. 1..0 = {} /\ faults' >= faults
      BY <1>0, <2>1, BoundAssumption DEF TypeOK
    <2>5. ASSUME NEW t \in Turn
          PROVE  \/ Missing(t)' = {}
                 \/ /\ turn'[t].clears = turn[t].clears
                    /\ Missing(t)' \subseteq Missing(t)
      <3>1. CASE turn'[t] = turn[t]
        <4>1. Passed(t)' = Passed(t)
          BY <3>1 DEF Passed
        <4> QED
          BY <2>3, <3>1, <4>1 DEF Missing
      <3>2. CASE turn'[t] = Ended(t, "failed")
        <4>1. Passed(t)' = 0
          BY <2>2, <3>2 DEF Passed
        <4> QED
          BY <2>4, <4>1 DEF Missing
      <3> QED
        BY <2>1, <3>1, <3>2
    <2> QED
      BY <1>0, <2>1, <2>4, <2>5, MissNoMore
  <1>9. CASE UNCHANGED vars
    <2>1. UNCHANGED <<messages, turn, faults, clears>>
      BY <1>9 DEF vars
    <2>2. \A t \in Turn : Missing(t)' = Missing(t)
      BY <2>1 DEF Missing, Passed, Stored
    <2> QED
      BY <2>1, <2>2 DEF FewLost, MissingPairs
  <1> QED
    BY <1>1, <1>3, <1>4, <1>5, <1>6, <1>7, <1>8, <1>9 DEF Next, TurnStep

LEMMA FewLostKept == Spec => []FewLost
  <1>1. Init => FewLost
    <2> SUFFICES ASSUME Init PROVE FewLost
      OBVIOUS
    <2>1. faults = 0 /\ \A t \in Turn : turn[t].pc = "idle"
      BY DEF Init, Idle
    <2>2. \A t \in Turn : Missing(t) = {}
      <3>1. 1..0 = {}
        OBVIOUS
      <3> QED
        BY <2>1, <3>1 DEF Missing, Passed
    <2>3. MissingPairs = {}
      BY <2>2 DEF MissingPairs
    <2> QED
      BY <2>1, <2>3, FS_EmptySet DEF FewLost
  <1>2. IInv /\ IInv' /\ Whole /\ FewLost /\ [Next]_vars => FewLost'
    BY StepMisses
  <1> QED
    BY Invariant, WholeKept, <1>1, <1>2, PTL DEF Spec

LEMMA PairsAreAll == TypeOK => AllMissing = MissingPairs
  <1> SUFFICES ASSUME TypeOK PROVE AllMissing = MissingPairs
    OBVIOUS
  <1>1. \A t \in Turn : Missing(t) \subseteq Nat
    <2> SUFFICES ASSUME NEW t \in Turn PROVE Missing(t) \subseteq Nat
      OBVIOUS
    <2>1. Passed(t) \in Nat
      BY LocalFields DEF Passed
    <2> QED
      BY <2>1 DEF Missing
  <1> QED
    BY <1>1 DEF AllMissing, MissingPairs

(* However turns interleave, what the turns since the last clear have come *)
(* to save and is not in the table is no more than there were failed       *)
(* INSERTs and crashes: persist_messages ignores an error, but goes on.    *)
(* Without faults a turn is stored wholly or not at all, but for what a    *)
(* clear in the middle has taken.                                          *)
THEOREM StoredWhole == Spec => []AllOrNothing
  <1>1. IInv /\ Whole /\ FewLost => AllOrNothing
    BY PairsAreAll DEF IInv, Whole, FewLost, AllOrNothing
  <1> QED
    BY Invariant, WholeKept, FewLostKept, <1>1, PTL
-----------------------------------------------------------------------------
(* Nothing missing in between.  While nothing fails, what is in the table  *)
(* of a turn is in a row of positions, and what a turn has loaded is the   *)
(* end of a table that held nothing of its own.                            *)
EachWhole ==
    faults = 0 => \A t \in Turn : turn[t].pc = "llm" =>
        /\ NoneBetweenMissing(turn[t].loaded)
        /\ \A k \in 1..Len(turn[t].loaded) : turn[t].loaded[k].turn # t

LEMMA TableIsWhole ==
  ASSUME IInv, Whole, faults = 0
  PROVE  NoneBetweenMissing(messages)
  <1> SUFFICES ASSUME NEW i \in 1..Len(messages), NEW j \in 1..Len(messages),
                      i < j, messages[i].turn = messages[j].turn
               PROVE  \E k \in i..(j - 1) : Follows(messages[k], messages[j])
    BY DEF NoneBetweenMissing
  <1> DEFINE u == messages[i].turn
             p == messages[i].position
             q == messages[j].position
  <1>1. u \in Turn /\ p \in Nat /\ q \in Nat /\ messages[j].turn = u
    BY RowTurns DEF IInv
  <1>2. p < q
    BY DEF IInv, StoredInOrder
  <1>3. p \in Stored(u) /\ q \in Stored(u)
    BY DEF Stored
  <1> HIDE DEF u, p, q
  <1>4. \E n \in Nat : SuffixUpTo(Stored(u), n)
    <2>1. turn[u].pc \in {"done", "persist"}
      BY <1>1, <1>3 DEF Whole, WholeOrNot
    <2>2. SuffixUpTo(Stored(u), Len(turn[u].new)) \/ SuffixUpTo(Stored(u), turn[u].saved)
      BY <1>1, <2>1 DEF Whole, WholeOrNot
    <2> QED
      BY <1>1, <2>2, LocalFields DEF IInv
  <1>5. q - 1 \in Stored(u)
    <2>1. PICK n \in Nat : \E first \in 1..(n + 1) : Stored(u) = first..n
      BY <1>4 DEF SuffixUpTo
    <2>2. PICK first \in 1..(n + 1) : Stored(u) = first..n
      BY <2>1
    <2> QED
      BY <1>1, <1>2, <1>3, <2>2
  <1>6. PICK k \in 1..Len(messages) : messages[k].turn = u /\ messages[k].position = q - 1
    BY <1>5 DEF Stored
  <1>7. Len(messages) \in Nat
    BY DEF IInv, TypeOK
  <1>8. ~(j < k) /\ k # j
    BY <1>1, <1>6 DEF IInv, StoredInOrder, q
  <1>9. ~(k < i)
    BY <1>1, <1>2, <1>6 DEF IInv, StoredInOrder, p, u
  <1>10. k \in i..(j - 1)
    BY <1>6, <1>7, <1>8, <1>9
  <1>11. Follows(messages[k], messages[j])
    <2>1. messages[j].turn = messages[k].turn
      BY <1>1, <1>6
    <2>2. messages[j].position = messages[k].position + 1
      BY <1>1, <1>6 DEF q
    <2> QED
      BY <2>1, <2>2 DEF Follows
  <1> QED
    BY <1>10, <1>11

(* The history loaded is the end of the table.                             *)
LEMMA LoadedRows ==
  ASSUME TypeOK
  PROVE  \E from \in 1..(Len(messages) + 1) :
             /\ Len(LoadedMessages) = Len(messages) - from + 1
             /\ \A i \in 1..Len(LoadedMessages) :
                    LoadedMessages[i] = messages[from + i - 1]
  <1> DEFINE n == Len(messages)
             from == IF n > Window THEN n - Window + 1 ELSE 1
             l == SubSeq(messages, from, n)
  <1>1. messages \in Seq(Message) /\ n \in Nat /\ Window \in Nat \ {0}
    BY WindowAssumption DEF TypeOK
  <1>2. from \in 1..(n + 1)
    BY <1>1
  <1>3. \A i \in from..n : messages[i] \in Message
    BY <1>1, <1>2
  <1>4. /\ Len(l) = IF from <= n THEN n - from + 1 ELSE 0
        /\ \A i \in 1..(n - from + 1) : l[i] = messages[from + i - 1]
    BY <1>1, <1>2, <1>3, SubSeqProperties
  <1>5. l = LoadedMessages
    BY DEF LoadedMessages
  <1> HIDE DEF from, l
  <1>6. Len(l) = n - from + 1
    BY <1>1, <1>2, <1>4
  <1> QED
    BY <1>2, <1>4, <1>5, <1>6

LEMMA LoadedIsWhole ==
  ASSUME IInv, Whole, faults = 0, NEW t \in Turn, turn[t].pc \in {"idle", "tools"}
  PROVE  /\ NoneBetweenMissing(LoadedMessages)
         /\ \A k \in 1..Len(LoadedMessages) : LoadedMessages[k].turn # t
  <1> DEFINE l == LoadedMessages
             n == Len(messages)
  <1>1. PICK from \in 1..(n + 1) : /\ Len(l) = n - from + 1
                                  /\ \A i \in 1..Len(l) : l[i] = messages[from + i - 1]
    BY LoadedRows DEF IInv
  <1>2. n \in Nat
    BY DEF IInv, TypeOK
  <1> HIDE DEF l, n
  <1>3. \A i \in 1..Len(l) : from + i - 1 \in 1..n
    BY <1>1, <1>2
  <1>4. NoneBetweenMissing(l)
    <2> SUFFICES ASSUME NEW i \in 1..Len(l), NEW j \in 1..Len(l), i < j,
                        l[i].turn = l[j].turn
                 PROVE  \E k \in i..(j - 1) : Follows(l[k], l[j])
      BY DEF NoneBetweenMissing
    <2> DEFINE a == from + i - 1
               b == from + j - 1
    <2>1. a \in 1..n /\ b \in 1..n /\ a < b /\ l[i] = messages[a] /\ l[j] = messages[b]
      BY <1>1, <1>2, <1>3
    <2>2. NoneBetweenMissing(messages)
      BY TableIsWhole
    <2> HIDE DEF a, b
    <2>3. PICK k \in a..(b - 1) : Follows(messages[k], messages[b])
      BY <2>1, <2>2 DEF NoneBetweenMissing, n
    <2>4. k - from + 1 \in i..(j - 1) /\ k - from + 1 \in 1..Len(l)
          /\ from + (k - from + 1) - 1 = k
      BY <1>1, <1>2, <2>1 DEF a, b
    <2>5. l[k - from + 1] = messages[k]
      BY <1>1, <2>4
    <2> QED
      BY <2>1, <2>3, <2>4, <2>5
  <1>5. ASSUME NEW k \in 1..Len(l) PROVE l[k].turn # t
    <2>1. from + k - 1 \in 1..Len(messages) /\ l[k] = messages[from + k - 1]
      BY <1>1, <1>3 DEF n
    <2>2. turn[messages[from + k - 1].turn].pc \in {"persist", "done", "failed"}
      BY <2>1 DEF IInv, RowsPassed
    <2> QED
      BY <2>1, <2>2
  <1> QED
    BY <1>4, <1>5 DEF l

(* A step that loads, if at all, from the table.                           *)
LEMMA WholeStep ==
  ASSUME IInv, Whole, EachWhole, faults' = 0 => faults = 0,
         \A t \in Turn : turn'[t].pc = "llm" =>
             \/ turn[t].pc = "llm" /\ turn'[t].loaded = turn[t].loaded
             \/ turn[t].pc \in {"idle", "tools"} /\ turn'[t].loaded = LoadedMessages
  PROVE  EachWhole'
  <1> SUFFICES ASSUME faults' = 0, NEW t \in Turn, turn'[t].pc = "llm"
               PROVE  /\ NoneBetweenMissing(turn'[t].loaded)
                      /\ \A k \in 1..Len(turn'[t].loaded) : turn'[t].loaded[k].turn # t
    BY DEF EachWhole
  <1>1. CASE turn[t].pc = "llm" /\ turn'[t].loaded = turn[t].loaded
    BY <1>1 DEF EachWhole
  <1>2. CASE turn[t].pc \in {"idle", "tools"} /\ turn'[t].loaded = LoadedMessages
    BY <1>2, LoadedIsWhole
  <1> QED
    BY <1>1, <1>2

LEMMA StepIsWhole ==
  ASSUME IInv, Whole, EachWhole, [Next]_vars
  PROVE  EachWhole'
  <1>0. TypeOK /\ turn \in [Turn -> LocalState]
    BY DEF IInv, TypeOK
  <1>1. ASSUME NEW t \in Turn, Starts(t) \/ ToolsReturn(t) PROVE EachWhole'
    <2>1. faults' = faults
      BY <1>1 DEF Starts, ToolsReturn
    <2>2. turn[t].pc \in {"idle", "tools"} /\ turn'[t].loaded = LoadedMessages
      BY <1>0, <1>1 DEF Starts, ToolsReturn, LocalState
    <2>3. \A u \in Turn \ {t} : turn'[u] = turn[u]
      BY <1>0, <1>1 DEF Starts, ToolsReturn
    <2> QED
      BY <2>1, <2>2, <2>3, WholeStep
  <1>2. ASSUME NEW t \in Turn, NEW l, NEW kinds, LlmReturns(t, l, kinds)
        PROVE  EachWhole'
    <2>1. faults' = faults /\ turn[t].pc = "llm"
      BY <1>2 DEF LlmReturns
    <2>2. turn'[t].loaded = turn[t].loaded
      BY <1>0, <1>2 DEF LlmReturns, LocalState
    <2>3. \A u \in Turn \ {t} : turn'[u] = turn[u]
      BY <1>0, <1>2 DEF LlmReturns
    <2> QED
      BY <2>1, <2>2, <2>3, WholeStep
  <1>3. ASSUME NEW t \in Turn, LlmAnswers(t) \/ LlmIsContinued(t) \/ LlmCallsTools(t)
        PROVE  EachWhole'
    BY <1>2, <1>3, Outcomes
  <1>4. ASSUME NEW t \in Turn, LlmFails(t) PROVE EachWhole'
    <2>1. faults' = faults /\ turn' = [turn EXCEPT ![t] = Ended(t, "failed")]
      BY <1>4 DEF LlmFails
    <2>2. Ended(t, "failed").pc = "failed"
      BY <1>0, EndedType
    <2>3. turn'[t].pc = "failed" /\ \A u \in Turn \ {t} : turn'[u] = turn[u]
      BY <1>0, <2>1, <2>2
    <2> QED
      BY <2>1, <2>3, WholeStep
  <1>5. ASSUME NEW t \in Turn, Inserts(t) \/ InsertFails(t) PROVE EachWhole'
    <2>1. turn[t].pc = "persist" /\ AfterInsert(t) /\ (faults' = 0 => faults = 0)
      BY <1>0, <1>5 DEF Inserts, InsertFails, TypeOK
    <2>2. turn'[t].pc \in {"persist", "done"} /\ \A u \in Turn \ {t} : turn'[u] = turn[u]
      BY <2>1, PassOfLoop
    <2> QED
      BY <2>1, <2>2, WholeStep
  <1>6. CASE Clear \/ UNCHANGED vars
    BY <1>6, WholeStep DEF Clear, vars
  <1>7. CASE Crash
    <2>1. faults' # 0
      BY <1>0, <1>7 DEF Crash, TypeOK
    <2> QED
      BY <2>1 DEF EachWhole
  <1> QED
    BY <1>1, <1>3, <1>4, <1>5, <1>6, <1>7 DEF Next, TurnStep

-----------------------------------------------------------------------------
(* Calm requests.  What a turn says has a shape of its own, whatever the   *)
(* others do; while turns come one after the other the table is a row of   *)
(* such turns, of which the last one may be under way; and what a request  *)
(* takes from the table fits in front of what its turn says.               *)
Said(new, p) ==
    /\ Len(new) > 0
    /\ \A k \in 1..Len(new) : new[k] \in {"text", "results"} <=> k % 2 = 1
    /\ \A k \in 1..Len(new) : new[k] = "results" => k > 1 /\ new[k - 1] = "tool_use"
    /\ \A k \in 1..Len(new) : new[k] = "tool_use" =>
           IF k < Len(new) THEN new[k + 1] = "results" ELSE p = "tools"
    /\ p = "llm" => Len(new) % 2 = 1
    /\ p = "tools" => Len(new) % 2 = 0 /\ new[Len(new)] = "tool_use"
    /\ p = "persist" => Len(new) % 2 = 0

EachSaid == \A t \in Active : Said(turn[t].new, turn[t].pc)

OneActive == \A t, u \in Active : t = u

(* A request of such turns: only a response that stopped for tools is      *)
(* followed by results.                                                    *)
WellFormed(c) ==
    /\ \A k \in 1..Len(c) : FromUser(c[k]) <=> k % 2 = 1
    /\ \A k \in 1..Len(c) : c[k].kind = "tool_use" =>
           k < Len(c) /\ c[k + 1].kind = "results" /\ Follows(c[k], c[k + 1])
    /\ \A k \in 2..Len(c) : c[k].kind = "results" =>
           c[k - 1].kind = "tool_use" /\ Follows(c[k - 1], c[k])

LEMMA UnmetOnly ==
  ASSUME NEW c, Len(c) \in Nat, WellFormed(c)
  PROVE  /\ RolesAlternate(c)
         /\ CallsMet(c) <=> \A k \in 1..Len(c) : c[k].kind # "unmet"
  <1>1. RolesAlternate(c)
    BY DEF WellFormed, RolesAlternate
  <1>2. ASSUME \A k \in 1..Len(c) : c[k].kind # "unmet" PROVE CallsMet(c)
    BY <1>2 DEF WellFormed, CallsMet, HasCalls
  <1>3. ASSUME CallsMet(c), NEW k \in 1..Len(c), c[k].kind = "unmet" PROVE FALSE
    <2>1. k < Len(c) /\ c[k + 1].kind = "results"
      BY <1>3 DEF CallsMet, HasCalls
    <2>2. k + 1 \in 2..Len(c) /\ (k + 1) - 1 = k
      BY <2>1
    <2> QED
      BY <1>3, <2>1, <2>2 DEF WellFormed
  <1> QED
    BY <1>1, <1>2, <1>3

Paired(c) ==
    /\ \A k \in 1..Len(c) : FromUser(c[k]) <=> k % 2 = 1
    /\ \A k \in 1..Len(c) : c[k].kind = "tool_use" /\ k < Len(c) =>
           c[k + 1].kind = "results" /\ Follows(c[k], c[k + 1])
    /\ \A k \in 1..Len(c) : c[k].kind = "results" =>
           k > 1 /\ c[k - 1].kind = "tool_use" /\ Follows(c[k - 1], c[k])

EndsWhole(c) == Len(c) % 2 = 0 /\ (Len(c) > 0 => c[Len(c)].kind # "tool_use")

Storing(t) == turn[t].pc = "persist" /\ turn[t].saved > 0

TableEnd ==
    /\ (\A t \in Turn : ~Storing(t)) => EndsWhole(messages)
    /\ \A t \in Turn : Storing(t) =>
           /\ Len(messages) > 0 /\ Len(messages) % 2 = turn[t].saved % 2
           /\ messages[Len(messages)] = Persisted(t)[turn[t].saved]

Fits(l) ==
    /\ Len(l) % 2 = 0 /\ WellFormed(l)
    /\ Len(l) > 0 /\ l[1].kind = "results" => Len(l) = Window

EachFits == \A t \in Turn : turn[t].pc = "llm" => Fits(turn[t].loaded)

Calmly ==
    /\ EachSaid
    /\ calm /\ faults = 0 => OneActive /\ Paired(messages) /\ TableEnd /\ EachFits

LEMMA Parity ==
  ASSUME NEW n \in Nat
  PROVE  /\ n % 2 \in {0, 1} /\ (n % 2 = 0 <=> (n + 1) % 2 = 1)
         /\ (n % 2 = 1 <=> (n + 1) % 2 = 0)
  OBVIOUS

(* One message more of a turn.                                             *)
LEMMA SaysMore ==
  ASSUME NEW new \in Seq(Kind), NEW p, NEW q, NEW e \in Kind, Said(new, p),
         \/ p = "llm" /\ e \in {"answer", "unmet"} /\ q = "persist"
         \/ p = "llm" /\ e = "tool_use" /\ q = "tools"
         \/ p = "tools" /\ e = "results" /\ q = "llm"
         \/ p = "persist" /\ e = "text" /\ q = "llm"
  PROVE  Said(Append(new, e), q)
  <1> DEFINE r == Append(new, e)
             n == Len(new)
  <1>1. /\ n \in Nat /\ n > 0 /\ Len(r) = n + 1 /\ r[n + 1] = e
        /\ \A k \in 1..n : r[k] = new[k] /\ new[k] \in Kind
        /\ \A k \in 1..(n + 1) : k = n + 1 \/ k \in 1..n
    BY DEF Said
  <1>2. /\ n % 2 \in {0, 1} /\ (n % 2 = 0 <=> (n + 1) % 2 = 1)
        /\ (n % 2 = 1 <=> (n + 1) % 2 = 0)
    BY <1>1, Parity
  <1>3. /\ \A k \in 1..n : new[k] \in {"text", "results"} <=> k % 2 = 1
        /\ \A k \in 1..n : new[k] = "results" => k > 1 /\ new[k - 1] = "tool_use"
        /\ \A k \in 1..n : new[k] = "tool_use" =>
               IF k < n THEN new[k + 1] = "results" ELSE p = "tools"
        /\ p = "llm" => n % 2 = 1
        /\ p = "tools" => n % 2 = 0 /\ new[n] = "tool_use"
        /\ p = "persist" => n % 2 = 0
    BY DEF Said
  <1> HIDE DEF r, n
  <1>4. \A k \in 1..(n + 1) : r[k] \in {"text", "results"} <=> k % 2 = 1
    <2> SUFFICES ASSUME NEW k \in 1..(n + 1)
                 PROVE  r[k] \in {"text", "results"} <=> k % 2 = 1
      OBVIOUS
    <2>1. CASE k = n + 1
      BY <1>1, <1>2, <1>3, <2>1
    <2>2. CASE k \in 1..n
      BY <1>1, <1>3, <2>2
    <2> QED
      BY <1>1, <2>1, <2>2
  <1>5. \A k \in 1..(n + 1) : r[k] = "results" => k > 1 /\ r[k - 1] = "tool_use"
    <2> SUFFICES ASSUME NEW k \in 1..(n + 1), r[k] = "results"
                 PROVE  k > 1 /\ r[k - 1] = "tool_use"
      OBVIOUS
    <2>1. CASE k = n + 1
      <3>1. e = "results" /\ new[n] = "tool_use"
        BY <1>1, <1>3, <2>1
      <3>2. k > 1 /\ k - 1 = n /\ n \in 1..n
        BY <1>1, <2>1
      <3> QED
        BY <1>1, <3>1, <3>2
    <2>2. CASE k \in 1..n
      <3>1. k > 1 /\ new[k - 1] = "tool_use"
        BY <1>1, <1>3, <2>2
      <3>2. k - 1 \in 1..n
        BY <1>1, <2>2, <3>1
      <3> QED
        BY <1>1, <3>1, <3>2
    <2> QED
      BY <1>1, <2>1, <2>2
  <1>6. \A k \in 1..(n + 1) : r[k] = "tool_use" =>
            IF k < n + 1 THEN r[k + 1] = "results" ELSE q = "tools"
    <2> SUFFICES ASSUME NEW k \in 1..(n + 1), r[k] = "tool_use"
                 PROVE  IF k < n + 1 THEN r[k + 1] = "results" ELSE q = "tools"
      OBVIOUS
    <2>1. CASE k = n + 1
      BY <1>1, <2>1
    <2>2. CASE k \in 1..n /\ k < n
      <3>1. new[k + 1] = "results" /\ k + 1 \in 1..n
        BY <1>1, <1>3, <2>2
      <3> QED
        BY <1>1, <2>2, <3>1
    <2>3. CASE k = n
      <3>1. n \in 1..n /\ p = "tools"
        BY <1>1, <1>3, <2>3
      <3> QED
        BY <1>1, <2>3, <3>1
    <2> QED
      BY <1>1, <2>1, <2>2, <2>3
  <1> QED
    BY <1>1, <1>2, <1>3, <1>4, <1>5, <1>6 DEF Said, r

LEMMA FirstSaid == Said(<<"text">>, "llm")
  <1>1. 1 % 2 = 1
    OBVIOUS
  <1>2. Len(<<"text">>) = 1 /\ <<"text">>[1] = "text" /\ \A k \in 1..1 : k = 1
    OBVIOUS
  <1> DEFINE s == <<"text">>
  <1> HIDE DEF s
  <1>3. Len(s) = 1 /\ s[1] = "text"
    BY <1>2 DEF s
  <1>4. Said(s, "llm")
    BY <1>1, <1>2, <1>3 DEF Said
  <1> QED
    BY <1>4 DEF s

LEMMA PersistedKinds ==
  ASSUME TypeOK, NEW t \in Turn, NEW k \in 1..Len(turn[t].new)
  PROVE  Persisted(t)[k].kind = turn[t].new[k]
  <1>1. Len(turn[t].new) \in Nat
    BY DEF TypeOK, LocalState
  <1>2. Len(turn[t].new) - 1 + 1 = Len(turn[t].new) /\ 1 + k - 1 = k
    BY <1>1
  <1> QED
    BY <1>2 DEF Persisted, New, Rows

LEMMA EvenSum ==
  ASSUME NEW a \in Nat, NEW b \in Nat, a % 2 = 0
  PROVE  (a + b) % 2 = b % 2
  OBVIOUS

LEMMA EvenDifference ==
  ASSUME NEW a \in Nat, NEW b \in Nat, a % 2 = 0, b % 2 = 0, b <= a
  PROVE  (a - b) % 2 = 0
  OBVIOUS

-----------------------------------------------------------------------------
(* The last Window messages of a table of whole turns begin at an odd row. *)
LEMMA LoadedFits ==
  ASSUME TypeOK, Paired(messages), EndsWhole(messages)
  PROVE  Fits(LoadedMessages)
  <1> DEFINE n == Len(messages)
             from == IF n > Window THEN n - Window + 1 ELSE 1
             l == SubSeq(messages, from, n)
  <1>1. messages \in Seq(Message) /\ n \in Nat /\ Window \in Nat \ {0}
        /\ Window % 2 = 0 /\ n % 2 = 0
    BY WindowAssumption DEF TypeOK, EndsWhole
  <1>2. from \in 1..(n + 1) /\ n - from + 1 <= Window /\ from \in Nat
    BY <1>1
  <1>3. \A i \in from..n : messages[i] \in Message
    BY <1>1, <1>2
  <1>4. /\ Len(l) = IF from <= n THEN n - from + 1 ELSE 0
        /\ \A i \in 1..(n - from + 1) : l[i] = messages[from + i - 1]
    BY <1>1, <1>2, <1>3, SubSeqProperties
  <1>5. from - 1 \in Nat /\ (from - 1) % 2 = 0
    <2>1. CASE n > Window
      <3>1. (n - Window) % 2 = 0 /\ from - 1 = n - Window /\ n - Window \in Nat
        BY <1>1, <2>1, EvenDifference
      <3> HIDE DEF from
      <3> QED
        BY <3>1
    <2>2. CASE ~(n > Window)
      <3>1. from - 1 = 0 /\ 0 % 2 = 0
        BY <2>2
      <3> HIDE DEF from
      <3> QED
        BY <3>1
    <2> QED
      BY <2>1, <2>2
  <1>6. from > 1 => n - from + 1 = Window
    BY <1>1
  <1> HIDE DEF from, l
  <1>7. Len(l) = n - from + 1 /\ Len(l) \in Nat /\ Len(l) % 2 = 0
    <2> HIDE DEF n
    <2>1. Len(l) = n - from + 1 /\ Len(l) \in Nat
      <3>1. CASE from <= n
        BY <1>1, <1>2, <1>4, <3>1
      <3>2. CASE ~(from <= n)
        <4>1. from = n + 1 /\ Len(l) = 0
          BY <1>1, <1>2, <1>4, <3>2
        <4> QED
          BY <1>1, <4>1
      <3> QED
        BY <3>1, <3>2
    <2>2. n - from + 1 = n - (from - 1) /\ from - 1 <= n
      BY <1>1, <1>2
    <2>3. (n - (from - 1)) % 2 = 0
      BY <1>1, <1>5, <2>2, EvenDifference
    <2> QED
      BY <2>1, <2>2, <2>3
  <1>8. \A i \in 1..Len(l) : /\ l[i] = messages[from + i - 1]
                             /\ from + i - 1 \in 1..n
                             /\ (from + i - 1) % 2 = i % 2
    <2> SUFFICES ASSUME NEW i \in 1..Len(l)
                 PROVE  /\ l[i] = messages[from + i - 1]
                        /\ from + i - 1 \in 1..n
                        /\ (from + i - 1) % 2 = i % 2
      OBVIOUS
    <2> HIDE DEF n
    <2>0. i \in 1..(n - from + 1)
      BY <1>7
    <2>1. l[i] = messages[from + i - 1] /\ from + i - 1 \in 1..n
      BY <1>1, <1>2, <1>4, <2>0
    <2>2. ((from - 1) + i) % 2 = i % 2
      BY <1>5, <1>7, EvenSum
    <2>3. (from - 1) + i = from + i - 1
      BY <1>2
    <2> QED
      BY <2>1, <2>2, <2>3
  <1>9. /\ \A k \in 1..n : FromUser(messages[k]) <=> k % 2 = 1
        /\ \A k \in 1..n : messages[k].kind = "tool_use" /\ k < n =>
              messages[k + 1].kind = "results" /\ Follows(messages[k], messages[k + 1])
        /\ \A k \in 1..n : messages[k].kind = "results" =>
              k > 1 /\ messages[k - 1].kind = "tool_use"
                /\ Follows(messages[k - 1], messages[k])
        /\ n > 0 => messages[n].kind # "tool_use"
    BY DEF Paired, EndsWhole
  <1> HIDE DEF n
  <1>10. \A k \in 1..Len(l) : FromUser(l[k]) <=> k % 2 = 1
    BY <1>8, <1>9
  <1>11. ASSUME NEW k \in 1..Len(l), l[k].kind = "tool_use"
         PROVE  k < Len(l) /\ l[k + 1].kind = "results" /\ Follows(l[k], l[k + 1])
    <2> DEFINE i == from + k - 1
    <2>1. i \in 1..n /\ l[k] = messages[i]
      BY <1>8
    <2>2. i # n
      BY <1>1, <1>9, <1>11, <2>1
    <2>3. i < n /\ k < Len(l) /\ k + 1 \in 1..Len(l) /\ from + (k + 1) - 1 = i + 1
      BY <1>1, <1>2, <1>7, <2>1, <2>2
    <2>4. l[k + 1] = messages[from + (k + 1) - 1]
      BY <1>8, <2>3
    <2> HIDE DEF i
    <2>5. l[k + 1] = messages[i + 1]
      BY <2>3, <2>4
    <2>6. messages[i + 1].kind = "results" /\ Follows(messages[i], messages[i + 1])
      BY <1>9, <1>11, <2>1, <2>3
    <2> QED
      BY <2>1, <2>3, <2>5, <2>6
  <1>12. ASSUME NEW k \in 2..Len(l), l[k].kind = "results"
         PROVE  l[k - 1].kind = "tool_use" /\ Follows(l[k - 1], l[k])
    <2> DEFINE i == from + k - 1
    <2>1. k \in 1..Len(l) /\ k - 1 \in 1..Len(l) /\ from + (k - 1) - 1 = i - 1
      BY <1>2, <1>7
    <2>2. i \in 1..n /\ l[k] = messages[i]
      BY <1>8, <2>1
    <2>3. l[k - 1] = messages[from + (k - 1) - 1]
      BY <1>8, <2>1
    <2> HIDE DEF i
    <2>4. l[k - 1] = messages[i - 1]
      BY <2>1, <2>3
    <2>5. messages[i - 1].kind = "tool_use" /\ Follows(messages[i - 1], messages[i])
      BY <1>9, <1>12, <2>2
    <2> QED
      BY <2>2, <2>4, <2>5
  <1>13. ASSUME Len(l) > 0, l[1].kind = "results" PROVE Len(l) = Window
    <2>1. l[1] = messages[from + 1 - 1] /\ from + 1 - 1 = from /\ from \in 1..n
      <3>1. 1 \in 1..Len(l) /\ from + 1 - 1 = from
        BY <1>2, <1>7, <1>13
      <3> QED
        BY <1>8, <3>1
    <2>2. from > 1
      BY <1>9, <1>13, <2>1
    <2> QED
      BY <1>6, <1>7, <2>2
  <1> QED
    BY <1>7, <1>10, <1>11, <1>12, <1>13 DEF Fits, WellFormed, LoadedMessages, l, from, n

LEMMA Appended ==
  ASSUME NEW a \in Seq(Message), NEW b \in Seq(Message)
  PROVE  /\ Len(a \o b) = Len(a) + Len(b)
         /\ \A k \in 1..Len(a) : (a \o b)[k] = a[k]
         /\ \A k \in 1..Len(b) : (a \o b)[Len(a) + k] = b[k]
  OBVIOUS

(* What fits and what is said make a request.                              *)
LEMMA RequestFits ==
  ASSUME TypeOK, NEW t \in Turn, turn[t].pc = "llm",
         Said(turn[t].new, "llm"), Fits(turn[t].loaded)
  PROVE  /\ WellFormed(Sent(t)) /\ Len(Sent(t)) \in Nat
         /\ Sent(t)[1].kind = "results" => Len(turn[t].loaded) = Window
  <1> DEFINE l == turn[t].loaded
             s == Persisted(t)
             c == l \o s
             m == Len(l)
             n == Len(turn[t].new)
  <1>1. /\ l \in Seq(Message) /\ m \in Nat /\ m % 2 = 0
        /\ n \in Nat /\ n > 0 /\ Len(s) = n
        /\ \A k \in 1..n : /\ s[k] \in Message /\ s[k].turn = t /\ s[k].position = k
                           /\ s[k].kind = turn[t].new[k]
    <2>1. l \in Seq(Message) /\ n \in Nat
      BY DEF TypeOK, LocalState
    <2>2. n > 0 /\ m % 2 = 0
      BY DEF Said, Fits
    <2>3. /\ Len(s) = n
          /\ \A k \in 1..n : s[k] \in Message /\ s[k].turn = t /\ s[k].position = k
      BY PersistedRows
    <2>4. \A k \in 1..n : s[k].kind = turn[t].new[k]
      BY PersistedKinds
    <2> HIDE DEF s, l
    <2>5. m \in Nat
      BY <2>1
    <2> QED
      BY <2>1, <2>2, <2>3, <2>4, <2>5
  <1>2. s = [k \in 1..n |-> s[k]]
    <2>1. n - 1 + 1 = n
      BY <1>1
    <2> QED
      BY <2>1 DEF Persisted, New, Rows
  <1> HIDE DEF s, l
  <1>3. s \in Seq(Message)
    <2>1. [k \in 1..n |-> s[k]] \in Seq(Message)
      BY <1>1
    <2> QED
      BY <1>2, <2>1
  <1>4. /\ Len(c) = m + n
        /\ \A k \in 1..m : c[k] = l[k]
        /\ \A k \in 1..n : c[m + k] = s[k]
    <2>1. l \in Seq(Message) /\ Len(s) = n
      BY <1>1
    <2>2. /\ Len(c) = m + Len(s)
          /\ \A k \in 1..m : c[k] = l[k]
          /\ \A k \in 1..Len(s) : c[m + k] = s[k]
      BY <1>3, <2>1, Appended, Zenon
    <2> HIDE DEF c, m, n
    <2> QED
      BY <2>1, <2>2, Zenon
  <1>5. \A k \in 1..(m + n) : k \in 1..m \/ (k - m \in 1..n /\ m + (k - m) = k)
    BY <1>1
  <1>6. /\ \A k \in 1..m : FromUser(l[k]) <=> k % 2 = 1
        /\ \A k \in 1..m : l[k].kind = "tool_use" =>
              k < m /\ l[k + 1].kind = "results" /\ Follows(l[k], l[k + 1])
        /\ \A k \in 2..m : l[k].kind = "results" =>
              l[k - 1].kind = "tool_use" /\ Follows(l[k - 1], l[k])
        /\ m > 0 /\ l[1].kind = "results" => m = Window
    BY DEF Fits, WellFormed, l
  <1>7. /\ \A k \in 1..n : s[k].kind \in {"text", "results"} <=> k % 2 = 1
        /\ \A k \in 1..n : s[k].kind = "results" => k > 1 /\ s[k - 1].kind = "tool_use"
        /\ \A k \in 1..n : s[k].kind = "tool_use" => k < n /\ s[k + 1].kind = "results"
    <2>1. ASSUME NEW k \in 1..n, s[k].kind = "results"
          PROVE  k > 1 /\ s[k - 1].kind = "tool_use"
      <3>1. k > 1 /\ turn[t].new[k - 1] = "tool_use"
        BY <1>1, <2>1 DEF Said
      <3>2. k - 1 \in 1..n
        BY <1>1, <3>1
      <3> QED
        BY <1>1, <3>1, <3>2
    <2>2. ASSUME NEW k \in 1..n, s[k].kind = "tool_use"
          PROVE  k < n /\ s[k + 1].kind = "results"
      <3>1. k < n /\ turn[t].new[k + 1] = "results"
        BY <1>1, <2>2 DEF Said
      <3>2. k + 1 \in 1..n
        BY <1>1, <3>1
      <3> QED
        BY <1>1, <3>1, <3>2
    <2>3. \A k \in 1..n : s[k].kind \in {"text", "results"} <=> k % 2 = 1
      BY <1>1 DEF Said
    <2> QED
      BY <2>1, <2>2, <2>3
  <1>8. \A k \in 1..(n - 1) : Follows(s[k], s[k + 1])
    BY <1>1 DEF Follows
  <1>9. \A k \in 1..n : (m + k) % 2 = k % 2
    BY <1>1
  <1> HIDE DEF c, m, n
  <1>10. ASSUME NEW k \in 1..(m + n) PROVE FromUser(c[k]) <=> k % 2 = 1
    <2>1. CASE k \in 1..m
      BY <1>4, <1>6, <2>1
    <2>2. CASE k - m \in 1..n /\ m + (k - m) = k
      <3>1. c[k] = s[k - m] /\ k % 2 = (k - m) % 2
        BY <1>4, <1>9, <2>2
      <3> QED
        BY <1>7, <2>2, <3>1 DEF FromUser
    <2> QED
      BY <1>5, <2>1, <2>2
  <1>11. ASSUME NEW k \in 1..(m + n), c[k].kind = "tool_use"
         PROVE  k < m + n /\ c[k + 1].kind = "results" /\ Follows(c[k], c[k + 1])
    <2>1. CASE k \in 1..m
      <3>1. k < m /\ l[k + 1].kind = "results" /\ Follows(l[k], l[k + 1])
        BY <1>4, <1>6, <1>11, <2>1
      <3>2. k + 1 \in 1..m
        BY <1>1, <2>1, <3>1
      <3> QED
        BY <1>1, <1>4, <2>1, <3>1, <3>2
    <2>2. CASE k - m \in 1..n /\ m + (k - m) = k
      <3>1. c[k] = s[k - m]
        BY <1>4, <2>2
      <3>2. k - m < n /\ s[(k - m) + 1].kind = "results"
        BY <1>7, <1>11, <2>2, <3>1
      <3>3. k - m \in 1..(n - 1) /\ (k - m) + 1 \in 1..n /\ m + ((k - m) + 1) = k + 1
            /\ k < m + n
        BY <1>1, <2>2, <3>2
      <3>4. c[k + 1] = s[(k - m) + 1]
        BY <1>4, <3>3
      <3> QED
        BY <1>8, <3>1, <3>2, <3>3, <3>4
    <2> QED
      BY <1>5, <2>1, <2>2
  <1>12. ASSUME NEW k \in 2..(m + n), c[k].kind = "results"
         PROVE  c[k - 1].kind = "tool_use" /\ Follows(c[k - 1], c[k])
    <2>0. k \in 1..(m + n)
      BY <1>1
    <2>1. CASE k \in 1..m
      <3>1. k \in 2..m /\ k - 1 \in 1..m
        BY <1>1, <2>1
      <3> QED
        BY <1>4, <1>6, <1>12, <2>1, <3>1
    <2>2. CASE k - m \in 1..n /\ m + (k - m) = k
      <3>1. c[k] = s[k - m]
        BY <1>4, <2>2
      <3>2. k - m > 1 /\ s[(k - m) - 1].kind = "tool_use"
        BY <1>7, <1>12, <2>2, <3>1
      <3>3. /\ (k - m) - 1 \in 1..(n - 1) /\ (k - m) - 1 \in 1..n
            /\ m + ((k - m) - 1) = k - 1 /\ ((k - m) - 1) + 1 = k - m
        BY <1>1, <2>2, <3>2
      <3>4. c[k - 1] = s[(k - m) - 1]
        BY <1>4, <3>3
      <3>5. Follows(s[(k - m) - 1], s[k - m])
        BY <1>8, <3>3
      <3> QED
        BY <3>1, <3>2, <3>4, <3>5
    <2> QED
      BY <1>5, <2>0, <2>1, <2>2
  <1>13. ASSUME c[1].kind = "results" PROVE m = Window
    <2>1. CASE m = 0
      <3>1. 1 \in 1..n /\ m + 1 = 1
        BY <1>1, <2>1
      <3>2. c[1] = s[1] /\ s[1].kind # "results"
        BY <1>4, <1>7, <3>1
      <3> QED
        BY <1>13, <3>2
    <2>2. CASE m > 0
      BY <1>1, <1>4, <1>6, <1>13, <2>2
    <2> QED
      BY <1>1, <2>1, <2>2
  <1>14. Sent(t) = c
    BY DEF Sent, Persisted, c, l, s
  <1>15. WellFormed(c)
    BY <1>4, <1>10, <1>11, <1>12 DEF WellFormed
  <1>16. Len(c) \in Nat
    BY <1>1, <1>4
  <1> QED
    BY <1>13, <1>14, <1>15, <1>16 DEF m, l

-----------------------------------------------------------------------------
Stepping == {"llm", "tools", "persist"}

LEMMA ActiveTurns ==
  /\ \A t \in Turn : t \in Active <=> turn[t].pc \in Stepping
  /\ \A t \in Turn : (t \in Active)' <=> turn'[t].pc \in Stepping
  BY DEF Active, Stepping

LEMMA SaidStep ==
  ASSUME TypeOK, EachSaid, NEW t \in Turn,
         \A u \in Turn \ {t} : turn'[u] = turn[u],
         turn'[t].pc \in Stepping => Said(turn'[t].new, turn'[t].pc)
  PROVE  EachSaid'
  <1> SUFFICES ASSUME NEW u \in Turn, turn'[u].pc \in Stepping
               PROVE  Said(turn'[u].new, turn'[u].pc)
    BY DEF EachSaid, Active, Stepping
  <1>1. CASE u = t
    BY <1>1
  <1>2. CASE u # t
    <2>1. u \in Active /\ turn'[u] = turn[u]
      BY <1>2, ActiveTurns
    <2> QED
      BY <2>1 DEF EachSaid
  <1> QED
    BY <1>1, <1>2

(* A turn that does not yet persist: what it loads, it loads while nobody  *)
(* stores.                                                                 *)
LEMMA EarlyCalm ==
  ASSUME TypeOK, Calmly, NEW t \in Turn, turn[t].pc \in {"idle", "llm", "tools"},
         NEW r, turn' = [turn EXCEPT ![t] = r],
         r.pc \in Stepping => Said(r.new, r.pc),
         r.pc = "persist" => r.saved = 0,
         r.pc = "llm" => \/ r.loaded = LoadedMessages
                         \/ turn[t].pc = "llm" /\ r.loaded = turn[t].loaded,
         UNCHANGED <<messages, faults>>,
         calm' => calm /\ (turn[t].pc = "idle" => Active = {})
  PROVE  Calmly'
  <1>1. turn'[t] = r /\ \A u \in Turn \ {t} : turn'[u] = turn[u]
    BY DEF TypeOK
  <1>2. EachSaid'
    BY <1>1, SaidStep DEF Calmly
  <1>3. SUFFICES ASSUME calm', faults' = 0
                 PROVE  (OneActive /\ Paired(messages) /\ TableEnd /\ EachFits)'
    BY <1>2 DEF Calmly
  <1>4. calm /\ OneActive /\ Paired(messages) /\ TableEnd /\ EachFits
    BY <1>3 DEF Calmly
  <1>5. \A u \in Turn \ {t} : turn[u].pc \notin Stepping
    <2>1. CASE turn[t].pc = "idle"
      BY <1>3, <2>1, ActiveTurns
    <2>2. CASE turn[t].pc # "idle"
      BY <1>4, <2>2, ActiveTurns DEF OneActive, Stepping
    <2> QED
      BY <2>1, <2>2
  <1>6. \A u \in Turn : ~Storing(u)
    BY <1>5 DEF Storing, Stepping
  <1>7. \A u \in Turn : ~(Storing(u)')
    <2> SUFFICES ASSUME NEW u \in Turn PROVE ~(Storing(u)')
      OBVIOUS
    <2>1. CASE u = t
      BY <1>1, <2>1 DEF Storing
    <2>2. CASE u # t
      BY <1>1, <1>6, <2>2 DEF Storing
    <2> QED
      BY <2>1, <2>2
  <1>8. EndsWhole(messages)
    BY <1>4, <1>6 DEF TableEnd
  <1>9. OneActive'
    <2>1. \A u \in Turn \ {t} : turn'[u].pc \notin Stepping
      BY <1>1, <1>5
    <2> QED
      BY <2>1 DEF OneActive, Active, Stepping
  <1>10. TableEnd' /\ Paired(messages)'
    <2>1. messages' = messages
      OBVIOUS
    <2>2. EndsWhole(messages')
      BY <1>8, <2>1
    <2>3. Paired(messages')
      BY <1>4, <2>1
    <2> QED
      BY <1>7, <2>2, <2>3 DEF TableEnd
  <1>11. EachFits'
    <2> SUFFICES ASSUME NEW u \in Turn, turn'[u].pc = "llm"
                 PROVE  Fits(turn'[u].loaded)
      BY DEF EachFits
    <2>1. u = t
      BY <1>1, <1>5 DEF Stepping
    <2>2. Fits(LoadedMessages)
      BY <1>4, <1>8, LoadedFits
    <2>3. turn[t].pc = "llm" => Fits(turn[t].loaded)
      BY <1>4 DEF EachFits
    <2> QED
      BY <1>1, <2>1, <2>2, <2>3
  <1> QED
    BY <1>9, <1>10, <1>11

(* The next row continues the table.                                       *)
LEMMA RowContinues ==
  ASSUME TypeOK, NEW t \in Turn, turn[t].pc = "persist",
         turn[t].saved < Len(turn[t].new), Said(turn[t].new, "persist"),
         Paired(messages), TableEnd, \A u \in Turn \ {t} : ~Storing(u),
         NEW row, row = Persisted(t)[turn[t].saved + 1],
         messages' = Append(messages, row)
  PROVE  /\ Paired(messages')
         /\ Len(messages') > 0 /\ messages'[Len(messages')] = row
         /\ Len(messages') % 2 = (turn[t].saved + 1) % 2
  <1> DEFINE n == Len(messages)
             s == turn[t].saved
             new == turn[t].new
  <1>1. /\ messages \in Seq(Message) /\ n \in Nat /\ s \in Nat
        /\ Len(new) \in Nat /\ s < Len(new) /\ s + 1 \in 1..Len(new)
    BY LocalFields DEF TypeOK
  <1>2. /\ row \in Message /\ row.turn = t /\ row.position = s + 1
        /\ row.kind = new[s + 1]
    BY <1>1, PersistedRows, PersistedKinds
  <1>3. /\ \A k \in 1..Len(new) : new[k] \in {"text", "results"} <=> k % 2 = 1
        /\ \A k \in 1..Len(new) :
               new[k] = "results" => k > 1 /\ new[k - 1] = "tool_use"
        /\ \A k \in 1..Len(new) : new[k] = "tool_use" =>
               k < Len(new) /\ new[k + 1] = "results"
    BY DEF Said
  <1> HIDE DEF new
  <1>4. /\ n % 2 = s % 2
        /\ n > 0 /\ messages[n].kind = "tool_use" =>
               row.kind = "results" /\ Follows(messages[n], row)
        /\ row.kind = "results" =>
               n > 0 /\ messages[n].kind = "tool_use" /\ Follows(messages[n], row)
    <2>1. CASE s = 0
      <3>1. EndsWhole(messages)
        BY <2>1 DEF TableEnd, Storing
      <3>2. n % 2 = s % 2 /\ (n > 0 => messages[n].kind # "tool_use")
        BY <2>1, <3>1 DEF EndsWhole
      <3>3. new[s + 1] # "results"
        BY <1>1, <1>3, <2>1
      <3> QED
        BY <1>2, <3>2, <3>3
    <2>2. CASE s # 0
      <3>1. Storing(t) /\ s \in 1..Len(new)
        BY <1>1, <2>2 DEF Storing
      <3>2. n > 0 /\ n % 2 = s % 2 /\ messages[n] = Persisted(t)[s]
        BY <3>1 DEF TableEnd
      <3>3. /\ messages[n].turn = t /\ messages[n].position = s
            /\ messages[n].kind = new[s]
        BY SMTT(30), <3>1, <3>2, PersistedRows, PersistedKinds DEF new
      <3>4. Follows(messages[n], row)
        BY <1>2, <3>3 DEF Follows
      <3>5. new[s] = "tool_use" => new[s + 1] = "results"
        BY <1>3, <3>1
      <3>6. new[s + 1] = "results" => new[s] = "tool_use"
        <4>1. (s + 1) - 1 = s
          BY <1>1
        <4>2. new[s + 1] = "results" => new[(s + 1) - 1] = "tool_use"
          <5> HIDE DEF s
          <5> QED
            BY <1>1, <1>3
        <4> QED
          BY <4>1, <4>2
      <3> QED
        BY <1>2, <3>2, <3>3, <3>4, <3>5, <3>6
    <2> QED
      BY <2>1, <2>2
  <1>5. /\ \A k \in 1..n : FromUser(messages[k]) <=> k % 2 = 1
        /\ \A k \in 1..n : messages[k].kind = "tool_use" /\ k < n =>
              messages[k + 1].kind = "results" /\ Follows(messages[k], messages[k + 1])
        /\ \A k \in 1..n : messages[k].kind = "results" =>
              k > 1 /\ messages[k - 1].kind = "tool_use"
                /\ Follows(messages[k - 1], messages[k])
    BY DEF Paired
  <1>6. /\ n % 2 \in {0, 1} /\ (n % 2 = 0 <=> (n + 1) % 2 = 1)
        /\ s % 2 \in {0, 1} /\ (s % 2 = 0 <=> (s + 1) % 2 = 1)
        /\ (n % 2 = 1 <=> (n + 1) % 2 = 0) /\ (s % 2 = 1 <=> (s + 1) % 2 = 0)
    BY <1>1, Parity
  <1>7. (n + 1) % 2 = (s + 1) % 2
    BY <1>4, <1>6
  <1> DEFINE c == messages'
  <1>8. /\ Len(c) = n + 1 /\ c[n + 1] = row
        /\ \A k \in 1..n : c[k] = messages[k]
        /\ \A k \in 1..(n + 1) : k = n + 1 \/ k \in 1..n
    BY <1>1, <1>2
  <1>9. FromUser(row) <=> (s + 1) % 2 = 1
    BY <1>1, <1>2, <1>3 DEF FromUser
  <1> HIDE DEF n, c, s
  <1>10. ASSUME NEW k \in 1..(n + 1) PROVE FromUser(c[k]) <=> k % 2 = 1
    <2>1. CASE k = n + 1
      BY <1>7, <1>8, <1>9, <2>1
    <2>2. CASE k \in 1..n
      BY <1>5, <1>8, <2>2
    <2> QED
      BY <1>8, <2>1, <2>2
  <1>11. ASSUME NEW k \in 1..(n + 1), c[k].kind = "tool_use", k < n + 1
         PROVE  c[k + 1].kind = "results" /\ Follows(c[k], c[k + 1])
    <2>1. k \in 1..n /\ c[k] = messages[k]
      BY <1>1, <1>8, <1>11
    <2>2. CASE k = n
      <3>1. n > 0 /\ messages[n].kind = "tool_use" /\ c[k + 1] = row
        BY <1>1, <1>8, <1>11, <2>1, <2>2
      <3> QED
        BY <1>4, <2>1, <2>2, <3>1
    <2>3. CASE k # n
      <3>1. k < n /\ k + 1 \in 1..n
        BY <1>1, <2>1, <2>3
      <3> QED
        BY <1>5, <1>8, <1>11, <2>1, <3>1
    <2> QED
      BY <2>2, <2>3
  <1>12. ASSUME NEW k \in 1..(n + 1), c[k].kind = "results"
         PROVE  k > 1 /\ c[k - 1].kind = "tool_use" /\ Follows(c[k - 1], c[k])
    <2>1. CASE k = n + 1
      <3>1. n > 0 /\ messages[n].kind = "tool_use" /\ Follows(messages[n], row)
        BY <1>4, <1>8, <1>12, <2>1
      <3>2. k > 1 /\ k - 1 = n /\ n \in 1..n
        BY <1>1, <2>1, <3>1
      <3> QED
        BY <1>8, <2>1, <3>1, <3>2
    <2>2. CASE k \in 1..n
      <3>1. k > 1 /\ messages[k - 1].kind = "tool_use"
              /\ Follows(messages[k - 1], messages[k])
        BY <1>5, <1>8, <1>12, <2>2
      <3>2. k - 1 \in 1..n
        BY <1>1, <2>2, <3>1
      <3> QED
        BY <1>8, <2>2, <3>1, <3>2
    <2> QED
      BY <1>8, <2>1, <2>2
  <1>13. Paired(c)
    BY <1>8, <1>10, <1>11, <1>12 DEF Paired
  <1>14. Len(c) > 0
    BY <1>1, <1>8
  <1> QED
    BY <1>7, <1>8, <1>13, <1>14 DEF c, s

LEMMA InsertCalm ==
  ASSUME IInv, Calmly, NEW t \in Turn, Inserts(t)
  PROVE  Calmly'
  <1> DEFINE row == Persisted(t)[turn[t].saved + 1]
  <1>1. /\ turn[t].pc = "persist" /\ AfterInsert(t) /\ TypeOK
        /\ messages' = Append(messages, row) /\ faults' = faults /\ calm' = calm
    BY DEF Inserts, IInv
  <1>2. /\ \A u \in Turn \ {t} : turn'[u] = turn[u]
        /\ turn'[t].pc \in {"persist", "done"}
        /\ turn'[t].pc = "persist" => turn'[t].saved = turn[t].saved + 1
        /\ turn'[t].new = turn[t].new
        /\ turn'[t].pc = "done" => turn[t].saved + 1 = Len(turn[t].new)
    BY <1>1, PassOfLoop, PassKeeps
  <1>3. t \in Active /\ Said(turn[t].new, "persist")
    BY <1>1, ActiveTurns DEF Calmly, EachSaid, Stepping
  <1>4. EachSaid'
    BY <1>1, <1>2, <1>3, SaidStep DEF Calmly, Stepping
  <1>5. SUFFICES ASSUME calm, faults = 0
                 PROVE  (OneActive /\ Paired(messages) /\ TableEnd /\ EachFits)'
    BY <1>1, <1>4 DEF Calmly
  <1>6. OneActive /\ Paired(messages) /\ TableEnd /\ EachFits
    BY <1>5 DEF Calmly
  <1>7. \A u \in Turn \ {t} : turn[u].pc \notin Stepping
    BY <1>3, <1>6, ActiveTurns DEF OneActive
  <1>8. \A u \in Turn \ {t} : ~Storing(u) /\ ~(Storing(u)')
    BY <1>2, <1>7 DEF Storing, Stepping
  <1>9. turn[t].saved \in Nat /\ turn[t].saved < Len(turn[t].new)
        /\ Len(turn[t].new) \in Nat
    BY <1>1, LocalFields DEF IInv, LoopInBounds
  <1>10. row.kind = turn[t].new[turn[t].saved + 1]
    <2>1. turn[t].saved + 1 \in 1..Len(turn[t].new)
      BY <1>9
    <2> QED
      BY <1>1, <2>1, PersistedKinds
  <1>11. \A k : Persisted(t)'[k] = Persisted(t)[k]
    BY <1>2 DEF Persisted, New, Rows
  <1> HIDE DEF row
  <1>12. /\ Paired(messages')
         /\ Len(messages') > 0 /\ messages'[Len(messages')] = row
         /\ Len(messages') % 2 = (turn[t].saved + 1) % 2
    BY <1>1, <1>3, <1>6, <1>8, <1>9, RowContinues DEF row
  <1>13. TableEnd'
    <2>1. CASE turn'[t].pc = "persist"
      <3>1. Storing(t)' /\ turn'[t].saved = turn[t].saved + 1
        BY <1>2, <1>9, <2>1 DEF Storing
      <3>2. messages'[Len(messages')] = Persisted(t)'[turn'[t].saved]
        BY <1>11, <1>12, <3>1 DEF row
      <3> QED
        BY <1>8, <1>12, <3>1, <3>2 DEF TableEnd
    <2>2. CASE turn'[t].pc = "done"
      <3>1. \A u \in Turn : ~(Storing(u)')
        BY <1>8, <2>2 DEF Storing
      <3>2. Len(messages') % 2 = 0
        BY <1>2, <1>3, <1>12, <2>2 DEF Said
      <3>3. row.kind # "tool_use"
        <4>1. Len(turn[t].new) \in 1..Len(turn[t].new)
          BY <1>9
        <4> QED
          BY <1>2, <1>3, <1>10, <2>2, <4>1 DEF Said
      <3>4. EndsWhole(messages')
        BY <1>12, <3>2, <3>3 DEF EndsWhole
      <3> QED
        BY <3>1, <3>4 DEF TableEnd
    <2> QED
      BY <1>2, <2>1, <2>2
  <1>14. OneActive'
    BY <1>2, <1>7 DEF OneActive, Active, Stepping
  <1>15. EachFits'
    BY <1>2, <1>7 DEF EachFits, Stepping
  <1> QED
    BY <1>12, <1>13, <1>14, <1>15

LEMMA StepCalm ==
  ASSUME IInv, Calmly, [Next]_vars
  PROVE  Calmly'
  <1>0. TypeOK
    BY DEF IInv
  <1>1. ASSUME NEW t \in Turn, Starts(t) PROVE Calmly'
    <2> DEFINE r == [pc |-> "llm", loaded |-> LoadedMessages, new |-> <<"text">>,
                     saved |-> 0, clears |-> clears]
    <2>1. r.pc = "llm" /\ r.loaded = LoadedMessages /\ Said(r.new, r.pc)
      BY FirstSaid
    <2>2. /\ turn[t].pc = "idle" /\ turn' = [turn EXCEPT ![t] = r]
          /\ UNCHANGED <<messages, faults>>
      BY <1>1 DEF Starts
    <2>3. calm' => calm /\ (turn[t].pc = "idle" => Active = {})
      BY <1>1 DEF Starts
    <2> HIDE DEF r
    <2> QED
      BY <1>0, <2>1, <2>2, <2>3, EarlyCalm
  <1>2. ASSUME NEW t \in Turn, NEW l \in {"llm", "tools", "persist"},
               NEW kinds \in Seq(Kind), LlmReturns(t, l, kinds),
               Said(turn[t].new \o kinds, l)
        PROVE  Calmly'
    <2> DEFINE r == [turn[t] EXCEPT !.pc = l, !.new = @ \o kinds]
    <2>1. turn[t] \in LocalState /\ turn[t].pc = "llm" /\ turn[t].saved = 0
      BY <1>2 DEF IInv, TypeOK, LlmReturns, LoopInBounds
    <2>2. /\ r.pc = l /\ r.saved = 0 /\ r.loaded = turn[t].loaded
          /\ r.new = turn[t].new \o kinds
      BY <2>1 DEF LocalState
    <2>3. turn' = [turn EXCEPT ![t] = r] /\ UNCHANGED <<messages, faults, calm>>
      BY <1>2 DEF LlmReturns
    <2> HIDE DEF r
    <2>4. Said(r.new, r.pc)
      BY <1>2, <2>2
    <2> QED
      BY <1>0, <2>1, <2>2, <2>3, <2>4, EarlyCalm
  <1>3. ASSUME NEW t \in Turn, turn[t].pc = "llm"
        PROVE  /\ turn[t].new \in Seq(Kind)
               /\ \A said \in {"answer", "unmet"} :
                      /\ Said(turn[t].new \o <<said>>, "persist")
                      /\ Said(turn[t].new \o <<said, "text">>, "llm")
               /\ Said(turn[t].new \o <<"tool_use">>, "tools")
    <2> DEFINE new == turn[t].new
    <2>1. new \in Seq(Kind) /\ Said(new, "llm")
      BY <1>0, <1>3, ActiveTurns
      DEF TypeOK, LocalState, Calmly, EachSaid, Stepping
    <2> HIDE DEF new
    <2>2. "text" \in Kind /\ "tool_use" \in Kind
      BY DEF Kind
    <2>3. ASSUME NEW said \in {"answer", "unmet"}
          PROVE  /\ Said(new \o <<said>>, "persist")
                 /\ Said(new \o <<said, "text">>, "llm")
      <3>1. said \in Kind
        BY DEF Kind
      <3>2. Said(Append(new, said), "persist")
        BY <2>1, <3>1, SaysMore
      <3>3. Append(new, said) \in Seq(Kind)
        BY <2>1, <3>1
      <3>4. Said(Append(Append(new, said), "text"), "llm")
        BY <2>2, <3>2, <3>3, SaysMore
      <3>5. /\ new \o <<said>> = Append(new, said)
            /\ new \o <<said, "text">> = Append(Append(new, said), "text")
        BY <2>1, <3>1
      <3> QED
        BY <3>2, <3>4, <3>5
    <2>4. Said(Append(new, "tool_use"), "tools")
      BY <2>1, <2>2, SaysMore
    <2>5. new \o <<"tool_use">> = Append(new, "tool_use")
      BY <2>1
    <2> QED
      BY <2>1, <2>3, <2>4, <2>5 DEF new
  <1>4. ASSUME NEW t \in Turn, LlmAnswers(t) \/ LlmIsContinued(t) \/ LlmCallsTools(t)
        PROVE  Calmly'
    <2>1. PICK said \in {"answer", "unmet"} :
              \/ LlmReturns(t, "persist", <<said>>)
              \/ LlmReturns(t, "llm", <<said, "text">>)
              \/ LlmReturns(t, "tools", <<"tool_use">>)
      BY <1>4, Outcomes
    <2>2. turn[t].pc = "llm"
      BY <2>1 DEF LlmReturns
    <2>3. CASE LlmReturns(t, "persist", <<said>>)
      BY <1>2, <1>3, <2>2, <2>3, OutcomeKinds
    <2>4. CASE LlmReturns(t, "llm", <<said, "text">>)
      BY <1>2, <1>3, <2>2, <2>4, OutcomeKinds
    <2>5. CASE LlmReturns(t, "tools", <<"tool_use">>)
      BY <1>2, <1>3, <2>2, <2>5, OutcomeKinds
    <2> QED
      BY <2>1, <2>3, <2>4, <2>5
  <1>5. ASSUME NEW t \in Turn, LlmFails(t) PROVE Calmly'
    <2>1. /\ turn' = [turn EXCEPT ![t] = Ended(t, "failed")]
          /\ UNCHANGED <<messages, faults, calm>> /\ turn[t].pc = "llm"
      BY <1>5 DEF LlmFails
    <2>2. Ended(t, "failed").pc = "failed"
      BY <1>0, EndedType
    <2> QED
      BY <1>0, <2>1, <2>2, EarlyCalm DEF Stepping
  <1>6. ASSUME NEW t \in Turn, ToolsReturn(t) PROVE Calmly'
    <2> DEFINE r == [turn[t] EXCEPT !.pc = "llm", !.new = Append(@, "results"),
                                    !.loaded = LoadedMessages]
    <2>1. turn[t] \in LocalState /\ turn[t].pc = "tools"
      BY <1>0, <1>6 DEF TypeOK, ToolsReturn
    <2>2. /\ r.pc = "llm" /\ r.loaded = LoadedMessages
          /\ r.new = Append(turn[t].new, "results")
      BY <2>1 DEF LocalState
    <2>3. turn' = [turn EXCEPT ![t] = r] /\ UNCHANGED <<messages, faults, calm>>
      BY <1>6 DEF ToolsReturn
    <2>4. turn[t].new \in Seq(Kind) /\ Said(turn[t].new, "tools")
      BY <2>1, ActiveTurns DEF LocalState, Calmly, EachSaid, Stepping
    <2>5. "results" \in Kind
      BY DEF Kind
    <2>6. Said(Append(turn[t].new, "results"), "llm")
      BY <2>4, <2>5, SaysMore
    <2> HIDE DEF r
    <2> QED
      BY <1>0, <2>1, <2>2, <2>3, <2>6, EarlyCalm
  <1>7. ASSUME NEW t \in Turn, InsertFails(t) PROVE Calmly'
    <2>1. turn[t].pc = "persist" /\ AfterInsert(t) /\ faults' = faults + 1
      BY <1>7 DEF InsertFails
    <2>2. /\ \A u \in Turn \ {t} : turn'[u] = turn[u]
          /\ turn'[t].pc \in {"persist", "done"}
          /\ turn'[t].new = turn[t].new
      BY <2>1, PassOfLoop, PassKeeps
    <2>3. Said(turn[t].new, "persist")
      BY <2>1, ActiveTurns DEF Calmly, EachSaid, Stepping
    <2>4. EachSaid'
      BY <1>0, <2>2, <2>3, SaidStep DEF Calmly, Stepping
    <2>5. faults' # 0
      BY <1>0, <2>1 DEF TypeOK
    <2> QED
      BY <2>4, <2>5 DEF Calmly
  <1>8. CASE Clear
    <2>1. /\ messages' = <<>> /\ turn' = turn /\ faults' = faults
          /\ calm' => calm /\ Active = {}
      BY <1>8 DEF Clear
    <2>2. EachSaid' /\ (calm' => Active' = {})
      BY <2>1 DEF Calmly, EachSaid, Active
    <2>3. Len(messages') = 0 /\ 0 % 2 = 0
      BY <2>1
    <2>4. Paired(messages') /\ EndsWhole(messages')
      BY <2>3 DEF Paired, EndsWhole
    <2>5. Active' = {} => OneActive' /\ EachFits' /\ \A t \in Turn : ~(Storing(t)')
      BY DEF OneActive, EachFits, Storing, Active
    <2> QED
      BY <2>2, <2>4, <2>5 DEF Calmly, TableEnd
  <1>9. CASE Crash
    <2>1. faults' = faults + 1 /\ Active' = {}
      <3>1. faults' = faults + 1
        BY <1>9 DEF Crash
      <3>2. \A t \in Turn : turn'[t].pc \notin Stepping
        <4> SUFFICES ASSUME NEW t \in Turn PROVE turn'[t].pc \notin Stepping
          OBVIOUS
        <4>1. CASE t \in Active
          BY <1>0, <1>9, <4>1, EndedType DEF Crash, Stepping
        <4>2. CASE t \notin Active
          BY <1>9, <4>2, ActiveTurns DEF Crash
        <4> QED
          BY <4>1, <4>2
      <3> QED
        BY <3>1, <3>2 DEF Active, Stepping
    <2>2. faults' # 0
      BY <1>0, <2>1 DEF TypeOK
    <2> QED
      BY <2>1, <2>2 DEF Calmly, EachSaid
  <1>10. CASE UNCHANGED vars
    <2>1. UNCHANGED <<messages, turn, faults, calm>>
      BY <1>10 DEF vars
    <2>2. EachSaid' /\ (OneActive => OneActive') /\ (EachFits => EachFits')
      BY <2>1 DEF Calmly, EachSaid, OneActive, EachFits, Active
    <2>3. TableEnd => TableEnd'
      BY <2>1 DEF TableEnd, Storing, Persisted, New, Rows
    <2> QED
      BY <2>1, <2>2, <2>3 DEF Calmly
  <1> QED
    BY <1>1, <1>4, <1>5, <1>6, <1>7, <1>8, <1>9, <1>10, InsertCalm DEF Next, TurnStep

(* A request leaves out nothing between two messages of a turn.            *)
LEMMA RequestIsWhole ==
  ASSUME TypeOK, NEW t \in Turn, NoneBetweenMissing(turn[t].loaded),
         \A k \in 1..Len(turn[t].loaded) : turn[t].loaded[k].turn # t
  PROVE  NoneBetweenMissing(Sent(t))
  <1> DEFINE l == turn[t].loaded
             s == Persisted(t)
             c == l \o s
             m == Len(l)
             n == Len(turn[t].new)
  <1>1. l \in Seq(Message) /\ m \in Nat /\ n \in Nat
    BY DEF TypeOK, LocalState
  <1>2. Len(s) = n /\ \A k \in 1..n : s[k] \in Message /\ s[k].turn = t /\ s[k].position = k
    BY PersistedRows
  <1>3. s \in Seq(Message)
    <2>1. s = [k \in 1..n |-> s[k]]
      <3>1. n - 1 + 1 = n
        BY <1>1
      <3> QED
        BY <3>1 DEF Persisted, New, Rows
    <2> HIDE DEF s, n
    <2>2. [k \in 1..n |-> s[k]] \in Seq(Message)
      BY <1>1, <1>2
    <2> QED
      BY <2>1, <2>2
  <1> HIDE DEF s, l
  <1>4. /\ Len(c) = m + n
        /\ \A k \in 1..m : c[k] = l[k]
        /\ \A k \in 1..n : c[m + k] = s[k]
    <2>1. /\ Len(c) = m + Len(s)
          /\ \A k \in 1..m : c[k] = l[k]
          /\ \A k \in 1..Len(s) : c[m + k] = s[k]
      BY <1>1, <1>3, Appended, Zenon
    <2> HIDE DEF c, m, n
    <2> QED
      BY <1>2, <2>1, Zenon
  <1> HIDE DEF c, m, n
  <1>5. \A k \in 1..(m + n) : k \in 1..m \/ (k - m \in 1..n /\ m + (k - m) = k)
    BY <1>1
  <1>6. (\A k \in 1..m : l[k].turn # t) /\ NoneBetweenMissing(l)
    BY DEF l, m
  <1>7. ASSUME NEW i \in 1..(m + n), NEW j \in 1..(m + n), i < j, c[i].turn = c[j].turn
        PROVE  \E k \in i..(j - 1) : Follows(c[k], c[j])
    <2>1. CASE i \in 1..m /\ j \in 1..m
      <3>1. c[i] = l[i] /\ c[j] = l[j]
        BY <1>4, <2>1
      <3>2. PICK k \in i..(j - 1) : Follows(l[k], l[j])
        BY <1>6, <1>7, <2>1, <3>1 DEF NoneBetweenMissing, m
      <3>3. k \in 1..m
        BY <1>1, <2>1
      <3> QED
        BY <1>4, <3>1, <3>2, <3>3
    <2>2. CASE i \in 1..m /\ j - m \in 1..n /\ m + (j - m) = j
      <3>1. c[i] = l[i] /\ c[j] = s[j - m]
        BY <1>4, <2>2
      <3> QED
        BY <1>2, <1>6, <1>7, <2>2, <3>1
    <2>3. CASE i \notin 1..m
      <3>1. j - m \in 1..n /\ (j - 1) - m \in 1..n /\ j - 1 \in i..(j - 1)
            /\ m + (j - m) = j /\ m + ((j - 1) - m) = j - 1
            /\ j - m = ((j - 1) - m) + 1
        BY <1>1, <1>7, <2>3
      <3>2. c[j] = s[j - m] /\ c[j - 1] = s[(j - 1) - m]
        BY <1>4, <3>1
      <3>3. Follows(c[j - 1], c[j])
        BY <1>2, <3>1, <3>2 DEF Follows
      <3> QED
        BY <3>1, <3>3
    <2> QED
      BY <1>5, <2>1, <2>2, <2>3
  <1>8. NoneBetweenMissing(c)
    BY <1>4, <1>7 DEF NoneBetweenMissing
  <1>9. Sent(t) = c
    BY DEF Sent, Persisted, c, l, s
  <1> QED
    BY <1>8, <1>9

(* While nothing fails, no request leaves out what a turn said between two *)
(* messages that it holds, however turns interleave.  While turns and      *)
(* clears come one after the other its roles alternate, and the API can    *)
(* accept it if, and only if, it holds no response with calls that nobody  *)
(* met, but for the results that a full window may begin with.             *)
THEOREM Requests == Spec => []RequestsWellFormed
  <1>1. Init => Calmly
    <2> SUFFICES ASSUME Init PROVE Calmly
      OBVIOUS
    <2>1. \A t \in Turn : turn[t].pc = "idle"
      BY DEF Init, Idle
    <2>2. Active = {} /\ \A t \in Turn : ~Storing(t)
      BY <2>1 DEF Active, Storing
    <2>3. Len(messages) = 0 /\ 0 % 2 = 0
      BY DEF Init
    <2>4. Paired(messages) /\ EndsWhole(messages)
      BY <2>3 DEF Paired, EndsWhole
    <2> QED
      BY <2>1, <2>2, <2>4 DEF Calmly, EachSaid, OneActive, EachFits, TableEnd
  <1>2. IInv /\ Calmly /\ [Next]_vars => Calmly'
    BY StepCalm
  <1>3. Init => EachWhole
    BY DEF Init, Idle, EachWhole
  <1>4. IInv /\ Whole /\ EachWhole /\ [Next]_vars => EachWhole'
    BY StepIsWhole
  <1>5. IInv /\ Calmly /\ EachWhole => RequestsWellFormed
    <2> SUFFICES ASSUME IInv, Calmly, EachWhole, faults = 0, NEW t \in Turn,
                        turn[t].pc = "llm"
                 PROVE  /\ NoneBetweenMissing(Sent(t))
                        /\ calm =>
                            /\ RolesAlternate(Sent(t))
                            /\ CallsMet(Sent(t)) <=>
                                   \A k \in 1..Len(Sent(t)) : Sent(t)[k].kind # "unmet"
                            /\ Sent(t)[1].kind = "results" => Len(turn[t].loaded) = Window
      BY DEF RequestsWellFormed
    <2>1. Said(turn[t].new, "llm") /\ TypeOK
      BY ActiveTurns DEF Calmly, EachSaid, IInv, Stepping
    <2>2. NoneBetweenMissing(Sent(t))
      BY <2>1, RequestIsWhole DEF EachWhole
    <2>3. ASSUME calm
          PROVE  /\ WellFormed(Sent(t)) /\ Len(Sent(t)) \in Nat
                 /\ Sent(t)[1].kind = "results" => Len(turn[t].loaded) = Window
      BY <2>1, <2>3, RequestFits DEF Calmly, EachFits
    <2> QED
      BY <2>2, <2>3, UnmetOnly
  <1> QED
    BY Invariant, WholeKept, <1>1, <1>2, <1>3, <1>4, <1>5, PTL DEF Spec
=============================================================================
