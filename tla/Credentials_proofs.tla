-------------------------- MODULE Credentials_proofs ------------------------
(***************************************************************************)
(* What is proved of Credentials, for every number of flows, calls, tokens *)
(* and faults, any times within TimeAssumption, and both kinds of          *)
(* provider.                                                               *)
(***************************************************************************)
EXTENDS Credentials, SequenceTheorems, TLAPS

(* A row of type oauth names an issued token, a service account the key.   *)
RowOK(r) ==
    /\ r \in Row \cup {NoRow}
    /\ r.type = "oauth" => r.access \in Issued
    /\ r.type = "service_account" => r.access = Key

CallOK(c) ==
    /\ RowOK(call[c].row)
    /\ call[c].pc \in {"exchange", "refresh", "mint"} => call[c].purpose = call[c].pc
    /\ call[c].pc \in {"answered", "store"} => call[c].answer \in Issued
    /\ call[c].pc = "store" =>
           /\ call[c].row.type = "oauth" /\ call[c].row.access = call[c].answer
           /\ call[c].purpose \in {"exchange", "refresh"}
    /\ call[c].pc = "check" => call[c].purpose = "none"
    /\ call[c].pc = "refresh" => call[c].row.type = "oauth"
    /\ call[c].pc = "reload" => call[c].purpose = "refresh"

Types == TypeOK /\ RowOK(row) /\ \A c \in Call : CallOK(c)

(* A flow's code is exchanged only after the flow was started, and nothing *)
(* is left of the flow then.                                               *)
Flows == \A n \in Nonce : n \in flows \/ expiry[n] = 0 => exchanged[n] = <<>>

-----------------------------------------------------------------------------
(* Times.                                                                  *)

InTransit(c) ==
    Waiting(c) => call[c].now <= clock /\ clock <= call[c].now + MaxRoundTrip

(* The expiry on record is at most a round trip too late.                  *)
ExpiryOK(r) ==
    r.type = "oauth" =>
        IF r.expires = Never THEN token[r.access].until = Never
        ELSE /\ token[r.access].until # Never
             /\ r.expires <= token[r.access].until + MaxRoundTrip

(* What a call holds was issued after it sent its request, what is in the  *)
(* row while it loads it again at most a round trip before.                *)
IssuedSince(k, t) == token[k].until = Never \/ t + Lifetime <= token[k].until

Recent(c) ==
    /\ call[c].pc \in {"answered", "store"} => IssuedSince(call[c].answer, call[c].now)
    /\ call[c].pc = "reload" /\ row.type = "oauth" =>
           IssuedSince(row.access, call[c].now - MaxRoundTrip)

(* A caller that read an OAuth row saw the service account come.           *)
SawImport(c) ==
    /\ call[c].row.type = "oauth" \/ call[c].purpose = "refresh"
    /\ call[c].pc # "idle" /\ call[c].purpose # "exchange"
    /\ row.type = "service_account"
    => call[c].imported

CallTimes(c) == InTransit(c) /\ ExpiryOK(call[c].row) /\ Recent(c) /\ SawImport(c)

Times == ExpiryOK(row) /\ \A c \in Call : CallTimes(c)

-----------------------------------------------------------------------------
(* Renewal.  The refresh token in an answer is accepted and nobody else    *)
(* has it, until it is stored.                                             *)

Carries(c) ==
    call[c].pc \in {"answered", "store"} /\ token[call[c].answer].renews

OnlyHere(c) ==
    Carries(c) =>
        /\ call[c].answer \in accepted
        /\ row.refresh # call[c].answer
        /\ \A d \in Call \ {c} :
               /\ call[d].row.refresh # call[c].answer
               /\ Carries(d) => call[d].answer # call[c].answer

AnswerOK(c) ==
    /\ call[c].pc \in {"answered", "store"} /\ call[c].purpose = "exchange" =>
           token[call[c].answer].renews = token[call[c].answer].lasting
    /\ call[c].pc \in {"answered", "store"} /\ call[c].purpose = "refresh" =>
           /\ token[call[c].answer].renews = rotates
           /\ ~rotates => call[c].row.refresh \in accepted
    /\ call[c].pc = "store" /\ token[call[c].answer].renews =>
           call[c].row.refresh = call[c].answer

Held(r) == r.refresh \in Issued \cup {Nothing}

Renewal ==
    /\ Held(row)
    /\ \A c \in Call : Held(call[c].row) /\ OnlyHere(c) /\ AnswerOK(c)


-----------------------------------------------------------------------------
(* Types.                                                                  *)

LEMMA Idles ==
  /\ Idle \in CallState /\ Idle.row = NoRow /\ Idle.pc = "idle"
  /\ NoRow.type = "none" /\ NoRow \notin Row /\ NoRow.refresh = Nothing
  /\ ServiceAccount \in Row /\ ServiceAccount.type = "service_account"
  /\ ServiceAccount.access = Key /\ ServiceAccount.refresh = Nothing
  BY DEF Idle, CallState, NoRow, ServiceAccount, Row, Time, Key, Nothing

(* Tokens are only added.                                                  *)
Grows ==
    /\ token' \in Seq(TokenInfo)
    /\ Issued \subseteq Issued'
    /\ \A k \in Issued : token'[k] = token[k]

LEMMA TokensAppended ==
  ASSUME token \in Seq(TokenInfo), NEW info \in TokenInfo, token' = Append(token, info)
  PROVE  /\ Grows
         /\ Len(token) + 1 \in Issued' /\ Len(token) + 1 \notin Issued
         /\ token'[Len(token) + 1] = info
  BY DEF Grows, Issued

LEMMA TokensSame ==
  ASSUME token \in Seq(TokenInfo), token' = token
  PROVE  Grows
  BY DEF Grows, Issued

LEMMA RowKept ==
  ASSUME Grows, NEW r, RowOK(r)
  PROVE  RowOK(r)'
  BY DEF Grows, RowOK

LEMMA CallKept ==
  ASSUME Grows, NEW d, CallOK(d), call'[d] = call[d]
  PROVE  CallOK(d)'
  BY DEF Grows, RowOK, CallOK

(* Everything but the call and the token is as it should be.               *)
LEMMA OthersTyped ==
  ASSUME Types, Grows, NEW c \in Call, NEW s \in CallState,
         call' = [call EXCEPT ![c] = s], CallOK(c)',
         rotates' = rotates, clock' = clock, expiry' = expiry,
         flows' \subseteq flows, row' = row \/ row' = call[c].row,
         accepted' \subseteq Issued', faults' \in 0..MaxFaults,
         exchanged' \in [Nonce -> Seq(Nat)],
         handed' \subseteq (Issued' \cup {Key}) \X BOOLEAN
  PROVE  Types'
  <1>1. call' \in [Call -> CallState] /\ \A d \in Call \ {c} : call'[d] = call[d]
    BY DEF Types, TypeOK
  <1>2. \A d \in Call : CallOK(d)'
    BY <1>1, CallKept DEF Types
  <1>3. RowOK(row)'
    BY RowKept DEF Types, CallOK
  <1> QED
    BY <1>1, <1>2, <1>3 DEF Types, TypeOK, RowOK, Grows

(* A call that ends leaves nothing to check.                               *)
LEMMA EndTyped ==
  ASSUME Types, Grows, NEW c \in Call, call' = [call EXCEPT ![c] = Idle]
  PROVE  CallOK(c)'
  <1>1. call'[c] = Idle
    BY DEF Types, TypeOK
  <1> QED
    BY <1>1, Idles DEF CallOK, RowOK, Idle, NoRow

LEMMA HandsTyped ==
  ASSUME Types, NEW c \in Call, NEW k \in Issued \cup {Key}, Hands(c, k)
  PROVE  Types'
  <1>1. Grows
    BY TokensSame DEF Types, TypeOK, Hands
  <1>2. CallOK(c)'
    BY <1>1, EndTyped DEF Hands
  <1>3. call[c].imported \in BOOLEAN
    BY DEF Types, TypeOK, CallState
  <1>4. Issued' = Issued
    BY DEF Hands, Issued
  <1>5. handed' \subseteq (Issued' \cup {Key}) \X BOOLEAN
    BY <1>3, <1>4 DEF Hands
  <1> QED
    BY <1>1, <1>2, <1>4, <1>5, Idles, OthersTyped DEF Hands, Types, TypeOK

LEMMA SendsTyped ==
  ASSUME Types, NEW c \in Call, NEW purpose \in {"refresh", "mint"}, Sends(c, purpose),
         purpose = "refresh" => call[c].row.type = "oauth"
  PROVE  Types'
  <1> DEFINE s == [call[c] EXCEPT !.pc = purpose, !.purpose = purpose, !.now = clock]
  <1>1. s \in CallState /\ s.row = call[c].row /\ s.pc = purpose /\ s.purpose = purpose
    BY DEF Types, TypeOK, CallState
  <1>2. Grows
    BY TokensSame DEF Types, TypeOK, Sends
  <1>3. call' = [call EXCEPT ![c] = s]
    BY DEF Sends, OnlyCall
  <1> HIDE DEF s
  <1>4. call'[c] = s
    BY <1>3 DEF Types, TypeOK
  <1>5. RowOK(call[c].row)'
    BY <1>1, <1>2, <1>4, RowKept DEF Types, CallOK, Grows, RowOK
  <1>6. CallOK(c)'
    BY <1>1, <1>4, <1>5 DEF CallOK
  <1> QED
    BY <1>1, <1>2, <1>3, <1>6, OthersTyped DEF Sends, OnlyCall, Types, TypeOK, Issued

LEMMA AnswersTyped ==
  ASSUME Types, NEW c \in Call, NEW info \in TokenInfo, Answers(c, info),
         accepted' \subseteq accepted \cup {Len(token) + 1}
  PROVE  Types'
  <1> DEFINE k == Len(token) + 1
             s == [call[c] EXCEPT !.pc = "answered", !.answer = k]
  <1>1. Grows /\ k \in Issued' /\ k \in Nat
    BY TokensAppended DEF Types, TypeOK, Answers
  <1>2. s \in CallState /\ s.row = call[c].row /\ s.pc = "answered" /\ s.answer = k
    BY <1>1 DEF Types, TypeOK, CallState
  <1>3. call' = [call EXCEPT ![c] = s]
    BY DEF Answers, OnlyCall
  <1> HIDE DEF s, k
  <1>4. call'[c] = s
    BY <1>3 DEF Types, TypeOK
  <1>5. RowOK(call[c].row)'
    BY <1>1, <1>2, <1>4 DEF Types, CallOK, Grows, RowOK
  <1>6. CallOK(c)'
    BY <1>1, <1>2, <1>4, <1>5 DEF CallOK
  <1>7. accepted' \subseteq Issued'
    BY <1>1 DEF Types, TypeOK, Grows, k
  <1> QED
    BY <1>1, <1>2, <1>3, <1>6, <1>7, OthersTyped DEF Answers, OnlyCall, Types, TypeOK

(* What CallbackReceives and RefreshReceives do to the call.               *)
Received(c, r) ==
    /\ call[c].pc = "answered"
    /\ OnlyCall(c, [call[c] EXCEPT !.pc = "store", !.row = r])
    /\ UNCHANGED <<flows, row, token, accepted, faults, exchanged>>

LEMMA ReceivedTyped ==
  ASSUME Types, NEW c \in Call, NEW r \in Row, Received(c, r),
         r.type = "oauth", r.access = call[c].answer,
         call[c].purpose \in {"exchange", "refresh"}
  PROVE  Types'
  <1> DEFINE s == [call[c] EXCEPT !.pc = "store", !.row = r]
  <1>1. s \in CallState /\ s.row = r /\ s.pc = "store" /\ s.answer = call[c].answer
        /\ s.purpose = call[c].purpose
    BY DEF Types, TypeOK, CallState
  <1>2. Grows
    BY TokensSame DEF Types, TypeOK, Received
  <1>3. call' = [call EXCEPT ![c] = s]
    BY DEF Received, OnlyCall
  <1> HIDE DEF s
  <1>4. call'[c] = s
    BY <1>3 DEF Types, TypeOK
  <1>5. call[c].answer \in Issued'
    BY <1>2 DEF Types, CallOK, Received, Grows
  <1>6. CallOK(c)'
    BY <1>1, <1>4, <1>5 DEF CallOK, RowOK
  <1> QED
    BY <1>1, <1>2, <1>3, <1>6, OthersTyped DEF Received, OnlyCall, Types, TypeOK, Issued

CallbackRow(c) ==
    [type |-> "oauth", access |-> call[c].answer,
     refresh |-> IF token[call[c].answer].renews THEN call[c].answer ELSE Nothing,
     expires |-> ExpiresAt(clock, call[c].answer)]

RefreshRow(c) ==
    [type |-> "oauth", access |-> call[c].answer, refresh |-> RefreshTokenKept(c),
     expires |-> ExpiresAt(call[c].now, call[c].answer)]

LEMMA RowsReceived ==
  ASSUME Types, NEW c \in Call
  PROVE  /\ CallbackRow(c) \in Row /\ RefreshRow(c) \in Row
         /\ CallbackReceives(c) => Received(c, CallbackRow(c))
         /\ RefreshReceives(c) => Received(c, RefreshRow(c))
  <1>1. call[c].answer \in Nat /\ call[c].row.refresh \in Nat /\ call[c].now \in Nat
        /\ clock \in Nat /\ Lifetime \in Nat
    BY TimeAssumption DEF Types, TypeOK, CallState, Row, NoRow, Nothing
  <1>2. CallbackRow(c) \in Row
    BY <1>1 DEF CallbackRow, Row, Time, ExpiresAt, Nothing
  <1>3. RefreshRow(c) \in Row
    BY <1>1 DEF RefreshRow, Row, Time, ExpiresAt, RefreshTokenKept
  <1>4. CallbackReceives(c) => Received(c, CallbackRow(c))
    BY DEF CallbackReceives, Received, CallbackRow
  <1>5. RefreshReceives(c) => Received(c, RefreshRow(c))
    BY DEF RefreshReceives, Received, RefreshRow
  <1> QED
    BY <1>2, <1>3, <1>4, <1>5

LEMMA StoresTyped ==
  ASSUME Types, NEW c \in Call, Stores(c)
  PROVE  Types'
  <1> DEFINE s == [call[c] EXCEPT !.pc = "reload", !.row = NoRow]
  <1>1. s \in CallState /\ s.row = NoRow /\ s.pc = "reload" /\ s.purpose = call[c].purpose
    BY DEF Types, TypeOK, CallState
  <1>2. Grows
    BY TokensSame DEF Types, TypeOK, Stores
  <1>3. Types' \/ call' # [call EXCEPT ![c] = Idle]
    BY <1>2, Idles, EndTyped, OthersTyped DEF Stores, OnlyCall, Types, TypeOK, Issued
  <1>4. ASSUME call[c].purpose # "exchange"  PROVE Types'
    <2>1. call' = [call EXCEPT ![c] = s]
      BY <1>4 DEF Stores, OnlyCall
    <2> HIDE DEF s
    <2>2. call'[c] = s
      BY <2>1 DEF Types, TypeOK
    <2>3. CallOK(c)'
      BY <1>1, <1>4, <2>2, Idles DEF CallOK, RowOK, Types, Stores
    <2> QED
      BY <1>1, <1>2, <2>1, <2>3, OthersTyped DEF Stores, OnlyCall, Types, TypeOK, Issued
  <1> QED
    BY <1>3, <1>4 DEF Stores, OnlyCall

(* Every action that only ends the call or reads the row.                  *)
LEMMA QuietTyped ==
  ASSUME Types, NEW c \in Call, NEW s \in CallState, OnlyCall(c, s),
         UNCHANGED <<row, token, accepted>>, flows' \subseteq flows,
         faults' \in 0..MaxFaults, exchanged' \in [Nonce -> Seq(Nat)],
         s.pc \in {"idle", "check", "exchange"}, s.pc = "exchange" => s.purpose = "exchange",
         s.pc = "check" => s.purpose = "none", s.row = row \/ s.row = NoRow
  PROVE  Types'
  <1>1. Grows
    BY TokensSame DEF Types, TypeOK
  <1>2. call'[c] = s
    BY DEF OnlyCall, Types, TypeOK
  <1>3. RowOK(row) /\ RowOK(NoRow)
    BY Idles DEF Types, RowOK
  <1>4. CallOK(c)'
    BY <1>1, <1>2, <1>3 DEF CallOK, RowOK, Grows
  <1> QED
    BY <1>1, <1>4, OthersTyped DEF OnlyCall, Types, TypeOK, Issued

(* Steps that leave every call's row and place alone, or end it.           *)
LEMMA AllCallsTyped ==
  ASSUME Types, token' = token,
         call' \in [Call -> CallState],
         \A c \in Call : \/ call'[c] = Idle
                         \/ /\ call'[c].pc = call[c].pc
                            /\ call'[c].purpose = call[c].purpose
                            /\ call'[c].row = call[c].row
                            /\ call'[c].answer = call[c].answer
  PROVE  \A c \in Call : CallOK(c)'
  <1> TAKE c \in Call
  <1>1. Grows
    BY TokensSame DEF Types, TypeOK
  <1>2. CASE call'[c] = Idle
    BY <1>2, Idles DEF CallOK, RowOK
  <1>3. CASE call'[c] # Idle
    BY <1>1, <1>3 DEF Types, CallOK, RowOK, Grows
  <1> QED
    BY <1>2, <1>3

LEMMA ImportCalls ==
  ASSUME Types, Import
  PROVE  /\ call' \in [Call -> CallState]
         /\ \A c \in Call :
                /\ call'[c].imported = (call[c].imported \/ InProgress(c))
                /\ call'[c].pc = call[c].pc /\ call'[c].purpose = call[c].purpose
                /\ call'[c].row = call[c].row /\ call'[c].answer = call[c].answer
                /\ call'[c].now = call[c].now
  <1>1. \A c \in Call : (call[c].imported \/ InProgress(c)) \in BOOLEAN
    BY DEF Types, TypeOK, CallState, InProgress
  <1> QED
    BY ZenonT(60), <1>1 DEF Import, Types, TypeOK, CallState

LEMMA TypesStep ==
  ASSUME Types, [Next]_vars
  PROVE  Types'
  <1>1. CASE UNCHANGED vars
    BY <1>1 DEF vars, Types, TypeOK, CallOK, RowOK, Issued
  <1>2. CASE Tick
    <2>1. clock' \in Nat
      BY <1>2 DEF Tick, Types, TypeOK
    <2> QED
      BY <1>2, <2>1 DEF Tick, Types, TypeOK, CallOK, RowOK, Issued
  <1>3. ASSUME NEW n \in Nonce, OAuthStart(n)  PROVE Types'
    <2>1. expiry' \in [Nonce -> Nat] /\ expiry'[n] # 0
      BY <1>3, TimeAssumption DEF OAuthStart, Types, TypeOK
    <2>2. flows' \subseteq {m \in Nonce : expiry'[m] # 0}
      BY <1>3, <2>1 DEF OAuthStart, Types, TypeOK
    <2> QED
      BY <1>3, <2>1, <2>2 DEF OAuthStart, Types, TypeOK, CallOK, RowOK, Issued
  <1>4. CASE CleanupFlows
    BY <1>4 DEF CleanupFlows, Types, TypeOK, CallOK, RowOK, Issued
  <1>5. ASSUME NEW n \in Nonce, NEW c \in Call,
               CallbackCompletes(c, n) \/ CallbackTooLate(c, n) \/ CallbackUnknown(c, n)
        PROVE  Types'
    <2> DEFINE s == [Idle EXCEPT !.pc = "exchange", !.purpose = "exchange", !.now = clock]
    <2>1. s \in CallState /\ s.pc = "exchange" /\ s.purpose = "exchange" /\ s.row = NoRow
      BY DEF Idle, CallState, NoRow, Row, Types, TypeOK
    <2>2. [exchanged EXCEPT ![n] = Append(@, clock)] \in [Nonce -> Seq(Nat)]
      BY DEF Types, TypeOK
    <2>3. CallbackCompletes(c, n) => Types'
      <3> SUFFICES ASSUME CallbackCompletes(c, n)  PROVE Types'
        OBVIOUS
      <3>1. OnlyCall(c, s)
        BY DEF CallbackCompletes
      <3> HIDE DEF s
      <3> QED
        BY <2>1, <2>2, <3>1, QuietTyped DEF CallbackCompletes, Removed, Types, TypeOK
    <2>4. CallbackTooLate(c, n) \/ CallbackUnknown(c, n) => Types'
      BY Idles, QuietTyped DEF CallbackTooLate, CallbackUnknown, Removed, Types, TypeOK
    <2> QED
      BY <1>5, <2>3, <2>4
  <1>6. ASSUME NEW c \in Call, CallStep(c)  PROVE Types'
    <2>1. Reads(c) => Types'
      <3> SUFFICES ASSUME Reads(c)  PROVE Types'
        OBVIOUS
      <3> DEFINE s == IF row = NoRow THEN Idle ELSE [Idle EXCEPT !.pc = "check", !.row = row]
      <3>1. s \in CallState /\ s.pc \in {"idle", "check"} /\ s.purpose = "none"
            /\ (s.row = row \/ s.row = NoRow)
        BY DEF Idle, CallState, NoRow, Types, TypeOK
      <3>2. OnlyCall(c, s)
        BY DEF Reads
      <3> HIDE DEF s
      <3> QED
        BY <3>1, <3>2, QuietTyped DEF Reads, Types, TypeOK
    <2>2. ChecksServiceAccount(c) \/ ChecksExpired(c) => Types'
      BY SendsTyped DEF ChecksServiceAccount, ChecksExpired
    <2>3. ChecksFresh(c) => Types'
      BY HandsTyped DEF ChecksFresh, Types, CallOK, RowOK
    <2>4. ChecksInvalid(c) \/ ReloadFindsNothing(c) => Types'
      BY Idles, QuietTyped DEF ChecksInvalid, ReloadFindsNothing, Types, TypeOK
    <2>5. CallbackReceives(c) => Types'
      BY RowsReceived, ReceivedTyped DEF CallbackReceives, CallbackRow
    <2>6. RefreshReceives(c) => Types'
      BY RowsReceived, ReceivedTyped DEF RefreshReceives, RefreshRow
    <2>7. MintReceives(c) => Types'
      BY HandsTyped DEF MintReceives, Types, CallOK
    <2>8. Reloads(c) => Types'
      <3> SUFFICES ASSUME Reloads(c)  PROVE Types'
        OBVIOUS
      <3>1. row.access \in Issued \cup {Key}
        BY DEF Reloads, Types, TypeOK, RowOK, Row
      <3> QED
        BY <3>1, HandsTyped DEF Reloads
    <2> QED
      BY <1>6, <2>1, <2>2, <2>3, <2>4, <2>5, <2>6, <2>7, <2>8, StoresTyped DEF CallStep
  <1>7. ASSUME NEW c \in Call, ProviderStep(c)  PROVE Types'
    <2>1. clock + Lifetime \in Time /\ Never \in Time
      BY TimeAssumption DEF Types, TypeOK, Time
    <2>2. ASSUME NEW until \in Time, NEW lasting \in BOOLEAN, ProviderGrants(c, until, lasting)
          PROVE  Types'
      <3> DEFINE info == [until |-> until, renews |-> lasting, lasting |-> lasting]
      <3>1. info \in TokenInfo
        BY DEF TokenInfo
      <3>2. Answers(c, info) /\ accepted' \subseteq accepted \cup {Len(token) + 1}
        BY <2>2 DEF ProviderGrants
      <3> HIDE DEF info
      <3> QED
        BY <3>1, <3>2, AnswersTyped
    <2>3. ASSUME NEW until \in Time, ProviderRefreshes(c, until)  PROVE Types'
      <3> DEFINE info == [until |-> until, renews |-> rotates, lasting |-> TRUE]
      <3>1. info \in TokenInfo
        BY DEF TokenInfo, Types, TypeOK
      <3>2. Answers(c, info) /\ accepted' \subseteq accepted \cup {Len(token) + 1}
        BY <2>3 DEF ProviderRefreshes
      <3> HIDE DEF info
      <3> QED
        BY <3>1, <3>2, AnswersTyped
    <2>4. ASSUME ProviderMints(c)  PROVE Types'
      <3> DEFINE info == [until |-> clock + Lifetime, renews |-> FALSE, lasting |-> FALSE]
      <3>1. info \in TokenInfo
        BY <2>1 DEF TokenInfo
      <3>2. Answers(c, info) /\ accepted' \subseteq accepted \cup {Len(token) + 1}
        BY <2>4 DEF ProviderMints
      <3> HIDE DEF info
      <3> QED
        BY <3>1, <3>2, AnswersTyped
    <2> QED
      BY <1>7, <2>1, <2>2, <2>3, <2>4 DEF ProviderStep
  <1>8. ASSUME NEW c \in Call, RequestFails(c) \/ LosesAnswer(c)  PROVE Types'
    <2>1. faults' \in 0..MaxFaults
      BY <1>8, TimeAssumption DEF RequestFails, LosesAnswer, Types, TypeOK
    <2> QED
      BY <1>8, <2>1, Idles, QuietTyped DEF RequestFails, LosesAnswer, Types, TypeOK
  <1>9. CASE Import
    <2>1. \A c \in Call : CallOK(c)'
      BY <1>9, ImportCalls, AllCallsTyped DEF Import
    <2> QED
      BY <1>9, <2>1, ImportCalls, Idles DEF Import, Types, TypeOK, RowOK, Issued
  <1>10. CASE Delete
    BY <1>10, Idles DEF Delete, Types, TypeOK, CallOK, RowOK, Issued
  <1>11. CASE Crash
    <2>1. call' \in [Call -> CallState] /\ \A c \in Call : call'[c] \in {Idle, call[c]}
      BY <1>11, Idles DEF Crash, Types, TypeOK
    <2>2. \A c \in Call : CallOK(c)'
      BY <1>11, <2>1, AllCallsTyped DEF Crash
    <2>3. faults' \in 0..MaxFaults
      BY <1>11, TimeAssumption DEF Crash, Types, TypeOK
    <2> QED
      BY <1>11, <2>1, <2>2, <2>3 DEF Crash, Types, TypeOK, RowOK, Issued
  <1> QED
    BY <1>1, <1>2, <1>3, <1>4, <1>5, <1>6, <1>7, <1>8, <1>9, <1>10, <1>11
    DEF Next, FlowStep

-----------------------------------------------------------------------------
(* Flows.                                                                  *)

LEMMA FlowsStep ==
  ASSUME Types, Flows, FlowsUsedOnce, [Next]_vars
  PROVE  Flows' /\ FlowsUsedOnce'
  <1>0. expiry \in [Nonce -> Nat] /\ exchanged \in [Nonce -> Seq(Nat)] /\ clock \in Nat
        /\ FlowLife \in Nat \ {0}
    BY TimeAssumption DEF Types, TypeOK
  <1>1. ASSUME flows' \subseteq flows, UNCHANGED <<expiry, exchanged>>
        PROVE  Flows' /\ FlowsUsedOnce'
    BY <1>1 DEF Flows, FlowsUsedOnce
  <1>2. ASSUME NEW n \in Nonce, OAuthStart(n)  PROVE Flows' /\ FlowsUsedOnce'
    <2>1. exchanged[n] = <<>> /\ exchanged' = exchanged
      BY <1>2 DEF OAuthStart, Flows
    <2>2. \A m \in Nonce \ {n} : expiry'[m] = expiry[m] /\ (m \in flows' <=> m \in flows)
      BY <1>2 DEF OAuthStart
    <2>3. Len(exchanged'[n]) = 0 /\ DOMAIN exchanged'[n] = {}
      BY <2>1
    <2>4. Flows'
      BY <2>1, <2>2 DEF Flows
    <2>5. FlowsUsedOnce'
      BY <2>1, <2>2, <2>3 DEF FlowsUsedOnce
    <2> QED
      BY <2>4, <2>5
  <1>3. ASSUME NEW n \in Nonce, NEW c \in Call, CallbackCompletes(c, n)
        PROVE  Flows' /\ FlowsUsedOnce'
    <2>1. exchanged[n] = <<>> /\ expiry[n] # 0 /\ clock <= expiry[n]
      BY <1>3 DEF CallbackCompletes, InTime, Flows, Types, TypeOK
    <2>2. exchanged'[n] = <<clock>> /\ n \notin flows' /\ expiry' = expiry
          /\ \A m \in Nonce \ {n} : exchanged'[m] = exchanged[m] /\ (m \in flows' => m \in flows)
      BY <1>0, <1>3, <2>1 DEF CallbackCompletes, Removed, OnlyCall
    <2>3. Len(exchanged'[n]) <= 1 /\ \A i \in DOMAIN exchanged'[n] : exchanged'[n][i] = clock
      BY <1>0, <2>2
    <2>4. Flows'
      BY <2>1, <2>2 DEF Flows
    <2>5. \A m \in Nonce :
              /\ Len(exchanged'[m]) <= 1
              /\ \A i \in DOMAIN exchanged'[m] : exchanged'[m][i] <= expiry[m]
      <3> TAKE m \in Nonce
      <3>1. CASE m = n
        <4>1. Len(exchanged'[m]) <= 1
          BY <2>3, <3>1
        <4>2. \A i \in DOMAIN exchanged'[m] : exchanged'[m][i] = clock
          BY <2>3, <3>1
        <4>3. clock <= expiry[m]
          BY <2>1, <3>1
        <4> QED
          BY <4>1, <4>2, <4>3
      <3>2. CASE m # n
        BY <2>2, <3>2 DEF FlowsUsedOnce
      <3> QED
        BY <3>1, <3>2
    <2>6. FlowsUsedOnce'
      BY <2>2, <2>5 DEF FlowsUsedOnce
    <2> QED
      BY <2>4, <2>6
  <1>4. ASSUME NEW n \in Nonce, NEW c \in Call, CallbackTooLate(c, n) \/ CallbackUnknown(c, n)
        PROVE  Flows' /\ FlowsUsedOnce'
    BY <1>1, <1>4 DEF CallbackTooLate, CallbackUnknown, Removed, OnlyCall
  <1>5. CleanupFlows => Flows' /\ FlowsUsedOnce'
    BY <1>1 DEF CleanupFlows
  <1>6. ASSUME NEW c \in Call, CallStep(c)  PROVE Flows' /\ FlowsUsedOnce'
    BY <1>1, <1>6 DEF CallStep, Reads, ChecksServiceAccount, ChecksFresh, ChecksExpired,
       ChecksInvalid, CallbackReceives, RefreshReceives, MintReceives, Stores,
       ReloadFindsNothing, Reloads, Sends, Hands, OnlyCall
  <1>7. ASSUME NEW c \in Call, ProviderStep(c) \/ RequestFails(c) \/ LosesAnswer(c)
        PROVE  Flows' /\ FlowsUsedOnce'
    BY <1>1, <1>7 DEF ProviderStep, ProviderGrants, ProviderRefreshes, ProviderMints,
       Answers, RequestFails, LosesAnswer, OnlyCall
  <1>8. Tick \/ Import \/ Delete \/ Crash \/ UNCHANGED vars => Flows' /\ FlowsUsedOnce'
    BY <1>1 DEF Tick, Import, Delete, Crash, vars
  <1> QED
    BY <1>2, <1>3, <1>4, <1>5, <1>6, <1>7, <1>8 DEF Next, FlowStep

LEMMA InitTyped ==
  ASSUME Init
  PROVE  Types /\ Flows /\ FlowsUsedOnce
  <1>1. FirstToken \in TokenInfo /\ Connected \in Row
    BY TimeAssumption DEF FirstToken, TokenInfo, Connected, Row, Time
  <1>2. token \in Seq(TokenInfo) /\ RowOK(row) /\ accepted \subseteq Issued
    <2>1. CASE row = NoRow /\ token = <<>> /\ accepted = {}
      BY <2>1, Idles DEF RowOK
    <2>2. CASE row = Connected /\ token = <<FirstToken>> /\ accepted = {1}
      BY <1>1, <2>2 DEF RowOK, Issued, Connected
    <2> QED
      BY <2>1, <2>2 DEF Init
  <1>3. \A c \in Call : call[c] = Idle
    BY DEF Init
  <1>4. \A c \in Call : CallOK(c)
    BY <1>3, Idles DEF CallOK, RowOK
  <1>5. faults \in 0..MaxFaults
    BY TimeAssumption DEF Init
  <1> QED
    BY <1>2, <1>4, <1>5, Idles DEF Init, Types, TypeOK, RowOK, Flows, FlowsUsedOnce

(* The state of the flow table, the row, the calls and the provider is     *)
(* well formed in every reachable state (oauth.rs, store.rs).              *)
THEOREM TypeCorrect == Spec => []TypeOK
  <1>1. Init => Types
    BY InitTyped
  <1>2. Types /\ [Next]_vars => Types'
    BY TypesStep
  <1>3. Types => TypeOK
    BY DEF Types
  <1> QED
    BY <1>1, <1>2, <1>3, PTL DEF Spec

(* complete_flow hands out a flow at most once and only while it lives.    *)
THEOREM FlowsAreUsedOnce == Spec => []FlowsUsedOnce
  <1>1. Init => Types /\ Flows /\ FlowsUsedOnce
    BY InitTyped
  <1>2. Types /\ Flows /\ FlowsUsedOnce /\ [Next]_vars => (Types /\ Flows /\ FlowsUsedOnce)'
    BY TypesStep, FlowsStep
  <1> QED
    BY <1>1, <1>2, PTL DEF Spec

-----------------------------------------------------------------------------
(* Times.                                                                  *)

LEMMA Numbers ==
  ASSUME Types
  PROVE  /\ clock \in Nat /\ Margin \in Nat /\ MaxRoundTrip \in Nat /\ Lifetime \in Nat
         /\ MaxRoundTrip <= Margin /\ 2 * MaxRoundTrip < Lifetime /\ Never \notin Nat
         /\ \A c \in Call : call[c].now \in Nat
         /\ \A k \in Issued : token[k].until \in Time
         /\ \A r : RowOK(r) => r.expires \in Time
  <1>0. \A k \in Issued : token[k] \in TokenInfo
    BY DEF Types, TypeOK, Issued
  <1>1. \A k \in Issued : token[k].until \in Time
    BY <1>0 DEF TokenInfo
  <1>2. \A r : RowOK(r) => r.expires \in Time
    BY DEF RowOK, Row, NoRow, Time
  <1>3. \A c \in Call : call[c].now \in Nat
    BY DEF Types, TypeOK, CallState
  <1> QED
    BY <1>1, <1>2, <1>3, TimeAssumption DEF Types, TypeOK

LEMMA ExpiryKept ==
  ASSUME Grows, NEW r, RowOK(r), ExpiryOK(r)
  PROVE  ExpiryOK(r)'
  BY DEF Grows, RowOK, ExpiryOK

LEMMA TimesKept ==
  ASSUME Types, Times, Grows, clock' = clock, row' = row,
         NEW d \in Call, call'[d] = call[d]
  PROVE  CallTimes(d)'
  <1>1. CallTimes(d) /\ CallOK(d) /\ RowOK(row)
    BY DEF Times, Types
  <1>2. InTransit(d)' /\ SawImport(d)'
    BY <1>1 DEF CallTimes, InTransit, Waiting, SawImport
  <1>3. ExpiryOK(call[d].row)'
    BY <1>1 DEF CallTimes, CallOK, RowOK, Grows, ExpiryOK
  <1>4. Recent(d)'
    BY <1>1 DEF CallTimes, CallOK, RowOK, Grows, Recent, IssuedSince
  <1> QED
    BY <1>2, <1>3, <1>4 DEF CallTimes

LEMMA IdleTimes ==
  ASSUME NEW c, call'[c] = Idle
  PROVE  CallTimes(c)'
  BY Idles DEF CallTimes, InTransit, Waiting, ExpiryOK, Recent, SawImport

LEMMA TimesByCall ==
  ASSUME Types, Times, Grows, clock' = clock, row' = row,
         NEW c \in Call, NEW s, call' = [call EXCEPT ![c] = s], CallTimes(c)'
  PROVE  Times'
  <1>1. \A d \in Call \ {c} : call'[d] = call[d]
    BY DEF Types, TypeOK
  <1>2. \A d \in Call : CallTimes(d)'
    BY <1>1, TimesKept
  <1>3. ExpiryOK(row)'
    BY DEF Times, Types, RowOK, Grows, ExpiryOK
  <1> QED
    BY <1>2, <1>3 DEF Times

LEMMA EndTimes ==
  ASSUME Types, Times, NEW c \in Call, call' = [call EXCEPT ![c] = Idle],
         UNCHANGED <<clock, row, token>>
  PROVE  Times'
  <1>1. Grows /\ call'[c] = Idle
    BY TokensSame DEF Types, TypeOK
  <1> QED
    BY <1>1, IdleTimes, TimesByCall

LEMMA SendsTimes ==
  ASSUME Types, Times, NEW c \in Call, NEW purpose \in {"refresh", "mint"},
         Sends(c, purpose), call[c].pc = "check",
         call[c].row.type = IF purpose = "refresh" THEN "oauth" ELSE "service_account"
  PROVE  Times'
  <1> DEFINE s == [call[c] EXCEPT !.pc = purpose, !.purpose = purpose, !.now = clock]
  <1>1. s.row = call[c].row /\ s.pc = purpose /\ s.purpose = purpose /\ s.now = clock
        /\ s.imported = call[c].imported
    BY DEF Types, TypeOK, CallState
  <1>2. Grows /\ UNCHANGED <<clock, row, token>>
    BY TokensSame DEF Types, TypeOK, Sends, OnlyCall
  <1>3. call' = [call EXCEPT ![c] = s]
    BY DEF Sends, OnlyCall
  <1> HIDE DEF s
  <1>4. call'[c] = s
    BY <1>3 DEF Types, TypeOK
  <1>5. InTransit(c)'
    BY <1>1, <1>2, <1>4, Numbers DEF InTransit
  <1>6. ExpiryOK(call[c].row)' /\ Recent(c)'
    BY <1>1, <1>2, <1>4 DEF Times, CallTimes, ExpiryOK, Recent
  <1>7. SawImport(c)'
    BY <1>1, <1>2, <1>4 DEF Times, CallTimes, SawImport, Types, CallOK
  <1> QED
    BY <1>2, <1>3, <1>5, <1>6, <1>7, TimesByCall DEF CallTimes

LEMMA AnswersTimes ==
  ASSUME Types, Times, NEW c \in Call, NEW info \in TokenInfo, Answers(c, info),
         info.until \in {clock + Lifetime, Never}, call[c].pc \in {"exchange", "refresh", "mint"}
  PROVE  Times'
  <1> DEFINE k == Len(token) + 1
             s == [call[c] EXCEPT !.pc = "answered", !.answer = k]
  <1>1. Grows /\ token'[k] = info
    BY TokensAppended DEF Types, TypeOK, Answers
  <1>2. /\ s.row = call[c].row /\ s.pc = "answered" /\ s.answer = k
        /\ s.now = call[c].now /\ s.purpose = call[c].purpose
        /\ s.imported = call[c].imported
    BY <1>1 DEF Types, TypeOK, CallState
  <1>3. call' = [call EXCEPT ![c] = s] /\ UNCHANGED <<clock, row>>
    BY DEF Answers, OnlyCall
  <1> HIDE DEF s, k
  <1>4. call'[c] = s
    BY <1>3 DEF Types, TypeOK
  <1>5. call[c].now <= clock /\ InTransit(c)'
    BY <1>2, <1>3, <1>4 DEF Times, CallTimes, InTransit, Waiting
  <1>6. ExpiryOK(call[c].row)'
    BY <1>1, <1>2, <1>4, ExpiryKept DEF Times, CallTimes, Types, CallOK, ExpiryOK, RowOK, Grows
  <1>7. Recent(c)'
    BY <1>1, <1>2, <1>4, <1>5, Numbers DEF Recent, IssuedSince
  <1>8. SawImport(c)'
    BY <1>2, <1>3, <1>4 DEF Times, CallTimes, SawImport
  <1> QED
    BY <1>1, <1>3, <1>5, <1>6, <1>7, <1>8, TimesByCall DEF CallTimes

LEMMA ReceivedTimes ==
  ASSUME Types, Times, NEW c \in Call, NEW r \in Row, Received(c, r), r.type = "oauth",
         call[c].purpose \in {"exchange", "refresh"}, ExpiryOK(r)
  PROVE  Times'
  <1> DEFINE s == [call[c] EXCEPT !.pc = "store", !.row = r]
  <1>1. /\ s.row = r /\ s.pc = "store" /\ s.answer = call[c].answer
        /\ s.now = call[c].now /\ s.purpose = call[c].purpose
        /\ s.imported = call[c].imported
    BY DEF Types, TypeOK, CallState
  <1>2. Grows /\ UNCHANGED <<clock, row, token>>
    BY TokensSame DEF Types, TypeOK, Received, OnlyCall
  <1>3. call' = [call EXCEPT ![c] = s]
    BY DEF Received, OnlyCall
  <1> HIDE DEF s
  <1>4. call'[c] = s
    BY <1>3 DEF Types, TypeOK
  <1>5. InTransit(c)' /\ Recent(c)'
    BY <1>1, <1>2, <1>4 DEF Times, CallTimes, InTransit, Waiting, Recent, IssuedSince, Received
  <1>6. ExpiryOK(call[c].row)'
    BY <1>1, <1>2, <1>4 DEF ExpiryOK
  <1>7. SawImport(c)'
    BY <1>1, <1>2, <1>4 DEF Times, CallTimes, SawImport, Received, Types, CallOK, RowOK
  <1> QED
    BY <1>2, <1>3, <1>5, <1>6, <1>7, TimesByCall DEF CallTimes

LEMMA RowsTimely ==
  ASSUME Types, Times, NEW c \in Call, call[c].pc = "answered"
  PROVE  ExpiryOK(CallbackRow(c)) /\ ExpiryOK(RefreshRow(c))
  <1>1. /\ call[c].answer \in Issued
        /\ IssuedSince(call[c].answer, call[c].now)
        /\ call[c].now <= clock /\ clock <= call[c].now + MaxRoundTrip
    BY DEF Types, CallOK, Times, CallTimes, Recent, InTransit, Waiting
  <1>2. ExpiryOK(CallbackRow(c))
    BY <1>1, Numbers DEF ExpiryOK, CallbackRow, ExpiresAt, IssuedSince, Time
  <1>3. ExpiryOK(RefreshRow(c))
    BY <1>1, Numbers DEF ExpiryOK, RefreshRow, ExpiresAt, IssuedSince, Time
  <1> QED
    BY <1>2, <1>3

(* A stored token was issued since its own request, and so at most a round *)
(* trip before the request of any other call that has stored and loads.    *)
LEMMA StoresTimes ==
  ASSUME Types, Types', Times, NEW c \in Call, Stores(c)
  PROVE  Times'
  <1>1. /\ row' = call[c].row /\ row'.type = "oauth" /\ row'.access = call[c].answer
        /\ UNCHANGED <<clock, token>> /\ call[c].answer \in Issued
    BY DEF Stores, OnlyCall, Types, CallOK
  <1>2. /\ IssuedSince(call[c].answer, call[c].now)
        /\ call[c].now <= clock /\ clock <= call[c].now + MaxRoundTrip
    BY DEF Stores, Times, CallTimes, Recent, InTransit, Waiting
  <1>3. ExpiryOK(row)'
    BY <1>1 DEF Times, CallTimes, ExpiryOK
  <1>4. \A d \in Call : /\ call'[d].pc = "idle" \/ call'[d].now = call[d].now
                        /\ call'[d].pc = "idle" \/ call[d].pc # "idle"
    BY Idles DEF Stores, OnlyCall, Types, TypeOK, CallState
  <1>5. \A d \in Call \ {c} : call'[d] = call[d]
    BY DEF Stores, OnlyCall, Types, TypeOK
  <1>6. call'[c] = Idle \/ (call'[c].pc = "reload" /\ call'[c].row = NoRow)
    BY DEF Stores, OnlyCall, Types, TypeOK, CallState
  <1>7. ASSUME NEW d \in Call  PROVE CallTimes(d)'
    <2>1. InTransit(d)'
      BY <1>1, <1>2, <1>4, <1>5, <1>6, Idles DEF Times, CallTimes, InTransit, Waiting
    <2>2. ExpiryOK(call[d].row)'
      BY <1>1, <1>5, <1>6, Idles DEF Times, CallTimes, ExpiryOK
    <2>3. SawImport(d)'
      BY <1>1 DEF SawImport
    <2>4. call'[d].pc = "reload" =>
              IssuedSince(call[c].answer, call'[d].now - MaxRoundTrip)
      <3> SUFFICES ASSUME call'[d].pc = "reload"
                   PROVE  IssuedSince(call[c].answer, call'[d].now - MaxRoundTrip)
        OBVIOUS
      <3>1. call'[d].now <= clock /\ call'[d].now \in Nat
        BY <1>1, <2>1 DEF InTransit, Waiting, Types, TypeOK, CallState
      <3> QED
        BY <1>1, <1>2, <3>1, Numbers DEF IssuedSince, Time
    <2>5. call'[d].pc \in {"answered", "store"} =>
              IssuedSince(call'[d].answer, call'[d].now)
      BY <1>1, <1>5, <1>6, Idles DEF Times, CallTimes, Recent, IssuedSince
    <2> QED
      BY <1>1, <2>1, <2>2, <2>3, <2>4, <2>5 DEF CallTimes, Recent, IssuedSince
  <1> QED
    BY <1>3, <1>7 DEF Times

LEMMA TimesStep ==
  ASSUME Types, Types', Times, [Next]_vars
  PROVE  Times'
  <1>0. token' = token => Grows
    BY TokensSame DEF Types, TypeOK
  <1>1. ASSUME UNCHANGED <<clock, row, token, call>>  PROVE Times'
    <2>1. \A c \in Call : CallTimes(c)'
      BY <1>0, <1>1, TimesKept
    <2> QED
      BY <1>1, <2>1 DEF Times, ExpiryOK
  <1>2. CASE Tick
    <2>1. \A c \in Call : InTransit(c)'
      BY <1>2, Numbers DEF Tick, Times, CallTimes, InTransit, Waiting
    <2> QED
      BY <1>2, <2>1 DEF Tick, Times, CallTimes, ExpiryOK, Recent, IssuedSince, SawImport
  <1>3. ASSUME NEW n \in Nonce, NEW c \in Call,
               CallbackCompletes(c, n) \/ CallbackTooLate(c, n) \/ CallbackUnknown(c, n)
        PROVE  Times'
    <2> DEFINE s == [Idle EXCEPT !.pc = "exchange", !.purpose = "exchange", !.now = clock]
    <2>1. s.pc = "exchange" /\ s.purpose = "exchange" /\ s.row = NoRow /\ s.now = clock
      BY DEF Idle
    <2>2. CallbackCompletes(c, n) => Times'
      <3> SUFFICES ASSUME CallbackCompletes(c, n)  PROVE Times'
        OBVIOUS
      <3>1. call' = [call EXCEPT ![c] = s] /\ UNCHANGED <<clock, row, token>>
        BY DEF CallbackCompletes, OnlyCall
      <3> HIDE DEF s
      <3>2. call'[c] = s
        BY <3>1 DEF Types, TypeOK
      <3>3. CallTimes(c)'
        BY <2>1, <3>1, <3>2, Idles, Numbers
        DEF CallTimes, InTransit, ExpiryOK, Recent, SawImport
      <3> QED
        BY <1>0, <3>1, <3>3, TimesByCall
    <2>3. CallbackTooLate(c, n) \/ CallbackUnknown(c, n) => Times'
      BY EndTimes DEF CallbackTooLate, CallbackUnknown, OnlyCall
    <2> QED
      BY <1>3, <2>2, <2>3
  <1>4. ASSUME NEW c \in Call, CallStep(c)  PROVE Times'
    <2>1. Reads(c) => Times'
      <3> SUFFICES ASSUME Reads(c)  PROVE Times'
        OBVIOUS
      <3> DEFINE s == IF row = NoRow THEN Idle ELSE [Idle EXCEPT !.pc = "check", !.row = row]
      <3>1. s.pc \in {"idle", "check"} /\ s.purpose = "none" /\ (s.row = row \/ s.row = NoRow)
        BY DEF Idle
      <3>2. call' = [call EXCEPT ![c] = s] /\ UNCHANGED <<clock, row, token>>
        BY DEF Reads, OnlyCall
      <3> HIDE DEF s
      <3>3. call'[c] = s
        BY <3>2 DEF Types, TypeOK
      <3>4. InTransit(c)' /\ Recent(c)'
        BY <3>1, <3>3 DEF InTransit, Waiting, Recent
      <3>5. ExpiryOK(call[c].row)' /\ SawImport(c)'
        BY <3>1, <3>2, <3>3, Idles DEF Times, ExpiryOK, SawImport
      <3> QED
        BY <1>0, <3>2, <3>4, <3>5, TimesByCall DEF CallTimes
    <2>2. ChecksServiceAccount(c) \/ ChecksExpired(c) => Times'
      BY SendsTimes DEF ChecksServiceAccount, ChecksExpired
    <2>3. ChecksFresh(c) \/ MintReceives(c) \/ Reloads(c) => Times'
      BY EndTimes DEF ChecksFresh, MintReceives, Reloads, Hands
    <2>4. ChecksInvalid(c) \/ ReloadFindsNothing(c) => Times'
      BY EndTimes DEF ChecksInvalid, ReloadFindsNothing, OnlyCall
    <2>5. CallbackReceives(c) => Times'
      BY RowsReceived, RowsTimely, ReceivedTimes DEF CallbackReceives, CallbackRow
    <2>6. RefreshReceives(c) => Times'
      BY RowsReceived, RowsTimely, ReceivedTimes DEF RefreshReceives, RefreshRow
    <2> QED
      BY <1>4, <2>1, <2>2, <2>3, <2>4, <2>5, <2>6, StoresTimes DEF CallStep
  <1>5. ASSUME NEW c \in Call, ProviderStep(c)  PROVE Times'
    <2>1. clock + Lifetime \in Time /\ Never \in Time
      BY Numbers DEF Time
    <2>2. ASSUME NEW until \in {clock + Lifetime, Never}, NEW lasting \in BOOLEAN,
                 ProviderGrants(c, until, lasting)
          PROVE  Times'
      <3> DEFINE info == [until |-> until, renews |-> lasting, lasting |-> lasting]
      <3>1. info \in TokenInfo /\ info.until = until
        BY <2>1 DEF TokenInfo
      <3>2. Answers(c, info) /\ call[c].pc = "exchange"
        BY <2>2 DEF ProviderGrants
      <3> HIDE DEF info
      <3> QED
        BY <3>1, <3>2, AnswersTimes
    <2>3. ASSUME NEW until \in {clock + Lifetime, Never}, ProviderRefreshes(c, until)
          PROVE  Times'
      <3> DEFINE info == [until |-> until, renews |-> rotates, lasting |-> TRUE]
      <3>1. info \in TokenInfo /\ info.until = until
        BY <2>1 DEF TokenInfo, Types, TypeOK
      <3>2. Answers(c, info) /\ call[c].pc = "refresh"
        BY <2>3 DEF ProviderRefreshes
      <3> HIDE DEF info
      <3> QED
        BY <3>1, <3>2, AnswersTimes
    <2>4. ASSUME ProviderMints(c)  PROVE Times'
      <3> DEFINE info == [until |-> clock + Lifetime, renews |-> FALSE, lasting |-> FALSE]
      <3>1. info \in TokenInfo /\ info.until = clock + Lifetime
        BY <2>1 DEF TokenInfo
      <3>2. Answers(c, info) /\ call[c].pc = "mint"
        BY <2>4 DEF ProviderMints
      <3> HIDE DEF info
      <3> QED
        BY <3>1, <3>2, AnswersTimes
    <2> QED
      BY <1>5, <2>2, <2>3, <2>4 DEF ProviderStep
  <1>6. ASSUME NEW c \in Call, RequestFails(c) \/ LosesAnswer(c)  PROVE Times'
    BY <1>6, EndTimes DEF RequestFails, LosesAnswer, OnlyCall
  <1>7. CASE Import
    <2>1. row'.type = "service_account" /\ UNCHANGED <<clock, token>>
      BY <1>7, Idles DEF Import
    <2>2. ASSUME NEW c \in Call  PROVE CallTimes(c)'
      BY ZenonT(60), <1>7, <2>1, <2>2, ImportCalls DEF Times, CallTimes, InTransit, Waiting, InProgress,
         ExpiryOK, Recent, IssuedSince, SawImport
    <2> QED
      BY <2>1, <2>2 DEF Times, ExpiryOK
  <1>8. CASE Delete
    BY <1>8, Idles DEF Delete, Times, CallTimes, InTransit, Waiting, ExpiryOK, Recent,
       IssuedSince, SawImport
  <1>9. CASE Crash
    <2>1. \A c \in Call : call'[c] \in {Idle, call[c]}
      BY <1>9 DEF Crash
    <2>2. \A c \in Call : CallTimes(c)'
      BY <1>0, <1>9, <2>1, IdleTimes, TimesKept DEF Crash
    <2> QED
      BY <1>9, <2>2 DEF Crash, Times, ExpiryOK
  <1> QED
    BY <1>1, <1>2, <1>3, <1>4, <1>5, <1>6, <1>7, <1>8, <1>9
    DEF Next, FlowStep, OAuthStart, CleanupFlows, vars

(* Each of the three ways to hand out a token.                             *)
LEMMA HandsUsable ==
  ASSUME Types, Times, NEW c \in Call
  PROVE  /\ ChecksFresh(c) => Usable(call[c].row.access) /\ call[c].row.access # Key
         /\ MintReceives(c) => Usable(call[c].answer) /\ call[c].answer # Key
         /\ Reloads(c) => IF row.access = Key THEN call[c].imported ELSE Usable(row.access)
  <1>0. \A k \in Issued : k # Key
    BY DEF Issued, Key
  <1>1. CASE ChecksFresh(c)
    <2>1. /\ call[c].row.access \in Issued /\ RowOK(call[c].row) /\ call[c].row.type = "oauth"
          /\ ExpiryOK(call[c].row) /\ ~Expired(call[c].row)
      BY <1>1 DEF ChecksFresh, Types, CallOK, RowOK, Times, CallTimes
    <2>2. Usable(call[c].row.access)
      BY <2>1, Numbers DEF ExpiryOK, Expired, Usable, Time
    <2> QED
      BY <1>0, <1>1, <2>1, <2>2 DEF ChecksFresh, MintReceives, Reloads
  <1>2. CASE MintReceives(c)
    <2>1. call[c].answer \in Issued /\ IssuedSince(call[c].answer, call[c].now)
          /\ clock <= call[c].now + MaxRoundTrip
      BY <1>2 DEF MintReceives, Types, CallOK, Times, CallTimes, Recent, InTransit, Waiting
    <2>2. Usable(call[c].answer)
      BY <2>1, Numbers DEF IssuedSince, Usable, Time
    <2> QED
      BY <1>0, <1>2, <2>1, <2>2 DEF ChecksFresh, MintReceives, Reloads
  <1>3. CASE Reloads(c)
    <2>1. /\ call[c].pc = "reload" /\ call[c].purpose = "refresh"
          /\ clock <= call[c].now + MaxRoundTrip
          /\ RowOK(row) /\ row.type \in {"oauth", "service_account"}
      BY <1>3 DEF Reloads, Types, TypeOK, CallOK, Row, Times, CallTimes, InTransit, Waiting
    <2>2. row.type = "service_account" => row.access = Key /\ call[c].imported
      BY <2>1 DEF RowOK, Times, CallTimes, SawImport
    <2>3. row.type = "oauth" => row.access \in Issued
                                /\ IssuedSince(row.access, call[c].now - MaxRoundTrip)
      BY <2>1 DEF RowOK, Times, CallTimes, Recent
    <2>4. row.type = "oauth" => Usable(row.access)
      BY <2>1, <2>3, Numbers DEF IssuedSince, Usable, Time
    <2> QED
      BY <1>0, <1>3, <2>1, <2>2, <2>3, <2>4 DEF ChecksFresh, MintReceives, Reloads
  <1> QED
    BY <1>1, <1>2, <1>3

LEMMA HandedStep ==
  ASSUME Types, Times, HandedOutIsUsable, [Next]_vars
  PROVE  HandedOutIsUsable'
  <1>1. ASSUME handed' = {} \/ UNCHANGED vars  PROVE HandedOutIsUsable'
    BY <1>1 DEF HandedOutIsUsable, vars, Usable
  <1>2. ASSUME NEW c \in Call, NEW k, Hands(c, k),
               IF k = Key THEN call[c].imported ELSE Usable(k)
        PROVE  HandedOutIsUsable'
    BY <1>2 DEF Hands, HandedOutIsUsable, Usable
  <1>3. ASSUME NEW c \in Call, CallStep(c)  PROVE HandedOutIsUsable'
    <2>1. ChecksFresh(c) \/ MintReceives(c) \/ Reloads(c) => HandedOutIsUsable'
      BY <1>2, HandsUsable DEF ChecksFresh, MintReceives, Reloads
    <2> QED
      BY <1>1, <1>3, <2>1 DEF CallStep, Reads, ChecksServiceAccount, ChecksExpired,
         ChecksInvalid, CallbackReceives, RefreshReceives, Stores, ReloadFindsNothing,
         Sends, OnlyCall
  <1>4. ASSUME NEW c \in Call, ProviderStep(c) \/ RequestFails(c) \/ LosesAnswer(c)
        PROVE  HandedOutIsUsable'
    BY <1>1, <1>4 DEF ProviderStep, ProviderGrants, ProviderRefreshes, ProviderMints,
       Answers, RequestFails, LosesAnswer, OnlyCall
  <1>5. FlowStep => HandedOutIsUsable'
    BY <1>1 DEF FlowStep, OAuthStart, CleanupFlows, CallbackCompletes, CallbackTooLate,
       CallbackUnknown, OnlyCall
  <1>6. Tick \/ Import \/ Delete \/ Crash => HandedOutIsUsable'
    BY <1>1 DEF Tick, Import, Delete, Crash
  <1> QED
    BY <1>1, <1>3, <1>4, <1>5, <1>6 DEF Next

LEMMA InitTimely ==
  ASSUME Init
  PROVE  Times /\ HandedOutIsUsable
  <1>1. \A c \in Call : call[c] = Idle
    BY DEF Init
  <1>2. \A c \in Call : CallTimes(c)
    BY <1>1, Idles DEF CallTimes, InTransit, Waiting, ExpiryOK, Recent, SawImport
  <1>3. ExpiryOK(row)
    BY Idles, TimeAssumption DEF Init, Connected, FirstToken, ExpiryOK
  <1> QED
    BY <1>2, <1>3 DEF Times, Init, HandedOutIsUsable

(* Every access token that load_and_refresh returns is still accepted, for *)
(* all times within TimeAssumption: fresh by is_expired, refreshed, minted *)
(* or stored by another caller meanwhile.                                  *)
THEOREM HandedOut == Spec => []HandedOutIsUsable
  <1>1. Init => Types /\ Times /\ HandedOutIsUsable
    BY InitTyped, InitTimely
  <1>2. Types /\ Times /\ HandedOutIsUsable /\ [Next]_vars
        => (Types /\ Times /\ HandedOutIsUsable)'
    BY TypesStep, TimesStep, HandedStep
  <1> QED
    BY <1>1, <1>2, PTL DEF Spec

-----------------------------------------------------------------------------
(* Renewal.                                                                *)

LEMMA AnswersIssued ==
  ASSUME Types, Renewal
  PROVE  /\ \A k \in Issued : k # Nothing
         /\ \A c \in Call : Carries(c) => call[c].answer \in Issued
         /\ \A c \in Call : Held(call[c].row)
         /\ Held(row)
  BY DEF Issued, Nothing, Carries, Types, CallOK, Renewal

(* Steps that add no token, store none and take none into a call.          *)
SameAnswer(d) ==
    /\ call'[d].pc = call[d].pc /\ call'[d].purpose = call[d].purpose
    /\ call'[d].row = call[d].row /\ call'[d].answer = call[d].answer

Emptied(d) ==
    /\ call'[d].pc \notin {"answered", "store"}
    /\ call'[d].row \in {NoRow, row, call[d].row}

LEMMA RenewalQuiet ==
  ASSUME Types, Renewal, UNCHANGED <<token, accepted, rotates>>,
         row' = row \/ row'.refresh = Nothing,
         \A d \in Call : SameAnswer(d) \/ Emptied(d)
  PROVE  Renewal'
  <1>1. Held(row)'
    BY DEF Renewal, Held, Issued
  <1>2. ASSUME NEW c \in Call  PROVE Held(call[c].row)' /\ AnswerOK(c)'
    <2>1. Held(call[c].row)'
      BY Idles DEF Renewal, Held, Issued, SameAnswer, Emptied
    <2>2. AnswerOK(c)'
      BY DEF Renewal, AnswerOK, SameAnswer, Emptied
    <2> QED
      BY <2>1, <2>2
  <1>3. \A d \in Call : Carries(d)' => Carries(d) /\ SameAnswer(d)
    BY DEF Carries, SameAnswer, Emptied
  <1>4. ASSUME NEW c \in Call, Carries(c)'  PROVE OnlyHere(c)'
    <2>1. /\ Carries(c) /\ call'[c].answer = call[c].answer /\ OnlyHere(c)
          /\ call[c].answer # Nothing
      BY <1>3, <1>4, AnswersIssued DEF SameAnswer, Renewal
    <2>2. row'.refresh # call[c].answer /\ call[c].answer \in accepted'
      BY <2>1 DEF OnlyHere
    <2>3. \A d \in Call \ {c} : call'[d].row.refresh # call[c].answer
      BY <2>1, Idles DEF OnlyHere, SameAnswer, Emptied
    <2>4. \A d \in Call \ {c} : Carries(d)' => call'[d].answer # call[c].answer
      BY <1>3, <2>1 DEF OnlyHere, SameAnswer
    <2> QED
      BY <2>1, <2>2, <2>3, <2>4 DEF OnlyHere
  <1>5. \A c \in Call : OnlyHere(c)'
    BY <1>4 DEF OnlyHere
  <1> QED
    BY <1>1, <1>2, <1>5 DEF Renewal

LEMMA RenewalByCall ==
  ASSUME Types, Renewal, UNCHANGED <<token, accepted, rotates, row>>,
         NEW c \in Call, NEW s, call' = [call EXCEPT ![c] = s],
         s.pc \notin {"answered", "store"}, s.row \in {NoRow, row, call[c].row}
  PROVE  Renewal'
  <1>1. call'[c] = s /\ \A d \in Call \ {c} : call'[d] = call[d]
    BY DEF Types, TypeOK
  <1>2. \A d \in Call : SameAnswer(d) \/ Emptied(d)
    BY <1>1 DEF SameAnswer, Emptied
  <1> QED
    BY <1>2, RenewalQuiet

LEMMA EndRenewal ==
  ASSUME Types, Renewal, UNCHANGED <<token, accepted, rotates, row>>,
         NEW c \in Call, call' = [call EXCEPT ![c] = Idle]
  PROVE  Renewal'
  BY Idles, RenewalByCall

LEMMA StoresRenewal ==
  ASSUME Types, Renewal, NEW c \in Call, Stores(c)
  PROVE  Renewal'
  <1>1. /\ call'[c].pc \in {"idle", "reload"} /\ call'[c].row = NoRow
        /\ \A d \in Call \ {c} : call'[d] = call[d]
    BY Idles DEF Stores, OnlyCall, Types, TypeOK, CallState
  <1>2. UNCHANGED <<token, accepted, rotates>> /\ row' = call[c].row
    BY DEF Stores, OnlyCall
  <1>3. Held(row)' /\ \A d \in Call : Held(call[d].row)'
    BY <1>1, <1>2, Idles DEF Renewal, Held, Issued
  <1>4. \A d \in Call : AnswerOK(d)'
    BY <1>1, <1>2 DEF Renewal, AnswerOK
  <1>5. ASSUME NEW d \in Call, Carries(d)'  PROVE OnlyHere(d)'
    <2>1. d # c /\ Carries(d) /\ OnlyHere(d) /\ call'[d] = call[d] /\ call[d].answer # Nothing
      BY <1>1, <1>2, <1>5, AnswersIssued DEF Carries, Renewal
    <2>2. row'.refresh # call[d].answer
      BY <1>2, <2>1 DEF OnlyHere
    <2>3. \A e \in Call \ {d} : call'[e].row.refresh # call[d].answer
      BY <1>1, <2>1, Idles DEF OnlyHere
    <2>4. \A e \in Call \ {d} : Carries(e)' => call'[e].answer # call[d].answer
      BY <1>1, <1>2, <2>1 DEF OnlyHere, Carries
    <2> QED
      BY <1>2, <2>1, <2>2, <2>3, <2>4 DEF OnlyHere
  <1>6. \A d \in Call : OnlyHere(d)'
    BY <1>5 DEF OnlyHere
  <1> QED
    BY <1>3, <1>4, <1>6 DEF Renewal

LEMMA ReceivedRenewal ==
  ASSUME Types, Renewal, NEW c \in Call, NEW r \in Row, Received(c, r),
         token[call[c].answer].renews => r.refresh = call[c].answer,
         ~token[call[c].answer].renews => r.refresh \in {Nothing, call[c].row.refresh},
         call[c].purpose \in {"exchange", "refresh"},
         call[c].purpose = "refresh" /\ ~token[call[c].answer].renews =>
             r.refresh = call[c].row.refresh
  PROVE  Renewal'
  <1>1. /\ call'[c].pc = "store" /\ call'[c].row = r /\ call'[c].answer = call[c].answer
        /\ call'[c].purpose = call[c].purpose
        /\ \A d \in Call \ {c} : call'[d] = call[d]
    BY DEF Received, OnlyCall, Types, TypeOK, CallState
  <1>2. UNCHANGED <<token, accepted, rotates, row>> /\ call[c].pc = "answered"
    BY DEF Received, OnlyCall
  <1>3. call[c].answer \in Issued
    BY <1>2 DEF Types, CallOK
  <1>4. Held(row)' /\ \A d \in Call : Held(call[d].row)'
    BY <1>1, <1>2, <1>3 DEF Renewal, Held, Issued
  <1>5. \A d \in Call : AnswerOK(d)'
    BY <1>1, <1>2 DEF Renewal, AnswerOK
  <1>6. ASSUME NEW d \in Call, Carries(d)'  PROVE OnlyHere(d)'
    <2>1. /\ Carries(d) /\ OnlyHere(d) /\ call'[d].answer = call[d].answer
          /\ call[d].answer # Nothing
      BY <1>1, <1>2, <1>6, AnswersIssued DEF Carries, Renewal
    <2>2. \A e \in Call \ {d} : call'[e].row.refresh # call[d].answer
      BY <1>1, <1>2, <2>1 DEF OnlyHere, Carries
    <2>3. \A e \in Call \ {d} : Carries(e)' => call'[e].answer # call[d].answer
      BY <1>1, <1>2, <2>1 DEF OnlyHere, Carries
    <2> QED
      BY <1>2, <2>1, <2>2, <2>3 DEF OnlyHere
  <1>7. \A d \in Call : OnlyHere(d)'
    BY <1>6 DEF OnlyHere
  <1> QED
    BY <1>4, <1>5, <1>7 DEF Renewal

LEMMA AnswersRenewal ==
  ASSUME Types, Renewal, NEW c \in Call, NEW info \in TokenInfo, Answers(c, info),
         call[c].pc \in {"exchange", "refresh", "mint"},
         call[c].pc = "exchange" => info.renews = info.lasting,
         call[c].pc = "refresh" => info.renews = rotates /\ call[c].row.refresh \in accepted,
         info.renews => Len(token) + 1 \in accepted',
         accepted \subseteq accepted' \cup {call[c].row.refresh},
         ~rotates => accepted \subseteq accepted'
  PROVE  Renewal'
  <1> DEFINE k == Len(token) + 1
  <1>1. Grows /\ token'[k] = info /\ k \notin Issued /\ k \in Nat \ {Nothing}
    BY TokensAppended DEF Types, TypeOK, Answers, Nothing
  <1>2. /\ call'[c].pc = "answered" /\ call'[c].row = call[c].row /\ call'[c].answer = k
        /\ call'[c].purpose = call[c].purpose /\ call[c].purpose = call[c].pc
        /\ \A d \in Call \ {c} : call'[d] = call[d]
    BY <1>1 DEF Answers, OnlyCall, Types, TypeOK, CallState, CallOK
  <1>3. row' = row /\ rotates' = rotates
    BY DEF Answers, OnlyCall
  <1> HIDE DEF k
  <1>4. Held(row)' /\ \A d \in Call : Held(call[d].row)'
    BY <1>1, <1>2, <1>3 DEF Renewal, Held, Grows
  <1>5. \A d \in Call \ {c} : call[d].pc \in {"answered", "store"} =>
            call[d].answer \in Issued /\ token'[call[d].answer] = token[call[d].answer]
    BY <1>1 DEF Types, CallOK, Grows
  <1>6. \A d \in Call \ {c} : AnswerOK(d)'
    BY <1>2, <1>3, <1>5 DEF Renewal, AnswerOK
  <1>7. AnswerOK(c)'
    BY <1>1, <1>2, <1>3 DEF AnswerOK
  <1>8. \A d \in Call \ {c} : Carries(d)' => Carries(d) /\ call[d].answer # k
    BY <1>1, <1>2, <1>5 DEF Carries
  <1>9. ASSUME NEW d \in Call \ {c}, Carries(d)'  PROVE OnlyHere(d)'
    <2>1. Carries(d) /\ OnlyHere(d) /\ call'[d] = call[d] /\ call[d].answer # k
      BY <1>2, <1>8, <1>9 DEF Renewal
    <2>2. call[d].answer \in accepted'
      BY <2>1 DEF OnlyHere
    <2>3. \A e \in Call \ {d} : call'[e].row.refresh # call[d].answer
      BY <1>2, <2>1 DEF OnlyHere
    <2>4. \A e \in Call \ {d} : Carries(e)' => call'[e].answer # call[d].answer
      BY <1>2, <1>8, <2>1 DEF OnlyHere
    <2> QED
      BY <1>3, <2>1, <2>2, <2>3, <2>4 DEF OnlyHere
  <1>10. OnlyHere(c)'
    <2>1. row'.refresh # k /\ \A d \in Call \ {c} : call'[d].row.refresh # k
      BY <1>1, <1>2, <1>3, AnswersIssued DEF Held
    <2>2. \A d \in Call \ {c} : Carries(d)' => call'[d].answer # k
      BY <1>2, <1>8
    <2>3. Carries(c)' => k \in accepted'
      BY <1>1, <1>2 DEF Carries, k
    <2> QED
      BY <1>2, <2>1, <2>2, <2>3 DEF OnlyHere
  <1>11. \A d \in Call : OnlyHere(d)'
    BY <1>9, <1>10 DEF OnlyHere
  <1> QED
    BY <1>4, <1>6, <1>7, <1>11 DEF Renewal

LEMMA ProviderRenewal ==
  ASSUME Types, Renewal, NEW c \in Call, ProviderStep(c)
  PROVE  Renewal'
  <1>1. clock + Lifetime \in Time /\ Never \in Time
    BY Numbers DEF Time
  <1>2. ASSUME NEW until \in Time, NEW lasting \in BOOLEAN, ProviderGrants(c, until, lasting)
        PROVE  Renewal'
    <2> DEFINE info == [until |-> until, renews |-> lasting, lasting |-> lasting]
    <2>1. info \in TokenInfo /\ info.renews = lasting /\ info.lasting = lasting
      BY DEF TokenInfo
    <2>2. Answers(c, info) /\ call[c].pc = "exchange"
      BY <1>2 DEF ProviderGrants
    <2>3. accepted \subseteq accepted' /\ (lasting => Len(token) + 1 \in accepted')
      BY <1>2 DEF ProviderGrants
    <2> HIDE DEF info
    <2> QED
      BY <2>1, <2>2, <2>3, AnswersRenewal
  <1>3. ASSUME NEW until \in Time, ProviderRefreshes(c, until)
        PROVE  Renewal'
    <2> DEFINE info == [until |-> until, renews |-> rotates, lasting |-> TRUE]
    <2>1. info \in TokenInfo /\ info.renews = rotates
      BY DEF TokenInfo, Types, TypeOK
    <2>2. Answers(c, info) /\ call[c].pc = "refresh" /\ call[c].row.refresh \in accepted
      BY <1>3 DEF ProviderRefreshes
    <2>3. /\ accepted \subseteq accepted' \cup {call[c].row.refresh}
          /\ ~rotates => accepted \subseteq accepted'
          /\ rotates => Len(token) + 1 \in accepted'
      BY <1>3 DEF ProviderRefreshes
    <2> HIDE DEF info
    <2> QED
      BY <2>1, <2>2, <2>3, AnswersRenewal
  <1>4. ASSUME ProviderMints(c)  PROVE Renewal'
    <2> DEFINE info == [until |-> clock + Lifetime, renews |-> FALSE, lasting |-> FALSE]
    <2>1. info \in TokenInfo /\ ~info.renews
      BY <1>1 DEF TokenInfo
    <2>2. Answers(c, info) /\ call[c].pc = "mint" /\ accepted' = accepted
      BY <1>4 DEF ProviderMints
    <2> HIDE DEF info
    <2> QED
      BY <2>1, <2>2, AnswersRenewal
  <1> QED
    BY <1>1, <1>2, <1>3, <1>4 DEF ProviderStep

LEMMA RenewalStep ==
  ASSUME Types, Renewal, [Next]_vars
  PROVE  Renewal'
  <1>1. ASSUME UNCHANGED <<rotates, row, token, accepted, call>>  PROVE Renewal'
    BY <1>1, RenewalQuiet DEF SameAnswer
  <1>2. ASSUME NEW n \in Nonce, NEW c \in Call,
               CallbackCompletes(c, n) \/ CallbackTooLate(c, n) \/ CallbackUnknown(c, n)
        PROVE  Renewal'
    <2> DEFINE s == [Idle EXCEPT !.pc = "exchange", !.purpose = "exchange", !.now = clock]
    <2>1. s.pc = "exchange" /\ s.row = NoRow
      BY DEF Idle
    <2>2. CallbackCompletes(c, n) => Renewal'
      <3> SUFFICES ASSUME CallbackCompletes(c, n)  PROVE Renewal'
        OBVIOUS
      <3>1. call' = [call EXCEPT ![c] = s] /\ UNCHANGED <<token, accepted, rotates, row>>
        BY DEF CallbackCompletes, OnlyCall
      <3> HIDE DEF s
      <3> QED
        BY <2>1, <3>1, RenewalByCall
    <2>3. CallbackTooLate(c, n) \/ CallbackUnknown(c, n) => Renewal'
      BY EndRenewal DEF CallbackTooLate, CallbackUnknown, OnlyCall
    <2> QED
      BY <1>2, <2>2, <2>3
  <1>3. ASSUME NEW c \in Call, CallStep(c)  PROVE Renewal'
    <2>1. Reads(c) => Renewal'
      <3> SUFFICES ASSUME Reads(c)  PROVE Renewal'
        OBVIOUS
      <3> DEFINE s == IF row = NoRow THEN Idle ELSE [Idle EXCEPT !.pc = "check", !.row = row]
      <3>1. s.pc \in {"idle", "check"} /\ (s.row = row \/ s.row = NoRow)
        BY DEF Idle
      <3>2. call' = [call EXCEPT ![c] = s] /\ UNCHANGED <<token, accepted, rotates, row>>
        BY DEF Reads, OnlyCall
      <3> HIDE DEF s
      <3> QED
        BY <3>1, <3>2, RenewalByCall
    <2>2. ASSUME NEW purpose \in {"refresh", "mint"}, Sends(c, purpose)  PROVE Renewal'
      <3> DEFINE s == [call[c] EXCEPT !.pc = purpose, !.purpose = purpose, !.now = clock]
      <3>1. s.pc = purpose /\ s.row = call[c].row
        BY DEF Types, TypeOK, CallState
      <3>2. call' = [call EXCEPT ![c] = s] /\ UNCHANGED <<token, accepted, rotates, row>>
        BY <2>2 DEF Sends, OnlyCall
      <3> HIDE DEF s
      <3> QED
        BY <3>1, <3>2, RenewalByCall
    <2>3. ChecksServiceAccount(c) \/ ChecksExpired(c) => Renewal'
      BY <2>2 DEF ChecksServiceAccount, ChecksExpired
    <2>4. ChecksFresh(c) \/ MintReceives(c) \/ Reloads(c) => Renewal'
      BY EndRenewal DEF ChecksFresh, MintReceives, Reloads, Hands
    <2>5. ChecksInvalid(c) \/ ReloadFindsNothing(c) => Renewal'
      BY EndRenewal DEF ChecksInvalid, ReloadFindsNothing, OnlyCall
    <2>6. CallbackReceives(c) => Renewal'
      BY RowsReceived, ReceivedRenewal DEF CallbackReceives, CallbackRow
    <2>7. RefreshReceives(c) => Renewal'
      BY RowsReceived, ReceivedRenewal DEF RefreshReceives, RefreshRow, RefreshTokenKept
    <2> QED
      BY <1>3, <2>1, <2>3, <2>4, <2>5, <2>6, <2>7, StoresRenewal DEF CallStep
  <1>4. ASSUME NEW c \in Call, RequestFails(c) \/ LosesAnswer(c)  PROVE Renewal'
    BY <1>4, EndRenewal DEF RequestFails, LosesAnswer, OnlyCall
  <1>5. CASE Import
    BY <1>5, ImportCalls, Idles, RenewalQuiet DEF Import, SameAnswer
  <1>6. CASE Delete
    BY <1>6, Idles, RenewalQuiet DEF Delete, SameAnswer
  <1>7. CASE Crash
    <2>1. \A d \in Call : SameAnswer(d) \/ Emptied(d)
      BY <1>7, Idles DEF Crash, SameAnswer, Emptied
    <2> QED
      BY <1>7, <2>1, RenewalQuiet DEF Crash
  <1> QED
    BY <1>1, <1>2, <1>3, <1>4, <1>5, <1>6, <1>7, ProviderRenewal
    DEF Next, FlowStep, OAuthStart, CleanupFlows, Tick, vars

-----------------------------------------------------------------------------
(* A step that neither stores nor takes a refresh token away, and ends no  *)
(* call that brings the next one, keeps the row renewable.                 *)
LEMMA RowKeptRenewable ==
  ASSUME Types, RowStaysRenewable, Grows, row' = row,
         faults' = faults, accepted \subseteq accepted',
         \A d \in Call : Replaces(d) => Replaces(d)'
  PROVE  RowStaysRenewable'
  BY DEF Types, RowOK, RowStaysRenewable, Grows

LEMMA RowStays ==
  ASSUME Types, Renewal, RowStaysRenewable, [Next]_vars
  PROVE  RowStaysRenewable'
  <1>0. token' = token => Grows
    BY TokensSame DEF Types, TypeOK
  <1>1. ASSUME UNCHANGED <<row, token, accepted, faults>>, NEW c \in Call, ~Replaces(c),
               \A d \in Call \ {c} : call'[d] = call[d]
        PROVE  RowStaysRenewable'
    <2>1. \A d \in Call : Replaces(d) => Replaces(d)'
      BY <1>1 DEF Replaces
    <2> QED
      BY <1>0, <1>1, <2>1, RowKeptRenewable
  <1>2. ASSUME NEW c \in Call  PROVE OnlyCall(c, Idle) => \A d \in Call \ {c} : call'[d] = call[d]
    BY DEF OnlyCall, Types, TypeOK
  <1>3. ASSUME NEW n \in Nonce, NEW c \in Call,
               CallbackCompletes(c, n) \/ CallbackTooLate(c, n) \/ CallbackUnknown(c, n)
        PROVE  RowStaysRenewable'
    <2>1. UNCHANGED <<row, token, accepted, faults>> /\ ~Replaces(c)
          /\ \A d \in Call \ {c} : call'[d] = call[d]
      BY <1>3 DEF CallbackCompletes, CallbackTooLate, CallbackUnknown, OnlyCall, Replaces,
         Types, TypeOK
    <2> QED
      BY <1>1, <2>1
  <1>4. ASSUME NEW c \in Call, CallStep(c)  PROVE RowStaysRenewable'
    <2>1. CASE Stores(c)
      <3>1. /\ row' = call[c].row /\ row'.access = call[c].answer
            /\ UNCHANGED <<token, accepted>> /\ call[c].pc = "store"
            /\ call[c].purpose \in {"exchange", "refresh"}
        BY <2>1 DEF Stores, OnlyCall, Types, CallOK
      <3>2. token[call[c].answer].lasting => call[c].row.refresh \in accepted
        <4>1. AnswerOK(c) /\ OnlyHere(c)
          BY DEF Renewal
        <4>2. CASE token[call[c].answer].renews
          BY <3>1, <4>1, <4>2 DEF AnswerOK, OnlyHere, Carries
        <4>3. CASE ~token[call[c].answer].renews
          BY <3>1, <4>1, <4>3 DEF AnswerOK
        <4> QED
          BY <4>2, <4>3
      <3> QED
        BY <3>1, <3>2 DEF RowStaysRenewable
    <2>2. CASE CallbackReceives(c) \/ RefreshReceives(c)
      <3>1. UNCHANGED <<row, token, accepted, faults>>
        BY <2>2 DEF CallbackReceives, RefreshReceives, OnlyCall
      <3>2. \A d \in Call : Replaces(d) => Replaces(d)'
        BY ZenonT(60), <2>2 DEF CallbackReceives, RefreshReceives, OnlyCall, Replaces, Types, TypeOK,
           CallState
      <3> QED
        BY <1>0, <3>1, <3>2, RowKeptRenewable
    <2>3. ASSUME ~Stores(c), ~CallbackReceives(c), ~RefreshReceives(c)
          PROVE  RowStaysRenewable'
      <3>1. UNCHANGED <<row, token, accepted, faults>> /\ ~Replaces(c)
            /\ \A d \in Call \ {c} : call'[d] = call[d]
        BY <1>4, <2>3 DEF CallStep, Reads, ChecksServiceAccount, ChecksFresh, ChecksExpired,
           ChecksInvalid, MintReceives, ReloadFindsNothing, Reloads, Sends, Hands, OnlyCall,
           Replaces, Types, TypeOK
      <3> QED
        BY <1>1, <3>1
    <2> QED
      BY <2>1, <2>2, <2>3
  <1>5. ASSUME NEW c \in Call, ProviderStep(c)  PROVE RowStaysRenewable'
    <2>1. PICK info \in TokenInfo : Answers(c, info)
      <3>1. clock + Lifetime \in Time /\ Never \in Time /\ rotates \in BOOLEAN
        BY Numbers DEF Time, Types, TypeOK
      <3> QED
        BY <1>5, <3>1 DEF ProviderStep, ProviderGrants, ProviderRefreshes, ProviderMints,
           TokenInfo
    <2>2. Grows /\ row' = row /\ faults' = faults
      BY <2>1, TokensAppended DEF Answers, Types, TypeOK
    <2>3. /\ call'[c].pc = "answered" /\ call'[c].purpose = call[c].purpose
          /\ \A d \in Call \ {c} : call'[d] = call[d]
      BY <2>1 DEF Answers, OnlyCall, Types, TypeOK, CallState
    <2>4. call[c].pc \in {"exchange", "refresh", "mint"} /\ call[c].purpose = call[c].pc
      BY <1>5 DEF ProviderStep, ProviderGrants, ProviderRefreshes, ProviderMints, Types, CallOK
    <2>5. \A d \in Call : Replaces(d) => Replaces(d)'
      BY <2>3, <2>4 DEF Replaces
    <2>6. CASE call[c].pc = "refresh"
      BY <2>3, <2>4, <2>6 DEF RowStaysRenewable, Replaces
    <2>7. CASE call[c].pc # "refresh"
      <3>1. accepted \subseteq accepted'
        BY <1>5, <2>7 DEF ProviderStep, ProviderGrants, ProviderRefreshes, ProviderMints
      <3> QED
        BY <2>2, <2>5, <3>1, RowKeptRenewable
    <2> QED
      BY <2>6, <2>7
  <1>6. ASSUME NEW c \in Call, RequestFails(c)  PROVE RowStaysRenewable'
    <2>1. UNCHANGED <<row, token, accepted, faults>> /\ ~Replaces(c) /\ OnlyCall(c, Idle)
      BY <1>6 DEF RequestFails, OnlyCall, Replaces
    <2> QED
      BY <1>1, <1>2, <2>1
  <1>7. ASSUME faults' = faults + 1  PROVE RowStaysRenewable'
    BY <1>7 DEF RowStaysRenewable, Types, TypeOK
  <1>8. CASE Import \/ Delete
    BY <1>8, Idles DEF Import, Delete, RowStaysRenewable
  <1>9. CASE UNCHANGED <<row, token, accepted, call, faults>>
    BY <1>0, <1>9, RowKeptRenewable DEF Replaces
  <1> QED
    BY <1>3, <1>4, <1>5, <1>6, <1>7, <1>8, <1>9
    DEF Next, FlowStep, OAuthStart, CleanupFlows, Tick, LosesAnswer, Crash, vars

LEMMA InitRenewal ==
  ASSUME Init
  PROVE  Renewal /\ RowStaysRenewable
  <1>1. \A c \in Call : call[c] = Idle
    BY DEF Init
  <1>2. \A c \in Call : Held(call[c].row) /\ OnlyHere(c) /\ AnswerOK(c)
    BY <1>1, Idles DEF Held, OnlyHere, Carries, AnswerOK
  <1>3. Held(row) /\ RowStaysRenewable
    <2>1. CASE row = NoRow /\ token = <<>>
      BY <2>1, Idles DEF Held, RowStaysRenewable
    <2>2. CASE row = Connected /\ token = <<FirstToken>> /\ accepted = {1}
      BY <2>2 DEF Held, Issued, RowStaysRenewable, Connected
    <2> QED
      BY <2>1, <2>2 DEF Init
  <1> QED
    BY <1>2, <1>3 DEF Renewal

(* However callers of load_and_refresh, callbacks and imports interleave,  *)
(* the stored refresh token stays one the provider accepts, or the next    *)
(* one is on its way into the row; only a fault can end that.              *)
THEOREM StaysRenewable == Spec => []RowStaysRenewable
  <1>1. Init => Types /\ Renewal /\ RowStaysRenewable
    BY InitTyped, InitRenewal
  <1>2. Types /\ Renewal /\ RowStaysRenewable /\ [Next]_vars
        => (Types /\ Renewal /\ RowStaysRenewable)'
    BY TypesStep, RenewalStep, RowStays
  <1> QED
    BY <1>1, <1>2, PTL DEF Spec
=============================================================================
