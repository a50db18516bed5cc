----------------------------- MODULE Credentials ----------------------------
(***************************************************************************)
(* How a skill's credential comes about and is kept fresh.                 *)
(*                                                                         *)
(*   oauth.rs          flows in memory: init_flow, complete_flow,          *)
(*                     exchange_code, the clean-up task, and the requests  *)
(*                     of ReqwestTokenRefresher.                           *)
(*   handlers.rs       oauth_start, oauth_callback and the import of a     *)
(*                     service account.                                    *)
(*   credential-store  store, load_and_refresh, delete.                    *)
(*                                                                         *)
(* Every statement names user, skill and provider, so one triple is        *)
(* enough.  Callbacks and callers of load_and_refresh wait for the network *)
(* between their statements and interleave there.  (The server itself does *)
(* not call load_and_refresh and delete yet; they are the crate's API.)    *)
(* The encryption around the row gives back what was put in and is left    *)
(* out.  Times are in units of the margin's order, not in seconds.         *)
(***************************************************************************)
EXTENDS Integers, Sequences, FiniteSets

CONSTANTS
    Nonce,         \* nonces of the flows that may be started
    Call,          \* OAuth callbacks and calls of load_and_refresh at one time
    FlowLife,      \* life of a flow (600 s in the code)
    Lifetime,      \* life of an access token, expires_in
    Margin,        \* is_expired's margin (60 s in the code)
    MaxRoundTrip,  \* bound: how long a call waits for network and database
    MaxTime,       \* bound: the clock
    MaxTokens,     \* bound: tokens the provider issues
    MaxFaults,     \* bound: failed statements, lost answers and crashes
    Never          \* stands for NULL in expires_at

ASSUME TimeAssumption ==
    /\ FlowLife \in Nat \ {0} /\ Lifetime \in Nat /\ Margin \in Nat
    /\ MaxRoundTrip \in Nat \ {0}
    /\ MaxRoundTrip <= Margin /\ 2 * MaxRoundTrip < Lifetime
    /\ MaxTime \in Nat /\ MaxTokens \in Nat /\ MaxFaults \in Nat
    /\ Never \notin Nat

VARIABLES
    rotates,     \* does the provider replace a refresh token when it is used?
    clock,
    flows,       \* nonces in the map of flows
    expiry,      \* expiry[n]: when flow n expires; 0 before it is started
    row,         \* the row of the credentials table, or NoRow
    token,       \* token[k]: what the provider knows of its k-th token
    accepted,    \* refresh tokens the provider accepts
    call,        \* call[c]: a callback or load_and_refresh, see CallState
    faults,
    (* Observations that no step of the server reads.                      *)
    exchanged,   \* exchanged[n]: when the code of flow n was exchanged
    handed       \* <<k, imported>> if the last step returned access token k

vars == <<rotates, clock, flows, expiry, row, token, accepted, call, faults,
          exchanged, handed>>

(* The k-th token has access part k and, if it has one, refresh part k.    *)
(* 0 stands for no refresh token, and for the private key in the place of  *)
(* the access token.                                                       *)
Key == 0
Nothing == 0
Time == Nat \cup {Never}
Issued == 1..Len(token)
TokenInfo ==
    [until : Time,
     renews : BOOLEAN,       \* it has a refresh part
     lasting : BOOLEAN]      \* observation: the user granted lasting access

Row == [type : {"oauth", "service_account"}, access : Nat, refresh : Nat,
        expires : Time]
NoRow == [type |-> "none", access |-> Key, refresh |-> Nothing, expires |-> Never]
KeyAsToken == [NoRow EXCEPT !.type = "oauth"]   \* slip: the column's default
ServiceAccount == [NoRow EXCEPT !.type = "service_account"]

CallState ==
    [pc : {"idle", "check", "exchange", "refresh", "mint", "answered", "store",
           "reload"},
     purpose : {"none", "exchange", "refresh", "mint"},
     row : Row \cup {NoRow},    \* as read, then as it will be stored
     now : Nat,                 \* the clock when the request was sent
     answer : Nat,              \* the token in the provider's answer
     imported : BOOLEAN]        \* observation: a service account came meanwhile

TypeOK ==
    /\ rotates \in BOOLEAN /\ clock \in Nat
    /\ flows \subseteq {n \in Nonce : expiry[n] # 0}
    /\ expiry \in [Nonce -> Nat]
    /\ row \in Row \cup {NoRow} /\ (row.type = "oauth" => row.access \in Issued)
    /\ token \in Seq(TokenInfo)
    /\ accepted \subseteq Issued
    /\ call \in [Call -> CallState]
    /\ faults \in 0..MaxFaults
    /\ exchanged \in [Nonce -> Seq(Nat)]
    /\ handed \subseteq (Issued \cup {Key}) \X BOOLEAN

Idle == [pc |-> "idle", purpose |-> "none", row |-> NoRow, now |-> 0,
         answer |-> 0, imported |-> FALSE]

(* The server may find the row of an earlier connection in its database.   *)
FirstToken == [until |-> Lifetime, renews |-> TRUE, lasting |-> TRUE]
Connected == [type |-> "oauth", access |-> 1, refresh |-> 1, expires |-> Lifetime]

Init ==
    /\ rotates \in BOOLEAN
    /\ clock = 0 /\ faults = 0
    /\ flows = {} /\ expiry = [n \in Nonce |-> 0]
    /\ \/ row = NoRow /\ token = <<>> /\ accepted = {}
       \/ row = Connected /\ token = <<FirstToken>> /\ accepted = {1}
    /\ call = [c \in Call |-> Idle]
    /\ exchanged = [n \in Nonce |-> <<>>]
    /\ handed = {}

-----------------------------------------------------------------------------
Waiting(c) == call[c].pc \in {"exchange", "refresh", "mint", "answered",
                              "store", "reload"}
InProgress(c) == call[c].pc # "idle"

Tick ==
    /\ clock < MaxTime
    /\ \A c \in Call : Waiting(c) => clock < call[c].now + MaxRoundTrip
    /\ clock' = clock + 1 /\ handed' = {}
    /\ UNCHANGED <<rotates, flows, expiry, row, token, accepted, call, faults,
                   exchanged>>

(* The part of the state a call works on; the rest is left alone.          *)
OnlyCall(c, s) ==
    /\ call' = [call EXCEPT ![c] = s]
    /\ handed' = {}
    /\ UNCHANGED <<rotates, clock, expiry>>

-----------------------------------------------------------------------------
(* Flows.                                                                  *)

OAuthStart(n) ==
    /\ expiry[n] = 0
    /\ expiry' = [expiry EXCEPT ![n] = clock + FlowLife]
    /\ flows' = flows \cup {n} /\ handed' = {}
    /\ UNCHANGED <<rotates, clock, row, token, accepted, call, faults,
                   exchanged>>

CleanupFlows ==
    /\ \E n \in flows : expiry[n] <= clock
    /\ flows' = {n \in flows : expiry[n] > clock} /\ handed' = {}
    /\ UNCHANGED <<rotates, clock, expiry, row, token, accepted, call, faults,
                   exchanged>>

Kept(n) == flows               \* slip: the flow is looked up, not removed
Removed(n) == flows \ {n}
AlwaysInTime(n) == TRUE        \* slip: left to the clean-up task
InTime(n) == clock <= expiry[n]

(* complete_flow removes the flow before it looks at the time.  A callback *)
(* may come for any flow ever started, and more than once.                 *)
CallbackCompletes(c, n) ==
    /\ call[c].pc = "idle" /\ n \in flows /\ InTime(n)
    /\ flows' = Removed(n)
    /\ exchanged' = [exchanged EXCEPT ![n] = Append(@, clock)]
    /\ OnlyCall(c, [Idle EXCEPT !.pc = "exchange", !.purpose = "exchange",
                                !.now = clock])
    /\ UNCHANGED <<row, token, accepted, faults>>

CallbackTooLate(c, n) ==
    /\ call[c].pc = "idle" /\ n \in flows /\ ~InTime(n)
    /\ flows' = Removed(n)
    /\ OnlyCall(c, Idle)
    /\ UNCHANGED <<row, token, accepted, faults, exchanged>>

CallbackUnknown(c, n) ==
    /\ call[c].pc = "idle" /\ n \notin flows /\ expiry[n] # 0
    /\ OnlyCall(c, Idle)
    /\ UNCHANGED <<flows, row, token, accepted, faults, exchanged>>

-----------------------------------------------------------------------------
(* load_and_refresh up to its request.                                     *)

Reads(c) ==
    /\ call[c].pc = "idle"
    /\ OnlyCall(c, IF row = NoRow THEN Idle
                   ELSE [Idle EXCEPT !.pc = "check", !.row = row])
    /\ UNCHANGED <<flows, row, token, accepted, faults, exchanged>>

ExpiredWithoutMargin(r) ==     \* slip: valid until the last second
    r.expires # Never /\ clock >= r.expires
Expired(r) == r.expires # Never /\ clock >= r.expires - Margin

Sends(c, purpose) ==
    /\ OnlyCall(c, [call[c] EXCEPT !.pc = purpose, !.purpose = purpose,
                                   !.now = clock])
    /\ UNCHANGED <<flows, row, token, accepted, faults, exchanged>>

Hands(c, k) ==
    /\ call' = [call EXCEPT ![c] = Idle]
    /\ handed' = {<<k, call[c].imported>>}
    /\ UNCHANGED <<rotates, clock, flows, expiry, row, token, accepted, faults, exchanged>>

ChecksServiceAccount(c) ==
    /\ call[c].pc = "check" /\ call[c].row.type = "service_account"
    /\ Sends(c, "mint")

ChecksFresh(c) ==
    /\ call[c].pc = "check" /\ call[c].row.type = "oauth"
    /\ ~Expired(call[c].row)
    /\ Hands(c, call[c].row.access)

ChecksExpired(c) ==
    /\ call[c].pc = "check" /\ call[c].row.type = "oauth"
    /\ Expired(call[c].row) /\ call[c].row.refresh # Nothing
    /\ Sends(c, "refresh")

ChecksInvalid(c) ==
    /\ call[c].pc = "check" /\ call[c].row.type = "oauth"
    /\ Expired(call[c].row) /\ call[c].row.refresh = Nothing
    /\ OnlyCall(c, Idle)
    /\ UNCHANGED <<flows, row, token, accepted, faults, exchanged>>

-----------------------------------------------------------------------------
(* The provider.                                                           *)

Answers(c, info) ==
    /\ Len(token) < MaxTokens
    /\ token' = Append(token, info)
    /\ OnlyCall(c, [call[c] EXCEPT !.pc = "answered", !.answer = Len(token) + 1])
    /\ UNCHANGED <<flows, row, faults, exchanged>>

ProviderGrants(c, until, lasting) ==
    /\ call[c].pc = "exchange"
    /\ accepted' = IF lasting THEN accepted \cup {Len(token) + 1} ELSE accepted
    /\ Answers(c, [until |-> until, renews |-> lasting, lasting |-> lasting])

ProviderRefreshes(c, until) ==
    /\ call[c].pc = "refresh" /\ call[c].row.refresh \in accepted
    /\ accepted' = IF rotates
                   THEN (accepted \ {call[c].row.refresh}) \cup {Len(token) + 1}
                   ELSE accepted
    /\ Answers(c, [until |-> until, renews |-> rotates, lasting |-> TRUE])

ProviderMints(c) ==
    /\ call[c].pc = "mint"
    /\ UNCHANGED accepted
    /\ Answers(c, [until |-> clock + Lifetime, renews |-> FALSE, lasting |-> FALSE])

(* The request was refused, or did not reach the provider.                 *)
RequestFails(c) ==
    /\ call[c].pc \in {"exchange", "refresh", "mint"}
    /\ OnlyCall(c, Idle)
    /\ UNCHANGED <<flows, row, token, accepted, faults, exchanged>>

(* An answer is lost, or an INSERT or SELECT fails: the call returns an    *)
(* error.                                                                  *)
LosesAnswer(c) ==
    /\ call[c].pc \in {"answered", "store", "reload"} /\ faults < MaxFaults
    /\ faults' = faults + 1
    /\ OnlyCall(c, Idle)
    /\ UNCHANGED <<flows, row, token, accepted, exchanged>>

-----------------------------------------------------------------------------
(* What is done with the answer.                                           *)

ExpiresAt(from, k) == IF token[k].until = Never THEN Never ELSE from + Lifetime

(* The callback counts the expiry from the moment of the answer.           *)
CallbackReceives(c) ==
    /\ call[c].pc = "answered" /\ call[c].purpose = "exchange"
    /\ LET k == call[c].answer IN
       OnlyCall(c, [call[c] EXCEPT !.pc = "store", !.row =
           [type |-> "oauth", access |-> k,
            refresh |-> IF token[k].renews THEN k ELSE Nothing,
            expires |-> ExpiresAt(clock, k)]])
    /\ UNCHANGED <<flows, row, token, accepted, faults, exchanged>>

(* token_resp.refresh_token.or(Some(rt))                                   *)
ForgetsOldToken(c) ==          \* slip: no or(Some(rt))
    IF token[call[c].answer].renews THEN call[c].answer ELSE Nothing
RefreshTokenKept(c) ==
    IF token[call[c].answer].renews THEN call[c].answer ELSE call[c].row.refresh

(* A refresh counts it from the clock that was read before the request.    *)
RefreshReceives(c) ==
    /\ call[c].pc = "answered" /\ call[c].purpose = "refresh"
    /\ LET k == call[c].answer IN
       OnlyCall(c, [call[c] EXCEPT !.pc = "store", !.row =
           [type |-> "oauth", access |-> k, refresh |-> RefreshTokenKept(c),
            expires |-> ExpiresAt(call[c].now, k)]])
    /\ UNCHANGED <<flows, row, token, accepted, faults, exchanged>>

MintReceives(c) ==
    /\ call[c].pc = "answered" /\ call[c].purpose = "mint"
    /\ Hands(c, call[c].answer)

(* INSERT OR REPLACE, whatever is in the row by now.                       *)
Stores(c) ==
    /\ call[c].pc = "store"
    /\ row' = call[c].row
    /\ OnlyCall(c, IF call[c].purpose = "exchange" THEN Idle
                   ELSE [call[c] EXCEPT !.pc = "reload", !.row = NoRow])
    /\ UNCHANGED <<flows, token, accepted, faults, exchanged>>

ReloadFindsNothing(c) ==
    /\ call[c].pc = "reload" /\ row = NoRow
    /\ OnlyCall(c, Idle)
    /\ UNCHANGED <<flows, row, token, accepted, faults, exchanged>>

Reloads(c) ==
    /\ call[c].pc = "reload" /\ row # NoRow
    /\ Hands(c, row.access)

-----------------------------------------------------------------------------
Import ==
    /\ row' = ServiceAccount /\ handed' = {}
    /\ call' = [c \in Call |-> [call[c] EXCEPT !.imported = @ \/ InProgress(c)]]
    /\ UNCHANGED <<rotates, clock, flows, expiry, token, accepted, faults,
                   exchanged>>

Delete ==
    /\ row # NoRow
    /\ row' = NoRow /\ handed' = {}
    /\ UNCHANGED <<rotates, clock, flows, expiry, token, accepted, call, faults,
                   exchanged>>

(* The server dies: flows and calls are gone.                              *)
Crash ==
    /\ faults < MaxFaults
    /\ faults' = faults + 1
    /\ flows' = {} /\ handed' = {}
    /\ call' = [c \in Call |-> IF InProgress(c) THEN Idle ELSE call[c]]
    /\ UNCHANGED <<rotates, clock, expiry, row, token, accepted, exchanged>>

-----------------------------------------------------------------------------
FlowStep == CleanupFlows \/ \E n \in Nonce :
    \/ OAuthStart(n)
    \/ \E c \in Call :
           CallbackCompletes(c, n) \/ CallbackTooLate(c, n) \/ CallbackUnknown(c, n)

CallStep(c) ==
    \/ Reads(c)
    \/ ChecksServiceAccount(c) \/ ChecksFresh(c) \/ ChecksExpired(c) \/ ChecksInvalid(c)
    \/ CallbackReceives(c) \/ RefreshReceives(c) \/ MintReceives(c)
    \/ Stores(c) \/ ReloadFindsNothing(c) \/ Reloads(c)

ProviderStep(c) ==
    \/ \E until \in {clock + Lifetime, Never} :
        \/ \E lasting \in BOOLEAN : ProviderGrants(c, until, lasting)
        \/ ProviderRefreshes(c, until)
    \/ ProviderMints(c)

Next ==
    \/ Tick \/ FlowStep
    \/ \E c \in Call : CallStep(c) \/ ProviderStep(c) \/ RequestFails(c) \/ LosesAnswer(c)
    \/ Import \/ Delete \/ Crash

Spec == Init /\ [][Next]_vars

-----------------------------------------------------------------------------
(* A flow's code is exchanged at most once, however often its callback     *)
(* comes, and only within the life of the flow, with or without the        *)
(* clean-up task.                                                          *)
FlowsUsedOnce ==
    \A n \in Nonce :
        /\ Len(exchanged[n]) <= 1
        /\ \A i \in DOMAIN exchanged[n] : exchanged[n][i] <= expiry[n]

(* Whoever is handed an access token can use it: the provider still        *)
(* accepts it, although what is on record may have been counted from a     *)
(* later clock, replaced by another call or read a while ago.  The margin  *)
(* is what makes up for the network.  Only a service account that is       *)
(* imported during a refresh puts its key where the token is read from.    *)
Usable(k) == token[k].until = Never \/ clock < token[k].until

HandedOutIsUsable ==
    \A h \in handed : IF h[1] = Key THEN h[2] ELSE Usable(h[1])

(* A renewable credential stays renewable: the refresh token in its row is *)
(* one the provider accepts, even if it replaces tokens when they are used *)
(* and several callers race, unless the answer with the next one is on its *)
(* way into the row, or was lost in a fault.                               *)
Replaces(c) ==
    call[c].pc \in {"answered", "store"} /\ call[c].purpose = "refresh"

RowStaysRenewable ==
    row.type = "oauth" /\ token[row.access].lasting /\ faults = 0 =>
        \/ row.refresh \in accepted
        \/ \E c \in Call : Replaces(c)
=============================================================================
