------------------------------- MODULE Memory -------------------------------
(***************************************************************************)
(* The memory tools of edgeclaw-server (builtins/memory.rs) and the facts  *)
(* of one user; no statement touches the facts of another.                 *)
(*                                                                         *)
(* A store takes its time stamp from the clock and then waits for the      *)
(* database, so two of them may reach the table in either order.  Fetch    *)
(* and list only read.  The value of a fact plays no part.                 *)
(***************************************************************************)
EXTENDS Integers, FiniteSets

CONSTANTS
    FactKey,
    Tags,         \* texts that may be in the tags column
    NoTags,       \* stands for NULL there
    Search,       \* tags that may be searched for
    Like,         \* Like[g]: the tags texts with g in them (LIKE '%g%')
    ListLimit,    \* facts in a list at most (100 in the code)
    Storing,      \* memory_store calls that can be in progress together
    NoFact,       \* stands for a row that does not exist
    MaxMillis     \* bound: the clock

ASSUME MemoryAssumption ==
    /\ NoTags \notin Tags /\ Like \in [Search -> SUBSET Tags]
    /\ ListLimit \in Nat \ {0} /\ MaxMillis \in Nat

VARIABLES
    millis,       \* now_millis
    fact,         \* memory_facts: fact[k] is the row of key k
    store,        \* store[s]: a memory_store in progress
    (* Observations: when the store that wrote a fact began and ended.     *)
    began, ended

memoryVars == <<millis, fact, store, began, ended>>

Fact == [tags : Tags \cup {NoTags}, created_at : Nat]
NoStore == [pc |-> "idle"]
StoreState ==
    {NoStore} \cup [pc : {"stamped"}, key : FactKey,
                    tags : Tags \cup {NoTags}, now : Nat]

MemoryTypeOK ==
    /\ millis \in 0..MaxMillis
    /\ fact \in [FactKey -> Fact \cup {NoFact}]
    /\ store \in [Storing -> StoreState]
    /\ began \in [FactKey -> Nat] /\ ended \in [FactKey -> Nat]

MemoryInit ==
    /\ millis = 0
    /\ fact = [k \in FactKey |-> NoFact]
    /\ store = [s \in Storing |-> NoStore]
    /\ began = [k \in FactKey |-> 0] /\ ended = [k \in FactKey |-> 0]

-----------------------------------------------------------------------------
Passes ==
    /\ millis < MaxMillis
    /\ millis' = millis + 1
    /\ UNCHANGED <<fact, store, began, ended>>

Stamps(s, k, t) ==
    /\ store[s] = NoStore
    /\ store' = [store EXCEPT ![s] = [pc |-> "stamped", key |-> k, tags |-> t,
                                      now |-> millis]]
    /\ UNCHANGED <<millis, fact, began, ended>>

(* INSERT, or UPDATE on conflict: the row is new in either case.           *)
FirstStamp(call) ==         \* slip: ON CONFLICT leaves created_at out
    [tags |-> call.tags,
     created_at |-> IF fact[call.key] = NoFact THEN call.now
                    ELSE fact[call.key].created_at]
Excluded(call) == [tags |-> call.tags, created_at |-> call.now]

Upserts(s) ==
    /\ store[s] # NoStore
    /\ LET call == store[s] IN
       /\ fact' = [fact EXCEPT ![call.key] = Excluded(call)]
       /\ began' = [began EXCEPT ![call.key] = call.now]
       /\ ended' = [ended EXCEPT ![call.key] = millis]
    /\ store' = [store EXCEPT ![s] = NoStore]
    /\ UNCHANGED millis

StoreFails(s) ==
    /\ store[s] # NoStore
    /\ store' = [store EXCEPT ![s] = NoStore]
    /\ UNCHANGED <<millis, fact, began, ended>>

Deletes(k) ==
    /\ fact[k] # NoFact
    /\ fact' = [fact EXCEPT ![k] = NoFact]
    /\ UNCHANGED <<millis, store, began, ended>>

(* What memory_list may answer: the newest of the facts it looks for, at   *)
(* most ListLimit of them, those of one age in any order.  memory_fetch    *)
(* has neither order nor limit.                                            *)
Facts == {k \in FactKey : fact[k] # NoFact}
Tagged(g) == {k \in Facts : fact[k].tags \in Like[g]}

Newest(keys) ==
    {shown \in SUBSET keys :
        /\ Cardinality(shown) <= ListLimit
        /\ Cardinality(shown) = ListLimit \/ shown = keys
        /\ \A k \in shown, j \in keys \ shown :
               fact[k].created_at >= fact[j].created_at}

-----------------------------------------------------------------------------
MemoryNext ==
    \/ Passes
    \/ \E s \in Storing :
           \/ \E k \in FactKey, t \in Tags \cup {NoTags} : Stamps(s, k, t)
           \/ Upserts(s) \/ StoreFails(s)
    \/ \E k \in FactKey : Deletes(k)

MemorySpec == MemoryInit /\ [][MemoryNext]_memoryVars

-----------------------------------------------------------------------------
(* A list, of all facts or of those with a tag, leaves a fact out only for *)
(* ListLimit others none of which had been stored before the store of this *)
(* one began: what was stored last, again or for the first time, is never  *)
(* crowded out by older facts, in whatever order the stores reach the      *)
(* table.  (The clock is taken not to go back.)                            *)
CrowdedOutByNewer(keys) ==
    \A shown \in Newest(keys) : \A k \in keys \ shown :
        /\ Cardinality(shown) = ListLimit
        /\ \A j \in shown : ended[j] >= began[k]

RecentIsListed ==
    CrowdedOutByNewer(Facts) /\ \A g \in Search : CrowdedOutByNewer(Tagged(g))
=============================================================================
