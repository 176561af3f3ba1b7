----------------------------- MODULE CacheLayer -----------------------------
(***************************************************************************)
(* The cache of one key (indexer/src/cacheLayer.js): an LRU map in each    *)
(* instance, Redis behind it, and invalidations that the other instances   *)
(* hear of by Pub/Sub.  A call is one cacheAside (a request through        *)
(* makeCache of api.js is one without XFetch): it looks in both tiers,     *)
(* loads from the source and stores what it loaded; each await ends a      *)
(* step, and writers commit and invalidate in between.  A value is the     *)
(* version of the source it was read from.  The key's type uses both       *)
(* tiers.  Times to live are abstracted to entries that may expire at any  *)
(* moment, the early recomputation of XFetch to a choice.                  *)
(***************************************************************************)
EXTENDS Integers, FiniteSets

CONSTANTS
    Instances,       \* processes with a map of their own
    CacheCalls,      \* calls in flight at once
    LastVersion,     \* bound: writes
    MaxCacheFaults   \* bound: failed Redis commands, lost messages, restarts

ASSUME CacheAssumption == LastVersion \in Nat /\ MaxCacheFaults \in Nat

VARIABLES
    rows,         \* the version in the tables
    l1, l2,       \* the entry of each map and of Redis
    call,         \* a call: its place, its instance, the value in hand
    recomputing,  \* instances whose _recomputing holds the key
    eviction,     \* the cacheInvalidate of each version's writer
    news,         \* instances with an invalidation message on its way
    cacheFaults

cacheVars == <<rows, l1, l2, call, recomputing, eviction, news, cacheFaults>>

None     == -1
NoCall   == [at |-> "idle", on |-> "none", value |-> None]
Settled  == [at |-> "done", on |-> "none"]

CacheInit ==
    /\ rows = 0 /\ l1 = [i \in Instances |-> None] /\ l2 = None
    /\ call = [c \in CacheCalls |-> NoCall] /\ recomputing = {}
    /\ eviction = [v \in 1..LastVersion |-> Settled] /\ news = {}
    /\ cacheFaults = 0

CacheFault == cacheFaults < MaxCacheFaults /\ cacheFaults' = cacheFaults + 1

-----------------------------------------------------------------------------
(* cacheAside *)

Call(c, place, i, value) == call' = [call EXCEPT ![c] = [at |-> place, on |-> i, value |-> value]]

\* A miss goes on to Redis.  A hit returns, unless XFetch picks it and no recomputation
\* is under way.
Lookup(c, i) ==
    /\ call[c].at = "idle"
    /\ \/ l1[i] = None /\ Call(c, "asking", i, None) /\ UNCHANGED recomputing
       \/ /\ l1[i] # None /\ i \notin recomputing
          /\ recomputing' = recomputing \cup {i}
          /\ Call(c, "loading", i, None)
    /\ UNCHANGED <<rows, l1, l2, eviction, news, cacheFaults>>

\* Mutant: a hit in Redis is stored again, for another time to live.
AnswerSliding(c) ==
    /\ call[c].at = "asking"
    /\ IF l2 = None THEN Call(c, "loading", call[c].on, None)
                    ELSE Call(c, "loaded", call[c].on, l2)
    /\ UNCHANGED <<rows, l1, l2, recomputing, eviction, news, cacheFaults>>

\* A hit in Redis fills the map.
Answer(c) ==
    /\ call[c].at = "asking"
    /\ IF l2 = None THEN Call(c, "loading", call[c].on, None) /\ UNCHANGED l1
                    ELSE /\ l1' = [l1 EXCEPT ![call[c].on] = l2]
                         /\ call' = [call EXCEPT ![c] = NoCall]
    /\ UNCHANGED <<rows, l2, recomputing, eviction, news, cacheFaults>>

AnswerFails(c) ==
    /\ call[c].at = "asking" /\ CacheFault
    /\ Call(c, "loading", call[c].on, None)
    /\ UNCHANGED <<rows, l1, l2, recomputing, eviction, news>>

Load(c) ==
    /\ call[c].at = "loading"
    /\ Call(c, "loaded", call[c].on, rows)
    /\ UNCHANGED <<rows, l1, l2, recomputing, eviction, news, cacheFaults>>

\* The end of every call that loaded takes the key out of _recomputing, whoever put it there.
Return(c) ==
    /\ recomputing' = recomputing \ {call[c].on}
    /\ call' = [call EXCEPT ![c] = NoCall]

LoadFails(c) ==
    /\ call[c].at = "loading" /\ CacheFault
    /\ Return(c)
    /\ UNCHANGED <<rows, l1, l2, eviction, news>>

\* cacheSet: the map at once, and then Redis.
StoreL1(c) ==
    /\ call[c].at = "loaded"
    /\ l1' = [l1 EXCEPT ![call[c].on] = call[c].value]
    /\ Call(c, "storing", call[c].on, call[c].value)
    /\ UNCHANGED <<rows, l2, recomputing, eviction, news, cacheFaults>>

StoreL2(c) ==
    /\ call[c].at = "storing"
    /\ l2' = call[c].value
    /\ Return(c)
    /\ UNCHANGED <<rows, l1, eviction, news, cacheFaults>>

StoreFails(c) ==
    /\ call[c].at = "storing" /\ CacheFault
    /\ Return(c)
    /\ UNCHANGED <<rows, l1, l2, eviction, news>>

-----------------------------------------------------------------------------
(* Writers and cacheInvalidate. *)

CommitWrite(i) ==
    /\ rows < LastVersion
    /\ rows' = rows + 1
    /\ eviction' = [eviction EXCEPT ![rows + 1] = [at |-> "due", on |-> i]]
    /\ UNCHANGED <<l1, l2, call, recomputing, news, cacheFaults>>

EvictL1(v) ==
    /\ eviction[v].at = "due"
    /\ l1' = [l1 EXCEPT ![eviction[v].on] = None]
    /\ eviction' = [eviction EXCEPT ![v].at = "deleting"]
    /\ UNCHANGED <<rows, l2, call, recomputing, news, cacheFaults>>

EvictL2(v) ==
    /\ eviction[v].at = "deleting"
    /\ l2' = None
    /\ eviction' = [eviction EXCEPT ![v].at = "publishing"]
    /\ UNCHANGED <<rows, l1, call, recomputing, news, cacheFaults>>

Publish(v) ==
    /\ eviction[v].at = "publishing"
    /\ news' = news \cup (Instances \ {eviction[v].on})
    /\ eviction' = [eviction EXCEPT ![v] = Settled]
    /\ UNCHANGED <<rows, l1, l2, call, recomputing, cacheFaults>>

\* A failed command ends the invalidation; the writer does not wait for it.
EvictionFails(v) ==
    /\ eviction[v].at \in {"deleting", "publishing"} /\ CacheFault
    /\ eviction' = [eviction EXCEPT ![v] = Settled]
    /\ UNCHANGED <<rows, l1, l2, call, recomputing, news>>

HearInvalidation(i) ==
    /\ i \in news
    /\ news' = news \ {i}
    /\ l1' = [l1 EXCEPT ![i] = None]
    /\ UNCHANGED <<rows, l2, call, recomputing, eviction, cacheFaults>>

LoseInvalidation(i) ==
    /\ i \in news /\ CacheFault
    /\ news' = news \ {i}
    /\ UNCHANGED <<rows, l1, l2, call, recomputing, eviction>>

-----------------------------------------------------------------------------
(* Expiry and restart. *)

\* The time to live passes, or LRUCache.set evicts the entry for another key.
L1Expires(i) ==
    /\ l1[i] # None
    /\ l1' = [l1 EXCEPT ![i] = None]
    /\ UNCHANGED <<rows, l2, call, recomputing, eviction, news, cacheFaults>>

L2Expires ==
    /\ l2 # None /\ l2' = None
    /\ UNCHANGED <<rows, l1, call, recomputing, eviction, news, cacheFaults>>

Restart(i) ==
    /\ CacheFault
    /\ l1' = [l1 EXCEPT ![i] = None] /\ recomputing' = recomputing \ {i} /\ news' = news \ {i}
    /\ call' = [c \in CacheCalls |-> IF call[c].on = i THEN NoCall ELSE call[c]]
    /\ eviction' = [v \in 1..LastVersion |-> IF eviction[v].on = i THEN Settled ELSE eviction[v]]
    /\ UNCHANGED <<rows, l2>>

CallStep(c) == Answer(c) \/ Load(c) \/ StoreL1(c) \/ StoreL2(c)

CacheNext ==
    \/ \E c \in CacheCalls : \/ \E i \in Instances : Lookup(c, i)
                             \/ CallStep(c) \/ AnswerFails(c) \/ LoadFails(c) \/ StoreFails(c)
    \/ \E i \in Instances : \/ CommitWrite(i) \/ HearInvalidation(i) \/ LoseInvalidation(i)
                            \/ L1Expires(i) \/ Restart(i)
    \/ \E v \in 1..LastVersion : EvictL1(v) \/ EvictL2(v) \/ Publish(v) \/ EvictionFails(v)
    \/ L2Expires

CacheSpec == CacheInit /\ [][CacheNext]_cacheVars

\* Entries expire, and the awaits of a call return.
CacheFairness ==
    /\ \A i \in Instances : WF_cacheVars(L1Expires(i))
    /\ WF_cacheVars(L2Expires)
    /\ \A c \in CacheCalls : WF_cacheVars(CallStep(c))
-----------------------------------------------------------------------------
(* Properties. *)

CacheTypeOK ==
    LET Values == {None} \cup 0..LastVersion
    IN  /\ rows \in 0..LastVersion /\ l1 \in [Instances -> Values] /\ l2 \in Values
        /\ call \in [CacheCalls -> [at : {"idle", "asking", "loading", "loaded", "storing"},
                                    on : Instances \cup {"none"}, value : Values]]
        /\ recomputing \subseteq Instances /\ news \subseteq Instances
        /\ eviction \in [1..LastVersion -> [at : {"done", "due", "deleting", "publishing"},
                                            on : Instances \cup {"none"}]]
        /\ cacheFaults \in 0..MaxCacheFaults

Fresh(entry) == entry \in {None, rows}

\* Stale entries do not live on: once writes stop, both tiers come to hold what is in the
\* tables, although loads overlap writes, Redis refills the maps, and invalidations are
\* lost.
StalenessEnds == <>[](Fresh(l2) /\ \A i \in Instances : Fresh(l1[i]))
=============================================================================
