--------------------------- MODULE EvidenceCache ---------------------------
(***************************************************************************)
(* The evidence cache one investigation engine owns                        *)
(* (internal/investigate/evidcache.go): per conversation, the collector    *)
(* runs of earlier turns, keyed by collector and focus.  Every method      *)
(* holds the cache's mutex from its first line to its last, so a method    *)
(* is an operator from a cache value (and the caller's clock reading) to   *)
(* the cache values it can leave behind; module Converse interleaves them. *)
(*                                                                         *)
(* A cache is a function from the conversations it holds to convoCache     *)
(* records; entries is a function whose domain is the set of cached keys,  *)
(* order the keys in insertion order.                                      *)
(***************************************************************************)
EXTENDS Integers, Sequences, FiniteSets

CONSTANTS Collectors,   \* names of the profile's collectors
          Foci,         \* resources a conversation can focus on
          MaxConvos,    \* evidCacheMaxConvos
          MaxEntries,   \* evidCacheMaxEntries
          IdleTTL,      \* evidCacheIdleTTL, in clock units
          TTLs          \* freshness window of each collector (ttlFor)

ASSUME CacheAssumption ==
    /\ MaxConvos \in Nat \ {0}
    /\ MaxEntries \in Nat \ {0}
    /\ IdleTTL \in Nat
    /\ TTLs \in [Collectors -> Nat]

\* cacheKey: the two parts are joined by a separator neither contains.
cacheKey(collector, target) == <<collector, target>>

ttlFor(collector) == TTLs[collector]

EmptyCache == [c \in {} |-> 0]

NewConvoCache(now) ==
    [entries |-> [k \in {} |-> 0], order |-> <<>>, lastUsed |-> now]

\* Mutant of Fresh: the entry's age is not looked at.
EverFresh(cache, c, collector, target, now) ==
    c \in DOMAIN cache /\ cacheKey(collector, target) \in DOMAIN cache[c].entries

\* The entry of (c, collector, target) exists and has not outlived its TTL by
\* the reader's clock.  A reader whose clock is behind the entry sees a
\* negative age, which is fresh.
Fresh(cache, c, collector, target, now) ==
    LET key == cacheKey(collector, target) IN
    /\ c \in DOMAIN cache
    /\ key \in DOMAIN cache[c].entries
    /\ now - cache[c].entries[key].At <= ttlFor(collector)

\* What get leaves behind, hit or miss: the conversation counts as used at the
\* caller's time, which may be earlier than the time already there.
Touch(cache, c, now) ==
    IF c \in DOMAIN cache THEN [cache EXCEPT ![c].lastUsed = now] ELSE cache

Drop(cache, gone) == [c \in DOMAIN cache \ gone |-> cache[c]]

\* evictLRULocked ranges over a Go map: among equally old conversations any
\* one may go.
LeastRecentlyUsed(cache) ==
    {c \in DOMAIN cache :
        \A d \in DOMAIN cache : cache[c].lastUsed <= cache[d].lastUsed}

\* Mutant of StoreEntry: the oldest key leaves the order but not the map.
LeakyStoreEntry(cc, key, e, now) ==
    [cc EXCEPT !.lastUsed = now,
               !.order = IF key \in DOMAIN cc.entries THEN @
                         ELSE IF Len(@) >= MaxEntries THEN Append(Tail(@), key)
                         ELSE Append(@, key),
               !.entries = [k \in DOMAIN cc.entries \cup {key} |->
                               IF k = key THEN e ELSE cc.entries[k]]]

\* The conversation's entries after storing e under key: a key already there
\* keeps its place in the insertion order, a new one pushes the oldest out
\* when the cap is reached.
StoreEntry(cc, key, e, now) ==
    LET known == key \in DOMAIN cc.entries
        full  == ~known /\ Len(cc.order) >= MaxEntries
        kept  == IF full THEN DOMAIN cc.entries \ {Head(cc.order)}
                 ELSE DOMAIN cc.entries
    IN  [entries  |-> [k \in kept \cup {key} |->
                          IF k = key THEN e ELSE cc.entries[k]],
         order    |-> IF known THEN cc.order
                      ELSE Append(IF full THEN Tail(cc.order) ELSE cc.order, key),
         lastUsed |-> now]

\* The caches put can start storing from: a conversation that is not cached
\* yet makes room first.
WithRoomFor(cache, c) ==
    IF c \notin DOMAIN cache /\ Cardinality(DOMAIN cache) >= MaxConvos
    THEN {Drop(cache, {v}) : v \in LeastRecentlyUsed(cache)}
    ELSE {cache}

Insert(cache, c, key, e, now) ==
    [d \in DOMAIN cache \cup {c} |->
        IF d # c THEN cache[d]
        ELSE StoreEntry(IF c \in DOMAIN cache THEN cache[c] ELSE NewConvoCache(now),
                        key, e, now)]

\* put: the set of caches it can leave behind.
Put(cache, c, key, e, now) ==
    {Insert(room, c, key, e, now) : room \in WithRoomFor(cache, c)}

\* purge: conversations idle for longer than the idle TTL go.
Purge(cache, now) ==
    Drop(cache, {c \in DOMAIN cache : now - cache[c].lastUsed > IdleTTL})

---------------------------------------------------------------------------
Keys == Collectors \X Foci

\* Every conversation's cache is a convoCache record over the given entries.
CacheTyped(cache, Entries) ==
    /\ IsFiniteSet(DOMAIN cache)
    /\ \A c \in DOMAIN cache :
        /\ cache[c] = [entries  |-> cache[c].entries,
                       order    |-> cache[c].order,
                       lastUsed |-> cache[c].lastUsed]
        /\ DOMAIN cache[c].entries \subseteq Keys
        /\ \A k \in DOMAIN cache[c].entries : cache[c].entries[k] \in Entries
        /\ cache[c].order \in Seq(Keys)
        /\ cache[c].lastUsed \in Nat

\* One conversation's cache is sound: its entry map and its insertion order
\* name the same keys, each once, and the entry cap holds.  Otherwise evidence
\* would stay in memory that eviction can no longer reach, or eviction would
\* remove nothing.
ConvoCacheOK(cc) ==
    /\ Len(cc.order) <= MaxEntries
    /\ DOMAIN cc.entries = {cc.order[i] : i \in DOMAIN cc.order}
    /\ \A i, j \in DOMAIN cc.order : cc.order[i] = cc.order[j] => i = j

CacheBounded(cache) ==
    /\ Cardinality(DOMAIN cache) <= MaxConvos
    /\ \A c \in DOMAIN cache : ConvoCacheOK(cache[c])
=============================================================================
