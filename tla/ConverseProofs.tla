--------------------------- MODULE ConverseProofs ---------------------------
(***************************************************************************)
(* Proofs about Converse for any number of turns, any caps and any bounds: *)
(* the types, the soundness of the shared cache, and that a conversation   *)
(* whose turns did not overlap loses nothing.                              *)
(***************************************************************************)
EXTENDS Converse, FiniteSetTheorems, SequenceTheorems, TLAPS

---------------------------------------------------------------------------
(* What the operations of the evidence cache preserve, for every size of   *)
(* the caps and every clock reading a caller may bring.                    *)

\* A cache that is typed and within its caps.
CacheOK(memo, Values) == CacheTyped(memo, Values) /\ CacheBounded(memo)

\* A conversation's record is a convoCache over the given entries.
ConvoTyped(cc, Values) ==
    /\ cc = [entries |-> cc.entries, order |-> cc.order, lastUsed |-> cc.lastUsed]
    /\ DOMAIN cc.entries \subseteq Keys
    /\ \A k \in DOMAIN cc.entries : cc.entries[k] \in Values
    /\ cc.order \in Seq(Keys)
    /\ cc.lastUsed \in Nat

\* Storing an entry keeps the entry map and the eviction order in step and the
\* entry cap kept, whether the key is known, new, or new with the cap reached.
LEMMA StoreEntrySound ==
    ASSUME NEW Values, NEW cc, ConvoTyped(cc, Values), ConvoCacheOK(cc),
           NEW key \in Keys, NEW e \in Values, NEW clock \in Nat
    PROVE  /\ ConvoTyped(StoreEntry(cc, key, e, clock), Values)
           /\ ConvoCacheOK(StoreEntry(cc, key, e, clock))
<1> DEFINE known == key \in DOMAIN cc.entries
           atCap == ~known /\ Len(cc.order) >= MaxEntries
           rest == IF atCap THEN Tail(cc.order) ELSE cc.order
           kept == IF atCap THEN DOMAIN cc.entries \ {Head(cc.order)}
                   ELSE DOMAIN cc.entries
           new  == StoreEntry(cc, key, e, clock)
<1>1. /\ new.entries = [k \in kept \cup {key} |-> IF k = key THEN e ELSE cc.entries[k]]
      /\ new.order = IF known THEN cc.order ELSE Append(rest, key)
      /\ new.lastUsed = clock
      /\ new = [entries |-> new.entries, order |-> new.order, lastUsed |-> new.lastUsed]
  BY DEF StoreEntry
<1>2. /\ cc.order \in Seq(Keys)
      /\ DOMAIN cc.entries = {cc.order[i] : i \in DOMAIN cc.order}
      /\ \A i, j \in DOMAIN cc.order : cc.order[i] = cc.order[j] => i = j
      /\ Len(cc.order) \in Nat /\ Len(cc.order) <= MaxEntries
      /\ DOMAIN cc.order = 1..Len(cc.order)
  BY LenProperties DEF ConvoTyped, ConvoCacheOK
<1>3. /\ rest \in Seq(Keys)
      /\ ~known => Len(rest) < MaxEntries
      /\ kept = {rest[i] : i \in DOMAIN rest}
      /\ \A i, j \in DOMAIN rest : rest[i] = rest[j] => i = j
      /\ DOMAIN rest = 1..Len(rest) /\ Len(rest) \in Nat
  <2>1. CASE atCap
    <3>0. rest = Tail(cc.order) /\ kept = DOMAIN cc.entries \ {Head(cc.order)}
      BY <2>1
    <3>1. cc.order # <<>>
      BY <1>2, <2>1, CacheAssumption, EmptySeq DEF CacheAssumption
    <3>2. /\ Tail(cc.order) \in Seq(Keys)
          /\ Len(Tail(cc.order)) = Len(cc.order) - 1
          /\ \A i \in 1..Len(Tail(cc.order)) : Tail(cc.order)[i] = cc.order[i + 1]
      BY <1>2, <3>1, HeadTailProperties
    <3>3. Head(cc.order) = cc.order[1] /\ Len(cc.order) >= 1
      BY <1>2, <3>1
    <3>4. DOMAIN Tail(cc.order) = 1..(Len(cc.order) - 1)
      BY <1>2, <3>2, LenProperties
    <3>5. \A i, j \in DOMAIN Tail(cc.order) :
              Tail(cc.order)[i] = Tail(cc.order)[j] => i = j
      <4>1. SUFFICES ASSUME NEW i \in 1..(Len(cc.order) - 1),
                            NEW j \in 1..(Len(cc.order) - 1),
                            Tail(cc.order)[i] = Tail(cc.order)[j]
                     PROVE  i = j
        BY <3>4
      <4>2. cc.order[i + 1] = cc.order[j + 1]
        BY <1>2, <3>2, <4>1
      <4>3. i + 1 \in DOMAIN cc.order /\ j + 1 \in DOMAIN cc.order
        BY <1>2
      <4>4. i + 1 = j + 1
        BY <1>2, <4>2, <4>3
      <4> QED BY <4>4
    <3>6. \A k : k \in DOMAIN cc.entries \ {Head(cc.order)}
                   <=> \E i \in DOMAIN Tail(cc.order) : k = Tail(cc.order)[i]
      <4>1. ASSUME NEW k \in DOMAIN cc.entries \ {Head(cc.order)}
            PROVE  \E i \in DOMAIN Tail(cc.order) : k = Tail(cc.order)[i]
        <5>1. PICK i \in DOMAIN cc.order : k = cc.order[i]
          BY <1>2
        <5>2. i # 1 /\ i - 1 \in 1..(Len(cc.order) - 1)
          BY <1>2, <5>1, <3>3
        <5>3. Tail(cc.order)[i - 1] = cc.order[i]
          BY <5>2, <3>2, <1>2
        <5> QED BY <5>1, <5>2, <5>3, <3>4
      <4>2. ASSUME NEW i \in DOMAIN Tail(cc.order)
            PROVE  Tail(cc.order)[i] \in DOMAIN cc.entries \ {Head(cc.order)}
        <5>1. Tail(cc.order)[i] = cc.order[i + 1] /\ i + 1 \in DOMAIN cc.order /\ i + 1 # 1
          BY <1>2, <3>2, <3>4
        <5> QED BY <5>1, <1>2, <3>3
      <4> QED BY <4>1, <4>2
    <3>7. kept = {rest[i] : i \in DOMAIN rest}
      BY <3>0, <3>6
    <3>8. Len(rest) \in Nat /\ Len(rest) < MaxEntries
      <4>1. Len(cc.order) - 1 \in Nat /\ Len(cc.order) - 1 < MaxEntries
        BY <1>2, <3>3, CacheAssumption DEF CacheAssumption
      <4> QED BY <4>1, <3>0, <3>2
    <3> QED
      <4> HIDE DEF rest, kept, known
      <4> QED BY <3>0, <3>2, <3>4, <3>5, <3>7, <3>8
  <2>2. CASE ~atCap
    <3>1. rest = cc.order /\ kept = DOMAIN cc.entries
      BY <2>2
    <3>2. ~known => Len(cc.order) < MaxEntries
      BY <1>2, <2>2, CacheAssumption DEF CacheAssumption
    <3> QED
      <4> HIDE DEF rest, kept, known
      <4> QED BY <1>2, <3>1, <3>2
  <2> QED BY <2>1, <2>2
<1>4. /\ known => kept = DOMAIN cc.entries
      /\ ~known => key \notin kept
      /\ kept \subseteq DOMAIN cc.entries
      /\ known = (key \in DOMAIN cc.entries)
  OBVIOUS
<1> HIDE DEF known, atCap, rest, kept, new
<1>6. ConvoCacheOK(new) => /\ ConvoTyped(StoreEntry(cc, key, e, clock), Values)
                           /\ ConvoCacheOK(StoreEntry(cc, key, e, clock))
  <2>1. new.order \in Seq(Keys)
    BY <1>1, <1>2, <1>3, AppendProperties
  <2>2. DOMAIN new.entries \subseteq Keys
    BY <1>1, <1>4 DEF ConvoTyped
  <2>3. \A k \in DOMAIN new.entries : new.entries[k] \in Values
    BY <1>1, <1>4 DEF ConvoTyped
  <2>4. ConvoTyped(new, Values)
    BY <1>1, <2>1, <2>2, <2>3 DEF ConvoTyped
  <2> QED BY <2>4 DEF new
<1>7. CASE known
  <2>1. DOMAIN new.entries = DOMAIN cc.entries /\ new.order = cc.order
    BY <1>1, <1>4, <1>7
  <2>2. ConvoCacheOK(new)
    BY <1>2, <2>1 DEF ConvoCacheOK
  <2> QED BY <1>6, <2>2
<1>8. CASE ~known
  <2> DEFINE ord == Append(rest, key)
  <2>1. /\ Len(ord) = Len(rest) + 1
        /\ \A i \in 1..Len(rest) : ord[i] = rest[i]
        /\ ord[Len(rest) + 1] = key
        /\ DOMAIN ord = 1..(Len(rest) + 1)
    <3>1. /\ ord \in Seq(Keys) /\ Len(ord) = Len(rest) + 1
          /\ \A i \in 1..Len(rest) : ord[i] = rest[i]
          /\ ord[Len(rest) + 1] = key
      BY <1>3, AppendProperties
    <3> QED BY <3>1, LenProperties
  <2>2. new.order = ord /\ DOMAIN new.entries = kept \cup {key}
    BY <1>1, <1>8
  <2> HIDE DEF ord
  <2>3. Len(ord) <= MaxEntries
    BY <1>3, <1>8, <2>1, CacheAssumption DEF CacheAssumption
  <2>4. \A k : k \in kept \cup {key} <=> \E i \in DOMAIN ord : k = ord[i]
    <3>1. \A k \in kept : \E i \in DOMAIN ord : k = ord[i]
      BY <1>3, <2>1
    <3>2. \E i \in DOMAIN ord : key = ord[i]
      BY <1>3, <2>1
    <3>3. \A i \in DOMAIN ord : ord[i] \in kept \cup {key}
      BY <1>3, <2>1
    <3> QED BY <3>1, <3>2, <3>3
  <2>5. \A i, j \in DOMAIN ord : ord[i] = ord[j] => i = j
    <3>1. \A i \in 1..Len(rest) : ord[i] \in kept /\ ord[i] # key
      BY <1>3, <1>4, <1>8, <2>1
    <3> QED BY <1>3, <2>1, <3>1
  <2>6. kept \cup {key} = {ord[i] : i \in DOMAIN ord}
    BY <2>4
  <2>7. ConvoCacheOK(new)
    BY <2>2, <2>3, <2>5, <2>6 DEF ConvoCacheOK
  <2> QED BY <1>6, <2>7
<1> QED BY <1>7, <1>8

\* A conversation that gets its first entry starts from a sound empty record.
LEMMA NewConvoSound ==
    ASSUME NEW Values, NEW clock \in Nat
    PROVE  ConvoTyped(NewConvoCache(clock), Values) /\ ConvoCacheOK(NewConvoCache(clock))
BY CacheAssumption, EmptySeq DEF CacheAssumption, ConvoTyped, ConvoCacheOK, NewConvoCache

\* The same two facts per conversation and for the whole cache.
LEMMA CacheOKPerConvo ==
    ASSUME NEW Values, NEW memo
    PROVE  CacheOK(memo, Values) <=>
               /\ IsFiniteSet(DOMAIN memo)
               /\ Cardinality(DOMAIN memo) <= MaxConvos
               /\ \A c \in DOMAIN memo : ConvoTyped(memo[c], Values)
               /\ \A c \in DOMAIN memo : ConvoCacheOK(memo[c])
BY DEF CacheOK, CacheTyped, CacheBounded, ConvoTyped

\* The empty cache, of a new engine, is sound.
LEMMA EmptyCacheSound ==
    ASSUME NEW Values
    PROVE  CacheOK(EmptyCache, Values)
<1>1. DOMAIN EmptyCache = {}
  BY DEF EmptyCache
<1>2. IsFiniteSet(DOMAIN EmptyCache) /\ Cardinality(DOMAIN EmptyCache) = 0
  BY <1>1, FS_EmptySet
<1> QED BY <1>1, <1>2, CacheOKPerConvo, CacheAssumption DEF CacheAssumption

\* Taking conversations out (eviction, purge) leaves a sound cache.
LEMMA DropSound ==
    ASSUME NEW Values, NEW memo, NEW gone, CacheOK(memo, Values)
    PROVE  CacheOK(Drop(memo, gone), Values)
<1>1. /\ DOMAIN Drop(memo, gone) = DOMAIN memo \ gone
      /\ \A c \in DOMAIN memo \ gone : Drop(memo, gone)[c] = memo[c]
  BY DEF Drop
<1>2. IsFiniteSet(DOMAIN memo) /\ Cardinality(DOMAIN memo) <= MaxConvos
  BY CacheOKPerConvo
<1>3. IsFiniteSet(DOMAIN memo \ gone)
      /\ Cardinality(DOMAIN memo \ gone) <= Cardinality(DOMAIN memo)
  BY <1>2, FS_Subset
<1>4. Cardinality(DOMAIN memo \ gone) \in Nat /\ Cardinality(DOMAIN memo) \in Nat
  BY <1>2, <1>3, FS_CardinalityType
<1> QED BY <1>1, <1>2, <1>3, <1>4, CacheOKPerConvo, CacheAssumption DEF CacheAssumption

\* A lookup, hit or miss, leaves a sound cache.
LEMMA TouchSound ==
    ASSUME NEW Values, NEW memo, NEW c, NEW clock \in Nat, CacheOK(memo, Values)
    PROVE  CacheOK(Touch(memo, c, clock), Values)
<1>1. CASE c \in DOMAIN memo
  <2>1. /\ DOMAIN Touch(memo, c, clock) = DOMAIN memo
        /\ \A d \in DOMAIN memo : d # c => Touch(memo, c, clock)[d] = memo[d]
        /\ Touch(memo, c, clock)[c] = [memo[c] EXCEPT !.lastUsed = clock]
    BY <1>1, SMT DEF Touch, CacheOK, CacheTyped
  <2>2. ConvoTyped(memo[c], Values) /\ ConvoCacheOK(memo[c])
    BY <1>1, CacheOKPerConvo
  <2>3. [memo[c] EXCEPT !.lastUsed = clock] =
            [entries |-> memo[c].entries, order |-> memo[c].order, lastUsed |-> clock]
    BY <2>2 DEF ConvoTyped
  <2>4. ConvoTyped(Touch(memo, c, clock)[c], Values)
    BY <2>1, <2>2, <2>3 DEF ConvoTyped
  <2>5. ConvoCacheOK(Touch(memo, c, clock)[c])
    BY <2>1, <2>2, <2>3 DEF ConvoCacheOK
  <2> QED BY <2>1, <2>4, <2>5, CacheOKPerConvo
<1>2. CASE c \notin DOMAIN memo
  BY <1>2 DEF Touch
<1> QED BY <1>1, <1>2

\* What purge leaves is sound.
LEMMA PurgeSound ==
    ASSUME NEW Values, NEW memo, NEW clock \in Nat, CacheOK(memo, Values)
    PROVE  CacheOK(Purge(memo, clock), Values)
BY DropSound DEF Purge

\* put keeps both caps: it makes room for a conversation before adding it, and
\* for an entry before adding it.
LEMMA PutSound ==
    ASSUME NEW Values, NEW memo, NEW c, NEW key \in Keys, NEW e \in Values,
           NEW clock \in Nat, CacheOK(memo, Values),
           NEW after \in Put(memo, c, key, e, clock)
    PROVE  CacheOK(after, Values)
<1>1. PICK room \in WithRoomFor(memo, c) : after = Insert(room, c, key, e, clock)
  BY DEF Put
<1>2. /\ CacheOK(room, Values)
      /\ c \notin DOMAIN room => Cardinality(DOMAIN room) < MaxConvos
  <2>0. /\ IsFiniteSet(DOMAIN memo) /\ Cardinality(DOMAIN memo) <= MaxConvos
        /\ Cardinality(DOMAIN memo) \in Nat /\ MaxConvos \in Nat
    BY CacheOKPerConvo, FS_CardinalityType, CacheAssumption DEF CacheAssumption
  <2>1. CASE c \notin DOMAIN memo /\ Cardinality(DOMAIN memo) >= MaxConvos
    <3>1. PICK v \in LeastRecentlyUsed(memo) : room = Drop(memo, {v})
      BY <2>1 DEF WithRoomFor
    <3>2. v \in DOMAIN memo /\ DOMAIN room = DOMAIN memo \ {v}
      BY <3>1 DEF LeastRecentlyUsed, Drop
    <3>3. Cardinality(DOMAIN room) = Cardinality(DOMAIN memo) - 1
      BY <2>0, <3>2, FS_RemoveElement
    <3> QED BY <2>0, <3>1, <3>3, DropSound
  <2>2. CASE ~(c \notin DOMAIN memo /\ Cardinality(DOMAIN memo) >= MaxConvos)
    <3>1. room = memo
      BY <2>2 DEF WithRoomFor
    <3> QED BY <2>0, <2>2, <3>1
  <2> QED BY <2>1, <2>2
<1> DEFINE cc == IF c \in DOMAIN room THEN room[c] ELSE NewConvoCache(clock)
<1>3. ConvoTyped(cc, Values) /\ ConvoCacheOK(cc)
  BY <1>2, CacheOKPerConvo, NewConvoSound
<1>4. /\ ConvoTyped(StoreEntry(cc, key, e, clock), Values)
      /\ ConvoCacheOK(StoreEntry(cc, key, e, clock))
  BY <1>3, StoreEntrySound
<1>5. /\ DOMAIN after = DOMAIN room \cup {c}
      /\ after[c] = StoreEntry(cc, key, e, clock)
      /\ \A d \in DOMAIN room : d # c => after[d] = room[d]
  BY <1>1 DEF Insert
<1>6. IsFiniteSet(DOMAIN after) /\ Cardinality(DOMAIN after) <= MaxConvos
  <2>1. /\ IsFiniteSet(DOMAIN room) /\ Cardinality(DOMAIN room) \in Nat
        /\ Cardinality(DOMAIN room) <= MaxConvos /\ MaxConvos \in Nat
    BY <1>2, CacheOKPerConvo, FS_CardinalityType, CacheAssumption DEF CacheAssumption
  <2>2. /\ IsFiniteSet(DOMAIN room \cup {c})
        /\ Cardinality(DOMAIN room \cup {c}) =
               IF c \in DOMAIN room THEN Cardinality(DOMAIN room)
               ELSE Cardinality(DOMAIN room) + 1
    BY <2>1, FS_AddElement
  <2> QED BY <1>2, <1>5, <2>1, <2>2
<1> QED BY <1>2, <1>4, <1>5, <1>6, CacheOKPerConvo

---------------------------------------------------------------------------
(* The turns.                                                              *)

\* The type invariant together with the cache's own: a lookup or a store in a
\* cache that was sound before leaves it sound.
SoundInv == TypeOK /\ CacheBounded(cache)

LEMMA SoundCache == SoundInv => CacheOK(cache, Entries)
BY DEF SoundInv, TypeOK, CacheOK

\* A turn in its plan works on a step with a known collector, under a key the
\* cache may hold.
LEMMA CurrentStep ==
    ASSUME SoundInv, NEW t \in Turns, InPlan(t), pc[t] \in Focused
    PROVE  /\ Current(t) \in Steps
           /\ cacheKey(Current(t).collector, focus[t]) \in Keys
           /\ Collected(t) \in Entries
           /\ start[t] \in Nat /\ plan[t] \in Seq(Steps) /\ pos[t] \in DOMAIN plan[t]
<1>1. plan[t] \in Seq(Steps) /\ pos[t] \in DOMAIN plan[t]
  BY DEF SoundInv, TypeOK, InPlan
<1>2. Current(t) \in Steps
  BY <1>1, ElementOfSeq, LenProperties DEF Current
<1>3. focus[t] \in Foci /\ start[t] \in Nat
  BY DEF SoundInv, TypeOK
<1> QED BY <1>1, <1>2, <1>3 DEF cacheKey, Keys, Collected, Entries, Steps

\* Every access to the cache, by whichever turn, leaves it typed and bounded.
LEMMA CacheStep == SoundInv /\ [Next]_vars => CacheOK(cache', Entries)
<1> SUFFICES ASSUME SoundInv, [Next]_vars
             PROVE  CacheOK(cache', Entries)
  OBVIOUS
<1>0. CacheOK(cache, Entries)
  BY SoundCache
<1>1. ASSUME NEW t \in Turns, StartPlan(t)
      PROVE  CacheOK(cache', Entries)
  BY <1>0, <1>1, PurgeSound DEF StartPlan, SoundInv, TypeOK
<1>2. ASSUME NEW t \in Turns, CheckCached(t) \/ ServeCached(t) \/ LostCached(t)
      PROVE  CacheOK(cache', Entries)
  <2>1. cache' = Touch(cache, conv[t], start[t]) /\ start[t] \in Nat
    BY <1>2 DEF CheckCached, ServeCached, LostCached, SoundInv, TypeOK
  <2> QED BY <1>0, <2>1, TouchSound
<1>3. ASSUME NEW t \in Turns, Collect(t)
      PROVE  CacheOK(cache', Entries)
  <2>1. /\ InPlan(t) /\ pc[t] \in Focused
        /\ cache' \in Put(cache, conv[t], cacheKey(Current(t).collector, focus[t]),
                          Collected(t), start[t])
    BY <1>3 DEF Collect, Focused
  <2> QED BY <1>0, <2>1, CurrentStep, PutSound
<1>4. CASE Restart
  BY <1>4, EmptyCacheSound DEF Restart
<1>5. CASE UNCHANGED cache
  BY <1>0, <1>5
<1>6. ASSUME NEW t \in Turns, TurnStep(t)
      PROVE  CacheOK(cache', Entries)
  <2>1. \/ StartPlan(t) \/ CheckCached(t) \/ ServeCached(t) \/ LostCached(t) \/ Collect(t)
        \/ UNCHANGED cache
    BY <1>6 DEF TurnStep, ReadCounter, WriteCounter, FreshId, Load, LoadFails, BeginTurn,
         Planned, Unavailable, Executed, Narrate, Persist, NoRowUpdated, CreateRow,
         Stored, StoreFails, shared
  <2> QED BY <2>1, <1>1, <1>2, <1>3, <1>5
<1>7. CASE Next
  <2>1. \/ \E t \in Turns : TurnStep(t)
        \/ Restart
        \/ UNCHANGED cache
    BY <1>7 DEF Next, Admit, Reject, Tick, shared
  <2> QED BY <2>1, <1>4, <1>5, <1>6
<1>8. CASE UNCHANGED vars
  BY <1>8, <1>5 DEF vars, shared
<1> QED BY <1>7, <1>8

\* Changing the status of one step keeps a plan a plan.
LEMMA StatusStep ==
    ASSUME NEW p \in Seq(Steps), NEW i \in DOMAIN p,
           NEW st \in {"planned", "cached", "done", "unavailable"}
    PROVE  [p EXCEPT ![i].status = st] \in Seq(Steps)
<1>1. i \in 1..Len(p) /\ p[i] \in Steps
  BY LenProperties, ElementOfSeq
<1>2. [p[i] EXCEPT !.status = st] \in Steps
  BY <1>1 DEF Steps
<1>3. [p EXCEPT ![i] = [p[i] EXCEPT !.status = st]] \in Seq(Steps)
  BY <1>1, <1>2, ExceptSeq
<1> QED BY <1>3

\* A new engine, with its empty cache, is typed and within the caps.
LEMMA TypeInit == Init => SoundInv
<1> SUFFICES ASSUME Init PROVE SoundInv
  OBVIOUS
<1>1. CacheOK(cache, Entries)
  BY EmptyCacheSound DEF Init
<1>2. <<>> \in Seq(Messages) /\ <<>> \in Seq(Steps)
  BY EmptySeq
<1>3. DOMAIN store = {}
  BY DEF Init
<1> QED BY <1>1, <1>2, <1>3 DEF Init, SoundInv, TypeOK, CacheOK, Focused, AnyId

\* The parts of TypeOK other than the cache's.
LocalTypes == 
    /\ conv \in [Turns -> AnyId]
    /\ start \in [Turns -> Nat]
    /\ focus \in [Turns -> Foci \cup {NoId}]
    /\ reg \in [Turns -> Nat]
    /\ view \in [Turns -> Seq(Messages)]
    /\ plan \in [Turns -> Seq(Steps)]
    /\ pos \in [Turns -> Nat \ {0}]
    /\ served \in [Turns -> SUBSET [key : Keys, entry : Entries]]
SharedTypes ==
    /\ now \in Nat /\ counter \in Nat /\ backend \in Backends
    /\ DOMAIN store \subseteq AnyId /\ \A c \in DOMAIN store : store[c] \in Seq(Messages)
PcTypes ==
    /\ pc \in [Turns -> {"idle"} \cup Active \cup Settled]
    /\ \A t \in Turns : pc[t] \in Focused => focus[t] \in Foci

\* TypeOK, in the three parts its proof treats one at a time.
LEMMA TypeParts == TypeOK <=> /\ LocalTypes /\ SharedTypes /\ PcTypes
                              /\ CacheTyped(cache, Entries)
BY DEF TypeOK, LocalTypes, SharedTypes, PcTypes

\* What a turn that returns leaves of its locals is typed.
LEMMA ReturnTyped ==
    ASSUME LocalTypes, NEW gone, Return(gone), UNCHANGED scope
    PROVE  LocalTypes'
<1>1. <<>> \in Seq(Messages) /\ <<>> \in Seq(Steps)
  BY EmptySeq
<1> QED BY <1>1 DEF LocalTypes, Return, scope

\* One more message for a transcript.
LEMMA MessageAppended ==
    ASSUME NEW s \in Seq(Messages), NEW t \in Turns
    PROVE  Append(s, Question(t)) \in Seq(Messages) /\ Append(s, Reply(t)) \in Seq(Messages)
<1>1. Question(t) \in Messages /\ Reply(t) \in Messages
  BY DEF Question, Reply, Messages
<1> QED BY <1>1, AppendProperties

\* A turn that only moves on keeps the control state typed.
LEMMA GotoTyped ==
    ASSUME PcTypes, NEW t \in Turns, NEW from, NEW to \in Active \cup Settled,
           Goto(t, from, to), UNCHANGED focus, from \in Focused \/ to \notin Focused
    PROVE  PcTypes'
BY DEF PcTypes, Goto

\* Every step of Converse keeps the types and the bounds of the cache.
LEMMA TypeStep == SoundInv /\ [Next]_vars => SoundInv'
<1> SUFFICES ASSUME SoundInv, [Next]_vars
             PROVE  SoundInv'
  OBVIOUS
<1>0. /\ CacheTyped(cache', Entries) /\ CacheBounded(cache')
      /\ LocalTypes /\ SharedTypes /\ PcTypes
  BY CacheStep, TypeParts DEF CacheOK, SoundInv
<1> SUFFICES LocalTypes' /\ SharedTypes' /\ PcTypes'
  BY <1>0, TypeParts DEF SoundInv, TypeOK, LocalTypes, SharedTypes, PcTypes
<1>1. ASSUME NEW t \in Turns, NEW id \in {NoId} \cup ClientIds \cup DOMAIN store,
             Admit(t, id)
      PROVE  LocalTypes' /\ SharedTypes' /\ PcTypes'
  <2>1. id \in AnyId
    BY <1>0 DEF SharedTypes, AnyId
  <2>2. LocalTypes'
    BY <1>0, <1>1, <2>1 DEF Admit, LocalTypes, SharedTypes, locals, shared
  <2>3. SharedTypes'
    BY <1>0, <1>1 DEF Admit, SharedTypes, shared
  <2>4. PcTypes'
    BY <1>0, <1>1, GotoTyped DEF Admit, Active, Focused
  <2> QED BY <2>2, <2>3, <2>4
<1>2. ASSUME NEW t \in Turns, Reject(t)
      PROVE  LocalTypes' /\ SharedTypes' /\ PcTypes'
  BY <1>0, <1>2, GotoTyped
     DEF Reject, LocalTypes, SharedTypes, locals, shared, scope, Settled, Focused
<1>3. ASSUME NEW t \in Turns, ReadCounter(t)
      PROVE  LocalTypes' /\ SharedTypes' /\ PcTypes'
  BY <1>0, <1>3, GotoTyped
     DEF ReadCounter, LocalTypes, SharedTypes, shared, scope, Active, Focused
<1>4. ASSUME NEW t \in Turns, WriteCounter(t)
      PROVE  LocalTypes' /\ SharedTypes' /\ PcTypes'
  BY <1>0, <1>4, GotoTyped
     DEF WriteCounter, LocalTypes, SharedTypes, locals, scope, Active, Focused
<1>5. ASSUME NEW t \in Turns, NEW c \in AnyId, NEW s \in Seq(Messages), NEW read,
             BeginTurn(t, c, s, read), conv' = [conv EXCEPT ![t] = c],
             NEW from, Goto(t, from, "purge")
      PROVE  LocalTypes' /\ SharedTypes' /\ PcTypes'
  <2>1. Append(s, Question(t)) \in Seq(Messages)
    BY MessageAppended
  <2>2. LocalTypes'
    BY <1>0, <1>5, <2>1 DEF BeginTurn, LocalTypes
  <2>3. SharedTypes'
    BY <1>0, <1>5 DEF BeginTurn, SharedTypes, shared
  <2>4. PcTypes'
    BY <1>0, <1>5 DEF BeginTurn, PcTypes, LocalTypes, Goto, Active
  <2> QED BY <2>2, <2>3, <2>4
<1>6. ASSUME NEW t \in Turns, FreshId(t)
      PROVE  LocalTypes' /\ SharedTypes' /\ PcTypes'
  <2>1. PICK n \in {reg[t] + 1, counter} :
            /\ Goto(t, "idUse", "purge")
            /\ conv' = [conv EXCEPT ![t] = <<now, n>>]
            /\ BeginTurn(t, <<now, n>>, <<>>, <<now, n>> \notin DOMAIN store)
    BY <1>6 DEF FreshId
  <2>2. <<now, n>> \in AnyId
    BY <1>0 DEF LocalTypes, SharedTypes, AnyId
  <2>3. <<>> \in Seq(Messages)
    BY EmptySeq
  <2> QED BY <1>5, <2>1, <2>2, <2>3
<1>7. ASSUME NEW t \in Turns, Load(t) \/ LoadFails(t)
      PROVE  LocalTypes' /\ SharedTypes' /\ PcTypes'
  <2>1. conv[t] \in AnyId /\ conv' = [conv EXCEPT ![t] = conv[t]]
    BY <1>0, <1>7 DEF Load, LoadFails, LocalTypes
  <2>2. <<>> \in Seq(Messages)
    BY EmptySeq
  <2>3. \E s \in Seq(Messages), read \in BOOLEAN :
            Goto(t, "load", "purge") /\ BeginTurn(t, conv[t], s, read)
    <3>1. CASE Load(t)
      BY <1>0, <2>2, <3>1 DEF Load, SharedTypes
    <3>2. CASE LoadFails(t)
      BY <2>2, <3>2 DEF LoadFails
    <3> QED BY <1>7, <3>1, <3>2
  <2> QED BY <1>5, <2>1, <2>3
<1>8. ASSUME NEW t \in Turns, StartPlan(t)
      PROVE  LocalTypes' /\ SharedTypes' /\ PcTypes'
  <2>1. PICK p \in Plans : plan' = [plan EXCEPT ![t] =
            [i \in DOMAIN p |-> [collector |-> p[i], status |-> "planned"]]]
    BY <1>8 DEF StartPlan
  <2>2. p \in Seq(Collectors)
    BY ConverseAssumption DEF ConverseAssumption
  <2>3. DOMAIN p = 1..Len(p) /\ Len(p) \in Nat /\ \A i \in 1..Len(p) : p[i] \in Collectors
    BY <2>2, LenProperties, ElementOfSeq
  <2>4. \A i \in 1..Len(p) : [collector |-> p[i], status |-> "planned"] \in Steps
    BY <2>3 DEF Steps
  <2>5. [i \in DOMAIN p |-> [collector |-> p[i], status |-> "planned"]] \in Seq(Steps)
    BY <2>3, <2>4, IsASeq
  <2>6. LocalTypes'
    BY <1>0, <1>8, <2>1, <2>5 DEF StartPlan, LocalTypes, scope
  <2>7. SharedTypes'
    BY <1>0, <1>8 DEF StartPlan, SharedTypes
  <2>8. PcTypes'
    BY <1>0, <1>8, GotoTyped DEF StartPlan, Active, Focused, scope
  <2> QED BY <2>6, <2>7, <2>8
<1>9. ASSUME NEW t \in Turns, NEW st \in {"planned", "cached", "done", "unavailable"},
             InPlan(t), pc[t] \in Focused,
             plan' = [plan EXCEPT ![t][pos[t]].status = st]
      PROVE  plan' \in [Turns -> Seq(Steps)]
  <2>1. plan[t] \in Seq(Steps) /\ pos[t] \in DOMAIN plan[t]
    BY <1>9, CurrentStep
  <2>2. [plan[t] EXCEPT ![pos[t]].status = st] \in Seq(Steps)
    BY <2>1, StatusStep
  <2>3. plan' = [plan EXCEPT ![t] = [plan[t] EXCEPT ![pos[t]].status = st]]
    BY <1>9
  <2> QED BY <1>0, <2>2, <2>3 DEF LocalTypes
<1>10. ASSUME NEW t \in Turns, CheckCached(t)
       PROVE  LocalTypes' /\ SharedTypes' /\ PcTypes'
  <2>1. plan' \in [Turns -> Seq(Steps)]
    BY <1>9, <1>10 DEF CheckCached, Focused
  <2> QED BY <1>0, <1>10, <2>1
          DEF CheckCached, LocalTypes, SharedTypes, PcTypes, scope
<1>11. ASSUME NEW t \in Turns, Planned(t)
       PROVE  LocalTypes' /\ SharedTypes' /\ PcTypes'
  <2>1. LocalTypes' /\ SharedTypes'
    BY <1>0, <1>11 DEF Planned, LocalTypes, SharedTypes, scope, shared
  <2>2. PcTypes'
    BY <1>0, <1>11, GotoTyped DEF Planned, Active, Focused, scope
  <2> QED BY <2>1, <2>2
<1>12. ASSUME NEW t \in Turns, ServeCached(t)
       PROVE  LocalTypes' /\ SharedTypes' /\ PcTypes'
  <2> DEFINE key == cacheKey(Current(t).collector, focus[t])
  <2>1. key \in Keys /\ InPlan(t)
    BY <1>12, CurrentStep DEF ServeCached, Focused
  <2>2. cache[conv[t]].entries[key] \in Entries
    BY <1>12 DEF ServeCached, Hit, Fresh, SoundInv, TypeOK, CacheTyped
  <2>3. [key |-> key, entry |-> cache[conv[t]].entries[key]]
            \in [key : Keys, entry : Entries]
    BY <2>1, <2>2
  <2>4. served' = [served EXCEPT ![t] =
                      @ \cup {[key |-> key, entry |-> cache[conv[t]].entries[key]]}]
    BY <1>12 DEF ServeCached
  <2> HIDE DEF key
  <2>5. served' \in [Turns -> SUBSET [key : Keys, entry : Entries]]
    BY <1>0, <2>3, <2>4 DEF LocalTypes
  <2> QED BY <1>0, <1>12, <2>5
          DEF ServeCached, LocalTypes, SharedTypes, PcTypes, scope
<1>13. ASSUME NEW t \in Turns, LostCached(t)
       PROVE  LocalTypes' /\ SharedTypes' /\ PcTypes'
  <2>1. plan' \in [Turns -> Seq(Steps)]
    BY <1>9, <1>13 DEF LostCached, Focused
  <2> QED BY <1>0, <1>13, <2>1
          DEF LostCached, LocalTypes, SharedTypes, PcTypes, scope
<1>14. ASSUME NEW t \in Turns, Collect(t) \/ Unavailable(t)
       PROVE  LocalTypes' /\ SharedTypes' /\ PcTypes'
  <2>1. plan' \in [Turns -> Seq(Steps)]
    BY <1>9, <1>14 DEF Collect, Unavailable, Focused
  <2>2. /\ UNCHANGED <<now, backend, counter, store, pc, scope, reg, view, served>>
        /\ pos' = [pos EXCEPT ![t] = @ + 1]
    BY <1>14 DEF Collect, Unavailable, shared
  <2> QED BY <1>0, <2>1, <2>2 DEF LocalTypes, SharedTypes, PcTypes, scope
<1>15. ASSUME NEW t \in Turns, Executed(t)
       PROVE  LocalTypes' /\ SharedTypes' /\ PcTypes'
  BY <1>0, <1>15, GotoTyped
     DEF Executed, LocalTypes, SharedTypes, locals, shared, scope, Active, Focused
<1>16. ASSUME NEW t \in Turns, Narrate(t)
       PROVE  LocalTypes' /\ SharedTypes' /\ PcTypes'
  <2>1. Append(view[t], Reply(t)) \in Seq(Messages)
    BY <1>0, MessageAppended DEF LocalTypes
  <2>2. LocalTypes'
    BY <1>0, <1>16, <2>1 DEF Narrate, LocalTypes, scope
  <2>3. SharedTypes' /\ PcTypes'
    BY <1>0, <1>16, GotoTyped DEF Narrate, SharedTypes, shared, scope, Active, Focused
  <2> QED BY <2>2, <2>3
<1>17. ASSUME NEW t \in Turns, Persist(t) \/ CreateRow(t)
       PROVE  LocalTypes' /\ SharedTypes' /\ PcTypes'
  <2>1. /\ Stored(t)
        /\ Goto(t, "persist", "done") \/ Goto(t, "create", "done")
    BY <1>17 DEF Persist, CreateRow
  <2>2. LocalTypes'
    BY <1>0, <2>1, ReturnTyped DEF Stored
  <2>3. SharedTypes'
    <3>1. /\ DOMAIN store' = DOMAIN store \cup {conv[t]}
          /\ store'[conv[t]] = view[t]
          /\ \A c \in DOMAIN store : c # conv[t] => store'[c] = store[c]
      BY <2>1 DEF Stored, With
    <3>2. conv[t] \in AnyId /\ view[t] \in Seq(Messages)
      BY <1>0 DEF LocalTypes
    <3>3. now' = now /\ counter' = counter /\ backend' = backend
      BY <2>1 DEF Stored
    <3> QED BY <1>0, <3>1, <3>2, <3>3 DEF SharedTypes
  <2>4. PcTypes'
    BY <1>0, <2>1, GotoTyped DEF Stored, scope, Settled, Focused
  <2> QED BY <2>2, <2>3, <2>4
<1>18. ASSUME NEW t \in Turns, NoRowUpdated(t)
       PROVE  LocalTypes' /\ SharedTypes' /\ PcTypes'
  BY <1>0, <1>18, GotoTyped
     DEF NoRowUpdated, LocalTypes, SharedTypes, locals, shared, scope, Active, Focused
<1>19. ASSUME NEW t \in Turns, StoreFails(t)
       PROVE  LocalTypes' /\ SharedTypes' /\ PcTypes'
  <2>1. LocalTypes'
    BY <1>0, <1>19, ReturnTyped DEF StoreFails
  <2>2. SharedTypes'
    BY <1>0, <1>19 DEF StoreFails, SharedTypes, shared
  <2>3. PcTypes'
    BY <1>0, <1>19, GotoTyped DEF StoreFails, scope, Settled, Focused
  <2> QED BY <2>1, <2>2, <2>3
<1>20. CASE Tick
  BY <1>0, <1>20 DEF Tick, LocalTypes, SharedTypes, PcTypes, scope, locals
<1>21. CASE Restart
  <2>1. LocalTypes'
    BY <1>0, <1>21, ReturnTyped DEF Restart
  <2>2. SharedTypes'
    BY <1>0, <1>21 DEF Restart, SharedTypes
  <2>3. PcTypes'
    BY <1>0, <1>21 DEF Restart, PcTypes, scope, Settled, Active, Focused
  <2> QED BY <2>1, <2>2, <2>3
<1>22. CASE UNCHANGED vars
  BY <1>0, <1>22
     DEF vars, shared, scope, locals, LocalTypes, SharedTypes, PcTypes
<1> QED
  BY <1>1, <1>2, <1>3, <1>4, <1>6, <1>7, <1>8, <1>10, <1>11, <1>12, <1>13, <1>14, <1>15,
     <1>16, <1>17, <1>18, <1>19, <1>20, <1>21, <1>22 DEF Next, TurnStep

\* TypeOK and the bound of the shared cache hold of every behaviour, for every
\* number of turns, size of the caps, TTL and clock.
THEOREM CacheIsSound == Spec => []CacheSound
<1>1. SoundInv => CacheSound
  BY DEF SoundInv, CacheSound
<1> QED BY TypeInit, TypeStep, <1>1, PTL DEF Spec

\* The types of the engine, its cache and its store hold of every behaviour.
THEOREM TypesHold == Spec => []TypeOK
<1>1. SoundInv => TypeOK
  BY DEF SoundInv
<1> QED BY TypeInit, TypeStep, <1>1, PTL DEF Spec

---------------------------------------------------------------------------
(* A conversation whose turns ran one after the other keeps its history.    *)
(* The invariant follows a turn from its read to its write: as long as the  *)
(* record is what it was when the turn began, the turn's copy is that       *)
(* record followed by the turn's own messages.                              *)

Pending(t) == IF pc[t] \in {"persist", "create"} THEN <<Question(t), Reply(t)>>
              ELSE <<Question(t)>>

Undisturbed(t) ==
    /\ pc[t] \in Focused /\ clean[t]
    /\ SerialOf(conv[t]) /\ base[t] = Len(FullOf(conv[t]))

GhostTypes ==
    /\ DOMAIN full = DOMAIN store /\ DOMAIN serial = DOMAIN store
    /\ \A c \in DOMAIN full : full[c] \in Seq(Messages)
    /\ \A c \in DOMAIN serial : serial[c] \in BOOLEAN
    /\ base \in [Turns -> Nat]
    /\ clean \in [Turns -> BOOLEAN]

KeepInv ==
    /\ SoundInv /\ GhostTypes
    /\ SerialTurnsKeepHistory
    /\ \A t \in Turns : pc[t] \in Focused => base[t] <= Len(FullOf(conv[t]))
    /\ \A t \in Turns : Undisturbed(t) => view[t] = FullOf(conv[t]) \o Pending(t)

\* Nothing is stored and nobody is between a read and a write at the start.
LEMMA KeepInit == Init => KeepInv
<1> SUFFICES ASSUME Init PROVE KeepInv
  OBVIOUS
<1>1. SoundInv
  BY TypeInit
<1>2. DOMAIN store = {} /\ DOMAIN full = {} /\ DOMAIN serial = {}
  BY DEF Init
<1>3. \A t \in Turns : pc[t] \notin Focused
  BY DEF Init, Focused
<1> QED BY <1>1, <1>2, <1>3
        DEF KeepInv, GhostTypes, SerialTurnsKeepHistory, Undisturbed, Init

\* What every turn works from is a transcript.
LEMMA FullIsSeq ==
    ASSUME GhostTypes, NEW c
    PROVE  FullOf(c) \in Seq(Messages) /\ Len(FullOf(c)) \in Nat
<1>1. <<>> \in Seq(Messages)
  BY EmptySeq
<1>2. FullOf(c) \in Seq(Messages)
  BY <1>1 DEF GhostTypes, FullOf
<1> QED BY <1>2, LenProperties

\* Steps that leave the record alone, and the copy and the scope of every turn
\* that is still between its read and its write afterwards.
LEMMA QuietStep ==
    ASSUME KeepInv, SoundInv', UNCHANGED <<store, full, serial>>,
           base' \in [Turns -> Nat], clean' \in [Turns -> BOOLEAN],
           \A t \in Turns : pc'[t] \in Focused =>
               /\ conv'[t] = conv[t] /\ view'[t] = view[t]
               /\ base'[t] = base[t] /\ clean'[t] = clean[t]
               /\ pc[t] \in Focused
               /\ pc'[t] \in {"persist", "create"} <=> pc[t] \in {"persist", "create"}
    PROVE  KeepInv'
<1>1. GhostTypes' /\ SerialTurnsKeepHistory'
  BY DEF KeepInv, GhostTypes, SerialTurnsKeepHistory
<1>2. ASSUME NEW t \in Turns, pc'[t] \in Focused
      PROVE  /\ FullOf(conv[t])' = FullOf(conv[t])
             /\ SerialOf(conv[t])' = SerialOf(conv[t])
             /\ base'[t] = base[t] /\ clean'[t] = clean[t] /\ view'[t] = view[t]
             /\ Pending(t)' = Pending(t)
             /\ pc[t] \in Focused
  BY <1>2 DEF FullOf, SerialOf, Pending, Question, Reply
<1>3. \A t \in Turns : pc'[t] \in Focused => base'[t] <= Len(FullOf(conv[t])')
  BY <1>2 DEF KeepInv
<1>4. ASSUME NEW t \in Turns, Undisturbed(t)'
      PROVE  view'[t] = FullOf(conv[t])' \o Pending(t)'
  BY <1>2, <1>4 DEF KeepInv, Undisturbed
<1> QED BY <1>1, <1>3, <1>4 DEF KeepInv

\* The read.
LEMMA BeginStep ==
    ASSUME KeepInv, SoundInv', NEW t \in Turns, NEW c, NEW s \in Seq(Messages),
           NEW read \in BOOLEAN, NEW from,
           BeginTurn(t, c, s, read), conv' = [conv EXCEPT ![t] = c],
           Goto(t, from, "purge"),
           read /\ SerialOf(c) => s = FullOf(c)
    PROVE  KeepInv'
<1>1. /\ UNCHANGED <<store, full, serial>>
      /\ \A d : FullOf(d)' = FullOf(d) /\ SerialOf(d)' = SerialOf(d)
  BY DEF BeginTurn, shared, FullOf, SerialOf
<1>2. /\ base' = [base EXCEPT ![t] = Len(FullOf(c))]
      /\ clean' = [clean EXCEPT ![t] = read]
      /\ view' = [view EXCEPT ![t] = Append(s, Question(t))]
  BY DEF BeginTurn
<1>3. /\ conv \in [Turns -> AnyId] /\ view \in [Turns -> Seq(Messages)]
      /\ pc \in [Turns -> {"idle"} \cup Active \cup Settled]
      /\ base \in [Turns -> Nat] /\ clean \in [Turns -> BOOLEAN]
  BY DEF KeepInv, GhostTypes, SoundInv, TypeOK
<1>4. Len(FullOf(c)) \in Nat /\ FullOf(c) \in Seq(Messages)
  BY FullIsSeq DEF KeepInv
<1>5. GhostTypes' /\ SerialTurnsKeepHistory'
  BY <1>1, <1>2, <1>3, <1>4 DEF KeepInv, GhostTypes, SerialTurnsKeepHistory
<1>6. /\ conv'[t] = c /\ base'[t] = Len(FullOf(c)) /\ clean'[t] = read
      /\ view'[t] = Append(s, Question(t)) /\ pc'[t] = "purge"
  BY <1>2, <1>3 DEF Goto
<1>7. \A u \in Turns \ {t} : /\ conv'[u] = conv[u] /\ base'[u] = base[u]
                             /\ clean'[u] = clean[u] /\ view'[u] = view[u]
                             /\ pc'[u] = pc[u]
  BY <1>2, <1>3 DEF Goto
<1>8. \A u \in Turns : pc'[u] \in Focused => base'[u] <= Len(FullOf(conv'[u]))
  <2>1. base'[t] <= Len(FullOf(conv'[t]))
    BY <1>4, <1>6
  <2>2. ASSUME NEW u \in Turns \ {t}, pc'[u] \in Focused
        PROVE  base'[u] <= Len(FullOf(conv'[u]))
    BY <1>7, <2>2 DEF KeepInv
  <2> QED BY <2>1, <2>2
<1>9. ASSUME NEW u \in Turns, Undisturbed(u)'
      PROVE  view'[u] = FullOf(conv'[u]) \o Pending(u)'
  <2>1. CASE u = t
    <3>1. read /\ SerialOf(c)
      BY <1>1, <1>6, <1>9, <2>1 DEF Undisturbed
    <3>2. Append(FullOf(c), Question(t)) = FullOf(c) \o <<Question(t)>>
      BY <1>4, AppendIsConcat DEF Messages, Question
    <3> QED BY <3>1, <3>2, <2>1, <1>6 DEF Pending
  <2>2. CASE u # t
    <3>1. Undisturbed(u)
      BY <1>1, <1>7, <1>9, <2>2 DEF Undisturbed
    <3>2. Pending(u)' = Pending(u)
      BY <1>7, <2>2 DEF Pending, Question, Reply
    <3> QED BY <3>1, <3>2, <1>7, <2>2 DEF KeepInv
  <2> QED BY <2>1, <2>2
<1> QED BY <1>1, <1>5, <1>8, <1>9 DEF KeepInv

\* The reply.
LEMMA NarrateStep ==
    ASSUME KeepInv, SoundInv', NEW t \in Turns, Narrate(t)
    PROVE  KeepInv'
<1>1. /\ UNCHANGED <<store, conv, full, base, clean, serial>>
      /\ view' = [view EXCEPT ![t] = Append(@, Reply(t))]
      /\ pc[t] = "narrate" /\ pc' = [pc EXCEPT ![t] = "persist"]
      /\ \A d : FullOf(d)' = FullOf(d) /\ SerialOf(d)' = SerialOf(d)
  BY DEF Narrate, shared, scope, history, Goto, FullOf, SerialOf
<1>2. /\ view \in [Turns -> Seq(Messages)]
      /\ pc \in [Turns -> {"idle"} \cup Active \cup Settled]
  BY DEF KeepInv, SoundInv, TypeOK
<1>3. GhostTypes' /\ SerialTurnsKeepHistory'
  BY <1>1 DEF KeepInv, GhostTypes, SerialTurnsKeepHistory
<1>4. \A u \in Turns : pc'[u] \in Focused => pc[u] \in Focused
  BY <1>1, <1>2 DEF Focused
<1>5. \A u \in Turns : pc'[u] \in Focused => base'[u] <= Len(FullOf(conv'[u]))
  BY <1>1, <1>4 DEF KeepInv
<1>6. ASSUME NEW u \in Turns, Undisturbed(u)'
      PROVE  view'[u] = FullOf(conv'[u]) \o Pending(u)'
  <2>1. view[u] = FullOf(conv[u]) \o Pending(u)
    BY <1>1, <1>4, <1>6 DEF KeepInv, Undisturbed
  <2>2. CASE u = t
    <3> DEFINE h == FullOf(conv[t])
    <3>1. h \in Seq(Messages) /\ Question(t) \in Messages /\ Reply(t) \in Messages
      BY FullIsSeq DEF KeepInv, Messages, Question, Reply
    <3>2. view[t] = h \o <<Question(t)>>
      BY <1>1, <2>1, <2>2 DEF Pending
    <3>3. Append(h \o <<Question(t)>>, Reply(t)) = h \o <<Question(t), Reply(t)>>
      BY <3>1
    <3>4. view'[t] = Append(view[t], Reply(t)) /\ pc'[t] = "persist"
      BY <1>1, <1>2
    <3> QED BY <1>1, <2>2, <3>2, <3>3, <3>4 DEF Pending, Question, Reply
  <2>3. CASE u # t
    BY <1>1, <1>2, <2>1, <2>3 DEF Pending, Question, Reply
  <2> QED BY <2>2, <2>3
<1> QED BY <1>1, <1>3, <1>5, <1>6 DEF KeepInv

\* The write.
LEMMA StoredStep ==
    ASSUME KeepInv, SoundInv', NEW t \in Turns, Stored(t),
           NEW from \in {"persist", "create"}, Goto(t, from, "done")
    PROVE  KeepInv'
<1>a. PICK c : c = conv[t]
  OBVIOUS
<1>b. PICK h : h = FullOf(c)
  OBVIOUS
<1> DEFINE two == <<Question(t), Reply(t)>>
<1>1. /\ store' = With(store, c, view[t])
      /\ full' = With(full, c, h \o two)
      /\ serial' = With(serial, c, SerialOf(c) /\ clean[t] /\ base[t] = Len(h))
      /\ Return({t}) /\ conv' = conv
      /\ pc[t] = from /\ pc' = [pc EXCEPT ![t] = "done"]
  BY <1>a, <1>b DEF Stored, scope, Goto
<1>2. /\ pc \in [Turns -> {"idle"} \cup Active \cup Settled]
      /\ base \in [Turns -> Nat] /\ clean \in [Turns -> BOOLEAN]
  BY DEF KeepInv, SoundInv, TypeOK, GhostTypes
<1>3. h \in Seq(Messages) /\ Len(h) \in Nat
  BY <1>b, FullIsSeq DEF KeepInv
<1>4. h \o two \in Seq(Messages) /\ Len(h \o two) = Len(h) + 2
  <2>1. two \in Seq(Messages) /\ Len(two) = 2
    BY DEF Messages, Question, Reply
  <2> QED BY <1>3, <2>1, ConcatProperties
<1>5. /\ DOMAIN store' = DOMAIN store \cup {c} /\ store'[c] = view[t]
      /\ DOMAIN full' = DOMAIN full \cup {c} /\ full'[c] = h \o two
      /\ DOMAIN serial' = DOMAIN serial \cup {c}
      /\ serial'[c] = (SerialOf(c) /\ clean[t] /\ base[t] = Len(h))
      /\ \A d \in DOMAIN store : d # c => store'[d] = store[d]
      /\ \A d \in DOMAIN full : d # c => full'[d] = full[d]
      /\ \A d \in DOMAIN serial : d # c => serial'[d] = serial[d]
  BY <1>1 DEF With
<1>6. GhostTypes'
  <2>1. base' \in [Turns -> Nat] /\ clean' \in [Turns -> BOOLEAN]
    BY <1>1, <1>2 DEF Return
  <2>2. serial'[c] \in BOOLEAN
    BY <1>1 DEF With
  <2> HIDE DEF two
  <2>3. DOMAIN full' = DOMAIN store' /\ DOMAIN serial' = DOMAIN store'
    BY <1>5 DEF KeepInv, GhostTypes
  <2>4. \A d \in DOMAIN full' : full'[d] \in Seq(Messages)
    BY <1>4, <1>5 DEF KeepInv, GhostTypes
  <2>5. \A d \in DOMAIN serial' : serial'[d] \in BOOLEAN
    BY <1>5, <2>2 DEF KeepInv, GhostTypes
  <2> QED BY <2>1, <2>3, <2>4, <2>5 DEF GhostTypes
<1>7. serial'[c] => store'[c] = full'[c]
  <2>1. SUFFICES ASSUME serial'[c] PROVE store'[c] = full'[c]
    OBVIOUS
  <2>2. Undisturbed(t)
    BY <1>1, <1>5, <1>a, <1>b, <2>1 DEF Undisturbed, Focused
  <2>3. view[t] = h \o two
    BY <1>1, <1>a, <1>b, <2>2 DEF KeepInv, Pending
  <2> QED BY <1>5, <2>3
<1>8. SerialTurnsKeepHistory'
  <2> HIDE DEF two
  <2> QED BY <1>5, <1>7 DEF KeepInv, GhostTypes, SerialTurnsKeepHistory
<1>9. ASSUME NEW u \in Turns, pc'[u] \in Focused
      PROVE  /\ u # t /\ pc'[u] = pc[u] /\ conv'[u] = conv[u] /\ view'[u] = view[u]
             /\ base'[u] = base[u] /\ clean'[u] = clean[u]
  BY <1>1, <1>2, <1>9 DEF Return, Focused
<1>10. /\ FullOf(c)' = h \o two
       /\ \A d : d # c => FullOf(d)' = FullOf(d) /\ SerialOf(d)' = SerialOf(d)
  <2> HIDE DEF two
  <2> QED BY <1>1, <1>b DEF FullOf, SerialOf, With
<1>11. ASSUME NEW u \in Turns, pc'[u] \in Focused
       PROVE  /\ base[u] <= Len(FullOf(conv[u]))
              /\ base'[u] <= Len(FullOf(conv[u])')
              /\ conv[u] = c => base'[u] # Len(FullOf(conv[u])')
  <2>1. base[u] <= Len(FullOf(conv[u])) /\ base[u] \in Nat
    BY <1>2, <1>9, <1>11 DEF KeepInv
  <2> HIDE DEF two
  <2>2. CASE conv[u] = c
    <3>1. base[u] <= Len(h) /\ FullOf(conv[u])' = h \o two
      BY <1>1, <1>9, <1>10, <1>11, <2>1, <1>b, <2>2
    <3> QED BY <1>3, <1>4, <1>9, <1>11, <2>1, <3>1
  <2>3. CASE conv[u] # c
    BY <1>1, <1>9, <1>10, <1>11, <2>1, <2>3
  <2> QED BY <2>2, <2>3
<1>12. ASSUME NEW u \in Turns, Undisturbed(u)'
       PROVE  view'[u] = FullOf(conv[u])' \o Pending(u)'
  <2>1. pc'[u] \in Focused /\ conv[u] # c
    BY <1>11, <1>12 DEF Undisturbed
  <2>2. Undisturbed(u) /\ FullOf(conv[u])' = FullOf(conv[u])
    BY <1>1, <1>9, <1>10, <1>12, <2>1 DEF Undisturbed
  <2>3. Pending(u)' = Pending(u)
    BY <1>9, <2>1 DEF Pending, Question, Reply
  <2> QED BY <1>9, <2>1, <2>2, <2>3 DEF KeepInv
<1> QED BY <1>6, <1>8, <1>11, <1>12 DEF KeepInv

\* A step that moves only one turn's pc, from before its read or within the
\* stretch from read to reply, is a quiet one.
LEMMA QuietGoto ==
    ASSUME KeepInv, SoundInv', UNCHANGED <<store, view, full, base, clean, serial>>,
           NEW t \in Turns, NEW from, NEW to, Goto(t, from, to),
           \A u \in Turns \ {t} : conv'[u] = conv[u],
           \/ to \notin Focused
           \/ /\ from \in Focused /\ conv' = conv
              /\ to \in {"persist", "create"} <=> from \in {"persist", "create"}
    PROVE  KeepInv'
<1>1. pc \in [Turns -> {"idle"} \cup Active \cup Settled]
  BY DEF KeepInv, SoundInv, TypeOK
<1>2. base' \in [Turns -> Nat] /\ clean' \in [Turns -> BOOLEAN]
  BY DEF KeepInv, GhostTypes
<1>3. pc[t] = from /\ pc'[t] = to /\ \A u \in Turns \ {t} : pc'[u] = pc[u]
  BY <1>1 DEF Goto
<1>4. \A u \in Turns : pc'[u] \in Focused =>
               /\ conv'[u] = conv[u] /\ view'[u] = view[u]
               /\ base'[u] = base[u] /\ clean'[u] = clean[u]
               /\ pc[u] \in Focused
               /\ pc'[u] \in {"persist", "create"} <=> pc[u] \in {"persist", "create"}
  BY <1>3
<1> QED BY <1>2, <1>4, QuietStep

\* A turn that returns, and turns that die, take nothing along.
LEMMA QuietReturn ==
    ASSUME KeepInv, SoundInv', UNCHANGED <<store, full, serial, conv>>,
           NEW gone, Return(gone),
           \A u \in Turns : u \in gone => pc'[u] \notin Focused,
           \A u \in Turns : u \notin gone => pc'[u] = pc[u]
    PROVE  KeepInv'
<1>1. base' \in [Turns -> Nat] /\ clean' \in [Turns -> BOOLEAN]
  BY DEF KeepInv, GhostTypes, Return
<1>2. \A u \in Turns : pc'[u] \in Focused =>
               /\ conv'[u] = conv[u] /\ view'[u] = view[u]
               /\ base'[u] = base[u] /\ clean'[u] = clean[u]
               /\ pc[u] \in Focused
               /\ pc'[u] \in {"persist", "create"} <=> pc[u] \in {"persist", "create"}
  BY DEF Return
<1> QED BY <1>1, <1>2, QuietStep

\* Steps that move no turn's pc and touch neither store nor transcripts.
LEMMA QuietRest ==
    ASSUME KeepInv, SoundInv', UNCHANGED <<store, view, pc, conv, history>>
    PROVE  KeepInv'
<1>1. base' \in [Turns -> Nat] /\ clean' \in [Turns -> BOOLEAN]
  BY DEF KeepInv, GhostTypes, history
<1> QED BY <1>1, QuietStep DEF history

\* Every step of Converse keeps what the stored transcripts have of the full ones.
LEMMA KeepStep == KeepInv /\ [Next]_vars => KeepInv'
<1> SUFFICES ASSUME KeepInv, [Next]_vars
             PROVE  KeepInv'
  OBVIOUS
<1>0. SoundInv' /\ SoundInv
  BY TypeStep DEF KeepInv
<1>1. ASSUME NEW t \in Turns, NEW id, Admit(t, id)
      PROVE  KeepInv'
  <2>1. \A u \in Turns \ {t} : conv'[u] = conv[u]
    BY <1>0, <1>1 DEF Admit, SoundInv, TypeOK
  <2>2. PICK to \in {"id", "load"} : Goto(t, "idle", to)
    BY <1>1 DEF Admit
  <2>3. UNCHANGED <<store, view, full, base, clean, serial>>
    BY <1>1 DEF Admit, shared, locals, history
  <2>4. to \notin Focused
    BY <2>2 DEF Focused
  <2> QED BY <1>0, <2>1, <2>2, <2>3, <2>4, QuietGoto
<1>2. ASSUME NEW t \in Turns, Reject(t) \/ ReadCounter(t) \/ WriteCounter(t)
      PROVE  KeepInv'
  <2>1. PICK from \in {"idle", "id", "idWrite"}, to \in {"rejected", "idWrite", "idUse"} :
            Goto(t, from, to)
    BY <1>2 DEF Reject, ReadCounter, WriteCounter
  <2>2. UNCHANGED <<store, view, conv, full, base, clean, serial>>
    BY <1>2 DEF Reject, ReadCounter, WriteCounter, shared, scope, locals, history
  <2>3. to \notin Focused
    BY <2>1 DEF Focused
  <2> QED BY <1>0, <2>1, <2>2, <2>3, QuietGoto
<1>3. ASSUME NEW t \in Turns, FreshId(t)
      PROVE  KeepInv'
  <2>1. PICK n \in {reg[t] + 1, counter} :
            /\ Goto(t, "idUse", "purge")
            /\ conv' = [conv EXCEPT ![t] = <<now, n>>]
            /\ BeginTurn(t, <<now, n>>, <<>>, <<now, n>> \notin DOMAIN store)
    BY <1>3 DEF FreshId
  <2>2. <<now, n>> \notin DOMAIN store => <<>> = FullOf(<<now, n>>)
    BY DEF KeepInv, GhostTypes, FullOf
  <2>3. <<>> \in Seq(Messages)
    BY EmptySeq
  <2> QED BY <1>0, <2>1, <2>2, <2>3, BeginStep
<1>4. ASSUME NEW t \in Turns, Load(t)
      PROVE  KeepInv'
  <2>1. PICK s : s = IF conv[t] \in DOMAIN store THEN store[conv[t]] ELSE <<>>
    OBVIOUS
  <2>2. s \in Seq(Messages)
    BY <1>0, <2>1, EmptySeq DEF SoundInv, TypeOK
  <2>3. SerialOf(conv[t]) => s = FullOf(conv[t])
    BY <2>1 DEF KeepInv, GhostTypes, SerialTurnsKeepHistory, SerialOf, FullOf
  <2>4. /\ Goto(t, "load", "purge") /\ BeginTurn(t, conv[t], s, TRUE)
        /\ conv' = [conv EXCEPT ![t] = conv[t]]
    BY <1>0, <1>4, <2>1 DEF Load, SoundInv, TypeOK
  <2> QED BY <1>0, <2>2, <2>3, <2>4, BeginStep
<1>5. ASSUME NEW t \in Turns, LoadFails(t)
      PROVE  KeepInv'
  <2>1. /\ Goto(t, "load", "purge") /\ BeginTurn(t, conv[t], <<>>, FALSE)
        /\ conv' = [conv EXCEPT ![t] = conv[t]]
    BY <1>0, <1>5 DEF LoadFails, SoundInv, TypeOK
  <2>2. <<>> \in Seq(Messages)
    BY EmptySeq
  <2> QED BY <1>0, <2>1, <2>2, BeginStep
<1>6. ASSUME NEW t \in Turns,
             StartPlan(t) \/ Planned(t) \/ Executed(t) \/ NoRowUpdated(t)
      PROVE  KeepInv'
  <2>1. UNCHANGED <<store, view, conv, full, base, clean, serial>>
    BY <1>6 DEF StartPlan, Planned, Executed, NoRowUpdated, shared, scope, locals, history
  <2>2. \/ Goto(t, "purge", "plan") \/ Goto(t, "purge", "exec")
        \/ Goto(t, "plan", "exec") \/ Goto(t, "exec", "narrate")
        \/ Goto(t, "persist", "create")
    BY <1>6 DEF StartPlan, Planned, Executed, NoRowUpdated
  <2>3. PICK from \in Focused, to \in Focused :
            /\ Goto(t, from, to)
            /\ to \in {"persist", "create"} <=> from \in {"persist", "create"}
    BY <2>2 DEF Focused
  <2> QED BY <1>0, <2>1, <2>3, QuietGoto
<1>7. ASSUME NEW t \in Turns,
             CheckCached(t) \/ ServeCached(t) \/ LostCached(t) \/ Collect(t) \/ Unavailable(t)
      PROVE  KeepInv'
  <2>1. UNCHANGED <<store, view, pc, conv, history>>
    BY <1>7 DEF CheckCached, ServeCached, LostCached, Collect, Unavailable, shared, scope
  <2> QED BY <1>0, <2>1, QuietRest
<1>8. ASSUME NEW t \in Turns, Narrate(t)
      PROVE  KeepInv'
  BY <1>0, <1>8, NarrateStep
<1>9. ASSUME NEW t \in Turns, Persist(t) \/ CreateRow(t)
      PROVE  KeepInv'
  BY <1>0, <1>9, StoredStep DEF Persist, CreateRow
<1>10. ASSUME NEW t \in Turns, StoreFails(t)
       PROVE  KeepInv'
  <2>1. UNCHANGED <<store, full, serial, conv>> /\ Return({t})
    BY <1>10 DEF StoreFails, shared, scope
  <2>2. pc' = [pc EXCEPT ![t] = "failed"]
    BY <1>10 DEF StoreFails, Goto
  <2>3. /\ \A u \in Turns : u \in {t} => pc'[u] \notin Focused
        /\ \A u \in Turns : u \notin {t} => pc'[u] = pc[u]
    BY <1>0, <2>2 DEF SoundInv, TypeOK, Focused
  <2> QED BY <1>0, <2>1, <2>3, QuietReturn
<1>11. CASE Tick
  <2>1. UNCHANGED <<store, view, pc, conv, history>>
    BY <1>11 DEF Tick, scope, locals
  <2> QED BY <1>0, <2>1, QuietRest
<1>12. CASE Restart
  <2>1. UNCHANGED <<store, full, serial, conv>> /\ Return(Held)
    BY <1>12 DEF Restart, scope
  <2>2. /\ \A u \in Turns : u \in Held => pc'[u] \notin Focused
        /\ \A u \in Turns : u \notin Held => pc'[u] = pc[u]
    BY <1>12 DEF Restart, Held, Focused
  <2> QED BY <1>0, <2>1, <2>2, QuietReturn
<1>13. CASE UNCHANGED vars
  <2>1. UNCHANGED <<store, view, pc, conv, history>>
    BY <1>13 DEF vars, shared, scope, locals
  <2> QED BY <1>0, <2>1, QuietRest
<1> QED
  BY <1>1, <1>2, <1>3, <1>4, <1>5, <1>6, <1>7, <1>8, <1>9, <1>10, <1>11, <1>12, <1>13
     DEF Next, TurnStep

\* The record of a conversation whose turns ran one after the other holds every
\* turn ever stored under its id, in order, whatever turns of other
\* conversations, restarts and evictions happen in between.
THEOREM HistoryIsKept == Spec => []SerialTurnsKeepHistory
<1>1. KeepInv => SerialTurnsKeepHistory
  BY DEF KeepInv
<1> QED BY KeepInit, KeepStep, <1>1, PTL DEF Spec
=============================================================================
