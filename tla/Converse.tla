------------------------------ MODULE Converse ------------------------------
(***************************************************************************)
(* Concurrent chat turns over one investigation engine: the web handler's  *)
(* concurrency gate (internal/web/server.go, serveChat), the per-turn      *)
(* pipeline (internal/investigate/engine.go and planner.go), the evidence  *)
(* cache it shares between turns (EvidenceCache) and the conversation      *)
(* store (internal/convo).                                                 *)
(*                                                                         *)
(* A turn is a goroutine.  It takes no lock across the pipeline: each      *)
(* access to the id counter, the store and the cache is a step of its own, *)
(* and other turns run between them.  The text of questions, evidence and  *)
(* replies is abstracted to the turn that produced it; the plan of a turn  *)
(* is any member of Plans (what buildPlan can return is module Planner's   *)
(* subject, not this one's).  One unit of the clock is at least a second.  *)
(***************************************************************************)
EXTENDS EvidenceCache

CONSTANTS Turns,       \* chat requests, each sent once
          MaxChats,    \* maxConcurrentChats
          ClientIds,   \* ids a client may present that this store never issued
          Plans,       \* collector sequences a turn may plan
          Backends,    \* subset of {"file", "sqlite"}
          MaxNow,      \* bound: clock readings
          NoId         \* an absent conversation id

ASSUME ConverseAssumption ==
    /\ MaxChats \in Nat \ {0}
    /\ Plans \subseteq Seq(Collectors)
    /\ Backends \subseteq {"file", "sqlite"}
    /\ NoId \notin ClientIds

VARIABLES
    now,       \* the wall clock
    backend,   \* the store NewStore returned
    counter,   \* convoIDCounter
    store,     \* persisted conversations: id |-> messages
    cache,     \* the engine's evidence cache
    pc,        \* where each turn is
    conv,      \* the turn's conversation id
    start,     \* the turn's own `now`
    focus,     \* the turn's resolved focus
    reg,       \* the turn's register copy of convoIDCounter
    view,      \* the turn's copy of conv.Messages
    plan,      \* the turn's plan: collector and status of each step
    pos,       \* next plan step
    served     \* evidence the turn took from the cache

\* Kept for the properties only; no action reads them.
VARIABLES
    full,      \* per id, the messages of every turn ever stored, in that order
    base,      \* how much of full there was when the turn began
    clean,     \* the turn read what the store held, or there was nothing
    serial     \* per id, whether its turns ran one after the other

shared  == <<now, backend, counter, store, cache>>
scope   == <<conv, start, focus>>
locals  == <<reg, view, plan, pos, served>>
history == <<full, base, clean, serial>>
vars    == <<shared, pc, scope, locals, history>>

Active == {"id", "idWrite", "idUse", "load", "purge", "plan", "exec", "narrate",
           "persist", "create"}
Settled == {"done", "failed", "rejected", "dead"}

Question(t) == [role |-> "user", turn |-> t]
Reply(t)    == [role |-> "assistant", turn |-> t]

Held == {t \in Turns : pc[t] \in Active}     \* slots of chatSem taken

FullOf(c)   == IF c \in DOMAIN full THEN full[c] ELSE <<>>
SerialOf(c) == IF c \in DOMAIN serial THEN serial[c] ELSE TRUE

With(f, c, v) == [d \in DOMAIN f \cup {c} |-> IF d = c THEN v ELSE f[d]]

Goto(t, from, to) == pc[t] = from /\ pc' = [pc EXCEPT ![t] = to]

\* A turn that has returned keeps nothing on its stack.  (Its id, clock reading
\* and focus are kept: they identify the evidence it left in the cache.)
Return(gone) ==
    /\ reg'     = [t \in Turns |-> IF t \in gone THEN 0     ELSE reg[t]]
    /\ view'    = [t \in Turns |-> IF t \in gone THEN <<>>  ELSE view[t]]
    /\ plan'    = [t \in Turns |-> IF t \in gone THEN <<>>  ELSE plan[t]]
    /\ pos'     = [t \in Turns |-> IF t \in gone THEN 1     ELSE pos[t]]
    /\ served'  = [t \in Turns |-> IF t \in gone THEN {}    ELSE served[t]]
    /\ base'    = [t \in Turns |-> IF t \in gone THEN 0     ELSE base[t]]
    /\ clean'   = [t \in Turns |-> IF t \in gone THEN TRUE  ELSE clean[t]]

Init ==
    /\ now = 0
    /\ backend \in Backends
    /\ counter = 0
    /\ store = [c \in {} |-> <<>>]
    /\ cache = EmptyCache
    /\ pc = [t \in Turns |-> "idle"]
    /\ conv = [t \in Turns |-> NoId]
    /\ start = [t \in Turns |-> 0]
    /\ focus = [t \in Turns |-> NoId]
    /\ reg = [t \in Turns |-> 0]
    /\ view = [t \in Turns |-> <<>>]
    /\ plan = [t \in Turns |-> <<>>]
    /\ pos = [t \in Turns |-> 1]
    /\ served = [t \in Turns |-> {}]
    /\ full = [c \in {} |-> <<>>]
    /\ base = [t \in Turns |-> 0]
    /\ clean = [t \in Turns |-> TRUE]
    /\ serial = [c \in {} |-> TRUE]

---------------------------------------------------------------------------
(* serveChat: take a slot or answer 429.  A turn that is let in reads the  *)
(* clock once, before anything else, and goes by that reading throughout.  *)

Admit(t, id) ==
    /\ Cardinality(Held) < MaxChats
    /\ Goto(t, "idle", IF id = NoId THEN "id" ELSE "load")
    /\ conv' = [conv EXCEPT ![t] = id]
    /\ start' = [start EXCEPT ![t] = now]
    /\ UNCHANGED <<shared, focus, locals, history>>

Reject(t) ==
    /\ Cardinality(Held) >= MaxChats
    /\ Goto(t, "idle", "rejected")
    /\ UNCHANGED <<shared, scope, locals, history>>

---------------------------------------------------------------------------
(* newConvoID: the counter is a plain int64.  Its increment reads and       *)
(* writes it in two steps, and the id is formatted from the second it is    *)
(* and a value the compiler may take from the register or from memory.      *)

ReadCounter(t) ==
    /\ Goto(t, "id", "idWrite")
    /\ reg' = [reg EXCEPT ![t] = counter]
    /\ UNCHANGED <<shared, scope, view, plan, pos, served, history>>

WriteCounter(t) ==
    /\ Goto(t, "idWrite", "idUse")
    /\ counter' = reg[t] + 1
    /\ UNCHANGED <<now, backend, store, cache, scope, locals, history>>

\* Mutant of BeginTurn: the focus is left for later.
BeginUnfocused(t, c, messages, read) ==
    /\ view' = [view EXCEPT ![t] = Append(messages, Question(t))]
    /\ base' = [base EXCEPT ![t] = Len(FullOf(c))]
    /\ clean' = [clean EXCEPT ![t] = read]
    /\ UNCHANGED <<shared, start, focus, reg, plan, pos, served, full, serial>>

\* Pipeline prologue shared by a loaded and a fresh conversation: the turn's
\* redacted question goes to the end of the transcript, and the profile's
\* hook resolves a focus.
BeginTurn(t, c, messages, read) ==
    /\ view' = [view EXCEPT ![t] = Append(messages, Question(t))]
    /\ \E f \in Foci : focus' = [focus EXCEPT ![t] = f]
    /\ base' = [base EXCEPT ![t] = Len(FullOf(c))]
    /\ clean' = [clean EXCEPT ![t] = read]
    /\ UNCHANGED <<shared, start, reg, plan, pos, served, full, serial>>

FreshId(t) ==
    \E n \in {reg[t] + 1, counter} :
        /\ Goto(t, "idUse", "purge")
        /\ conv' = [conv EXCEPT ![t] = <<now, n>>]
        /\ BeginTurn(t, <<now, n>>, <<>>, <<now, n>> \notin DOMAIN store)

\* Mutant of Load: a transcript trimmed for the prompt is what gets stored later.
LoadTrimmed(t) ==
    /\ Goto(t, "load", "purge")
    /\ BeginTurn(t, conv[t],
                 IF conv[t] \in DOMAIN store
                 THEN SubSeq(store[conv[t]], Len(store[conv[t]]) - 1, Len(store[conv[t]]))
                 ELSE <<>>, TRUE)
    /\ UNCHANGED conv

\* loadOrCreateConversation with an id.  Any error of Get, a missing record
\* and a failed read alike, starts an empty conversation under the same id.
Load(t) ==
    /\ Goto(t, "load", "purge")
    /\ BeginTurn(t, conv[t], IF conv[t] \in DOMAIN store THEN store[conv[t]] ELSE <<>>,
                 TRUE)
    /\ UNCHANGED conv

LoadFails(t) ==
    /\ Goto(t, "load", "purge")
    /\ conv[t] \in DOMAIN store
    /\ BeginTurn(t, conv[t], <<>>, FALSE)
    /\ UNCHANGED conv

---------------------------------------------------------------------------
(* The plan, made and executed against the shared cache.                   *)

\* Every step starts out planned.  A request to refresh leaves it so: no step
\* is looked up in the cache.
StartPlan(t) ==
    /\ Goto(t, "purge", "plan") \/ Goto(t, "purge", "exec")
    /\ cache' = Purge(cache, start[t])
    /\ \E p \in Plans :
           plan' = [plan EXCEPT ![t] =
                       [i \in DOMAIN p |-> [collector |-> p[i], status |-> "planned"]]]
    /\ UNCHANGED <<now, backend, counter, store, scope, reg, view, pos, served, history>>

InPlan(t) == pos[t] \in DOMAIN plan[t]
Current(t) == plan[t][pos[t]]
Hit(t) == Fresh(cache, conv[t], Current(t).collector, focus[t], start[t])

\* buildPlan asks has() for one collector after the other.
CheckCached(t) ==
    /\ pc[t] = "plan" /\ InPlan(t)
    /\ cache' = Touch(cache, conv[t], start[t])
    /\ plan' = [plan EXCEPT ![t][pos[t]].status = IF Hit(t) THEN "cached" ELSE "planned"]
    /\ pos' = [pos EXCEPT ![t] = @ + 1]
    /\ UNCHANGED <<now, backend, counter, store, pc, scope, reg, view, served,
                   history>>

Planned(t) ==
    /\ ~InPlan(t)
    /\ Goto(t, "plan", "exec")
    /\ pos' = [pos EXCEPT ![t] = 1]
    /\ UNCHANGED <<shared, scope, reg, view, plan, served, history>>

\* A step marked cached is looked up again when its turn comes, and may be
\* gone by then: another turn's put can have evicted it.
ServeCached(t) ==
    /\ pc[t] = "exec" /\ InPlan(t) /\ Current(t).status = "cached" /\ Hit(t)
    /\ cache' = Touch(cache, conv[t], start[t])
    /\ LET key == cacheKey(Current(t).collector, focus[t])
       IN  served' = [served EXCEPT ![t] = @ \cup {
                         [key |-> key, entry |-> cache[conv[t]].entries[key]]}]
    /\ pos' = [pos EXCEPT ![t] = @ + 1]
    /\ UNCHANGED <<now, backend, counter, store, pc, scope, reg, view, plan,
                   history>>

\* Mutant of LostCached: a vanished entry is looked up again and again.
RetryCached(t) ==
    /\ pc[t] = "exec" /\ InPlan(t) /\ Current(t).status = "cached" /\ ~Hit(t)
    /\ cache' = Touch(cache, conv[t], start[t])
    /\ UNCHANGED <<now, backend, counter, store, pc, scope, locals, history>>

LostCached(t) ==
    /\ pc[t] = "exec" /\ InPlan(t) /\ Current(t).status = "cached" /\ ~Hit(t)
    /\ cache' = Touch(cache, conv[t], start[t])
    /\ plan' = [plan EXCEPT ![t][pos[t]].status = "planned"]
    /\ UNCHANGED <<now, backend, counter, store, pc, scope, reg, view, pos, served, history>>

\* The collector runs; its output is cached when anything it tried worked.
\* An entry is stamped with the turn's start, not with the time of the put.
Collected(t) == [At |-> start[t], by |-> t]

Collect(t) ==
    /\ pc[t] = "exec" /\ InPlan(t) /\ Current(t).status = "planned"
    /\ cache' \in Put(cache, conv[t], cacheKey(Current(t).collector, focus[t]),
                      Collected(t), start[t])
    /\ plan' = [plan EXCEPT ![t][pos[t]].status = "done"]
    /\ pos' = [pos EXCEPT ![t] = @ + 1]
    /\ UNCHANGED <<now, backend, counter, store, pc, scope, reg, view, served,
                   history>>

Unavailable(t) ==
    /\ pc[t] = "exec" /\ InPlan(t) /\ Current(t).status = "planned"
    /\ plan' = [plan EXCEPT ![t][pos[t]].status = "unavailable"]
    /\ pos' = [pos EXCEPT ![t] = @ + 1]
    /\ UNCHANGED <<shared, pc, scope, reg, view, served, history>>

Executed(t) ==
    /\ ~InPlan(t)
    /\ Goto(t, "exec", "narrate")
    /\ UNCHANGED <<shared, scope, locals, history>>

---------------------------------------------------------------------------
(* The single completion call, and the record of the turn.                 *)

\* Mutant of Narrate: an empty completion leaves no message.
NarrateOrNothing(t) ==
    /\ Goto(t, "narrate", "persist")
    /\ view' \in {view, [view EXCEPT ![t] = Append(@, Reply(t))]}
    /\ UNCHANGED <<shared, scope, reg, plan, pos, served, history>>

\* A failed or empty completion falls back to the deterministic summary, so a
\* reply is appended either way.
Narrate(t) ==
    /\ Goto(t, "narrate", "persist")
    /\ view' = [view EXCEPT ![t] = Append(@, Reply(t))]
    /\ UNCHANGED <<shared, scope, reg, plan, pos, served, history>>

\* Store.Update succeeded: the turn's whole transcript replaces the record.
Stored(t) ==
    LET c == conv[t] IN
    /\ store' = With(store, c, view[t])
    /\ full' = With(full, c, FullOf(c) \o <<Question(t), Reply(t)>>)
    /\ serial' = With(serial, c, SerialOf(c) /\ clean[t] /\ base[t] = Len(FullOf(c)))
    /\ Return({t})
    /\ UNCHANGED <<now, backend, counter, cache, scope>>

\* The file store renames a new file into place, whatever was there.  SQLite
\* updates the row; only when there is none does it go on to insert one.
Persist(t) ==
    /\ backend = "file" \/ conv[t] \in DOMAIN store
    /\ Goto(t, "persist", "done")
    /\ Stored(t)

NoRowUpdated(t) ==
    /\ backend = "sqlite" /\ conv[t] \notin DOMAIN store
    /\ Goto(t, "persist", "create")
    /\ UNCHANGED <<shared, scope, locals, history>>

CreateRow(t) ==
    /\ conv[t] \notin DOMAIN store
    /\ Goto(t, "create", "done")
    /\ Stored(t)

\* Mutant of StoreFails: a failing write leaves half a turn on record.
HalfStored(t) ==
    /\ \/ Goto(t, "persist", "failed")
       \/ Goto(t, "create", "failed")
    /\ store' = With(store, conv[t], SubSeq(view[t], 1, Len(view[t]) - 1))
    /\ Return({t})
    /\ UNCHANGED <<now, backend, counter, cache, scope, full, serial>>

\* "conversation already exists", or any other store error: the handler
\* answers 500 and the turn is not recorded.
StoreFails(t) ==
    /\ \/ Goto(t, "persist", "failed")
       \/ Goto(t, "create", "failed")
    /\ Return({t})
    /\ UNCHANGED <<shared, scope, full, serial>>

---------------------------------------------------------------------------
(* The environment.                                                        *)

Tick ==
    /\ now < MaxNow
    /\ now' = now + 1
    /\ UNCHANGED <<backend, counter, store, cache, pc, scope, locals, history>>

\* The process dies and is started again, some time later.  Only the store
\* survives.
Restart ==
    /\ now < MaxNow
    /\ now' = now + 1
    /\ counter' = 0
    /\ cache' = EmptyCache
    /\ pc' = [t \in Turns |-> IF pc[t] \in Active THEN "dead" ELSE pc[t]]
    /\ Return(Held)
    /\ UNCHANGED <<backend, store, scope, full, serial>>

TurnStep(t) ==
    \/ ReadCounter(t) \/ WriteCounter(t) \/ FreshId(t)
    \/ Load(t) \/ LoadFails(t)
    \/ StartPlan(t) \/ CheckCached(t) \/ Planned(t)
    \/ ServeCached(t) \/ LostCached(t) \/ Collect(t) \/ Unavailable(t) \/ Executed(t)
    \/ Narrate(t)
    \/ Persist(t) \/ NoRowUpdated(t) \/ CreateRow(t) \/ StoreFails(t)

Next ==
    \/ \E t \in Turns : \/ \E id \in {NoId} \cup ClientIds \cup DOMAIN store : Admit(t, id)
                        \/ Reject(t)
                        \/ TurnStep(t)
    \/ Tick
    \/ Restart

Spec == Init /\ [][Next]_vars

\* Every step of a running turn ends: the file and SQLite calls return, and the
\* HTTP client of each provider gives the completion call a timeout.
FairSpec == Spec /\ \A t \in Turns : WF_vars(TurnStep(t))

---------------------------------------------------------------------------
(* Properties.                                                             *)

Messages == [role : {"user", "assistant"}, turn : Turns]
AnyId == {NoId} \cup ClientIds \cup (Nat \X Nat)
Entries == [At : Nat, by : Turns]
Steps == [collector : Collectors, status : {"planned", "cached", "done", "unavailable"}]
Focused == {"purge", "plan", "exec", "narrate", "persist", "create"}

\* The types of the state the turns share and of each turn's own.
TypeOK ==
    /\ now \in Nat /\ counter \in Nat /\ backend \in Backends
    /\ DOMAIN store \subseteq AnyId /\ \A c \in DOMAIN store : store[c] \in Seq(Messages)
    /\ CacheTyped(cache, Entries)
    /\ pc \in [Turns -> {"idle"} \cup Active \cup Settled]
    /\ conv \in [Turns -> AnyId]
    /\ start \in [Turns -> Nat]
    /\ focus \in [Turns -> Foci \cup {NoId}]
    /\ \A t \in Turns : pc[t] \in Focused => focus[t] \in Foci
    /\ reg \in [Turns -> Nat]
    /\ view \in [Turns -> Seq(Messages)]
    /\ plan \in [Turns -> Seq(Steps)]
    /\ pos \in [Turns -> Nat \ {0}]
    /\ served \in [Turns -> SUBSET [key : Keys, entry : Entries]]

\* The shared cache keeps to its caps and each conversation's entries and
\* eviction order agree, whatever order turns with old and new clock readings
\* look up, store and evict in (evidcache.go).
CacheSound == CacheBounded(cache)

\* A stored transcript is made of whole turns, each there once: the question
\* is followed by the reply to it, whichever turns raced (engine.go, Converse:
\* "full transcript, so the caller never merges partial state").
WholeTurns ==
    \A c \in DOMAIN store :
        LET s == store[c] IN
        /\ Len(s) % 2 = 0
        /\ \A i \in 1..(Len(s) \div 2) : \E t \in Turns :
               s[2 * i - 1] = Question(t) /\ s[2 * i] = Reply(t)
        /\ \A i, j \in DOMAIN s : s[i] = s[j] => i = j

\* When the turns of a conversation ran one after the other (no other turn of
\* it was stored between a turn's read and its write, and no read failed), the
\* record holds every turn ever stored under that id, in order.  Concurrent
\* turns of OTHER conversations must not matter.
SerialTurnsKeepHistory ==
    \A c \in DOMAIN store : serial[c] => store[c] = full[c]

\* Evidence served from the cache was collected by a turn of the same
\* conversation with the same focus, and is inside its collector's TTL by the
\* reader's clock.
ServedInScope ==
    \A t \in Turns : \A e \in served[t] :
        LET by == e.entry.by IN
        /\ conv[by] = conv[t]
        /\ e.key[2] = focus[t] /\ focus[by] = focus[t]
        /\ e.entry.At = start[by]
        /\ start[t] - start[by] <= ttlFor(e.key[1])

\* Every request is answered: 200, 429 or 500, or the process died
\* under it.  The slots of the chat gate are always given back.
Answered == \A t \in Turns : pc[t] \in Active ~> pc[t] \in Settled

\* What a turn works from, between reading the store and recording itself.
Snap(t) ==
    IF pc[t] \in {"purge", "plan", "exec", "narrate"}
    THEN {SubSeq(view[t], 1, Len(view[t]) - 1)}
    ELSE IF pc[t] \in {"persist", "create"}
    THEN {SubSeq(view[t], 1, Len(view[t]) - 2)}
    ELSE {}

\* The store under concurrent turns behaves as TranscriptStore: each change of
\* it puts one whole turn at the end of a transcript that turn had read.
Transcripts == INSTANCE TranscriptStore
    WITH stored <- store, snap <- [t \in Turns |-> Snap(t)]
TranscriptsSpec == Transcripts!Spec

\* newConvoID's comment: "returns a process-unique conversation id".
FreshIdsAreUnique ==
    [][\A t \in Turns : pc[t] = "idUse" /\ pc'[t] = "purge" =>
           \A u \in Turns \ {t} : conv'[t] # conv[u]]_vars

\* loadOrCreateConversation's comment: "starts a fresh one when it's
\* empty/unknown".  So a turn that nobody overlapped continues the record of a
\* known conversation.
KnownIsContinued ==
    [][\A t \in Turns :
           /\ pc[t] = "persist" /\ pc'[t] = "done"
           /\ conv[t] \in DOMAIN store
           /\ base[t] = Len(FullOf(conv[t]))
           => SubSeq(store'[conv[t]], 1, Len(store[conv[t]])) = store[conv[t]]]_vars
=============================================================================
