--------------------------- MODULE RecordInvariants ---------------------------
(***************************************************************************)
(* The inductive invariants of the components about records and of the     *)
(* metrics made of them, each by itself: that its initial states have it   *)
(* and its steps keep it, whatever its constants.                          *)
(***************************************************************************)
EXTENDS IncidentStore, Sums, FiniteSetTheorems, SequenceTheorems, WellFoundedInduction,
        TLAPS

CONSTANTS Runs, RecordIds, Document, Legacies, MaxWrites,        \* LocalDb
          Commands, TfRuns, MaxDeliveries,                       \* Deployments
          Objectives, Samples, Spacings, MaxSamples,             \* Slo
          Windows, LeadTimes, Outages, MaxDays, Batches,         \* Dora
          MaxBatches, MaxIncidents

VARIABLES legacy, rows, keys, read, writes, original,
          lines, events, payload, delivered, recorded, accepted,
          input, analyzed, promoted, reply

DB  == INSTANCE LocalDb WITH Ids <- RecordIds
DEP == INSTANCE Deployments
SLI == INSTANCE Slo
DOR == INSTANCE Dora

---------------------------------------------------------------------------
(* IncidentStore: an incident stays on record as it was opened, and counts *)
(* as restored exactly while it is closed: for any workers in any          *)
(* processes, whatever of their operations overlap, fail or are killed.    *)

Opening == {"create", "rename"}

\* What the program keeps of an incident fits together, and is not of the future.
Proper(r) ==
    /\ r \in Incidents
    /\ r.closedAt # 0 <=> r.status = "closed"
    /\ r.openedAt <= now
    /\ r.closedAt # 0 => r.openedAt <= r.closedAt

Typed ==
    /\ backend \in {"file", "db"}
    /\ now \in 1..MaxSecond
    /\ counter \in [Processes -> 0..MaxOps]
    /\ begun \in 0..MaxOps
    /\ \A p \in Processes : counter[p] <= begun
    /\ pc \in [Workers -> {"idle", "create", "rename"} \cup Operations]
    /\ id \in [Workers -> Ids \cup {NoId}]
    /\ copy \in [Workers -> Incidents \cup {NotFound}]
    /\ stored \in [Ids -> Incidents \cup {NotFound}]
    /\ opened \subseteq Ids \X Workers

\* Every record is, on file and in hand.
RecordsAreProper ==
    /\ \A i \in Ids : Exists(i) => Proper(stored[i])
    /\ \A w \in Workers : pc[w] # "idle" => id[w] \in Ids /\ Proper(copy[w])

\* A process's counter is behind none of the ids it is opening.
IdsAreItsOwn ==
    /\ \A w \in Workers : pc[w] \in Opening =>
           copy[w].by = w /\ id[w][2] <= counter[Process[w]]
    /\ \A v, w \in Workers :
           /\ pc[v] \in Opening /\ pc[w] \in Opening /\ v # w
           /\ Process[v] = Process[w]
           => id[v] # id[w]

\* A file that is about to be put in place replaces none of the same process.
NothingReplaced ==
    \A w \in Workers : pc[w] = "rename" =>
        /\ backend = "file"
        /\ \A o \in opened : o[1] = id[w] => Process[o[2]] # Process[w]

\* On record is what Open has returned, and so is what Close, Reopen and postmortem
\* have read.
OnRecord ==
    /\ \A i \in Ids : Exists(i) => <<i, stored[i].by>> \in opened
    /\ \A o \in opened : Exists(o[1])
    /\ \A w \in Workers : pc[w] \in Operations => <<id[w], copy[w].by>> \in opened

\* The table never gives an id twice, and no process does.
OpenedOnce ==
    \A o1, o2 \in opened :
        o1[1] = o2[1] /\ (backend = "db" \/ Process[o1[2]] = Process[o2[2]]) => o1 = o2

IncidentInv ==
    /\ Typed /\ RecordsAreProper /\ IdsAreItsOwn /\ NothingReplaced /\ OnRecord
    /\ OpenedOnce

---------------------------------------------------------------------------

LEMMA InitHolds == ASSUME IncidentAssumption, Init PROVE IncidentInv
<1>1. Typed
  BY DEF Init, Typed, IncidentAssumption
<1>2. \A i \in Ids : ~Exists(i)
  BY DEF Init, Exists
<1>3. \A w \in Workers : pc[w] = "idle"
  BY DEF Init
<1>4. opened = {}
  BY DEF Init
<1>5. QED
  BY <1>1, <1>2, <1>3, <1>4
     DEF IncidentInv, RecordsAreProper, IdsAreItsOwn, NothingReplaced, OnRecord,
         OpenedOnce, Opening, Operations

\* A worker that goes on moves nobody else.
LEMMA GoesAlone ==
    ASSUME Typed, NEW w \in Workers, NEW from, NEW to, NEW i, NEW record,
           Goes(w, from, to, i, record)
    PROVE  /\ pc[w] = from /\ pc'[w] = to /\ id'[w] = i /\ copy'[w] = record
           /\ \A v \in Workers \ {w} : pc'[v] = pc[v] /\ id'[v] = id[v] /\ copy'[v] = copy[v]
BY DEF Goes, Typed

\* Time, and a worker that returns, or a process that ends, breaks nothing.
LEMMA IdleKeeps ==
    ASSUME IncidentInv, UNCHANGED <<backend, stored, opened>>, Typed', now <= now',
           \A v \in Workers : \/ pc'[v] = "idle"
                              \/ /\ pc'[v] = pc[v] /\ id'[v] = id[v] /\ copy'[v] = copy[v]
                                 /\ counter'[Process[v]] >= counter[Process[v]]
    PROVE  IncidentInv'
<1>1. RecordsAreProper'
  BY DEF IncidentInv, RecordsAreProper, Proper, Exists, Typed, Incidents
<1>2. IdsAreItsOwn'
  <2>1. \A v \in Workers : pc'[v] \in Opening =>
            /\ pc[v] \in Opening /\ id'[v] = id[v] /\ copy'[v] = copy[v]
            /\ counter'[Process[v]] >= counter[Process[v]]
    BY DEF Opening
  <2>2. \A v \in Workers : pc'[v] \in Opening =>
            copy'[v].by = v /\ id'[v][2] <= counter'[Process[v]]
    <3>1. SUFFICES ASSUME NEW v \in Workers, pc'[v] \in Opening
                   PROVE  copy'[v].by = v /\ id'[v][2] <= counter'[Process[v]]
      OBVIOUS
    <3>2. id[v] \in Ids /\ Process[v] \in Processes
      BY <2>1, <3>1 DEF IncidentInv, RecordsAreProper, Opening, Processes
    <3>3. id[v][2] \in Int /\ counter[Process[v]] \in Int /\ counter'[Process[v]] \in Int
      BY <3>2 DEF Ids, IncidentInv, Typed
    <3>4. QED
      BY <2>1, <3>1, <3>3 DEF IncidentInv, IdsAreItsOwn
  <2>3. QED
    BY <2>1, <2>2 DEF IncidentInv, IdsAreItsOwn
<1>3. NothingReplaced' /\ OnRecord' /\ OpenedOnce'
  BY DEF IncidentInv, NothingReplaced, OnRecord, OpenedOnce, Exists, Operations
<1>4. QED
  BY <1>1, <1>2, <1>3 DEF IncidentInv

---------------------------------------------------------------------------
(* Open.                                                                   *)

LEMMA OpenStartKeeps ==
    ASSUME IncidentAssumption, IncidentInv, NEW w \in Workers, OpenStart(w)
    PROVE  IncidentInv'
<1> DEFINE p == Process[w]
           n == counter[p] + 1
<1>1. p \in Processes /\ counter[p] \in Nat /\ counter[p] <= begun /\ begun < MaxOps
      /\ begun' = begun + 1
  BY DEF Processes, IncidentInv, Typed, OpenStart, Begins
<1>2. NextId(w) \in Ids /\ NextId(w)[2] = n
  BY <1>1 DEF NextId, Ids, IncidentInv, Typed, IncidentAssumption
<1>3. Proper(Opened(w)) /\ Opened(w).by = w
  <2>1. now \in 1..MaxSecond /\ MaxSecond \in Nat
    BY DEF IncidentInv, Typed, IncidentAssumption
  <2>2. Opened(w) \in Incidents
    BY <2>1 DEF Opened, Incidents
  <2>3. QED
    BY <2>1, <2>2 DEF Proper, Opened
<1>4. /\ pc[w] = "idle" /\ pc'[w] = "create" /\ id'[w] = NextId(w) /\ copy'[w] = Opened(w)
      /\ \A v \in Workers \ {w} : pc'[v] = pc[v] /\ id'[v] = id[v] /\ copy'[v] = copy[v]
  BY GoesAlone DEF IncidentInv, OpenStart
<1>5. /\ counter' = [counter EXCEPT ![p] = n]
      /\ UNCHANGED <<backend, stored, now, opened>>
  BY DEF OpenStart
<1>6. Typed'
  <2>1. /\ pc' \in [Workers -> {"idle", "create", "rename"} \cup Operations]
        /\ id' \in [Workers -> Ids \cup {NoId}]
        /\ copy' \in [Workers -> Incidents \cup {NotFound}]
    BY <1>2, <1>3 DEF IncidentInv, Typed, OpenStart, Goes, Proper
  <2>2. MaxOps \in Nat /\ begun \in Nat /\ begun' \in 0..MaxOps /\ n \in 0..MaxOps /\ n <= begun'
    BY <1>1 DEF IncidentInv, Typed, IncidentAssumption
  <2>3. \A q \in Processes : counter[q] \in Nat /\ counter[q] <= begun
    BY DEF IncidentInv, Typed
  <2>4. /\ counter' \in [Processes -> 0..MaxOps]
        /\ \A q \in Processes : counter'[q] <= begun'
    <3>1. counter' \in [Processes -> 0..MaxOps]
      BY <1>1, <1>5, <2>2 DEF IncidentInv, Typed
    <3>2. \A q \in Processes : counter'[q] = IF q = p THEN n ELSE counter[q]
      BY <1>5 DEF IncidentInv, Typed
    <3>3. QED
      BY <1>1, <2>2, <2>3, <3>1, <3>2
  <2>5. QED
    BY <1>5, <2>1, <2>2, <2>4 DEF IncidentInv, Typed
<1>7. RecordsAreProper'
  BY <1>2, <1>3, <1>4, <1>5 DEF IncidentInv, RecordsAreProper, Proper, Exists
<1>8. \A v \in Workers \ {w} : pc'[v] \in Opening =>
          /\ copy'[v].by = v
          /\ id'[v][2] <= counter[Process[v]] /\ id'[v][2] \in Int
          /\ counter'[Process[v]] >= counter[Process[v]]
  <2>1. SUFFICES ASSUME NEW v \in Workers \ {w}, pc'[v] \in Opening
                 PROVE  /\ copy'[v].by = v
                        /\ id'[v][2] <= counter[Process[v]] /\ id'[v][2] \in Int
                        /\ counter'[Process[v]] >= counter[Process[v]]
    OBVIOUS
  <2>2. id[v] \in Ids /\ Process[v] \in Processes
    BY <1>4, <2>1 DEF IncidentInv, RecordsAreProper, Opening, Processes
  <2>3. id[v][2] \in Int
    BY <2>2 DEF Ids
  <2>4. counter'[Process[v]] >= counter[Process[v]]
    BY <1>1, <1>5, <2>2 DEF IncidentInv, Typed
  <2>5. QED
    BY <1>4, <2>1, <2>3, <2>4 DEF IncidentInv, IdsAreItsOwn
<1>9. IdsAreItsOwn'
  <2>1. \A v \in Workers : pc'[v] \in Opening =>
            copy'[v].by = v /\ id'[v][2] <= counter'[Process[v]]
    <3>1. SUFFICES ASSUME NEW v \in Workers, pc'[v] \in Opening
                   PROVE  copy'[v].by = v /\ id'[v][2] <= counter'[Process[v]]
      OBVIOUS
    <3>2. CASE v = w
      BY <1>1, <1>2, <1>3, <1>4, <1>5, <3>2 DEF IncidentInv, Typed
    <3>3. CASE v # w
      <4>1. counter[Process[v]] \in Int /\ counter'[Process[v]] \in Int
        BY <1>6 DEF IncidentInv, Typed, Processes
      <4>2. QED
        BY <1>8, <3>1, <3>3, <4>1
    <3>4. QED
      BY <3>2, <3>3
  <2>2. \A v \in Workers \ {w} : pc'[v] \in Opening /\ Process[v] = p => id'[v] # NextId(w)
    BY <1>1, <1>2, <1>8
  <2>3. QED
    BY <1>4, <2>1, <2>2 DEF IncidentInv, IdsAreItsOwn
<1>10. NothingReplaced' /\ OnRecord' /\ OpenedOnce'
  BY <1>4, <1>5 DEF IncidentInv, NothingReplaced, OnRecord, OpenedOnce, Exists, Operations
<1>11. QED
  BY <1>6, <1>7, <1>9, <1>10 DEF IncidentInv

\* The file store has looked, and there is no such file.
LEMMA StatFileKeeps ==
    ASSUME IncidentInv, NEW w \in Workers, StatFile(w)
    PROVE  IncidentInv'
<1>1. /\ pc[w] = "create" /\ pc'[w] = "rename" /\ id'[w] = id[w] /\ copy'[w] = copy[w]
      /\ \A v \in Workers \ {w} : pc'[v] = pc[v] /\ id'[v] = id[v] /\ copy'[v] = copy[v]
  BY GoesAlone DEF IncidentInv, StatFile
<1>2. /\ backend = "file" /\ ~Exists(id[w])
      /\ UNCHANGED <<backend, stored, now, counter, begun, opened>>
  BY DEF StatFile
<1>3. Typed'
  BY <1>2 DEF IncidentInv, Typed, StatFile, Goes
<1>4. RecordsAreProper'
  BY <1>1, <1>2 DEF IncidentInv, RecordsAreProper, Proper, Exists
<1>5. IdsAreItsOwn'
  BY <1>1, <1>2 DEF IncidentInv, IdsAreItsOwn, Opening
<1>6. NothingReplaced'
  BY <1>1, <1>2 DEF IncidentInv, NothingReplaced, OnRecord
<1>7. OnRecord' /\ OpenedOnce'
  BY <1>1, <1>2 DEF IncidentInv, OnRecord, OpenedOnce, Exists, Operations
<1>8. QED
  BY <1>3, <1>4, <1>5, <1>6, <1>7 DEF IncidentInv

\* The record of an incident that is opened is put in place.
LEMMA CreatedKeeps ==
    ASSUME IncidentInv, NEW w \in Workers, InsertRow(w) \/ RenameFile(w)
    PROVE  IncidentInv'
<1>1. PICK from \in Opening : Done(w, from) /\
                            (from = "rename" \/ (backend = "db" /\ ~Exists(id[w])))
  BY DEF InsertRow, RenameFile, Opening
<1>2. /\ pc[w] = from /\ pc'[w] = "idle"
      /\ \A v \in Workers \ {w} : pc'[v] = pc[v] /\ id'[v] = id[v] /\ copy'[v] = copy[v]
  BY <1>1, GoesAlone DEF IncidentInv, Done
<1>3. /\ stored' = [stored EXCEPT ![id[w]] = copy[w]]
      /\ opened' = opened \cup {<<id[w], w>>}
      /\ UNCHANGED <<backend, now, counter, begun>>
  BY DEF InsertRow, RenameFile
<1>4. id[w] \in Ids /\ Proper(copy[w]) /\ copy[w].by = w
  BY <1>2 DEF IncidentInv, RecordsAreProper, IdsAreItsOwn, Opening
<1>5. Typed'
  <2>1. pc' \in [Workers -> {"idle", "create", "rename"} \cup Operations]
        /\ id' \in [Workers -> Ids \cup {NoId}]
        /\ copy' \in [Workers -> Incidents \cup {NotFound}]
    BY <1>1 DEF IncidentInv, Typed, Done, Goes
  <2>2. stored' \in [Ids -> Incidents \cup {NotFound}] /\ opened' \subseteq Ids \X Workers
    BY <1>3, <1>4 DEF IncidentInv, Typed, Proper
  <2>3. QED
    BY <1>3, <2>1, <2>2 DEF IncidentInv, Typed
<1>6. /\ \A i \in Ids : stored'[i] = IF i = id[w] THEN copy[w] ELSE stored[i]
      /\ NotFound \notin Incidents
  <2>1. NotFound \notin Incidents
    BY DEF NotFound, Incidents
  <2>2. QED
    BY <1>3, <2>1 DEF IncidentInv, Typed
<1>7. RecordsAreProper'
  BY <1>2, <1>3, <1>4, <1>6 DEF IncidentInv, RecordsAreProper, Proper, Exists
<1>8. IdsAreItsOwn'
  BY <1>2, <1>3 DEF IncidentInv, IdsAreItsOwn, Opening
<1>9. from = "rename" => backend = "file"
  BY <1>2 DEF IncidentInv, NothingReplaced
<1>10. NothingReplaced'
  BY <1>1, <1>2, <1>3 DEF IncidentInv, NothingReplaced, IdsAreItsOwn, Opening
<1>11. OnRecord'
  BY <1>2, <1>3, <1>4, <1>6 DEF IncidentInv, OnRecord, Exists, Operations, Proper, Typed
<1>12. OpenedOnce'
  <2>1. \A o \in opened : o[1] = id[w] =>
            ~(backend = "db" \/ Process[o[2]] = Process[w])
    BY <1>1, <1>2, <1>9 DEF IncidentInv, NothingReplaced, OnRecord
  <2>2. QED
    BY <1>3, <2>1 DEF IncidentInv, OpenedOnce
<1>13. QED
  BY <1>5, <1>7, <1>8, <1>10, <1>11, <1>12 DEF IncidentInv

---------------------------------------------------------------------------
(* Close, Reopen and postmortem.                                           *)

LEMMA GetKeeps ==
    ASSUME IncidentAssumption, IncidentInv, NEW w \in Workers, NEW op \in Operations,
           NEW i \in Ids, Get(w, op, i)
    PROVE  IncidentInv'
<1>1. /\ pc[w] = "idle" /\ pc'[w] = op /\ id'[w] = i /\ copy'[w] = stored[i]
      /\ \A v \in Workers \ {w} : pc'[v] = pc[v] /\ id'[v] = id[v] /\ copy'[v] = copy[v]
  BY GoesAlone DEF IncidentInv, Get
<1>2. /\ Exists(i) /\ begun < MaxOps /\ begun' = begun + 1
      /\ UNCHANGED <<backend, stored, now, counter, opened>>
  BY DEF Get, Begins
<1>3. op \notin Opening /\ op # "idle" /\ op # "rename"
  BY DEF Opening, Operations
<1>4. Typed'
  <2>1. /\ pc' \in [Workers -> {"idle", "create", "rename"} \cup Operations]
        /\ id' \in [Workers -> Ids \cup {NoId}]
        /\ copy' \in [Workers -> Incidents \cup {NotFound}]
    BY DEF IncidentInv, Typed, Get, Goes
  <2>2. begun' \in 0..MaxOps /\ begun <= begun' /\ begun \in Int /\ begun' \in Int
    BY <1>2 DEF IncidentInv, Typed, IncidentAssumption
  <2>3. \A p \in Processes : counter[p] \in Int /\ counter[p] <= begun
    BY DEF IncidentInv, Typed
  <2>4. \A p \in Processes : counter'[p] <= begun'
    BY <1>2, <2>2, <2>3
  <2>5. QED
    BY <1>2, <2>1, <2>2, <2>4 DEF IncidentInv, Typed
<1>5. RecordsAreProper'
  BY <1>1, <1>2 DEF IncidentInv, RecordsAreProper, Proper, Exists
<1>6. IdsAreItsOwn' /\ NothingReplaced'
  BY <1>1, <1>2, <1>3 DEF IncidentInv, IdsAreItsOwn, NothingReplaced, Opening
<1>7. OnRecord' /\ OpenedOnce'
  BY <1>1, <1>2 DEF IncidentInv, OnRecord, OpenedOnce, Exists
<1>8. QED
  BY <1>4, <1>5, <1>6, <1>7 DEF IncidentInv

\* A change leaves who opened an incident, and a proper record proper.
LEMMA ChangedIsProper ==
    ASSUME IncidentAssumption, Typed, NEW r, Proper(r), NEW op \in Operations
    PROVE  Proper(Changed(op, r)) /\ Changed(op, r).by = r.by
<1>1. /\ now \in 1..MaxSecond /\ MaxSecond \in Nat /\ r \in Incidents
      /\ r.openedAt \in 1..MaxSecond /\ r.openedAt <= now
  BY DEF Typed, IncidentAssumption, Proper, Incidents
<1>2. CASE op = "close"
  <2>1. Changed(op, r) = [by |-> r.by, status |-> "closed", openedAt |-> r.openedAt,
                          closedAt |-> now, postmortem |-> r.postmortem]
    BY <1>1, <1>2 DEF Changed, Closed, Incidents
  <2>2. /\ Changed(op, r) \in Incidents /\ Changed(op, r).by = r.by
        /\ Changed(op, r).status = "closed" /\ Changed(op, r).closedAt = now
        /\ Changed(op, r).openedAt = r.openedAt
    BY <1>1, <2>1 DEF Incidents
  <2>3. QED
    BY <1>1, <2>2 DEF Proper
<1>3. CASE op = "reopen"
  <2>1. Changed(op, r) = [by |-> r.by, status |-> "open", openedAt |-> r.openedAt,
                          closedAt |-> 0, postmortem |-> r.postmortem]
    BY <1>1, <1>3 DEF Changed, Reopened, Incidents
  <2>2. /\ Changed(op, r) \in Incidents /\ Changed(op, r).by = r.by
        /\ Changed(op, r).status = "open" /\ Changed(op, r).closedAt = 0
        /\ Changed(op, r).openedAt = r.openedAt
    BY <1>1, <2>1 DEF Incidents
  <2>3. QED
    BY <1>1, <2>2 DEF Proper
<1>4. CASE op = "postmortem"
  <2>1. Changed(op, r) = [r EXCEPT !.postmortem = TRUE]
    BY <1>4 DEF Changed
  <2>2. QED
    BY <1>1, <2>1 DEF Proper, Incidents
<1>5. QED
  BY <1>2, <1>3, <1>4 DEF Operations

LEMMA UpdateKeeps ==
    ASSUME IncidentAssumption, IncidentInv, NEW w \in Workers, NEW op \in Operations,
           Update(w, op)
    PROVE  IncidentInv'
<1> DEFINE r == Changed(op, copy[w])
<1>1. /\ pc[w] = op /\ pc'[w] = "idle"
      /\ \A v \in Workers \ {w} : pc'[v] = pc[v] /\ id'[v] = id[v] /\ copy'[v] = copy[v]
  BY GoesAlone DEF IncidentInv, Update, Done
<1>2. /\ stored' = [stored EXCEPT ![id[w]] = r]
      /\ UNCHANGED <<backend, now, counter, begun, opened>>
  BY DEF Update
<1>3. id[w] \in Ids /\ Proper(copy[w]) /\ <<id[w], copy[w].by>> \in opened
  BY <1>1 DEF IncidentInv, RecordsAreProper, OnRecord, Operations
<1>4. Proper(r) /\ r.by = copy[w].by
  BY <1>3, ChangedIsProper DEF IncidentInv
<1> HIDE DEF r
<1>5. Typed'
  <2>1. /\ pc' \in [Workers -> {"idle", "create", "rename"} \cup Operations]
        /\ id' \in [Workers -> Ids \cup {NoId}]
        /\ copy' \in [Workers -> Incidents \cup {NotFound}]
    BY DEF IncidentInv, Typed, Update, Done, Goes
  <2>2. stored' \in [Ids -> Incidents \cup {NotFound}]
    BY <1>2, <1>3, <1>4 DEF IncidentInv, Typed, Proper
  <2>3. QED
    BY <1>2, <2>1, <2>2 DEF IncidentInv, Typed
<1>6. /\ \A i \in Ids : stored'[i] = IF i = id[w] THEN r ELSE stored[i]
      /\ NotFound \notin Incidents
  <2>1. NotFound \notin Incidents
    BY DEF NotFound, Incidents
  <2>2. QED
    BY <1>2, <2>1 DEF IncidentInv, Typed
<1>7. RecordsAreProper'
  BY <1>1, <1>2, <1>4, <1>6 DEF IncidentInv, RecordsAreProper, Proper, Exists
<1>8. IdsAreItsOwn' /\ NothingReplaced' /\ OpenedOnce'
  BY <1>1, <1>2 DEF IncidentInv, IdsAreItsOwn, NothingReplaced, OpenedOnce, Opening
<1>9. OnRecord'
  BY <1>1, <1>2, <1>3, <1>4, <1>6
     DEF IncidentInv, OnRecord, Exists, Operations, Proper, Typed
<1>10. QED
  BY <1>5, <1>7, <1>8, <1>9 DEF IncidentInv

---------------------------------------------------------------------------
(* What ends, and time.                                                    *)

LEMMA OtherStepsKeep ==
    ASSUME IncidentAssumption, IncidentInv,
           \/ \E w \in Workers : AlreadyExists(w) \/ Fails(w)
           \/ \E p \in Processes : Restart(p)
           \/ Tick
           \/ UNCHANGED vars
    PROVE  IncidentInv'
<1>0. now \in Int /\ \A p \in Processes : counter[p] \in Nat
  BY DEF IncidentInv, Typed
<1>1. ASSUME NEW w \in Workers, AlreadyExists(w) \/ Fails(w)
      PROVE  IncidentInv'
  <2>1. PICK from : Done(w, from)
    BY <1>1 DEF AlreadyExists, Fails
  <2>2. UNCHANGED <<backend, stored, now, counter, begun, opened>>
    BY <1>1 DEF AlreadyExists, Fails
  <2>3. /\ pc'[w] = "idle"
        /\ \A v \in Workers \ {w} : pc'[v] = pc[v] /\ id'[v] = id[v] /\ copy'[v] = copy[v]
    BY <2>1, GoesAlone DEF IncidentInv, Done
  <2>4. Typed'
    BY <2>1, <2>2 DEF IncidentInv, Typed, Done, Goes
  <2>5. \A v \in Workers : counter[Process[v]] \in Nat
    BY <1>0 DEF Processes
  <2>6. QED
    BY <1>0, <2>2, <2>3, <2>4, <2>5, IdleKeeps
<1>2. ASSUME NEW p \in Processes, Restart(p)
      PROVE  IncidentInv'
  <2>1. UNCHANGED <<backend, stored, now, begun, opened>>
    BY <1>2 DEF Restart
  <2>2. \A v \in Workers :
            /\ pc'[v] = IF Process[v] = p THEN "idle" ELSE pc[v]
            /\ id'[v] = IF Process[v] = p THEN NoId ELSE id[v]
            /\ copy'[v] = IF Process[v] = p THEN NotFound ELSE copy[v]
    BY <1>2 DEF Restart
  <2>3. counter' = [counter EXCEPT ![p] = 0]
    BY <1>2 DEF Restart
  <2>4. \A v \in Workers : Process[v] # p => counter'[Process[v]] >= counter[Process[v]]
    BY <1>0, <2>3 DEF IncidentInv, Typed, Processes
  <2>5. Typed'
    <3>1. /\ pc' \in [Workers -> {"idle", "create", "rename"} \cup Operations]
          /\ id' \in [Workers -> Ids \cup {NoId}]
          /\ copy' \in [Workers -> Incidents \cup {NotFound}]
      BY <1>2 DEF Restart, IncidentInv, Typed
    <3>2. /\ counter' \in [Processes -> 0..MaxOps]
          /\ \A q \in Processes : counter'[q] <= begun
      BY <2>3 DEF IncidentInv, Typed, IncidentAssumption
    <3>3. QED
      BY <2>1, <3>1, <3>2 DEF IncidentInv, Typed
  <2>6. QED
    BY <1>0, <2>1, <2>2, <2>4, <2>5, IdleKeeps
<1>3. ASSUME Tick \/ UNCHANGED vars
      PROVE  IncidentInv'
  <2>1. UNCHANGED <<backend, stored, counter, pc, id, copy, begun, opened>>
    BY <1>3 DEF Tick, vars
  <2>2. now' \in 1..MaxSecond /\ now <= now'
    BY <1>0, <1>3 DEF Tick, vars, IncidentInv, Typed, IncidentAssumption
  <2>3. Typed'
    BY <2>1, <2>2 DEF IncidentInv, Typed
  <2>4. \A v \in Workers : counter[Process[v]] \in Nat
    BY <1>0 DEF Processes
  <2>5. QED
    BY <2>1, <2>2, <2>3, <2>4, IdleKeeps
<1>4. QED
  BY <1>1, <1>2, <1>3

LEMMA NextKeeps == ASSUME IncidentAssumption, IncidentInv, [Next]_vars PROVE IncidentInv'
<1>1. ASSUME NEW w \in Workers, OpenStart(w)
      PROVE  IncidentInv'
  BY <1>1, OpenStartKeeps
<1>2. ASSUME NEW w \in Workers, InsertRow(w) \/ RenameFile(w)
      PROVE  IncidentInv'
  BY <1>2, CreatedKeeps
<1>3. ASSUME NEW w \in Workers, StatFile(w)
      PROVE  IncidentInv'
  BY <1>3, StatFileKeeps
<1>4. ASSUME NEW w \in Workers, NEW op \in Operations, Update(w, op)
      PROVE  IncidentInv'
  BY <1>4, UpdateKeeps
<1>5. ASSUME NEW w \in Workers, NEW op \in Operations, NEW i \in Ids, Get(w, op, i)
      PROVE  IncidentInv'
  BY <1>5, GetKeeps
<1>6. QED
  BY <1>1, <1>2, <1>3, <1>4, <1>5, OtherStepsKeep DEF Next

LEMMA InvHolds == ASSUME IncidentAssumption PROVE Spec => []IncidentInv
<1>1. Init => IncidentInv
  BY InitHolds
<1>2. IncidentInv /\ [Next]_vars => IncidentInv'
  BY NextKeeps
<1>3. QED
  BY <1>1, <1>2, PTL DEF Spec

\* By its id an incident that Open returned is told from the others.
LEMMA OpenedAreOnRecord == ASSUME IncidentInv PROVE OpenedIsKept
<1>1. SUFFICES ASSUME NEW o \in opened, backend = "db" \/ OneProcess(o[1])
               PROVE  stored[o[1]] # NotFound /\ stored[o[1]].by = o[2]
  BY DEF OpenedIsKept
<1>2. o[1] \in Ids /\ o = <<o[1], o[2]>>
  BY <1>1 DEF IncidentInv, Typed
<1>3. Exists(o[1]) /\ <<o[1], stored[o[1]].by>> \in opened
  BY <1>1, <1>2 DEF IncidentInv, OnRecord
<1>4. o = <<o[1], stored[o[1]].by>>
  BY <1>1, <1>3 DEF IncidentInv, OpenedOnce, OneProcess
<1>5. QED
  BY <1>3, <1>4 DEF Exists

LEMMA ClosedAreRestored == ASSUME IncidentInv PROVE RestoredAreClosed
<1>1. \A i \in Recorded : Proper(stored[i])
  BY DEF Recorded, IncidentInv, RecordsAreProper
<1>2. Restored = {i \in Recorded : stored[i].status = "closed"}
  BY <1>1 DEF Restored, Proper
<1>3. \A i \in Restored : RestoreTime(i) >= 0
  BY <1>1 DEF Restored, RestoreTime, Proper, Incidents
<1>4. QED
  BY <1>2, <1>3 DEF RestoredAreClosed

---------------------------------------------------------------------------

\* The type invariant of the incident store, for any workers and processes.
THEOREM IncidentTypesHold == ASSUME IncidentAssumption PROVE Spec => []TypeOK
<1>1. IncidentInv => TypeOK
  BY DEF IncidentInv, Typed, TypeOK
<1>2. QED
  BY <1>1, InvHolds, PTL

\* An incident that Open returned stays on record as it was opened, whatever is closed,
\* reopened, written about or killed meanwhile: in the table always, in the files as
\* long as one process opens incidents within a second (store.go:84-97, 157-211, 232 and
\* sqlite_store.go:24-89).
THEOREM IncidentsAreKept == ASSUME IncidentAssumption PROVE Spec => []OpenedIsKept
BY InvHolds, OpenedAreOnRecord, PTL

\* An incident has a time of restoration exactly while it is closed, and it is not before
\* that of its opening, whatever operations of however many processes overlap
\* (actions.go:74-108, plugins/dora/metrics.go:58-71).
THEOREM RestoresAreClosed == ASSUME IncidentAssumption PROVE Spec => []RestoredAreClosed
BY InvHolds, ClosedAreRestored, PTL

---------------------------------------------------------------------------
(* LocalDb: what the files had is in the database once its import is       *)
(* recorded, and nothing in it goes back.                                  *)

DbTyped ==
    /\ legacy \in [DB!Stores -> [RecordIds -> [kind : DB!Kinds \cup {"absent"}, version : 0..writes]]]
    /\ rows \in [DB!Stores -> [RecordIds -> 0..writes]]
    /\ keys \subseteq DB!Stores
    /\ pc \in [Runs -> {"down", "up"} \cup DB!Stores]
    /\ read \in [Runs -> [RecordIds -> [kind : DB!Kinds \cup {"absent"}, version : 0..writes]]]
    /\ writes \in Nat \ {0}

\* What was readable from the start stays so, under a version of its own.
StaysReadable(s, entries) ==
    \A i \in original[s] : i \in DB!Importable(entries) /\ entries[i].version > 0

\* A run reads a store's files while it imports that store, and not otherwise.
ReadsWhatWasThere ==
    /\ \A s \in DB!Stores : original[s] \subseteq RecordIds /\ StaysReadable(s, legacy[s])
    /\ \A r \in Runs :
           read[r] # DB!NoEntries => pc[r] \in DB!Stores /\ StaysReadable(pc[r], read[r])

DbInv == DbTyped /\ ReadsWhatWasThere /\ DB!RecordedImportsAreWhole

LEMMA DbStarts == ASSUME DB!LocalDbAssumption, DB!Init PROVE DbInv
<1>1. /\ legacy \in Legacies /\ writes = 1
      /\ original = [s \in DB!Stores |-> DB!Importable(legacy[s])]
  BY DEF DB!Init
<1>2. DbTyped
  BY <1>1 DEF DB!Init, DbTyped, DB!LocalDbAssumption, DB!NoEntries, DB!NoEntry,
              DB!Stores, DB!Kinds
<1>3. ReadsWhatWasThere
  BY <1>1 DEF DB!Init, ReadsWhatWasThere, StaysReadable, DB!Importable, DB!NoEntries,
              DB!LocalDbAssumption
<1>4. DB!RecordedImportsAreWhole
  BY DEF DB!Init, DB!RecordedImportsAreWhole
<1> QED BY <1>2, <1>3, <1>4 DEF DbInv

\* The rows of an import: none is older than it was, and none that could be imported is
\* missing.
LEMMA ImportOnlyAdds ==
    ASSUME DbInv, NEW s \in DB!Stores,
           NEW entries \in [RecordIds -> [kind : DB!Kinds \cup {"absent"}, version : 0..writes]]
    PROVE  /\ DB!Imported(s, entries) \in [RecordIds -> 0..writes]
           /\ \A i \in RecordIds :
                  /\ rows[s][i] # 0 => DB!Imported(s, entries)[i] = rows[s][i]
                  /\ rows[s][i] = 0 /\ i \in DB!Importable(entries) =>
                         DB!Imported(s, entries)[i] = entries[i].version
                  /\ DB!Imported(s, entries)[i] >= rows[s][i]
BY DEF DbInv, DbTyped, DB!Imported

\* A step that leaves the files and the database alone, and no run with entries in hand
\* but where it got them.
LEMMA DbQuiet ==
    ASSUME DbInv, UNCHANGED <<legacy, rows, keys, writes, original>>,
           NEW r \in Runs, NEW to \in {"down", "up"} \cup DB!Stores,
           pc' = [pc EXCEPT ![r] = to],
           \/ read' = [read EXCEPT ![r] = DB!NoEntries]
           \/ UNCHANGED read /\ read[r] = DB!NoEntries
    PROVE  DbInv'
<1>1. read'[r] = DB!NoEntries /\ \A q \in Runs \ {r} : read'[q] = read[q] /\ pc'[q] = pc[q]
  BY DEF DbInv, DbTyped
<1>2. DbTyped'
  <2>1. DB!NoEntries \in
            [RecordIds -> [kind : DB!Kinds \cup {"absent"}, version : 0..writes]]
    BY DEF DbInv, DbTyped, DB!NoEntries, DB!NoEntry
  <2> QED BY <2>1 DEF DbInv, DbTyped
<1>3. ReadsWhatWasThere'
  BY <1>1 DEF DbInv, ReadsWhatWasThere, StaysReadable
<1> QED BY <1>2, <1>3 DEF DbInv, DB!RecordedImportsAreWhole

LEMMA DbCommitKeeps ==
    ASSUME DbInv, NEW r \in Runs, NEW s \in DB!Stores, DB!Commit(r, s)
    PROVE  DbInv' /\ DB!NoOlderRow
<1> DEFINE entries == read[r]
<1>1. /\ pc[r] = s /\ entries # DB!NoEntries
      /\ entries \in [RecordIds -> [kind : DB!Kinds \cup {"absent"}, version : 0..writes]]
      /\ StaysReadable(s, entries)
  BY DEF DB!Commit, DB!Importing, DB!Step, DbInv, DbTyped, ReadsWhatWasThere
<1>2. /\ rows' = [rows EXCEPT ![s] = DB!Imported(s, entries)]
      /\ keys' = keys \cup {s}
  BY DEF DB!Commit, DB!ScanFails, DB!Scanned
<1>3. /\ DB!Imported(s, entries) \in [RecordIds -> 0..writes]
      /\ \A i \in RecordIds :
             /\ rows[s][i] # 0 => DB!Imported(s, entries)[i] = rows[s][i]
             /\ rows[s][i] = 0 /\ i \in DB!Importable(entries) =>
                    DB!Imported(s, entries)[i] = entries[i].version
             /\ DB!Imported(s, entries)[i] >= rows[s][i]
  BY <1>1, ImportOnlyAdds
<1>4. /\ rows' \in [DB!Stores -> [RecordIds -> 0..writes]]
      /\ \A i \in RecordIds : rows'[s][i] = DB!Imported(s, entries)[i]
      /\ \A t \in DB!Stores \ {s} : rows'[t] = rows[t]
  BY <1>2, <1>3 DEF DbInv, DbTyped
<1>5. /\ pc' = [pc EXCEPT ![r] = DB!After[s]] /\ read' = [read EXCEPT ![r] = DB!NoEntries]
      /\ UNCHANGED <<legacy, writes, original>>
      /\ DB!After[s] \in {"down", "up"} \cup DB!Stores
  BY DEF DB!Commit, DB!Step, DB!After, DB!Stores
<1>6. DbTyped'
  <2>1. DB!NoEntries \in
            [RecordIds -> [kind : DB!Kinds \cup {"absent"}, version : 0..writes]]
    BY DEF DbInv, DbTyped, DB!NoEntries, DB!NoEntry
  <2> QED BY <1>2, <1>4, <1>5, <2>1 DEF DbInv, DbTyped
<1>7. ReadsWhatWasThere'
  BY <1>5 DEF DbInv, DbTyped, ReadsWhatWasThere, StaysReadable
<1>8. \A i \in original[s] : rows'[s][i] # 0
  BY <1>1, <1>3, <1>4 DEF DbInv, DbTyped, ReadsWhatWasThere, StaysReadable
<1>9. DB!RecordedImportsAreWhole'
  BY <1>2, <1>4, <1>5, <1>8 DEF DbInv, DbTyped, DB!RecordedImportsAreWhole
<1>10. DB!NoOlderRow
  <2>1. \A i \in RecordIds : rows'[s][i] >= rows[s][i]
    BY <1>3, <1>4
  <2>2. \A t \in DB!Stores : \A i \in RecordIds : rows[t][i] >= rows[t][i]
    BY DEF DbInv, DbTyped
  <2>3. ASSUME NEW t \in DB!Stores, NEW i \in RecordIds PROVE rows'[t][i] >= rows[t][i]
    BY <1>4, <2>1, <2>2, <2>3
  <2> QED BY <2>3 DEF DB!NoOlderRow
<1> QED BY <1>6, <1>7, <1>9, <1>10 DEF DbInv

LEMMA DbWriteKeeps ==
    ASSUME DbInv, NEW r \in Runs, NEW s \in DB!Stores, NEW i \in RecordIds,
           DB!WriteDb(r, s, i) \/ DB!WriteFile(r, s, i)
    PROVE  DbInv' /\ DB!NoOlderRow
<1>1. /\ writes' = writes + 1 /\ writes \in Nat \ {0}
      /\ UNCHANGED <<keys, pc, read, original>>
  BY DEF DB!WriteDb, DB!WriteFile, DbInv, DbTyped
<1>2. 0..writes \subseteq 0..writes'
  BY <1>1
<1>3. /\ legacy' \in [DB!Stores ->
                          [RecordIds -> [kind : DB!Kinds \cup {"absent"}, version : 0..writes']]]
      /\ \A t \in DB!Stores : \A j \in RecordIds :
             \/ legacy'[t][j] = legacy[t][j]
             \/ legacy'[t][j].kind = "good" /\ legacy'[t][j].version = writes'
  <2>1. CASE UNCHANGED legacy
    BY <1>2, <2>1 DEF DbInv, DbTyped
  <2>2. CASE legacy' = [legacy EXCEPT ![s][i] = DB!Entry("good", writes')]
    <3>1. /\ DB!Entry("good", writes') \in
                 [kind : DB!Kinds \cup {"absent"}, version : 0..writes']
          /\ DB!Entry("good", writes').kind = "good"
          /\ DB!Entry("good", writes').version = writes'
      BY <1>1 DEF DB!Entry, DB!Kinds
    <3> QED BY <1>2, <2>2, <3>1 DEF DbInv, DbTyped
  <2> QED BY <2>1, <2>2 DEF DB!WriteDb, DB!WriteFile
<1>4. /\ rows' \in [DB!Stores -> [RecordIds -> 0..writes']]
      /\ \A t \in DB!Stores : \A j \in RecordIds :
             rows'[t][j] >= rows[t][j] /\ (rows[t][j] # 0 => rows'[t][j] # 0)
  <2>1. CASE UNCHANGED rows
    BY <1>2, <2>1 DEF DbInv, DbTyped
  <2>2. CASE rows' = [rows EXCEPT ![s][i] = writes']
    BY <1>1, <1>2, <2>2 DEF DbInv, DbTyped
  <2> QED BY <2>1, <2>2 DEF DB!WriteDb, DB!WriteFile
<1>5. read \in [Runs -> [RecordIds -> [kind : DB!Kinds \cup {"absent"}, version : 0..writes']]]
  BY <1>2 DEF DbInv, DbTyped
<1>6. DbTyped'
  BY <1>1, <1>3, <1>4, <1>5 DEF DbInv, DbTyped
<1>7. ReadsWhatWasThere'
  <2>1. \A t \in DB!Stores : StaysReadable(t, legacy[t])'
    BY <1>1, <1>3 DEF DbInv, DbTyped, ReadsWhatWasThere, StaysReadable, DB!Importable
  <2> QED BY <1>1, <2>1 DEF DbInv, ReadsWhatWasThere, StaysReadable
<1>8. DB!RecordedImportsAreWhole'
  BY <1>1, <1>4 DEF DbInv, DbTyped, ReadsWhatWasThere, DB!RecordedImportsAreWhole
<1> QED BY <1>4, <1>6, <1>7, <1>8 DEF DbInv, DB!NoOlderRow

LEMMA DbKeeps == ASSUME DbInv, [DB!Next]_(DB!vars) PROVE DbInv' /\ DB!NoOlderRow
<1>1. ASSUME UNCHANGED rows PROVE DB!NoOlderRow
  BY <1>1 DEF DB!NoOlderRow, DbInv, DbTyped
<1>2. ASSUME NEW r \in Runs, DB!OpenDb(r) \/ DB!OpenFails(r)
      PROVE  DbInv' /\ DB!NoOlderRow
  <2>1. pc[r] = "down" /\ read[r] = DB!NoEntries
    BY <1>2 DEF DB!OpenDb, DB!OpenFails, DB!Step, DbInv, ReadsWhatWasThere, DB!Stores
  <2>2. PICK to \in {"deployments", "up"} :
            /\ pc' = [pc EXCEPT ![r] = to]
            /\ UNCHANGED <<legacy, rows, keys, read, writes, original>>
    BY <1>2 DEF DB!OpenDb, DB!OpenFails, DB!Step
  <2> QED BY <1>1, <2>1, <2>2, DbQuiet DEF DB!Stores
<1>3. ASSUME NEW r \in Runs, DB!Stop(r)
      PROVE  DbInv' /\ DB!NoOlderRow
  BY <1>1, <1>3, DbQuiet DEF DB!Stop
<1>4. ASSUME NEW r \in Runs, NEW s \in DB!Stores, DB!Check(r, s)
      PROVE  DbInv' /\ DB!NoOlderRow
  <2>1. CASE pc' = [pc EXCEPT ![r] = DB!After[s]] /\ UNCHANGED read
    <3>1. DB!After[s] \in {"down", "up"} \cup DB!Stores
      BY DEF DB!After, DB!Stores
    <3> QED BY <1>1, <1>4, <2>1, <3>1, DbQuiet DEF DB!Check, DB!Importing
  <2>2. CASE read' = [read EXCEPT ![r] = legacy[s]] /\ UNCHANGED pc
    <3>1. UNCHANGED <<legacy, rows, keys, writes, original>> /\ pc[r] = s
      BY <1>4 DEF DB!Check
    <3>2. DbTyped'
      BY <2>2, <3>1 DEF DbInv, DbTyped
    <3>3. ReadsWhatWasThere'
      BY <2>2, <3>1 DEF DbInv, DbTyped, ReadsWhatWasThere, StaysReadable
    <3> QED BY <1>1, <3>1, <3>2, <3>3 DEF DbInv, DB!RecordedImportsAreWhole
  <2> QED BY <1>4, <2>1, <2>2 DEF DB!Check
<1>5. ASSUME NEW r \in Runs, NEW s \in DB!Stores, DB!Rollback(r, s)
      PROVE  DbInv' /\ DB!NoOlderRow
  <2>1. DB!After[s] \in {"down", "up"} \cup DB!Stores
    BY DEF DB!After, DB!Stores
  <2> QED BY <1>1, <1>5, <2>1, DbQuiet DEF DB!Rollback, DB!Step
<1>6. CASE UNCHANGED DB!vars
  BY <1>1, <1>6 DEF DB!vars, DbInv, DbTyped, ReadsWhatWasThere, StaysReadable,
                    DB!RecordedImportsAreWhole
<1>7. CASE DB!Next
  BY <1>2, <1>3, <1>4, <1>5, <1>7, DbCommitKeeps, DbWriteKeeps DEF DB!Next
<1> QED BY <1>6, <1>7

---------------------------------------------------------------------------
(* Deployments: every delivery that was accepted, or may still be, has its *)
(* line in the webhook's log, and recorded one deployment at most.         *)

DepTyped ==
    /\ lines \in Seq(DEP!DeploymentEvents)
    /\ events \in [TfRuns -> Nat]
    /\ now \in 1..MaxSecond
    /\ pc \in [Commands \cup DEP!Deliveries ->
                  {"idle", "done", "received", "event", "answer", "gone"}]
    /\ payload \in [TfRuns -> [success : BOOLEAN, at : {1}]]
    /\ delivered \in [TfRuns -> Nat]
    /\ accepted \in [TfRuns -> Nat]

\* The deliveries of t's notification that are at one of the places K, and the lines of
\* the file that are of t.
At(f, t, K) == {n \in 1..MaxDeliveries : f[<<t, n>>] \in K}
Of(s, t)    == {k \in DOMAIN s : s[k].of = t}

EveryDeliveryCounts ==
    \A t \in TfRuns :
        /\ accepted[t] + Cardinality(At(pc, t, {"event", "answer"})) <= events[t]
        /\ events[t] + Cardinality(At(pc, t, {"received"})) <= delivered[t]
        /\ Cardinality(Of(lines, t)) + Cardinality(At(pc, t, {"event"})) <= events[t]

DepInv == DepTyped /\ EveryDeliveryCounts

LEMMA AtIsFinite ==
    ASSUME DEP!DeploymentsAssumption, NEW f, NEW t, NEW K
    PROVE  IsFiniteSet(At(f, t, K)) /\ Cardinality(At(f, t, K)) \in Nat
<1>1. IsFiniteSet(1..MaxDeliveries)
  BY FS_Interval DEF DEP!DeploymentsAssumption
<1>2. At(f, t, K) \subseteq 1..MaxDeliveries
  BY DEF At
<1> QED BY <1>1, <1>2, FS_Subset, FS_CardinalityType

LEMMA OfIsFinite ==
    ASSUME NEW S, NEW s \in Seq(S), NEW t
    PROVE  IsFiniteSet(Of(s, t)) /\ Cardinality(Of(s, t)) \in Nat
<1>1. DOMAIN s = 1..Len(s) /\ Len(s) \in Nat
  BY LenProperties
<1>2. IsFiniteSet(DOMAIN s)
  BY <1>1, FS_Interval
<1>3. Of(s, t) \subseteq DOMAIN s
  BY DEF Of
<1> QED BY <1>2, <1>3, FS_Subset, FS_CardinalityType

\* How many deliveries are at K when one of them moves.
Counted(K, from, to, before, after) ==
    /\ (to \in K <=> from \in K) => after = before
    /\ to \in K /\ from \notin K => after = before + 1
    /\ to \notin K /\ from \in K => after = before - 1

LEMMA AtMoves ==
    ASSUME DEP!DeploymentsAssumption, NEW f, NEW g, NEW d \in DEP!Deliveries,
           \A e \in DEP!Deliveries \ {d} : g[e] = f[e],
           NEW t \in TfRuns, NEW K
    PROVE  /\ t # d[1] => Cardinality(At(g, t, K)) = Cardinality(At(f, t, K))
           /\ t = d[1] => Counted(K, f[d], g[d], Cardinality(At(f, t, K)),
                                                Cardinality(At(g, t, K)))
<1>1. /\ d = <<d[1], d[2]>> /\ d[2] \in 1..MaxDeliveries
      /\ \A n \in 1..MaxDeliveries :
             <<t, n>> # d => g[<<t, n>>] = f[<<t, n>>]
      /\ \A n \in 1..MaxDeliveries : <<t, n>> = d <=> (t = d[1] /\ n = d[2])
  BY DEF DEP!Deliveries
<1>2. /\ IsFiniteSet(At(f, t, K)) /\ IsFiniteSet(At(g, t, K))
      /\ Cardinality(At(f, t, K)) \in Nat
  BY AtIsFinite
<1>3. CASE t # d[1]
  <2>1. At(g, t, K) = At(f, t, K)
    BY <1>1, <1>3 DEF At
  <2> QED BY <1>2, <1>3, <2>1
<1>4. CASE t = d[1]
  <2>1. (d[2] \in At(f, t, K) <=> f[d] \in K) /\ (d[2] \in At(g, t, K) <=> g[d] \in K)
    BY <1>1, <1>4 DEF At
  <2>2. At(g, t, K) \ {d[2]} = At(f, t, K) \ {d[2]}
    BY <1>1, <1>4 DEF At
  <2>3. Cardinality(At(g, t, K)) \in Nat
    BY AtIsFinite
  <2>4. Cardinality(At(f, t, K) \ {d[2]}) =
            IF f[d] \in K THEN Cardinality(At(f, t, K)) - 1 ELSE Cardinality(At(f, t, K))
    <3>1. Cardinality(At(f, t, K) \ {d[2]}) =
              IF d[2] \in At(f, t, K) THEN Cardinality(At(f, t, K)) - 1
                                      ELSE Cardinality(At(f, t, K))
      BY <1>2, FS_RemoveElement
    <3> QED BY <2>1, <3>1
  <2>5. Cardinality(At(g, t, K) \ {d[2]}) =
            IF g[d] \in K THEN Cardinality(At(g, t, K)) - 1 ELSE Cardinality(At(g, t, K))
    <3>1. Cardinality(At(g, t, K) \ {d[2]}) =
              IF d[2] \in At(g, t, K) THEN Cardinality(At(g, t, K)) - 1
                                       ELSE Cardinality(At(g, t, K))
      BY <1>2, FS_RemoveElement
    <3> QED BY <2>1, <3>1
  <2> HIDE DEF At
  <2>6. (IF g[d] \in K THEN Cardinality(At(g, t, K)) - 1
                     ELSE Cardinality(At(g, t, K)))
            = (IF f[d] \in K THEN Cardinality(At(f, t, K)) - 1
                               ELSE Cardinality(At(f, t, K)))
    BY <2>2, <2>4, <2>5
  <2> QED BY <1>2, <1>4, <2>3, <2>6 DEF Counted
<1> QED BY <1>3, <1>4

\* How many lines are of t when one is written.
LEMMA OfGrows ==
    ASSUME NEW S, NEW s \in Seq(S), NEW e \in S, NEW t
    PROVE  Cardinality(Of(Append(s, e), t)) =
               Cardinality(Of(s, t)) + (IF e.of = t THEN 1 ELSE 0)
<1>1. /\ Len(s) \in Nat /\ DOMAIN s = 1..Len(s)
      /\ DOMAIN Append(s, e) = 1..(Len(s) + 1)
      /\ Append(s, e)[Len(s) + 1] = e
      /\ \A k \in 1..Len(s) : Append(s, e)[k] = s[k]
  BY LenProperties, AppendProperties
<1>2. Of(Append(s, e), t) =
          IF e.of = t THEN Of(s, t) \cup {Len(s) + 1} ELSE Of(s, t)
  BY <1>1 DEF Of
<1>3. Len(s) + 1 \notin Of(s, t)
  BY <1>1 DEF Of
<1>4. IsFiniteSet(Of(s, t)) /\ Cardinality(Of(s, t)) \in Nat
  BY OfIsFinite
<1>5. CASE e.of = t
  <2>1. Cardinality(Of(s, t) \cup {Len(s) + 1}) = Cardinality(Of(s, t)) + 1
    BY <1>3, <1>4, FS_AddElement
  <2> QED BY <1>2, <1>5, <2>1
<1> QED BY <1>2, <1>4, <1>5

LEMMA DepStarts == ASSUME DEP!DeploymentsAssumption, DEP!Init PROVE DepInv
<1>1. DepTyped
  BY DEF DEP!Init, DepTyped, DEP!DeploymentsAssumption
<1>2. ASSUME NEW t \in TfRuns, NEW K \in SUBSET {"received", "event", "answer"}
      PROVE  At(pc, t, K) = {}
  BY DEF DEP!Init, At, DEP!Deliveries
<1>3. ASSUME NEW t \in TfRuns PROVE Of(lines, t) = {}
  BY DEF DEP!Init, Of
<1>4. EveryDeliveryCounts
  <2>1. SUFFICES ASSUME NEW t \in TfRuns
                 PROVE  /\ accepted[t] + Cardinality(At(pc, t, {"event", "answer"}))
                               <= events[t]
                        /\ events[t] + Cardinality(At(pc, t, {"received"})) <= delivered[t]
                        /\ Cardinality(Of(lines, t)) + Cardinality(At(pc, t, {"event"}))
                               <= events[t]
    BY DEF EveryDeliveryCounts
  <2>2. /\ At(pc, t, {"event", "answer"}) = {} /\ At(pc, t, {"received"}) = {}
        /\ At(pc, t, {"event"}) = {} /\ Of(lines, t) = {}
    BY <1>2, <1>3
  <2>3. accepted[t] = 0 /\ events[t] = 0 /\ delivered[t] = 0
    BY DEF DEP!Init
  <2> QED BY <2>2, <2>3, FS_EmptySet
<1> QED BY <1>1, <1>4 DEF DepInv

\* A command is at no place of a delivery, and what it logs is of no Terraform run.
LEMMA CommandKeeps ==
    ASSUME DEP!DeploymentsAssumption, DepInv, NEW c \in Commands, DEP!logDeploy(c)
    PROVE  DepInv'
<1>1. /\ pc' = [pc EXCEPT ![c] = "done"]
      /\ UNCHANGED <<events, now, payload, delivered, accepted>>
  BY DEF DEP!logDeploy, DEP!Step
<1>2. PICK e \in DEP!DeploymentEvents :
          e.of = c /\ lines' = IF backend = "file" THEN Append(lines, e) ELSE lines
  <2>1. PICK success \in BOOLEAN :
            DEP!appendDeployment([id |-> DEP!newDeploymentID, of |-> c,
                                  success |-> success, at |-> now])
    BY DEF DEP!logDeploy
  <2>2. [id |-> DEP!newDeploymentID, of |-> c, success |-> success, at |-> now]
            \in DEP!DeploymentEvents
    BY DEF DEP!DeploymentEvents, DEP!Ids, DEP!newDeploymentID, DepInv, DepTyped
  <2> QED BY <2>1, <2>2 DEF DEP!appendDeployment
<1>3. DepTyped'
  <2>1. lines' \in Seq(DEP!DeploymentEvents)
    BY <1>2, AppendProperties DEF DepInv, DepTyped
  <2> QED BY <1>1, <2>1 DEF DepInv, DepTyped
<1>4. ASSUME NEW t \in TfRuns, NEW K PROVE At(pc', t, K) = At(pc, t, K)
  BY <1>1 DEF At, DepInv, DepTyped, DEP!DeploymentsAssumption, DEP!Deliveries
<1>5. ASSUME NEW t \in TfRuns PROVE Cardinality(Of(lines', t)) = Cardinality(Of(lines, t))
  <2>1. CASE lines' = lines
    BY <2>1
  <2>2. CASE lines' = Append(lines, e)
    <3>1. e.of # t
      BY <1>2 DEF DEP!DeploymentsAssumption
    <3>2. Cardinality(Of(lines, t)) \in Nat /\ lines \in Seq(DEP!DeploymentEvents)
      BY OfIsFinite DEF DepInv, DepTyped
    <3>3. Cardinality(Of(Append(lines, e), t)) = Cardinality(Of(lines, t)) + 0
      BY <3>1, <3>2, OfGrows
    <3> QED BY <2>2, <3>2, <3>3
  <2> QED BY <1>2, <2>1, <2>2
<1> QED BY <1>1, <1>3, <1>4, <1>5 DEF DepInv, EveryDeliveryCounts

\* Every step of a delivery is one of these: the numbers it changes, and from where to
\* where it moves the delivery.
LEMMA DeliveryMoves ==
    ASSUME DEP!DeploymentsAssumption, DepInv, NEW d \in DEP!Deliveries, DEP!Handle(d)
    PROVE  \E from, to \in {"idle", "received", "event", "answer", "gone"} :
               /\ pc[d] = from /\ pc' = [pc EXCEPT ![d] = to]
               /\ UNCHANGED <<now, payload>>
               /\ \/ /\ from = "idle" /\ to = "received"
                     /\ delivered' = [delivered EXCEPT ![d[1]] = @ + 1]
                     /\ UNCHANGED <<events, accepted, lines>>
                  \/ /\ from = "received" /\ to = "event"
                     /\ events' = [events EXCEPT ![d[1]] = @ + 1]
                     /\ UNCHANGED <<delivered, accepted, lines>>
                  \/ /\ from = "event" /\ to = "answer"
                     /\ \/ UNCHANGED lines
                        \/ \E e \in DEP!DeploymentEvents :
                               e.of = d[1] /\ lines' = Append(lines, e)
                     /\ UNCHANGED <<delivered, events, accepted>>
                  \/ /\ from = "answer" /\ to = "gone"
                     /\ accepted' = [accepted EXCEPT ![d[1]] = @ + 1]
                     /\ UNCHANGED <<delivered, events, lines>>
                  \/ /\ from \in {"received", "event", "answer"} /\ to = "gone"
                     /\ UNCHANGED <<delivered, events, accepted, lines>>
<1>1. CASE DEP!Deliver(d)
  BY <1>1 DEF DEP!Deliver, DEP!Step, DEP!store
<1>2. CASE DEP!Refuse(d) \/ DEP!Lost(d)
  BY <1>2 DEF DEP!Refuse, DEP!Lost, DEP!Step, DEP!store
<1>3. CASE DEP!appendEvent(d)
  BY <1>3 DEF DEP!appendEvent, DEP!Step, DEP!store
<1>4. CASE DEP!appendDORA(d)
  <2> DEFINE e == [id |-> DEP!NoId, of |-> d[1], success |-> payload[d[1]].success,
                   at |-> payload[d[1]].at]
  <2>1. e \in DEP!DeploymentEvents /\ e.of = d[1]
    <3>1. d[1] \in TfRuns
      BY DEF DEP!Deliveries
    <3>2. payload[d[1]] \in [success : BOOLEAN, at : {1}] /\ 1 \in 1..MaxSecond
      BY <3>1 DEF DepInv, DepTyped, DEP!DeploymentsAssumption
    <3> QED BY <3>1, <3>2 DEF DEP!DeploymentEvents, DEP!Ids, DEP!NoId
  <2>2. /\ pc[d] = "event" /\ pc' = [pc EXCEPT ![d] = "answer"]
        /\ UNCHANGED <<now, payload, delivered, events, accepted>>
        /\ lines' = lines \/ lines' = Append(lines, e)
    BY <1>4 DEF DEP!appendDORA, DEP!Step, DEP!appendDeployment
  <2> QED BY <2>1, <2>2
<1>5. CASE DEP!DORAFails(d)
  BY <1>5 DEF DEP!DORAFails, DEP!Step, DEP!store
<1>6. CASE DEP!Accept(d)
  BY <1>6 DEF DEP!Accept, DEP!Step, DEP!store
<1> QED BY <1>1, <1>2, <1>3, <1>4, <1>5, <1>6 DEF DEP!Handle

LEMMA DeliveryKeeps ==
    ASSUME DEP!DeploymentsAssumption, DepInv, NEW d \in DEP!Deliveries, DEP!Handle(d)
    PROVE  DepInv'
<1>1. PICK from, to \in {"idle", "received", "event", "answer", "gone"} :
          /\ pc[d] = from /\ pc' = [pc EXCEPT ![d] = to]
          /\ UNCHANGED <<now, payload>>
          /\ \/ /\ from = "idle" /\ to = "received"
                /\ delivered' = [delivered EXCEPT ![d[1]] = @ + 1]
                /\ UNCHANGED <<events, accepted, lines>>
             \/ /\ from = "received" /\ to = "event"
                /\ events' = [events EXCEPT ![d[1]] = @ + 1]
                /\ UNCHANGED <<delivered, accepted, lines>>
             \/ /\ from = "event" /\ to = "answer"
                /\ \/ UNCHANGED lines
                   \/ \E e \in DEP!DeploymentEvents :
                          e.of = d[1] /\ lines' = Append(lines, e)
                /\ UNCHANGED <<delivered, events, accepted>>
             \/ /\ from = "answer" /\ to = "gone"
                /\ accepted' = [accepted EXCEPT ![d[1]] = @ + 1]
                /\ UNCHANGED <<delivered, events, lines>>
             \/ /\ from \in {"received", "event", "answer"} /\ to = "gone"
                /\ UNCHANGED <<delivered, events, accepted, lines>>
  BY DeliveryMoves
<1>2. d[1] \in TfRuns
  BY DEF DEP!Deliveries
<1>3. DepTyped'
  <2>1. lines' = lines \/ \E e \in DEP!DeploymentEvents : lines' = Append(lines, e)
    BY <1>1
  <2>2. lines' \in Seq(DEP!DeploymentEvents)
    <3>1. lines \in Seq(DEP!DeploymentEvents)
      BY DEF DepInv, DepTyped
    <3>2. ASSUME NEW e \in DEP!DeploymentEvents
          PROVE  Append(lines, e) \in Seq(DEP!DeploymentEvents)
      BY <3>1, AppendProperties
    <3> QED BY <2>1, <3>1, <3>2
  <2>3. /\ pc' \in [Commands \cup DEP!Deliveries ->
                     {"idle", "done", "received", "event", "answer", "gone"}]
        /\ now' \in 1..MaxSecond
        /\ payload' \in [TfRuns -> [success : BOOLEAN, at : {1}]]
    BY <1>1 DEF DepInv, DepTyped
  <2>4. \A f \in [TfRuns -> Nat] : [f EXCEPT ![d[1]] = @ + 1] \in [TfRuns -> Nat]
    BY <1>2
  <2>5. events' \in [TfRuns -> Nat] /\ delivered' \in [TfRuns -> Nat]
        /\ accepted' \in [TfRuns -> Nat]
    BY <1>1, <2>4 DEF DepInv, DepTyped
  <2> QED BY <2>2, <2>3, <2>5 DEF DepTyped
<1>4. ASSUME NEW t \in TfRuns
      PROVE  /\ accepted'[t] + Cardinality(At(pc', t, {"event", "answer"})) <= events'[t]
             /\ events'[t] + Cardinality(At(pc', t, {"received"})) <= delivered'[t]
             /\ Cardinality(Of(lines', t)) + Cardinality(At(pc', t, {"event"}))
                    <= events'[t]
  <2> DEFINE both == Cardinality(At(pc, t, {"event", "answer"}))
             received == Cardinality(At(pc, t, {"received"}))
             event == Cardinality(At(pc, t, {"event"}))
             own == Cardinality(Of(lines, t))
  <2>1. /\ both \in Nat /\ received \in Nat /\ event \in Nat /\ own \in Nat
        /\ accepted[t] \in Nat /\ events[t] \in Nat /\ delivered[t] \in Nat
        /\ accepted[t] + both <= events[t]
        /\ events[t] + received <= delivered[t]
        /\ own + event <= events[t]
    BY AtIsFinite, OfIsFinite DEF DepInv, DepTyped, EveryDeliveryCounts
  <2>2. pc'[d] = to /\ pc[d] = from /\ \A e \in DEP!Deliveries \ {d} : pc'[e] = pc[e]
    BY <1>1 DEF DepInv, DepTyped
  <2>3. ASSUME NEW K
        PROVE  /\ t # d[1] => Cardinality(At(pc', t, K)) = Cardinality(At(pc, t, K))
               /\ t = d[1] => Counted(K, pc[d], pc'[d], Cardinality(At(pc, t, K)),
                                                       Cardinality(At(pc', t, K)))
    BY <2>2, AtMoves
  <2> DEFINE bothAfter == Cardinality(At(pc', t, {"event", "answer"}))
             receivedAfter == Cardinality(At(pc', t, {"received"}))
             eventAfter == Cardinality(At(pc', t, {"event"}))
             ownAfter == Cardinality(Of(lines', t))
  <2>4. CASE t # d[1]
    <3>1. events'[t] = events[t] /\ delivered'[t] = delivered[t]
          /\ accepted'[t] = accepted[t]
      BY <1>1, <2>4 DEF DepInv, DepTyped
    <3>2. ownAfter = own
      <4>1. CASE lines' = lines
        BY <4>1
      <4>2. ASSUME NEW e \in DEP!DeploymentEvents, e.of = d[1], lines' = Append(lines, e)
            PROVE  ownAfter = own
        BY <2>1, <2>4, <4>2, OfGrows DEF DepInv, DepTyped
      <4> QED BY <1>1, <4>1, <4>2
    <3>3. bothAfter = both /\ receivedAfter = received /\ eventAfter = event
      BY <2>3, <2>4
    <3> HIDE DEF both, received, event, own, bothAfter, receivedAfter, eventAfter, ownAfter
    <3>4. /\ accepted'[t] + bothAfter <= events'[t]
          /\ events'[t] + receivedAfter <= delivered'[t]
          /\ ownAfter + eventAfter <= events'[t]
      BY <2>1, <3>1, <3>2, <3>3
    <3> QED BY <3>4 DEF bothAfter, receivedAfter, eventAfter, ownAfter
  <2>5. CASE t = d[1]
    <3>1. /\ Counted({"event", "answer"}, from, to, both, bothAfter)
          /\ Counted({"received"}, from, to, received, receivedAfter)
          /\ Counted({"event"}, from, to, event, eventAfter)
      BY <2>2, <2>3, <2>5
    <3>2. CASE from = "event" /\ to = "answer"
      <4>1. ownAfter = own \/ ownAfter = own + 1
        <5>1. CASE lines' = lines
          BY <5>1
        <5>2. ASSUME NEW e \in DEP!DeploymentEvents, e.of = d[1], lines' = Append(lines, e)
              PROVE  ownAfter = own + 1
          BY <2>1, <2>5, <5>2, OfGrows DEF DepInv, DepTyped
        <5> QED BY <1>1, <5>1, <5>2
      <4>2. events'[t] = events[t] /\ delivered'[t] = delivered[t]
            /\ accepted'[t] = accepted[t]
        BY <1>1, <3>2
      <4> HIDE DEF both, received, event, own, bothAfter, receivedAfter, eventAfter, ownAfter
      <4>3. /\ accepted'[t] + bothAfter <= events'[t]
            /\ events'[t] + receivedAfter <= delivered'[t]
            /\ ownAfter + eventAfter <= events'[t]
        BY <2>1, <3>1, <3>2, <4>1, <4>2 DEF Counted
      <4> QED BY <4>3 DEF bothAfter, receivedAfter, eventAfter, ownAfter
    <3>3. CASE ~(from = "event" /\ to = "answer")
      <4>1. ownAfter = own
        BY <1>1, <3>3
      <4>2. \/ /\ from = "idle" /\ to = "received"
               /\ delivered'[t] = delivered[t] + 1
               /\ events'[t] = events[t] /\ accepted'[t] = accepted[t]
            \/ /\ from = "received" /\ to = "event"
               /\ events'[t] = events[t] + 1
               /\ delivered'[t] = delivered[t] /\ accepted'[t] = accepted[t]
            \/ /\ from = "answer" /\ to = "gone"
               /\ accepted'[t] = accepted[t] + 1
               /\ events'[t] = events[t] /\ delivered'[t] = delivered[t]
            \/ /\ from \in {"received", "event", "answer"} /\ to = "gone"
               /\ events'[t] = events[t] /\ delivered'[t] = delivered[t]
               /\ accepted'[t] = accepted[t]
        BY <1>1, <2>5, <3>3 DEF DepInv, DepTyped
      <4> HIDE DEF both, received, event, own, bothAfter, receivedAfter, eventAfter, ownAfter
      <4>3. /\ accepted'[t] + bothAfter <= events'[t]
            /\ events'[t] + receivedAfter <= delivered'[t]
            /\ ownAfter + eventAfter <= events'[t]
        BY <2>1, <3>1, <4>1, <4>2 DEF Counted
      <4> QED BY <4>3 DEF bothAfter, receivedAfter, eventAfter, ownAfter
    <3> QED BY <3>2, <3>3
  <2> QED BY <2>4, <2>5
<1> QED BY <1>3, <1>4 DEF DepInv, EveryDeliveryCounts

LEMMA DepKeeps ==
    ASSUME DEP!DeploymentsAssumption, DepInv, [DEP!Next]_(DEP!vars) PROVE DepInv'
<1>1. CASE UNCHANGED DEP!vars
  BY <1>1 DEF DEP!vars, DEP!store, DepInv, DepTyped, EveryDeliveryCounts, At, Of
<1>2. CASE DEP!Tick
  <2>1. /\ now < MaxSecond /\ now' = now + 1 /\ now \in 1..MaxSecond
        /\ UNCHANGED <<lines, events, pc, payload, delivered, accepted>>
    BY <1>2 DEF DEP!Tick, DEP!store, DepInv, DepTyped
  <2>2. now' \in 1..MaxSecond
    BY <2>1 DEF DEP!DeploymentsAssumption
  <2> QED BY <2>1, <2>2 DEF DepInv, DepTyped, EveryDeliveryCounts, At, Of
<1> QED BY <1>1, <1>2, CommandKeeps, DeliveryKeeps DEF DEP!Next

LEMMA DepLogged ==
    ASSUME DEP!DeploymentsAssumption, DepInv PROVE DEP!AcceptedIsLogged
<1>1. \A S : DEP!Cardinality(S) = Cardinality(S)
  BY DEF DEP!Cardinality, Cardinality
<1>2. ASSUME NEW t \in TfRuns
      PROVE  /\ accepted[t] <= events[t] /\ events[t] <= delivered[t]
             /\ Cardinality(Of(lines, t)) <= events[t]
  <2>1. /\ accepted[t] \in Nat /\ events[t] \in Nat /\ delivered[t] \in Nat
        /\ Cardinality(Of(lines, t)) \in Nat
        /\ Cardinality(At(pc, t, {"event", "answer"})) \in Nat
        /\ Cardinality(At(pc, t, {"received"})) \in Nat
        /\ Cardinality(At(pc, t, {"event"})) \in Nat
    BY AtIsFinite, OfIsFinite DEF DepInv, DepTyped
  <2> QED BY <2>1 DEF DepInv, EveryDeliveryCounts
<1> QED BY <1>1, <1>2 DEF DEP!AcceptedIsLogged, Of

---------------------------------------------------------------------------
(* Natural numbers.                                                        *)

\* A set of naturals has a least one: what the inductions below rest on.
LEMMA Least ==
    ASSUME NEW T, T \subseteq Nat, T # {}
    PROVE  \E x \in T : \A y \in T : x <= y
<1>1. PICK x \in T : \A y \in T : ~(<<y, x>> \in OpToRel(<, Nat))
  BY WFMin, NatLessThanWellFounded
<1>2. \A y \in T : ~(y < x)
  BY <1>1, Zenon DEF OpToRel
<1> QED BY <1>2

---------------------------------------------------------------------------
(* Sums: of some amounts, and of them and one more.                        *)

\* What SumOf adds up, from one number to the next.
Adds(up, f, L) == up[0] = 0 /\ \A n \in 1..L : up[n] = up[n - 1] + f[n]

LEMMA SumIsDefined ==
    ASSUME NEW L \in Nat, NEW f, Len(f) = L, \A k \in 1..L : f[k] \in Nat
    PROVE  \E up : SumOf(f) = up[L] /\ Adds(up, f, L)
<1> DEFINE Then(g, n) == IF n = 0 THEN 0 ELSE g[n - 1] + f[n]
           UpTo(g, m) == g = [n \in 0..m |-> Then(g, n)]
<1>2. \A m \in 0..L : \E g : UpTo(g, m)
  <2> DEFINE Bad == {m \in 0..L : ~\E g : UpTo(g, m)}
  <2>1. SUFFICES ASSUME Bad # {} PROVE FALSE
    OBVIOUS
  <2>2. PICK m \in Bad : \A k \in Bad : m <= k
    <3>1. Bad \subseteq Nat
      OBVIOUS
    <3> HIDE DEF Bad
    <3> QED BY <2>1, <3>1, Least
  <2>3. m \in 0..L /\ ~\E g : UpTo(g, m)
    OBVIOUS
  <2>4. CASE m = 0
    <3>1. UpTo([n \in 0..0 |-> 0], 0)
      OBVIOUS
    <3> QED BY <2>3, <2>4, <3>1
  <2>5. CASE m # 0
    <3>1. m - 1 \in 0..L /\ m - 1 \notin Bad
      <4>1. m - 1 \in 0..L /\ m \in Int
        BY <2>3, <2>5
      <4> HIDE DEF Bad
      <4>2. ~(m <= m - 1)
        BY <4>1
      <4> QED BY <2>2, <4>1, <4>2
    <3>2. PICK g : UpTo(g, m - 1)
      BY <3>1
    <3> DEFINE h == [n \in 0..m |-> IF n = m THEN Then(g, m) ELSE g[n]]
    <3>3. \A n \in 0..(m - 1) : g[n] = Then(g, n)
      BY <3>2
    <3>4. \A n \in 0..(m - 1) : h[n] = g[n]
      BY <2>3
    <3>5. h[m] = Then(g, m)
      BY <2>3
    <3> HIDE DEF h
    <3>6. ASSUME NEW n \in 0..m PROVE Then(h, n) = Then(g, n)
      <4>1. n # 0 => h[n - 1] = g[n - 1]
        BY <2>3, <3>4
      <4> QED BY <4>1
    <3>7. ASSUME NEW n \in 0..m PROVE h[n] = Then(h, n)
      <4>1. CASE n = m
        BY <3>5, <3>6, <4>1
      <4>2. CASE n # m
        <5>1. n \in 0..(m - 1)
          BY <2>3, <4>2
        <5> HIDE DEF Then
        <5> QED BY <3>3, <3>4, <3>6, <5>1
      <4> QED BY <4>1, <4>2
    <3>8. h = [n \in 0..m |-> h[n]]
      BY DEF h
    <3>9. UpTo(h, m)
      <4> HIDE DEF Then
      <4> QED BY <3>7, <3>8
    <3> QED BY <2>3, <3>9
  <2> QED BY <2>4, <2>5
<1> DEFINE up == CHOOSE g : UpTo(g, L)
<1>3. UpTo(up, L)
  <2>1. \E g : UpTo(g, L)
    <3> HIDE DEF UpTo
    <3> QED BY <1>2
  <2> HIDE DEF UpTo
  <2> QED BY <2>1
<1>4. SumOf(f) = up[L]
  BY DEF SumOf
<1> HIDE DEF up
<1>5. \A n \in 0..L : up[n] = Then(up, n)
  BY <1>3
<1>6. up[0] = 0 /\ \A n \in 1..L : up[n] = up[n - 1] + f[n]
  BY <1>5
<1> QED BY <1>4, <1>6 DEF Adds

\* A sum is no more than one of no smaller numbers, and nothing adds up to nothing.
LEMMA SumsCompare ==
    ASSUME NEW L \in Nat, NEW f, NEW g, Len(f) = L, Len(g) = L,
           \A k \in 1..L : f[k] \in Nat /\ g[k] \in Nat /\ f[k] <= g[k]
    PROVE  /\ SumOf(f) \in Nat /\ SumOf(g) \in Nat
           /\ SumOf(f) <= SumOf(g)
           /\ (\A k \in 1..L : g[k] = 0) => SumOf(g) = 0
           /\ L = 1 => SumOf(f) = f[1]
<1>1. PICK p : SumOf(f) = p[L] /\ Adds(p, f, L)
  BY SumIsDefined
<1>2. PICK q : SumOf(g) = q[L] /\ Adds(q, g, L)
  BY SumIsDefined
<1> DEFINE Fine(n) == /\ p[n] \in Nat /\ q[n] \in Nat /\ p[n] <= q[n]
                      /\ (\A k \in 1..L : g[k] = 0) => q[n] = 0
           Bad == {n \in 0..L : ~Fine(n)}
<1>3. Bad = {}
  <2>1. SUFFICES ASSUME Bad # {} PROVE FALSE
    OBVIOUS
  <2>2. PICK m \in Bad : \A k \in Bad : m <= k
    <3>1. Bad \subseteq Nat
      OBVIOUS
    <3> HIDE DEF Bad
    <3> QED BY <2>1, <3>1, Least
  <2>3. m \in 0..L /\ ~Fine(m)
    OBVIOUS
  <2>4. m # 0
    BY <1>1, <1>2, <2>3 DEF Adds
  <2>5. m \in 1..L /\ m - 1 \in 0..L
    BY <2>3, <2>4
  <2>6. Fine(m - 1)
    <3>1. ~(m <= m - 1)
      BY <2>5
    <3>2. m - 1 \notin Bad
      <4> HIDE DEF Bad
      <4> QED BY <2>2, <3>1
    <3> HIDE DEF Fine
    <3> QED BY <2>5, <3>2
  <2>7. p[m] = p[m - 1] + f[m] /\ q[m] = q[m - 1] + g[m]
    BY <1>1, <1>2, <2>5 DEF Adds
  <2>8. f[m] \in Nat /\ g[m] \in Nat /\ f[m] <= g[m]
    BY <2>5
  <2>9. (\A k \in 1..L : g[k] = 0) => g[m] = 0
    BY <2>5
  <2>10. p[m] \in Nat /\ q[m] \in Nat /\ p[m] <= q[m]
    <3>1. \A a, b, c, d \in Nat : a <= b /\ c <= d => a + c <= b + d
      OBVIOUS
    <3> HIDE DEF Bad
    <3> QED BY <2>6, <2>7, <2>8, <3>1, SMTT(30)
  <2>11. (\A k \in 1..L : g[k] = 0) => q[m] = 0
    <3> HIDE DEF Bad
    <3> QED BY <2>6, <2>7, <2>9
  <2> QED BY <2>3, <2>10, <2>11
<1>4. Fine(L)
  <2> HIDE DEF Fine
  <2> QED BY <1>3
<1>5. L = 1 => p[L] = f[1]
  <2>1. SUFFICES ASSUME L = 1 PROVE p[1] = f[1]
    OBVIOUS
  <2>2. p[1] = p[1 - 1] + f[1]
    BY <1>1, <2>1 DEF Adds
  <2>3. f[1] \in Nat
    BY <2>1
  <2> QED BY <1>1, <2>2, <2>3 DEF Adds
<1> HIDE DEF Bad
<1> QED BY <1>1, <1>2, <1>4, <1>5

\* One more number is added to the sum.
OneMore(g, f, M, L) ==
    /\ L \in Nat /\ M = L + 1 /\ Len(f) = L /\ Len(g) = M
    /\ \A k \in 1..L : f[k] \in Nat /\ g[k] = f[k]
    /\ g[M] \in Nat

LEMMA SumGrows ==
    ASSUME NEW f, NEW g, NEW L, NEW M, OneMore(g, f, M, L)
    PROVE  SumOf(g) = SumOf(f) + g[M]
<1>0. /\ L \in Nat /\ M \in Nat /\ M = L + 1 /\ Len(f) = L /\ Len(g) = M
      /\ \A k \in 1..L : f[k] \in Nat /\ g[k] = f[k]
      /\ g[M] \in Nat
  BY DEF OneMore
<1>1. PICK p : SumOf(f) = p[L] /\ Adds(p, f, L)
  <2>1. L \in Nat /\ Len(f) = L /\ \A k \in 1..L : f[k] \in Nat
    BY <1>0
  <2> QED BY <2>1, SumIsDefined
<1>2. PICK q : SumOf(g) = q[M] /\ Adds(q, g, M)
  <2>1. \A k \in 1..M : g[k] \in Nat
    BY <1>0
  <2>2. M \in Nat /\ Len(g) = M
    BY <1>0
  <2> QED BY <2>1, <2>2, SumIsDefined
<1> DEFINE Bad == {n \in 0..L : p[n] # q[n]}
<1>3. Bad = {}
  <2>1. SUFFICES ASSUME Bad # {} PROVE FALSE
    OBVIOUS
  <2>2. PICK m \in Bad : \A k \in Bad : m <= k
    <3>1. Bad \subseteq Nat
      BY <1>0
    <3> HIDE DEF Bad
    <3> QED BY <2>1, <3>1, Least
  <2>3. m \in 0..L /\ p[m] # q[m]
    OBVIOUS
  <2>4. m # 0
    BY <1>0, <1>1, <1>2, <2>3 DEF Adds
  <2>5. m \in 1..L /\ m \in 1..M /\ m - 1 \in 0..L
    BY <1>0, <2>3, <2>4
  <2>6. p[m - 1] = q[m - 1]
    <3>1. ~(m <= m - 1)
      BY <2>5
    <3>2. m - 1 \notin Bad
      <4> HIDE DEF Bad
      <4> QED BY <2>2, <3>1
    <3> QED BY <2>5, <3>2
  <2>7. p[m] = p[m - 1] + f[m] /\ q[m] = q[m - 1] + g[m] /\ g[m] = f[m]
    BY <1>0, <1>1, <1>2, <2>5 DEF Adds
  <2> QED BY <2>3, <2>6, <2>7
<1>4. p[L] = q[L]
  BY <1>0, <1>3
<1>5. q[M] = q[M - 1] + g[M]
  BY <1>0, <1>2 DEF Adds
<1> QED BY <1>0, <1>1, <1>2, <1>4, <1>5

---------------------------------------------------------------------------
(* Slo.                                                                    *)

Smp     == {s \in [age : Nat, total : Nat, bad : Nat, joined : BOOLEAN] : s.bad <= s.total}
Sources == {"prometheus", "file", "other file", "none"}

\* The windows that are above their threshold for an objective.
Burns(o) == SLI!ComputeMultiWindow(o, SLI!SamplesFor(analyzed))

\* What the report says is of the samples there are, which are never more bad than all.
SloInv ==
    /\ input \in Seq(Smp)
    /\ \/ analyzed \in {"", "failed"}
       \/ /\ analyzed \in Sources
          /\ promoted = UNION {SLI!burnRatesToFindings(o, Burns(o)) : o \in Objectives}
          /\ reply = {[objective |-> o, tier |-> SLI!WorstTier(Burns(o))] : o \in Objectives}

LEMMA SloStarts == SLI!Init => SloInv
BY EmptySeq DEF SLI!Init, SloInv

LEMMA SloKeeps ==
    ASSUME SLI!SloAssumption, SloInv, [SLI!Next]_(SLI!vars)
    PROVE  SloInv'
<1>1. CASE UNCHANGED SLI!vars
  <2>1. input' = input /\ analyzed' = analyzed /\ promoted' = promoted /\ reply' = reply
    BY <1>1 DEF SLI!vars
  <2>2. \A o : Burns(o)' = Burns(o)
    BY <2>1 DEF Burns, SLI!SamplesFor, SLI!fetchSamplesFromProm, SLI!loadSamples
  <2> QED BY <2>1, <2>2 DEF SloInv
<1>2. CASE SLI!Measure
  <2>1. PICK s \in Samples, h \in IF input = <<>> THEN {0} ELSE Spacings :
            input' = Append([k \in DOMAIN input |-> [input[k] EXCEPT !.age = @ + h]],
                            [age |-> 0, total |-> s.total, bad |-> s.bad,
                             joined |-> s.joined])
    BY <1>2 DEF SLI!Measure
  <2> DEFINE older == [k \in DOMAIN input |-> [input[k] EXCEPT !.age = @ + h]]
  <2>2. h \in Nat /\ input \in Seq(Smp)
    <3> HIDE DEF older
    <3>1. Spacings \subseteq Nat /\ input \in Seq(Smp)
      BY DEF SLI!SloAssumption, SloInv
    <3>2. h = 0 \/ h \in Spacings
      OBVIOUS
    <3> QED BY <3>1, <3>2
  <2>3. older \in Seq(Smp)
    <3>1. DOMAIN input = 1..Len(input) /\ Len(input) \in Nat
      BY <2>2, LenProperties
    <3>2. ASSUME NEW k \in 1..Len(input)
          PROVE  [input[k] EXCEPT !.age = @ + h] \in Smp
      <4> DEFINE x == input[k]
      <4>1. x \in Smp
        BY <2>2, ElementOfSeq
      <4>2. x \in [age : Nat, total : Nat, bad : Nat, joined : BOOLEAN] /\ x.bad <= x.total
        BY <4>1 DEF Smp
      <4> HIDE DEF x, older
      <4>3. [x EXCEPT !.age = @ + h] \in [age : Nat, total : Nat, bad : Nat, joined : BOOLEAN]
        BY <2>2, <4>2
      <4>4. [x EXCEPT !.age = @ + h].bad <= [x EXCEPT !.age = @ + h].total
        BY <4>2
      <4>5. [x EXCEPT !.age = @ + h] \in Smp
        BY <4>3, <4>4 DEF Smp
      <4> QED BY <4>5 DEF x
    <3> QED BY <3>1, <3>2, IsASeq
  <2>4. [age |-> 0, total |-> s.total, bad |-> s.bad, joined |-> s.joined] \in Smp
    BY DEF SLI!SloAssumption, Smp
  <2>5. input' \in Seq(Smp)
    <3> HIDE DEF older
    <3> QED BY <2>1, <2>3, <2>4, AppendProperties DEF older
  <2>6. analyzed' = ""
    BY <1>2 DEF SLI!Measure
  <2> QED BY <2>5, <2>6 DEF SloInv
<1>3. CASE SLI!Check
  <2>1. input' = input
    BY <1>3 DEF SLI!Check
  <2>2. input' \in Seq(Smp)
    BY <2>1 DEF SloInv
  <2>3. CASE SLI!Fail
    BY <2>2, <2>3 DEF SLI!Fail, SloInv
  <2>4. CASE \E source \in Sources : SLI!check(source)
    <3>1. PICK source \in Sources : SLI!check(source)
      BY <2>4
    <3>2. analyzed' = source
      BY <3>1 DEF SLI!check
    <3>3. SLI!SamplesFor(analyzed)' = SLI!SamplesFor(source)
      BY <2>1, <3>2 DEF SLI!SamplesFor, SLI!fetchSamplesFromProm, SLI!loadSamples
    <3>4. \A o : Burns(o)' = SLI!ComputeMultiWindow(o, SLI!SamplesFor(source))
      BY <3>3 DEF Burns
    <3>5. promoted' = UNION {SLI!burnRatesToFindings(o, Burns(o)') : o \in Objectives}
      BY <3>1, <3>4 DEF SLI!check
    <3>6. reply' = {[objective |-> o, tier |-> SLI!WorstTier(Burns(o)')] : o \in Objectives}
      BY <3>1, <3>4 DEF SLI!check
    <3> QED BY <2>2, <3>2, <3>5, <3>6 DEF SloInv
  <2> QED BY <1>3, <2>3, <2>4 DEF SLI!Check, Sources
<1> QED BY <1>1, <1>2, <1>3 DEF SLI!Next

\* What a source knows within some hours adds up to what errorRateOver makes of it; a
\* source that knows nothing counts as one without a failure.
Within(h) == {k \in DOMAIN input :
                 /\ input[k].age <= h
                 /\ analyzed = "file" \/ (analyzed = "prometheus" /\ input[k].joined)}
BadIn(h)  == SumOf([k \in DOMAIN input |-> IF k \in Within(h) THEN input[k].bad ELSE 0])
AllIn(h)  == SumOf([k \in DOMAIN input |-> IF k \in Within(h) THEN input[k].total ELSE 0])

LEMMA SloSum == \A f : SLI!SumOf(f) = SumOf(f)
BY DEF SLI!SumOf, SumOf

LEMMA RateIsKnown ==
    ASSUME input \in Seq(Smp), analyzed \in Sources, NEW h \in 0..72
    PROVE  LET rate == SLI!errorRateOver(SLI!SamplesFor(analyzed), h)
           IN  /\ BadIn(h) \in 0..AllIn(h) /\ AllIn(h) \in Nat
               /\ rate.bad = BadIn(h) /\ rate.total \in Nat
               /\ rate.total = AllIn(h) \/ (rate.bad = 0 /\ rate.total > 0)
<1> DEFINE L == Len(input)
           b == [k \in DOMAIN input |-> IF k \in Within(h) THEN input[k].bad ELSE 0]
           t == [k \in DOMAIN input |-> IF k \in Within(h) THEN input[k].total ELSE 0]
           samples == SLI!SamplesFor(analyzed)
           sb == [k \in DOMAIN samples |-> IF samples[k].age <= h THEN samples[k].bad ELSE 0]
           st == [k \in DOMAIN samples |-> IF samples[k].age <= h THEN samples[k].total ELSE 0]
           rate == SLI!errorRateOver(samples, h)
<1>1. L \in Nat /\ DOMAIN input = 1..L /\ \A k \in 1..L : input[k] \in Smp
  BY LenProperties, ElementOfSeq
<1>2. Len(b) = L /\ Len(t) = L
  <2>1. b \in Seq(Nat) /\ t \in Seq(Nat)
    BY <1>1, IsASeq DEF Smp
  <2> QED BY <1>1, <2>1, LenProperties
<1>3. \A k \in 1..L : b[k] \in Nat /\ t[k] \in Nat /\ b[k] <= t[k]
  BY <1>1 DEF Smp
<1>4. SumOf(b) \in Nat /\ SumOf(t) \in Nat /\ SumOf(b) <= SumOf(t)
  <2> HIDE DEF b, t, L
  <2> QED BY <1>1, <1>2, <1>3, SumsCompare
<1>5. BadIn(h) = SumOf(b) /\ AllIn(h) = SumOf(t)
  BY DEF BadIn, AllIn
<1>6. rate.bad = SumOf(sb) /\ rate.total = SumOf(st)
  BY SloSum DEF SLI!errorRateOver
<1>7. CASE analyzed \in {"prometheus", "file"}
  <2>1. DOMAIN samples = DOMAIN input
    BY <1>7 DEF SLI!SamplesFor, SLI!fetchSamplesFromProm, SLI!loadSamples
  <2>2. ASSUME NEW k \in 1..L PROVE sb[k] = b[k] /\ st[k] = t[k]
    <3>1. input[k] \in Smp
      BY <1>1
    <3>2. CASE analyzed = "file"
      BY <1>1, <3>2 DEF SLI!SamplesFor, SLI!loadSamples, Within
    <3>3. CASE analyzed = "prometheus"
      <4>1. samples[k] = IF input[k].age <= 72 /\ input[k].joined THEN input[k]
                         ELSE SLI!Unread
        BY <1>1, <3>3 DEF SLI!SamplesFor, SLI!fetchSamplesFromProm
      <4>2. k \in Within(h) <=> input[k].age <= h /\ input[k].joined
        BY <1>1, <3>3 DEF Within
      <4>3. input[k].age <= h => input[k].age <= 72
        <5> DEFINE a == input[k].age
        <5>1. a \in Nat
          BY <3>1 DEF Smp
        <5>2. h \in Nat /\ h <= 72
          OBVIOUS
        <5> HIDE DEF a
        <5>3. a <= h => a <= 72
          BY ONLY <5>1, <5>2
        <5> QED BY ONLY <5>3 DEF a
      <4>4. SLI!Unread.bad = 0 /\ SLI!Unread.total = 0
        BY DEF SLI!Unread
      <4>5. k \in DOMAIN samples /\ k \in DOMAIN input
        BY <1>1, <2>1
      <4> HIDE DEF samples
      <4> QED BY <4>1, <4>2, <4>3, <4>4, <4>5
    <3> QED BY <1>7, <3>2, <3>3
  <2>3. sb = b /\ st = t
    <3> HIDE DEF samples
    <3> QED BY <1>1, <2>1, <2>2
  <2> HIDE DEF sb, st, b, t, samples, rate
  <2>4. rate.bad = BadIn(h) /\ rate.total = AllIn(h)
    BY <1>5, <1>6, <2>3
  <2>5. BadIn(h) \in 0..AllIn(h) /\ AllIn(h) \in Nat
    BY <1>4, <1>5
  <2> QED BY <2>4, <2>5 DEF rate, samples
<1>8. CASE analyzed \in {"other file", "none"}
  <2>1. samples = SLI!synthesizeHealthy
    BY <1>8 DEF SLI!SamplesFor
  <2>2. DOMAIN samples = 1..1 /\ samples[1].age = 0 /\ samples[1].bad = 0
        /\ samples[1].total = 1000
    BY <2>1 DEF SLI!synthesizeHealthy
  <2>3. DOMAIN sb = 1..1 /\ DOMAIN st = 1..1 /\ sb[1] = 0 /\ st[1] = 1000
    <3> HIDE DEF samples, b, t, L, rate
    <3>1. DOMAIN sb = 1..1 /\ DOMAIN st = 1..1
      BY <2>2
    <3>2. 1 \in DOMAIN samples
      BY <2>2
    <3>3. \A z \in 0..72 : 0 <= z
      OBVIOUS
    <3>4. 0 <= h
      BY ONLY <3>3
    <3>5. samples[1].age <= h
      BY ONLY <2>2, <3>4
    <3>6. sb[1] = samples[1].bad /\ st[1] = samples[1].total
      BY ONLY <3>2, <3>5 DEF sb, st
    <3> QED BY ONLY <2>2, <3>1, <3>6
  <2>4. sb \in [1..1 -> Nat] /\ st \in [1..1 -> Nat]
    <3>1. sb = [k \in DOMAIN sb |-> sb[k]] /\ st = [k \in DOMAIN st |-> st[k]]
      BY ONLY TRUE DEF sb, st
    <3>2. \A k \in 1..1 : k = 1
      OBVIOUS
    <3> HIDE DEF sb, st, b, t, samples, rate, L
    <3> QED BY ONLY <2>3, <3>1, <3>2
  <2> HIDE DEF sb, st, b, t, samples, rate
  <2>5. Len(sb) = 1 /\ Len(st) = 1
    BY <2>4, IsASeq, LenProperties
  <2>6. SumOf(sb) = 0 /\ SumOf(st) = 1000
    <3>1. PICK one : one = 1
      OBVIOUS
    <3>2. one \in Nat /\ Len(sb) = one /\ Len(st) = one
      BY <2>5, <3>1
    <3>3. \A k \in 1..one : sb[k] = 0 /\ st[k] = 1000
      BY <2>3, <3>1
    <3>4. \A k \in 1..one : sb[k] \in Nat /\ st[k] \in Nat /\ sb[k] <= st[k]
      BY <3>3
    <3>5. \A k \in 1..one : st[k] \in Nat /\ st[k] <= st[k]
      BY <3>3
    <3>6. one = 1 => SumOf(sb) = sb[1]
      BY ONLY <3>2, <3>4, SumsCompare
    <3>7. one = 1 => SumOf(st) = st[1]
      BY ONLY <3>2, <3>5, SumsCompare
    <3> QED BY <2>3, <3>1, <3>6, <3>7
  <2>7. \A k \in 1..L : t[k] = 0
    BY <1>1, <1>8 DEF Within, t
  <2>8. SumOf(t) = 0
    <3> HIDE DEF b, t, L
    <3> QED BY <1>1, <1>2, <1>3, <2>7, SumsCompare
  <2>9. BadIn(h) = 0 /\ AllIn(h) = 0
    BY <1>4, <1>5, <2>8
  <2>10. rate.bad = 0 /\ rate.total = 1000
    BY <1>6, <2>6
  <2> QED BY <2>9, <2>10 DEF rate, samples
<1> QED BY <1>7, <1>8 DEF Sources

\* The two sides of the comparison below, in one unit each.
Above(threshold, o, b, t)       == b * 1000 * 10 > threshold * t * o
Burnt(hours, percent, o, b, t)  == b * 1000 * hours * 10 > percent * 72 * t * o

\* The thresholds are what the shares of the budget make of the windows.
LEMMA ThresholdsAreShares ==
    ASSUME NEW o \in Nat, NEW b \in Nat, NEW t \in Nat
    PROVE  /\ Above(144, o, b, t) <=> Burnt(1, 2, o, b, t)
           /\ Above(60, o, b, t) <=> Burnt(6, 5, o, b, t)
           /\ Above(10, o, b, t) <=> Burnt(72, 10, o, b, t)
<1>1. PICK x \in Nat : x = t * o
  OBVIOUS
<1>2. 144 * t * o = 144 * x /\ 60 * t * o = 60 * x /\ 10 * t * o = 10 * x
      /\ 2 * 72 * t * o = 144 * x /\ 5 * 72 * t * o = 360 * x /\ 10 * 72 * t * o = 720 * x
  BY <1>1
<1> QED BY <1>2 DEF Above, Burnt

LEMMA NothingIsAbove ==
    ASSUME NEW n \in Nat, NEW o \in Nat, NEW b \in Nat, NEW t \in Nat
    PROVE  /\ b = 0 => ~Above(n, o, b, t)
           /\ o = 0 => (Above(n, o, b, t) <=> b > 0)
<1>1. PICK x \in Nat : x = n * t * o
  OBVIOUS
<1>2. o = 0 => x = 0
  BY <1>1
<1>3. Above(n, o, b, t) <=> b * 10000 > x
  BY <1>1 DEF Above
<1> QED BY <1>2, <1>3

LEMMA BurntIsKnown ==
    ASSUME NEW share, NEW o
    PROVE  SLI!BurntMoreThan(share, o, analyzed) <=>
               Burnt(share.hours, share.percent, o, BadIn(share.hours), AllIn(share.hours))
<1> DEFINE within == {k \in DOMAIN input :
                         /\ input[k].age <= share.hours
                         /\ analyzed = "file" \/ (analyzed = "prometheus" /\ input[k].joined)}
<1>1. within = Within(share.hours)
  BY DEF Within
<1>2. SLI!BurntMoreThan(share, o, analyzed) <=>
          Burnt(share.hours, share.percent, o,
                SumOf([k \in DOMAIN input |-> IF k \in within THEN input[k].bad ELSE 0]),
                SumOf([k \in DOMAIN input |-> IF k \in within THEN input[k].total ELSE 0]))
  BY SloSum DEF SLI!BurntMoreThan, Burnt
<1> HIDE DEF within
<1> QED BY <1>1, <1>2 DEF BadIn, AllIn

\* A window is above its threshold exactly if its share of the budget is burnt.
LEMMA WindowIsItsShare ==
    ASSUME input \in Seq(Smp), analyzed \in Sources, NEW o \in Nat, NEW w, NEW share,
           share.hours = w.hours, w.hours \in 0..72, w.threshold \in Nat,
           \A b, t \in Nat : Above(w.threshold, o, b, t) <=>
                                 Burnt(share.hours, share.percent, o, b, t)
    PROVE  SLI!Triggered(w, o, SLI!SamplesFor(analyzed)) <=>
               SLI!BurntMoreThan(share, o, analyzed)
<1> DEFINE rate == SLI!errorRateOver(SLI!SamplesFor(analyzed), w.hours)
           b == BadIn(w.hours)
           t == AllIn(w.hours)
<1>1. /\ b \in 0..t /\ t \in Nat /\ rate.bad = b /\ rate.total \in Nat
      /\ rate.total = t \/ (rate.bad = 0 /\ rate.total > 0)
  BY RateIsKnown
<1>2. SLI!Triggered(w, o, SLI!SamplesFor(analyzed)) <=>
          rate.total > 0 /\ IF o = 0 THEN rate.bad > 0
                            ELSE Above(w.threshold, o, rate.bad, rate.total)
  BY DEF SLI!Triggered, Above
<1>3. b \in Nat /\ b <= t
  BY <1>1
<1>4. SLI!BurntMoreThan(share, o, analyzed) <=> Above(w.threshold, o, b, t)
  BY <1>1, <1>3, BurntIsKnown
<1> HIDE DEF rate, b, t
<1>5. \A y \in Nat : ~Above(w.threshold, o, 0, y)
  BY NothingIsAbove
<1>6. o = 0 => (Above(w.threshold, o, b, t) <=> b > 0)
  BY <1>1, <1>3, NothingIsAbove
<1>7. CASE b = 0
  <2>1. rate.bad = 0 /\ ~Above(w.threshold, o, b, t)
        /\ ~Above(w.threshold, o, rate.bad, rate.total)
    BY <1>1, <1>5, <1>7
  <2> QED BY <1>2, <1>4, <2>1
<1>8. CASE b # 0
  <2>1. rate.total = t /\ t > 0 /\ b > 0 /\ rate.bad = b
    BY <1>1, <1>3, <1>8
  <2> QED BY <1>2, <1>4, <1>6, <2>1
<1> QED BY <1>7, <1>8

Tiers(o)  == {w.tier : w \in Burns(o)}
Alerts(o) == {share.tier : share \in {h \in SLI!Shares : SLI!BurntMoreThan(h, o, analyzed)}}

\* The windows that are above their threshold are those whose share is burnt.
LEMMA TiersAreAlerts ==
    ASSUME input \in Seq(Smp), analyzed \in Sources, NEW o \in Nat
    PROVE  Tiers(o) = Alerts(o) /\ Tiers(o) \subseteq {"page", "ticket", "warn"}
<1> DEFINE samples == SLI!SamplesFor(analyzed)
           w1  == [hours |-> 1, threshold |-> 144, tier |-> "page"]
           w6  == [hours |-> 6, threshold |-> 60, tier |-> "ticket"]
           w72 == [hours |-> 72, threshold |-> 10, tier |-> "warn"]
           s1  == [tier |-> "page", hours |-> 1, percent |-> 2]
           s6  == [tier |-> "ticket", hours |-> 6, percent |-> 5]
           s72 == [tier |-> "warn", hours |-> 72, percent |-> 10]
<1>1. Burns(o) = {w \in {w1, w6, w72} : SLI!Triggered(w, o, samples)}
  <2>1. SLI!ToSet(SLI!DefaultMultiWindowConfig) = {w1, w6, w72}
    BY DEF SLI!ToSet, SLI!DefaultMultiWindowConfig
  <2> HIDE DEF w1, w6, w72
  <2> QED BY <2>1 DEF Burns, SLI!ComputeMultiWindow
<1>2. SLI!Shares = {s1, s6, s72}
  BY DEF SLI!Shares
<1>3. /\ w1.hours = 1 /\ w1.threshold = 144 /\ w1.tier = "page"
      /\ w6.hours = 6 /\ w6.threshold = 60 /\ w6.tier = "ticket"
      /\ w72.hours = 72 /\ w72.threshold = 10 /\ w72.tier = "warn"
  OBVIOUS
<1>4. /\ s1.hours = 1 /\ s1.percent = 2 /\ s1.tier = "page"
      /\ s6.hours = 6 /\ s6.percent = 5 /\ s6.tier = "ticket"
      /\ s72.hours = 72 /\ s72.percent = 10 /\ s72.tier = "warn"
  OBVIOUS
<1> HIDE DEF w1, w6, w72, s1, s6, s72
<1>5. SLI!Triggered(w1, o, samples) <=> SLI!BurntMoreThan(s1, o, analyzed)
  <2>1. \A b, t \in Nat : Above(w1.threshold, o, b, t) <=>
                              Burnt(s1.hours, s1.percent, o, b, t)
    BY <1>3, <1>4, ThresholdsAreShares
  <2>2. s1.hours = w1.hours /\ w1.hours \in 0..72 /\ w1.threshold \in Nat
    BY <1>3, <1>4
  <2> QED BY <2>1, <2>2, WindowIsItsShare
<1>6. SLI!Triggered(w6, o, samples) <=> SLI!BurntMoreThan(s6, o, analyzed)
  <2>1. \A b, t \in Nat : Above(w6.threshold, o, b, t) <=>
                              Burnt(s6.hours, s6.percent, o, b, t)
    BY <1>3, <1>4, ThresholdsAreShares
  <2>2. s6.hours = w6.hours /\ w6.hours \in 0..72 /\ w6.threshold \in Nat
    BY <1>3, <1>4
  <2> QED BY <2>1, <2>2, WindowIsItsShare
<1>7. SLI!Triggered(w72, o, samples) <=> SLI!BurntMoreThan(s72, o, analyzed)
  <2>1. \A b, t \in Nat : Above(w72.threshold, o, b, t) <=>
                              Burnt(s72.hours, s72.percent, o, b, t)
    BY <1>3, <1>4, ThresholdsAreShares
  <2>2. s72.hours = w72.hours /\ w72.hours \in 0..72 /\ w72.threshold \in Nat
    BY <1>3, <1>4
  <2> QED BY <2>1, <2>2, WindowIsItsShare
<1> HIDE DEF samples
<1>8. ASSUME NEW x
      PROVE  x \in Tiers(o) <=>
                 \/ x = "page" /\ SLI!Triggered(w1, o, samples)
                 \/ x = "ticket" /\ SLI!Triggered(w6, o, samples)
                 \/ x = "warn" /\ SLI!Triggered(w72, o, samples)
  BY <1>1, <1>3 DEF Tiers
<1>9. ASSUME NEW x
      PROVE  x \in Alerts(o) <=>
                 \/ x = "page" /\ SLI!BurntMoreThan(s1, o, analyzed)
                 \/ x = "ticket" /\ SLI!BurntMoreThan(s6, o, analyzed)
                 \/ x = "warn" /\ SLI!BurntMoreThan(s72, o, analyzed)
  BY <1>2, <1>4 DEF Alerts
<1> QED BY <1>5, <1>6, <1>7, <1>8, <1>9

LEMMA SloAlerts ==
    ASSUME SLI!SloAssumption, SloInv
    PROVE  SLI!AlertIsItsShareOfBudget
<1>1. SUFFICES ASSUME analyzed \notin {"", "failed"}, NEW o \in Objectives
               PROVE  /\ {f.tier : f \in {g \in promoted : g.objective = o}} = Alerts(o)
                      /\ \A t \in reply :
                             t.objective = o =>
                                 /\ t.tier = "green" <=> Alerts(o) = {}
                                 /\ t.tier = "page" <=> "page" \in Alerts(o)
                                 /\ t.tier = "warn" <=> Alerts(o) = {"warn"}
  BY DEF SLI!AlertIsItsShareOfBudget, Alerts
<1>2. /\ input \in Seq(Smp) /\ analyzed \in Sources
      /\ promoted = UNION {SLI!burnRatesToFindings(p, Burns(p)) : p \in Objectives}
      /\ reply = {[objective |-> p, tier |-> SLI!WorstTier(Burns(p))] : p \in Objectives}
  BY <1>1 DEF SloInv
<1>3. o \in Nat
  BY DEF SLI!SloAssumption
<1>4. Tiers(o) = Alerts(o) /\ Tiers(o) \subseteq {"page", "ticket", "warn"}
  BY <1>2, <1>3, TiersAreAlerts
<1>5. {f.tier : f \in {g \in promoted : g.objective = o}} = Tiers(o)
  <2>1. ASSUME NEW p \in Objectives, NEW f \in SLI!burnRatesToFindings(p, Burns(p))
        PROVE  f.objective = p /\ f.tier \in Tiers(p)
    BY <2>1 DEF SLI!burnRatesToFindings, Tiers
  <2>2. ASSUME NEW x \in Tiers(o)
        PROVE  \E f \in SLI!burnRatesToFindings(o, Burns(o)) : f.objective = o /\ f.tier = x
    <3>1. PICK w \in Burns(o) : x = w.tier
      BY <2>2 DEF Tiers
    <3> DEFINE f == [objective |-> o, tier |-> w.tier,
                     severity |-> CASE w.tier = "page"   -> "critical"
                                    [] w.tier = "ticket" -> "high"
                                    [] w.tier = "warn"   -> "medium"]
    <3>2. f \in SLI!burnRatesToFindings(o, Burns(o))
      BY DEF SLI!burnRatesToFindings
    <3>3. f.objective = o /\ f.tier = x
      BY <3>1
    <3> QED BY <3>2, <3>3
  <2> QED BY <1>2, <2>1, <2>2
<1>6. ASSUME NEW t \in reply, t.objective = o
      PROVE  t.tier = SLI!WorstTier(Burns(o))
  BY <1>2, <1>6
<1>7. /\ SLI!WorstTier(Burns(o)) = "green" <=> Alerts(o) = {}
      /\ SLI!WorstTier(Burns(o)) = "page" <=> "page" \in Alerts(o)
      /\ SLI!WorstTier(Burns(o)) = "warn" <=> Alerts(o) = {"warn"}
  <2> DEFINE worst == SLI!WorstTier(Burns(o))
  <2>1. worst = IF "page" \in Tiers(o) THEN "page"
                ELSE IF "ticket" \in Tiers(o) THEN "ticket"
                ELSE IF "warn" \in Tiers(o) THEN "warn" ELSE "green"
    BY DEF SLI!WorstTier, Tiers
  <2> HIDE DEF worst
  <2>2. worst = "page" <=> "page" \in Tiers(o)
    BY <2>1
  <2>3. worst = "green" <=> \A x \in {"page", "ticket", "warn"} : x \notin Tiers(o)
    BY <2>1
  <2>4. worst = "warn" <=> "warn" \in Tiers(o) /\ "page" \notin Tiers(o)
                                                /\ "ticket" \notin Tiers(o)
    BY <2>1
  <2>5. worst = "green" <=> Tiers(o) = {}
    BY <1>4, <2>3
  <2>6. worst = "warn" <=> Tiers(o) = {"warn"}
    BY <1>4, <2>4
  <2> QED BY <1>4, <2>2, <2>5, <2>6 DEF worst
<1> QED BY <1>4, <1>5, <1>6, <1>7

---------------------------------------------------------------------------
(* Dora: the bands are made of a few counts of the window, each of which  *)
(* bad news moves one way at most.                                         *)

\* The same of what is counted of the records of a sequence.
Tally(e, S) == SumOf([k \in DOMAIN S |-> e[S[k]]])

LEMMA AppendAdds ==
    ASSUME NEW T, NEW e \in [T -> Nat], NEW S \in Seq(T), NEW r \in T
    PROVE  /\ Tally(e, S) \in Nat
           /\ Tally(e, Append(S, r)) = Tally(e, S) + e[r]
<1> DEFINE A == Append(S, r)
           f == [k \in DOMAIN S |-> e[S[k]]]
           g == [k \in DOMAIN A |-> e[A[k]]]
           L == Len(S)
           M == L + 1
<1>1. L \in Nat /\ DOMAIN S = 1..L /\ \A k \in 1..L : S[k] \in T
  BY LenProperties, ElementOfSeq
<1>2. A \in Seq(T) /\ Len(A) = M /\ DOMAIN A = 1..M /\ A[M] = r /\ \A k \in 1..L : A[k] = S[k]
  BY <1>1, AppendProperties, LenProperties
<1> HIDE DEF A
<1>3. f \in Seq(Nat) /\ Len(f) = L
  <2> HIDE DEF L
  <2> QED BY <1>1, IsASeq, LenProperties
<1>4. g \in Seq(Nat) /\ Len(g) = M
  <2>1. \A k \in 1..M : e[A[k]] \in Nat
    BY <1>2, ElementOfSeq
  <2>2. M \in Nat
    BY <1>1
  <2> HIDE DEF M
  <2> QED BY <1>2, <2>1, <2>2, IsASeq, LenProperties
<1>5. (\A k \in 1..L : f[k] \in Nat /\ g[k] = f[k]) /\ g[M] = e[r] /\ g[M] \in Nat
  BY <1>1, <1>2
<1>6. SumOf(f) \in Nat
  <2>1. \A k \in 1..L : f[k] <= f[k]
    BY <1>5
  <2> HIDE DEF f, g, L
  <2> QED BY <1>1, <1>3, <1>5, <2>1, SumsCompare
<1>7. SumOf(g) = SumOf(f) + g[M]
  <2>1. L \in Nat /\ M \in Nat /\ M = L + 1
    BY <1>1
  <2>2. Len(f) = L /\ Len(g) = M
    BY <1>3, <1>4
  <2> HIDE DEF f, g, L, M
  <2>3. OneMore(g, f, M, L)
    BY <1>5, <2>1, <2>2 DEF OneMore
  <2> QED BY <2>3, SumGrows
<1> QED BY <1>5, <1>6, <1>7 DEF Tally, A

Deps == [at : Nat, success : BOOLEAN, lead : Nat \cup {-1}, times : Nat]
Incs == [at : Nat, severity : {"low", "high"}, outage : Nat \cup {-1}, times : Nat]

DoraInv == now \in Nat /\ lines \in Seq(Deps) /\ stored \in Seq(Incs)

LEMMA DoraStarts == DOR!Init => DoraInv
BY EmptySeq DEF DOR!Init, DoraInv

LEMMA DoraKeeps ==
    ASSUME DOR!DoraAssumption, DoraInv, [DOR!Next]_(DOR!vars)
    PROVE  DoraInv'
<1>1. CASE DOR!Tick
  BY <1>1 DEF DOR!Tick, DoraInv
<1>2. CASE DOR!LogDeploy
  <2>1. PICK n \in Batches, success \in BOOLEAN, lead \in LeadTimes \cup {DOR!NoCommit} :
            lines' = Append(lines, [at |-> now, success |-> success, lead |-> lead,
                                    times |-> n])
    BY <1>2 DEF DOR!LogDeploy
  <2>2. [at |-> now, success |-> success, lead |-> lead, times |-> n] \in Deps
    BY DEF DOR!DoraAssumption, DOR!NoCommit, DoraInv, Deps
  <2>3. lines' \in Seq(Deps)
    BY <2>1, <2>2, AppendProperties DEF DoraInv
  <2> QED BY <1>2, <2>3 DEF DOR!LogDeploy, DoraInv
<1>3. CASE DOR!OpenIncident
  <2>1. PICK severity \in {"low", "high"} :
            stored' = Append(stored, [at |-> now, severity |-> severity,
                                      outage |-> DOR!Open, times |-> 1])
    BY <1>3 DEF DOR!OpenIncident
  <2>2. [at |-> now, severity |-> severity, outage |-> DOR!Open, times |-> 1] \in Incs
    BY DEF DOR!Open, DoraInv, Incs
  <2>3. stored' \in Seq(Incs)
    BY <2>1, <2>2, AppendProperties DEF DoraInv
  <2> QED BY <1>3, <2>3 DEF DOR!OpenIncident, DoraInv
<1>4. CASE DOR!CloseIncident
  <2>1. PICK k \in DOMAIN stored, hours \in Outages :
            stored' = [stored EXCEPT ![k].outage = hours]
    BY <1>4 DEF DOR!CloseIncident
  <2>2. stored \in Seq(Incs) /\ hours \in Nat
    BY DEF DoraInv, DOR!DoraAssumption
  <2>3. stored[k] \in Incs
    BY <2>2, ElementOfSeq, LenProperties
  <2>4. [stored[k] EXCEPT !.outage = hours] \in Incs
    BY <2>2, <2>3 DEF Incs
  <2>5. stored' \in Seq(Incs)
    BY <2>1, <2>2, <2>4, ExceptSeq, LenProperties
  <2> QED BY <1>4, <2>5 DEF DOR!CloseIncident, DoraInv
<1>5. CASE DOR!Report
  BY <1>5 DEF DOR!Report, DoraInv
<1>6. CASE UNCHANGED DOR!vars
  BY <1>6 DEF DOR!vars, DoraInv
<1> QED BY <1>1, <1>2, <1>3, <1>4, <1>5, <1>6 DEF DOR!Next

\* What the metrics count of a record.
Deployed    == [d \in Deps |-> d.times]
Succeeded   == [d \in Deps |-> IF d.success THEN d.times ELSE 0]
Severe == [i \in Incs |-> IF DOR!severe(i) THEN i.times ELSE 0]
Ended  == [i \in Incs |-> IF i.outage # -1 THEN i.times ELSE 0]
Hours  == [i \in Incs |-> IF i.outage # -1 THEN i.times * i.outage ELSE 0]

LEMMA CountsAreNumbers ==
    /\ Deployed \in [Deps -> Nat] /\ Succeeded \in [Deps -> Nat] /\ Severe \in [Incs -> Nat]
    /\ Ended \in [Incs -> Nat] /\ Hours \in [Incs -> Nat]
<1>1. ASSUME NEW i \in Incs PROVE (IF i.outage # -1 THEN i.times * i.outage ELSE 0) \in Nat
  <2>1. i.times \in Nat /\ (i.outage \in Nat \/ i.outage = -1)
    BY DEF Incs
  <2>2. \A n, m \in Nat : n * m \in Nat
    OBVIOUS
  <2> QED BY <2>1, <2>2
<1>2. Hours \in [Incs -> Nat]
  BY <1>1 DEF Hours
<1>3. Deployed \in [Deps -> Nat] /\ Succeeded \in [Deps -> Nat]
  BY DEF Deployed, Succeeded, Deps
<1>4. Severe \in [Incs -> Nat] /\ Ended \in [Incs -> Nat]
  BY DEF Severe, Ended, Incs
<1> QED BY <1>2, <1>3, <1>4

\* The bands, of the counts they are made from.
Frequency(n, days) ==
    IF n = 0 THEN -1
    ELSE IF n >= days THEN 3
    ELSE IF 7 * n >= days THEN 2
    ELSE IF 30 * n >= days THEN 1 ELSE 0

Failures(total, good, bad) ==
    LET failures == total - good + bad
    IN  IF total = 0 THEN -1
        ELSE IF 100 * failures < 5 * total THEN 3
        ELSE IF 100 * failures < 10 * total THEN 2
        ELSE IF 100 * failures < 15 * total THEN 1 ELSE 0

LEMMA DoraSum == \A f : DOR!SumOf(f) = SumOf(f)
BY DEF DOR!SumOf, SumOf

LEMMA DeploymentsAreCounted ==
    ASSUME NEW D \in Seq(Deps)
    PROVE  /\ DOR!successful(D) = Tally(Succeeded, D)
           /\ DOR!Count(D, DOR!AnyRecord) = Tally(Deployed, D)
<1>1. \A k \in DOMAIN D : D[k] \in Deps
  BY ElementOfSeq, LenProperties
<1>2. \A d \in Deps : d.times * 1 = d.times
  BY DEF Deps
<1>3. [k \in DOMAIN D |-> IF D[k].success THEN D[k].times * 1 ELSE 0]
      = [k \in DOMAIN D |-> Succeeded[D[k]]]
  BY <1>1, <1>2 DEF Succeeded
<1>4. [k \in DOMAIN D |-> IF TRUE THEN D[k].times * 1 ELSE 0] = [k \in DOMAIN D |-> Deployed[D[k]]]
  BY <1>1, <1>2 DEF Deployed
<1>5. DOR!successful(D) = Tally(Succeeded, D)
  BY <1>3, DoraSum DEF DOR!successful, DOR!Count, DOR!Total, Tally
<1>6. DOR!Count(D, DOR!AnyRecord) = Tally(Deployed, D)
  BY <1>4, DoraSum DEF DOR!Count, DOR!Total, DOR!AnyRecord, Tally
<1> QED BY <1>5, <1>6

LEMMA IncidentsAreCounted ==
    ASSUME NEW I \in Seq(Incs)
    PROVE  /\ DOR!Count(I, DOR!severe) = Tally(Severe, I)
           /\ DOR!rateMTTR(I) = DOR!rateHours(Tally(Hours, I), Tally(Ended, I))
<1>1. \A k \in DOMAIN I : I[k] \in Incs
  BY ElementOfSeq, LenProperties
<1>2. \A i \in Incs : i.times * 1 = i.times
  BY DEF Incs
<1>3. [k \in DOMAIN I |-> IF DOR!severe(I[k]) THEN I[k].times * 1 ELSE 0]
      = [k \in DOMAIN I |-> Severe[I[k]]]
  BY <1>1, <1>2 DEF Severe
<1>4. [k \in DOMAIN I |-> IF I[k].outage # DOR!Open THEN I[k].times * 1 ELSE 0]
      = [k \in DOMAIN I |-> Ended[I[k]]]
  BY <1>1, <1>2 DEF Ended, DOR!Open
<1>5. [k \in DOMAIN I |-> IF I[k].outage # DOR!Open THEN I[k].times * I[k].outage ELSE 0]
      = [k \in DOMAIN I |-> Hours[I[k]]]
  BY <1>1 DEF Hours, DOR!Open
<1>6. DOR!Count(I, DOR!severe) = Tally(Severe, I)
  BY <1>3, DoraSum DEF DOR!Count, DOR!Total, Tally
<1>7. DOR!rateMTTR(I) = DOR!rateHours(Tally(Hours, I), Tally(Ended, I))
  BY <1>4, <1>5, DoraSum DEF DOR!rateMTTR, DOR!Count, DOR!Total, Tally
<1> QED BY <1>6, <1>7

\* The bands of a report are those of its counts.
LEMMA BandsAreOfCounts ==
    ASSUME NEW D \in Seq(Deps), NEW I \in Seq(Incs), NEW days
    PROVE  /\ DOR!rateDeploymentFrequency(D, days) = Frequency(Tally(Succeeded, D), days)
           /\ DOR!rateCFR(D, I) =
                  Failures(Tally(Deployed, D), Tally(Succeeded, D), Tally(Severe, I))
           /\ DOR!rateMTTR(I) = DOR!rateHours(Tally(Hours, I), Tally(Ended, I))
<1>1. DOR!rateDeploymentFrequency(D, days) = Frequency(Tally(Succeeded, D), days)
  BY DeploymentsAreCounted
     DEF DOR!rateDeploymentFrequency, Frequency, DOR!BandNA, DOR!BandElite, DOR!BandHigh,
         DOR!BandMedium, DOR!BandLow
<1>2. DOR!rateCFR(D, I) = Failures(Tally(Deployed, D), Tally(Succeeded, D), Tally(Severe, I))
  BY DeploymentsAreCounted, IncidentsAreCounted
     DEF DOR!rateCFR, Failures, DOR!BandNA, DOR!BandElite, DOR!BandHigh, DOR!BandMedium,
         DOR!BandLow
<1> QED BY <1>1, <1>2, IncidentsAreCounted

\* More failures, among as many deployments or as many more, make no band better.
LEMMA FailuresAreMore ==
    ASSUME NEW t \in Nat, NEW u \in Nat, NEW g \in Nat, NEW b \in Nat, t <= u
    PROVE  DOR!NoBetter(Failures(t, g, b), Failures(u, g, b))
BY DEF Failures, DOR!NoBetter, DOR!BandNA

LEMMA FailuresAreWorse ==
    ASSUME NEW t \in Nat, NEW g \in Nat, NEW b \in Nat, NEW n \in Nat
    PROVE  /\ DOR!NoBetter(Failures(t, g, b), Failures(t, g, b + n))
           /\ Failures(t, g, b) = -1 <=> Failures(t, g, b + n) = -1
           /\ Failures(t, g, b) \in -1..3 /\ Failures(t, g, b + n) \in -1..3
<1>1. Failures(t, g, b) \in -1..3 /\ Failures(t, g, b + n) \in -1..3
  BY DEF Failures
<1>2. DOR!NoBetter(Failures(t, g, b), Failures(t, g, b + n))
  BY DEF Failures, DOR!NoBetter, DOR!BandNA
<1>4. Failures(t, g, b) = -1 <=> Failures(t, g, b + n) = -1
  BY DEF Failures
<1> QED BY <1>1, <1>2, <1>4

LEMMA LowestIsWorse ==
    ASSUME NEW f \in -1..3, NEW l \in -1..3, NEW m \in -1..3, NEW c \in -1..3, NEW e \in -1..3,
           c = -1 <=> e = -1, DOR!NoBetter(c, e)
    PROVE  DOR!NoBetter(DOR!lowestBand({f, l, c, m}), DOR!lowestBand({f, l, e, m}))
<1> DEFINE S == {3} \cup ({f, l, c, m} \ {-1})
           T == {3} \cup ({f, l, e, m} \ {-1})
<1>1. ASSUME NEW U, U \subseteq 0..3, U # {}
      PROVE  DOR!Min(U) \in U /\ \A y \in U : DOR!Min(U) <= y
  <2>1. \E x \in U : \A y \in U : x <= y
    <3>1. U \subseteq Nat
      BY <1>1
    <3> HIDE DEF S, T
    <3> QED BY ONLY <1>1, <3>1, Least
  <2> QED BY <2>1 DEF DOR!Min
<1>2. S \subseteq 0..3 /\ S # {} /\ T \subseteq 0..3 /\ T # {}
  OBVIOUS
<1>3. DOR!lowestBand({f, l, c, m}) = DOR!Min(S) /\ DOR!lowestBand({f, l, e, m}) = DOR!Min(T)
  BY DEF DOR!lowestBand, DOR!BandElite, DOR!BandNA
<1> DEFINE a == DOR!Min(S)
           b == DOR!Min(T)
<1>4. a \in S /\ b \in T /\ \A y \in T : b <= y
  <2> HIDE DEF S, T
  <2> QED BY <1>1, <1>2
<1>5. a \in T \/ (a = c /\ c # -1)
  BY <1>4
<1>6. c # -1 => e \in T /\ e <= c
  BY DEF DOR!NoBetter, DOR!BandNA
<1>7. a \in Int /\ b \in Int
  BY <1>2, <1>4
<1>8. b <= a
  <2> HIDE DEF a, b, T
  <2> QED BY <1>4, <1>5, <1>6, <1>7
<1> HIDE DEF a, b
<1> QED BY <1>3, <1>8 DEF DOR!NoBetter, a, b

\* Records with a time, which may count for nothing.
Dated(T) == \A x \in T : x.at \in Nat /\ [x EXCEPT !.times = 0] \in T

LEMMA RecordsAreDated == Dated(Deps) /\ Dated(Incs)
<1>1. Dated(Deps)
  BY DEF Dated, Deps
<1>2. Dated(Incs)
  BY DEF Dated, Incs
<1> QED BY <1>1, <1>2

\* A record of now is in every window.
LEMMA WindowGrows ==
    ASSUME NEW T, Dated(T),
           NEW S \in Seq(T), NEW r \in T, r.at = now, now \in Nat, NEW days \in Nat
    PROVE  /\ DOR!InWindow(S, days) \in Seq(T)
           /\ DOR!InWindow(Append(S, r), days) = Append(DOR!InWindow(S, days), r)
<1> DEFINE W(x) == IF x.at >= now - days THEN x ELSE [x EXCEPT !.times = 0]
           A == Append(S, r)
           L == Len(S)
<1>1. L \in Nat /\ DOMAIN S = 1..L /\ \A k \in 1..L : S[k] \in T
  BY LenProperties, ElementOfSeq
<1>2. A \in Seq(T) /\ Len(A) = L + 1 /\ DOMAIN A = 1..(L + 1) /\ A[L + 1] = r
      /\ \A k \in 1..L : A[k] = S[k]
  BY <1>1, AppendProperties, LenProperties
<1>3. DOR!InWindow(S, days) = [k \in 1..L |-> W(S[k])]
  BY <1>1 DEF DOR!InWindow
<1>4. DOR!InWindow(A, days) = [k \in 1..(L + 1) |-> W(A[k])]
  <2> HIDE DEF A, L
  <2> QED BY <1>2 DEF DOR!InWindow
<1>5. \A x \in T : W(x) \in T
  BY DEF Dated
<1>6. W(r) = r
  BY DEF Dated
<1> HIDE DEF A, L, W
<1>7. DOR!InWindow(S, days) \in Seq(T)
  BY <1>1, <1>3, <1>5, IsASeq
<1> DEFINE V == DOR!InWindow(S, days)
<1>8. Len(V) = L /\ \A k \in 1..L : V[k] = W(S[k])
  BY <1>1, <1>3, <1>7, LenProperties
<1>9. /\ Append(V, r) \in Seq(T) /\ Len(Append(V, r)) = L + 1 /\ Append(V, r)[L + 1] = r
      /\ \A k \in 1..L : Append(V, r)[k] = V[k]
  <2> HIDE DEF V
  <2> QED BY <1>1, <1>7, <1>8, AppendProperties DEF V
<1>10. Append(V, r) = [k \in 1..(L + 1) |-> Append(V, r)[k]]
  <2> HIDE DEF V
  <2> QED BY <1>9, LenProperties
<1>11. ASSUME NEW k \in 1..(L + 1) PROVE W(A[k]) = Append(V, r)[k]
  <2> HIDE DEF V
  <2>1. CASE k = L + 1
    BY <1>2, <1>6, <1>9, <2>1
  <2>2. CASE k # L + 1
    <3>1. k \in 1..L
      BY <1>1, <2>2
    <3> QED BY <1>2, <1>8, <1>9, <3>1
  <2> QED BY <2>1, <2>2
<1>12. DOR!InWindow(A, days) = Append(V, r)
  <2> HIDE DEF V
  <2> QED BY <1>4, <1>10, <1>11
<1> QED BY <1>7, <1>12 DEF A

\* There are deployments and incidents, and a window of them is one of such.
LEMMA ADeployment == \E r \in Deps : TRUE
<1>1. [at |-> 0, success |-> TRUE, lead |-> 0, times |-> 0] \in Deps
  BY DEF Deps
<1> QED BY <1>1

LEMMA AnIncident == \E r \in Incs : TRUE
<1>1. [at |-> 0, severity |-> "low", outage |-> 0, times |-> 0] \in Incs
  BY DEF Incs
<1> QED BY <1>1

LEMMA WindowOfDeployments ==
    ASSUME now \in Nat, NEW S \in Seq(Deps), NEW days \in Nat
    PROVE  DOR!InWindow(S, days) \in Seq(Deps)
<1>1. [at |-> now, success |-> TRUE, lead |-> 0, times |-> 0] \in Deps
  BY DEF Deps
<1> QED BY <1>1, RecordsAreDated, WindowGrows

LEMMA WindowOfIncidents ==
    ASSUME now \in Nat, NEW S \in Seq(Incs), NEW days \in Nat
    PROVE  DOR!InWindow(S, days) \in Seq(Incs)
<1>1. [at |-> now, severity |-> "low", outage |-> 0, times |-> 0] \in Incs
  BY DEF Incs
<1> QED BY <1>1, RecordsAreDated, WindowGrows

LEMMA BandsAreBands ==
    /\ \A n, days : Frequency(n, days) \in -1..3
    /\ \A x, y : DOR!rateHours(x, y) \in -1..3
BY DEF Frequency, DOR!rateHours, DOR!BandNA, DOR!BandElite, DOR!BandHigh, DOR!BandMedium,
       DOR!BandLow

LEMMA NoBetterThanItself == \A x \in -1..3 : DOR!NoBetter(x, x)
BY DEF DOR!NoBetter

\* No bad news makes a report look better.
LEMMA BadNewsIsBad ==
    ASSUME DOR!DoraAssumption, DoraInv, [DOR!Next]_(DOR!vars)
    PROVE  DOR!BadNewsNeverImproves
<1> DEFINE failed == lines' # lines /\ ~DOR!Last(lines').success
           broke == Len(stored') > Len(stored)
           Fine(days) == LET before == DOR!Metrics(days)
                             after  == DOR!Metrics(days)'
                         IN  /\ DOR!NoBetter(before.frequency, after.frequency)
                             /\ DOR!NoBetter(before.cfr, after.cfr)
                             /\ DOR!NoBetter(before.mttr, after.mttr)
                             /\ broke => DOR!NoBetter(before.overall, after.overall)
<1>1. now \in Nat /\ lines \in Seq(Deps) /\ stored \in Seq(Incs) /\ Windows \subseteq Nat
  BY DEF DoraInv, DOR!DoraAssumption
<1>2. ASSUME NEW days \in Windows, failed, DOR!LogDeploy PROVE Fine(days)
  <2>1. PICK r \in Deps : lines' = Append(lines, r) /\ r.at = now
    <3>1. PICK n \in Batches, success \in BOOLEAN, lead \in LeadTimes \cup {DOR!NoCommit} :
              lines' = Append(lines, [at |-> now, success |-> success, lead |-> lead,
                                      times |-> n])
      BY <1>2 DEF DOR!LogDeploy
    <3>2. [at |-> now, success |-> success, lead |-> lead, times |-> n] \in Deps
      BY <1>1 DEF DOR!DoraAssumption, DOR!NoCommit, Deps
    <3> QED BY <3>1, <3>2
  <2>2. now' = now /\ stored' = stored
    BY <1>2 DEF DOR!LogDeploy
  <2>3. ~r.success
    <3>1. Append(lines, r)[Len(Append(lines, r))] = r
      BY <1>1, AppendProperties
    <3> QED BY <1>2, <2>1, <3>1 DEF DOR!Last
  <2>4. ~broke
    BY <1>1, <2>2, LenProperties
  <2> DEFINE D == DOR!InWindow(lines, days)
             I == DOR!InWindow(stored, days)
  <2>5. days \in Nat
    BY <1>1
  <2>6. D \in Seq(Deps) /\ DOR!InWindow(Append(lines, r), days) = Append(D, r)
    <3> QED BY ONLY <1>1, <2>1, <2>5, RecordsAreDated, WindowGrows DEF D
  <2>7. I \in Seq(Incs)
    BY <1>1, <2>5, WindowOfIncidents
  <2>8. DOR!Metrics(days) = DOR!calculateDORA(days, D, I)
    BY DEF DOR!Metrics
  <2>9. DOR!Metrics(days)' = DOR!calculateDORA(days, Append(D, r), I)
    <3>1. DOR!InWindow(lines, days)' = DOR!InWindow(Append(lines, r), days)
      BY <2>1, <2>2 DEF DOR!InWindow
    <3>2. DOR!InWindow(stored, days)' = I
      BY <2>2 DEF DOR!InWindow
    <3> HIDE DEF D, I
    <3> QED BY <2>6, <3>1, <3>2 DEF DOR!Metrics
  <2> HIDE DEF D, I
  <2>10. /\ Tally(Succeeded, Append(D, r)) = Tally(Succeeded, D)
         /\ Tally(Deployed, Append(D, r)) = Tally(Deployed, D) + r.times
         /\ Tally(Succeeded, D) \in Nat /\ Tally(Deployed, D) \in Nat /\ Tally(Severe, I) \in Nat
    <3>1. Tally(Succeeded, D) \in Nat /\ Tally(Succeeded, Append(D, r)) = Tally(Succeeded, D) + Succeeded[r]
      BY <2>6, CountsAreNumbers, AppendAdds, ZenonT(60)
    <3>2. Tally(Deployed, D) \in Nat /\ Tally(Deployed, Append(D, r)) = Tally(Deployed, D) + Deployed[r]
      BY <2>6, CountsAreNumbers, AppendAdds, ZenonT(60)
    <3>3. Tally(Severe, I) \in Nat
      BY <2>7, CountsAreNumbers, AnIncident, AppendAdds
    <3>4. Succeeded[r] = 0 /\ Deployed[r] = r.times
      BY <2>3 DEF Succeeded, Deployed
    <3> QED BY <3>1, <3>2, <3>3, <3>4
  <2>11. Append(D, r) \in Seq(Deps) /\ r.times \in Nat
    BY <2>6, AppendProperties DEF Deps
  <2>12. DOR!rateDeploymentFrequency(Append(D, r), days) = DOR!rateDeploymentFrequency(D, days)
         /\ DOR!rateDeploymentFrequency(D, days) \in -1..3
    BY <2>6, <2>7, <2>10, <2>11, BandsAreOfCounts, BandsAreBands, ZenonT(60)
  <2>13. DOR!NoBetter(DOR!rateCFR(D, I), DOR!rateCFR(Append(D, r), I))
    <3>1. PICK t \in Nat, u \in Nat, g \in Nat, b \in Nat :
              /\ t = Tally(Deployed, D) /\ u = Tally(Deployed, Append(D, r))
              /\ g = Tally(Succeeded, D) /\ b = Tally(Severe, I) /\ t <= u
      BY <2>10, <2>11
    <3>2. DOR!rateCFR(D, I) = Failures(t, g, b)
      BY <2>6, <2>7, <3>1, BandsAreOfCounts
    <3>3. DOR!rateCFR(Append(D, r), I) = Failures(u, g, b)
      BY <2>7, <2>10, <2>11, <3>1, BandsAreOfCounts
    <3> QED BY ONLY <3>1, <3>2, <3>3, FailuresAreMore
  <2>14. DOR!rateMTTR(I) \in -1..3
    BY <2>6, <2>7, BandsAreOfCounts, BandsAreBands
  <2> QED BY <2>4, <2>8, <2>9, <2>12, <2>13, <2>14, NoBetterThanItself DEF DOR!calculateDORA
<1>3. ASSUME NEW days \in Windows, DOR!OpenIncident PROVE Fine(days)
  <2>1. PICK r \in Incs : stored' = Append(stored, r) /\ r.at = now /\ r.outage = -1
    <3>1. PICK severity \in {"low", "high"} :
              stored' = Append(stored, [at |-> now, severity |-> severity,
                                        outage |-> DOR!Open, times |-> 1])
      BY <1>3 DEF DOR!OpenIncident
    <3>2. [at |-> now, severity |-> severity, outage |-> DOR!Open, times |-> 1] \in Incs
      BY <1>1 DEF DOR!Open, Incs
    <3> QED BY <3>1, <3>2 DEF DOR!Open
  <2>2. now' = now /\ lines' = lines
    BY <1>3 DEF DOR!OpenIncident
  <2> DEFINE D == DOR!InWindow(lines, days)
             I == DOR!InWindow(stored, days)
  <2>3. days \in Nat
    BY <1>1
  <2>4. I \in Seq(Incs) /\ DOR!InWindow(Append(stored, r), days) = Append(I, r)
    <3> QED BY ONLY <1>1, <2>1, <2>3, RecordsAreDated, WindowGrows DEF I
  <2>5. D \in Seq(Deps)
    BY <1>1, <2>3, WindowOfDeployments
  <2>6. DOR!Metrics(days) = DOR!calculateDORA(days, D, I)
    BY DEF DOR!Metrics
  <2>7. DOR!Metrics(days)' = DOR!calculateDORA(days, D, Append(I, r))
    <3>1. DOR!InWindow(stored, days)' = DOR!InWindow(Append(stored, r), days)
      BY <2>1, <2>2 DEF DOR!InWindow
    <3>2. DOR!InWindow(lines, days)' = D
      BY <2>2 DEF DOR!InWindow
    <3> HIDE DEF D, I
    <3> QED BY <2>4, <3>1, <3>2 DEF DOR!Metrics
  <2> HIDE DEF D, I
  <2>8. Append(I, r) \in Seq(Incs)
    BY <2>4, AppendProperties
  <2>9. /\ Tally(Hours, Append(I, r)) = Tally(Hours, I)
        /\ Tally(Ended, Append(I, r)) = Tally(Ended, I)
    <3>1. Tally(Hours, I) \in Nat /\ Tally(Hours, Append(I, r)) = Tally(Hours, I) + Hours[r]
      BY <2>4, CountsAreNumbers, AppendAdds
    <3>2. Tally(Ended, I) \in Nat /\ Tally(Ended, Append(I, r)) = Tally(Ended, I) + Ended[r]
      BY <2>4, CountsAreNumbers, AppendAdds, ZenonT(60)
    <3>3. Hours[r] = 0 /\ Ended[r] = 0
      BY <2>1 DEF Hours, Ended
    <3> QED BY <3>1, <3>2, <3>3
  <2> DEFINE f == DOR!rateDeploymentFrequency(D, days)
             l == DOR!rateLeadTime(D)
             m == DOR!rateMTTR(I)
             c == DOR!rateCFR(D, I)
             e == DOR!rateCFR(D, Append(I, r))
  <2>10. f \in -1..3 /\ m \in -1..3 /\ DOR!rateMTTR(Append(I, r)) = m
    BY <2>4, <2>5, <2>8, <2>9, BandsAreOfCounts, BandsAreBands, ZenonT(60)
  <2>11. l \in -1..3
    BY BandsAreBands DEF DOR!rateLeadTime
  <2>12. /\ DOR!NoBetter(c, e) /\ (c = -1 <=> e = -1)
         /\ c \in -1..3 /\ e \in -1..3
    <3>1. /\ Tally(Deployed, D) \in Nat /\ Tally(Succeeded, D) \in Nat /\ Tally(Severe, I) \in Nat
          /\ Tally(Severe, Append(I, r)) = Tally(Severe, I) + Severe[r]
      BY <2>1, <2>4, <2>5, CountsAreNumbers, ADeployment, AppendAdds, ZenonT(60)
    <3>2. Severe[r] \in Nat
      BY CountsAreNumbers
    <3>3. c = Failures(Tally(Deployed, D), Tally(Succeeded, D), Tally(Severe, I))
      BY <2>4, <2>5, BandsAreOfCounts
    <3>4. e = Failures(Tally(Deployed, D), Tally(Succeeded, D), Tally(Severe, I) + Severe[r])
      BY <2>5, <2>8, <3>1, BandsAreOfCounts
    <3> HIDE DEF c, e
    <3> QED BY <3>1, <3>2, <3>3, <3>4, FailuresAreWorse, ZenonT(60)
  <2> HIDE DEF f, l, m, c, e
  <2>13. DOR!NoBetter(DOR!lowestBand({f, l, c, m}), DOR!lowestBand({f, l, e, m}))
    BY <2>10, <2>11, <2>12, LowestIsWorse
  <2> QED BY <2>6, <2>7, <2>10, <2>12, <2>13, NoBetterThanItself
          DEF DOR!calculateDORA, f, l, m, c, e
<1>4. failed => DOR!LogDeploy
  BY DEF DOR!Next, DOR!vars, DOR!Tick, DOR!OpenIncident, DOR!CloseIncident, DOR!Report
<1>5. broke => DOR!OpenIncident
  <2>1. Len(stored) \in Nat
    BY <1>1, LenProperties
  <2>2. DOR!CloseIncident => Len(stored') = Len(stored)
    <3>1. SUFFICES ASSUME DOR!CloseIncident PROVE Len(stored') = Len(stored)
      OBVIOUS
    <3>2. PICK k \in DOMAIN stored, hours \in Outages :
              stored' = [stored EXCEPT ![k].outage = hours]
      BY <3>1 DEF DOR!CloseIncident
    <3>3. stored[k] \in Incs
      BY <1>1, ElementOfSeq, LenProperties
    <3>4. [stored[k] EXCEPT !.outage = hours] \in Incs
      BY <3>3 DEF Incs, DOR!DoraAssumption
    <3> QED BY <1>1, <3>2, <3>4, ExceptSeq, LenProperties
  <2> QED BY <2>1, <2>2 DEF DOR!Next, DOR!vars, DOR!Tick, DOR!LogDeploy, DOR!Report
<1>6. ASSUME NEW days \in Windows, failed \/ broke PROVE Fine(days)
  <2> HIDE DEF failed, broke, Fine
  <2> QED BY <1>2, <1>3, <1>4, <1>5, <1>6
<1> QED BY <1>6 DEF DOR!BadNewsNeverImproves
=============================================================================
