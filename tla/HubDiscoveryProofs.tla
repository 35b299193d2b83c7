------------------------- MODULE HubDiscoveryProofs -------------------------
(***************************************************************************)
(* Proofs about HubDiscovery for any number of hubs, runs and ports: the   *)
(* types, that no secret survives an orderly end, that a session is only   *)
(* held by the hub its run read of, and that a hub which has the host to   *)
(* itself can be found.                                                    *)
(***************************************************************************)
EXTENDS HubDiscovery, TLAPS

\* Every hub, run and port starts in a state of the right type.
LEMMA TypeInit == Init => TypeOK
BY HubAssumption DEF Init, TypeOK, Contents, Empty

\* A step of a hub keeps the types.
LEMMA TypeHub ==
    ASSUME TypeOK, NEW h \in Hubs, HubStep(h)
    PROVE  TypeOK'
<1> USE HubAssumption DEF TypeOK, Step
<1>1. CASE Start(h)
  BY <1>1 DEF Start, files, Live
<1>2. CASE OpenTmp(h)
  BY <1>2 DEF OpenTmp, ghost, Contents, Empty
<1>3. CASE WriteTmp(h)
  BY <1>3 DEF WriteTmp, ghost, Contents, Empty, Torn, Record
<1>4. CASE WriteFails(h)
  BY <1>4 DEF WriteFails
<1>5. CASE Rename(h)
  BY <1>5 DEF Rename, ghost
<1>6. CASE RenameFails(h) \/ DropTmp(h)
  BY <1>6, ZenonT(60) DEF RenameFails, DropTmp, ghost, files
<1>7. CASE Bind(h)
  <2>1. listener' \in [Ports -> Hubs \cup Runs \cup {None}]
    BY <1>7 DEF Bind
  <2>2. hpc' = [hpc EXCEPT ![h] = "serving"]
    BY <1>7 DEF Bind
  <2> QED BY <1>7, <2>1, <2>2 DEF Bind, ghost, files
<1>8. CASE BindFails(h)
  BY <1>8 DEF BindFails, ghost, files
<1>9. CASE Shutdown(h)
  <2>1. listener' \in [Ports -> Hubs \cup Runs \cup {None}]
    BY <1>9 DEF Shutdown, Freed
  <2> QED BY <1>9, <2>1 DEF Shutdown, ghost, files
<1>10. CASE Cleanup(h)
  BY <1>10 DEF Cleanup, ghost
<1>11. CASE Crash(h)
  <2>1. listener' \in [Ports -> Hubs \cup Runs \cup {None}]
    BY <1>11 DEF Crash, Freed
  <2>2. mishaps' \subseteq {"killed", "unwritten"}
    BY <1>11 DEF Crash
  <2>3. hpc' = [hpc EXCEPT ![h] = "gone"]
    BY <1>11 DEF Crash
  <2> QED BY <1>11, <2>1, <2>2, <2>3 DEF Crash
<1> QED BY <1>1, <1>2, <1>3, <1>4, <1>5, <1>6, <1>7, <1>8, <1>9, <1>10, <1>11
    DEF HubStep

\* A step of an analyzer run keeps the types.
LEMMA TypeRun ==
    ASSUME TypeOK, NEW r \in Runs, Attach(r) \/ LocalStops(r)
    PROVE  TypeOK'
<1> USE HubAssumption DEF TypeOK, RunStep, hubs, files, ghost
<1>1. CASE ReadRecord(r)
  BY <1>1 DEF ReadRecord, Discovery, Contents, Empty
<1>2. CASE NoRecord(r) \/ ProbeOK(r) \/ ProbeFails(r) \/ Refused(r)
  BY <1>2 DEF NoRecord, ProbeOK, ProbeFails, Refused
<1>3. CASE Ingest(r)
  BY <1>3 DEF Ingest, Hub
<1>4. CASE Attached(r) \/ ReplyLost(r)
  BY <1>4 DEF Attached, ReplyLost
<1>5. CASE ServeLocally(r)
  <2>1. listener' \in [Ports -> Hubs \cup Runs \cup {None}]
    BY <1>5 DEF ServeLocally
  <2>2. rpc' = [rpc EXCEPT ![r] = "serving"]
    BY <1>5 DEF ServeLocally
  <2> QED BY <1>5, <2>1, <2>2 DEF ServeLocally
<1>7. CASE LocalBindFails(r)
  BY <1>7 DEF LocalBindFails
<1>6. CASE LocalStops(r)
  BY <1>6 DEF LocalStops, Freed
<1> QED BY <1>1, <1>2, <1>3, <1>4, <1>5, <1>6, <1>7 DEF Attach

\* The types hold in every reachable state.
THEOREM HubTypesHold == Spec => []TypeOK
<1>1. TypeOK /\ [Next]_vars => TypeOK'
  <2> SUFFICES ASSUME TypeOK, [Next]_vars PROVE TypeOK'
    OBVIOUS
  <2>1. CASE UNCHANGED vars
    BY <2>1 DEF TypeOK, vars, hubs, files, ghost
  <2> QED BY <2>1, TypeHub, TypeRun DEF Next
<1> QED BY <1>1, TypeInit, PTL DEF Spec

---------------------------------------------------------------------------
(* Each name on disk has a hub that will see to it.                        *)

Fileds == {"bind", "serving", "closing"}
Writers == {"write", "rename", "drop"}

\* hub.json is there only while a hub that wrote it is still to clean up, the
\* temporary file only while a hub is writing; or a hub was killed, or a write
\* failed.  (NoSecretLeftBehind alone says nothing of a state with a live hub.)
CleanedUp ==
    /\ fileAt # None => "killed" \in mishaps \/ \E h \in Hubs : hpc[h] \in Fileds /\ ok[h]
    /\ tmpAt # None =>
           {"killed", "unwritten"} \cap mishaps # {} \/ \E h \in Hubs : hpc[h] \in Writers

\* No step of a hub leaves a name without a hub that will see to it.
LEMMA CleanedUpHub ==
    ASSUME TypeOK, CleanedUp, NEW h \in Hubs, HubStep(h)
    PROVE  CleanedUp'
<1> USE DEF TypeOK, CleanedUp, Step, Fileds, Writers
<1>1. CASE Start(h)
  BY <1>1 DEF Start, files
<1>2. CASE OpenTmp(h) \/ WriteTmp(h)
  BY <1>2 DEF OpenTmp, WriteTmp, ghost
<1>3. CASE WriteFails(h)
  BY <1>3 DEF WriteFails
<1>4. CASE Rename(h)
  BY <1>4 DEF Rename, ghost
<1>5. CASE RenameFails(h)
  BY <1>5 DEF RenameFails, ghost, files
<1>6. CASE DropTmp(h)
  BY <1>6 DEF DropTmp, ghost
<1>7. CASE Bind(h) \/ BindFails(h) \/ Shutdown(h)
  BY <1>7 DEF Bind, BindFails, Shutdown, ghost, files
<1>8. CASE Cleanup(h)
  BY <1>8 DEF Cleanup, ghost
<1>9. CASE Crash(h)
  BY <1>9 DEF Crash
<1> QED BY <1>1, <1>2, <1>3, <1>4, <1>5, <1>6, <1>7, <1>8, <1>9 DEF HubStep

\* An analyzer run touches neither the files nor the hubs.
LEMMA RunLeavesHubs ==
    ASSUME NEW r \in Runs, Attach(r) \/ LocalStops(r)
    PROVE  UNCHANGED <<hubs, files, ghost>>
BY DEF Attach, ReadRecord, NoRecord, ProbeOK, ProbeFails, Ingest, Refused, Attached,
       ReplyLost, ServeLocally, LocalBindFails, LocalStops

\* Once every hub has stopped and none was killed, no secret is on disk.
THEOREM NothingLeftBehind == Spec => []NoSecretLeftBehind
<1>1. Init => CleanedUp
  BY DEF Init, CleanedUp
<1>2. TypeOK /\ CleanedUp /\ [Next]_vars => CleanedUp'
  <2> SUFFICES ASSUME TypeOK, CleanedUp, [Next]_vars PROVE CleanedUp'
    OBVIOUS
  <2>1. CASE UNCHANGED <<hubs, files, ghost>>
    BY <2>1 DEF CleanedUp, hubs, files, ghost
  <2> QED BY <2>1, CleanedUpHub, RunLeavesHubs DEF Next, vars
<1>3. CleanedUp => NoSecretLeftBehind
  BY DEF CleanedUp, NoSecretLeftBehind, Live, Fileds, Writers
<1> QED BY <1>1, <1>2, <1>3, HubTypesHold, PTL DEF Spec
---------------------------------------------------------------------------
(* Records are authentic, wherever they were copied to.                    *)

\* A record names the port of the hub whose secret it carries, and that hub has
\* been started: its port will not change any more.
Authentic(content) ==
    content.kind = "record" =>
        /\ content = Record(content.Secret)
        /\ content.Secret \in Hubs /\ hpc[content.Secret] # "idle"

\* HeldByTheHubRead with what it rests on: every copy of a record is authentic,
\* and a run whose session is held has finished reading.
HeldInv ==
    /\ HeldByTheHubRead
    /\ \A h \in Hubs : Authentic(disk[h])
    /\ \A r \in Runs : Authentic(read[r])
    /\ \A h \in Hubs, id \in Ids : sessions[h][id] # None => rpc[sessions[h][id]] # "idle"

\* A step of a hub changes no record, no session and no started hub's port.
LEMMA HeldHub ==
    ASSUME TypeOK, HeldInv, NEW h \in Hubs, HubStep(h)
    PROVE  HeldInv'
<1>1. /\ \A g \in Hubs : hpc[g] # "idle" => port'[g] = port[g] /\ hpc'[g] # "idle"
      /\ UNCHANGED <<sessions, rpc, read>>
  BY DEF HubStep, Start, OpenTmp, WriteTmp, WriteFails, Rename, RenameFails, DropTmp, Bind,
         BindFails, Shutdown, Cleanup, Crash, Step, TypeOK, Live
<1>2. \A g \in Hubs : disk'[g] \in {disk[g], Empty, Torn} \/ (disk'[g] = Record(h) /\ WriteTmp(h))
  BY DEF HubStep, Start, OpenTmp, WriteTmp, WriteFails, Rename, RenameFails, DropTmp, Bind,
         BindFails, Shutdown, Cleanup, Crash, TypeOK, files
<1>4. \A g \in Hubs : Authentic(disk[g])'
  <2> SUFFICES ASSUME NEW g \in Hubs PROVE Authentic(disk[g])'
    OBVIOUS
  <2>1. CASE disk'[g] = disk[g]
    <3>1. Authentic(disk[g])
      BY DEF HeldInv
    <3>2. disk[g].kind = "record" =>
              /\ port'[disk[g].Secret] = port[disk[g].Secret]
              /\ hpc'[disk[g].Secret] # "idle"
      BY <3>1, <1>1 DEF Authentic
    <3> QED BY <2>1, <3>1, <3>2 DEF Authentic, Record
  <2>2. CASE disk'[g] \in {Empty, Torn}
    BY <2>2 DEF Authentic, Empty, Torn
  <2>3. CASE disk'[g] = Record(h) /\ WriteTmp(h)
    BY <2>3 DEF Authentic, Record, WriteTmp, Step, TypeOK
  <2> QED BY <1>2, <2>1, <2>2, <2>3
<1>5. \A r \in Runs : Authentic(read[r])'
  BY <1>1 DEF HeldInv, Authentic, Record
<1>6. HeldByTheHubRead'
  <2> SUFFICES ASSUME NEW g \in Hubs, NEW id \in Ids, sessions[g][id] # None
               PROVE  /\ read[sessions[g][id]] = Record(g)'
                      /\ AnalyzerOf[sessions[g][id]] = id
    BY <1>1 DEF HeldByTheHubRead
  <2>1. sessions[g][id] \in Runs
    BY DEF TypeOK
  <2>2. read[sessions[g][id]] = Record(g) /\ AnalyzerOf[sessions[g][id]] = id
    BY DEF HeldInv, HeldByTheHubRead
  <2>3. hpc[g] # "idle"
    BY <2>1, <2>2 DEF HeldInv, Authentic, Record
  <2> QED BY <1>1, <2>2, <2>3 DEF Record
<1> QED BY <1>1, <1>4, <1>5, <1>6 DEF HeldInv

\* A step of a run adds a session only to the hub it had read of, and a run that
\* has read never reads again.
LEMMA HeldRun ==
    ASSUME TypeOK, HeldInv, NEW r \in Runs, Attach(r) \/ LocalStops(r)
    PROVE  HeldInv'
<1>1. UNCHANGED <<hpc, port, disk>>
  BY RunLeavesHubs DEF hubs, files
<1>2. /\ rpc'[r] # "idle"
      /\ \A u \in Runs \ {r} : rpc'[u] = rpc[u]
  BY DEF Attach, ReadRecord, NoRecord, ProbeOK, ProbeFails, Ingest, Refused, Attached,
         ReplyLost, ServeLocally, LocalBindFails, LocalStops, RunStep, TypeOK
<1>3. CASE ReadRecord(r)
  <2>1. /\ read' = [read EXCEPT ![r] = Discovery] /\ sessions' = sessions /\ rpc[r] = "idle"
        /\ Discovery.kind = "record"
    BY <1>3 DEF ReadRecord, RunStep
  <2>2. Authentic(Discovery)
    BY <2>1 DEF Discovery, HeldInv, TypeOK, Empty
  <2>3. \A u \in Runs : Authentic(read[u])'
    BY <1>1, <2>1, <2>2 DEF HeldInv, Authentic, Record, TypeOK
  <2>4. \A h \in Hubs, id \in Ids :
            sessions[h][id] # None => sessions[h][id] \in Runs \ {r}
    BY <2>1 DEF HeldInv, TypeOK
  <2> QED BY <1>1, <1>2, <2>1, <2>3, <2>4 DEF HeldInv, HeldByTheHubRead, Authentic, Record, TypeOK
<1>4. CASE Ingest(r)
  <2>1. read' = read
    BY <1>4 DEF Ingest
  <2>2. PICK h \in Hubs : /\ read[r].Secret = h /\ read[r].kind = "record"
                          /\ sessions' = [sessions EXCEPT ![h][AnalyzerOf[r]] = r]
    BY <1>4 DEF Ingest, Hub, RunStep, TypeOK
  <2>3. read[r] = Record(h)
    BY <2>2 DEF HeldInv, Authentic
  <2>4. \A g \in Hubs, id \in Ids :
            sessions'[g][id] = IF g = h /\ id = AnalyzerOf[r] THEN r ELSE sessions[g][id]
    BY <2>2, HubAssumption DEF TypeOK
  <2>5. \A g \in Hubs, id \in Ids :
            sessions'[g][id] # None =>
                /\ read[sessions'[g][id]] = Record(g)
                /\ AnalyzerOf[sessions'[g][id]] = id
                /\ rpc'[sessions'[g][id]] # "idle"
    <3> SUFFICES ASSUME NEW g \in Hubs, NEW id \in Ids, sessions'[g][id] # None
                 PROVE  /\ read[sessions'[g][id]] = Record(g)
                        /\ AnalyzerOf[sessions'[g][id]] = id
                        /\ rpc'[sessions'[g][id]] # "idle"
      OBVIOUS
    <3>1. CASE g = h /\ id = AnalyzerOf[r]
      BY <3>1, <2>3, <2>4, <1>2
    <3>2. CASE ~(g = h /\ id = AnalyzerOf[r])
      <4>1. sessions'[g][id] = sessions[g][id] /\ sessions[g][id] \in Runs
        BY <3>2, <2>4 DEF TypeOK
      <4> QED BY <4>1, <1>2 DEF HeldInv, HeldByTheHubRead
    <3> QED BY <3>1, <3>2
  <2>6. /\ \A g \in Hubs : Authentic(disk[g])'
        /\ \A u \in Runs : Authentic(read[u])'
    BY <1>1, <2>1 DEF HeldInv, Authentic, Record
  <2>7. HeldByTheHubRead'
    BY <1>1, <2>1, <2>5 DEF HeldByTheHubRead, Record
  <2> QED BY <2>5, <2>6, <2>7 DEF HeldInv
<1>5. CASE UNCHANGED <<sessions, read>>
  <2>1. \A h \in Hubs, id \in Ids :
            sessions[h][id] # None => sessions[h][id] \in Runs
    BY DEF TypeOK
  <2> QED BY <1>1, <1>2, <1>5, <2>1 DEF HeldInv, HeldByTheHubRead, Authentic, Record
<1>6. ReadRecord(r) \/ Ingest(r) \/ UNCHANGED <<sessions, read>>
  BY DEF Attach, NoRecord, ProbeOK, ProbeFails, Refused, Attached,
         ReplyLost, ServeLocally, LocalBindFails, LocalStops
<1> QED BY <1>3, <1>4, <1>5, <1>6

\* Whatever happens to hubs and ports meanwhile, a hub only holds the sessions of
\* runs that had read its own record.
THEOREM SessionsGoWhereRead == Spec => []HeldByTheHubRead
<1>1. Init => HeldInv
  <2> SUFFICES ASSUME Init PROVE HeldInv
    OBVIOUS
  <2>1. \A h \in Hubs : Authentic(disk[h])
    BY DEF Init, Authentic, Empty
  <2>2. \A r \in Runs : Authentic(read[r])
    BY DEF Init, Authentic, Empty
  <2> QED BY <2>1, <2>2 DEF Init, HeldInv, HeldByTheHubRead
<1>2. TypeOK /\ HeldInv /\ [Next]_vars => HeldInv'
  <2> SUFFICES ASSUME TypeOK, HeldInv, [Next]_vars PROVE HeldInv'
    OBVIOUS
  <2>1. CASE UNCHANGED vars
    BY <2>1 DEF HeldInv, HeldByTheHubRead, Authentic, Record, vars, hubs, files
  <2> QED BY <2>1, HeldHub, HeldRun DEF Next
<1>3. HeldInv => HeldByTheHubRead
  BY DEF HeldInv
<1> QED BY <1>1, <1>2, <1>3, HubTypesHold, PTL DEF Spec
---------------------------------------------------------------------------
(* A hub nobody overlapped.                                                *)

\* What such a hub has on disk at each point of its start-up.
Alone(h) ==
    /\ h \in Live => Live = {h}
    /\ hpc[h] \in {"idle", "open", "write", "rename", "drop"} => ~ok[h]
    /\ hpc[h] = "write" => fd[h] = tmpAt /\ tmpAt \in Hubs /\ disk[tmpAt] = Empty
    /\ hpc[h] = "rename" => tmpAt \in Hubs /\ disk[tmpAt] = Record(h)
    /\ hpc[h] \in {"bind", "serving"} /\ ok[h] =>
           fileAt \in Hubs /\ disk[fileAt] = Record(h)

LoneInv == \A h \in Hubs \ overlap : Alone(h)

\* Its own steps take it from each point to the next, and nobody else can move
\* without overlapping it.
LEMMA LoneHub ==
    ASSUME TypeOK, LoneInv, NEW g \in Hubs, HubStep(g)
    PROVE  LoneInv'
<1> SUFFICES ASSUME NEW h \in Hubs, h \notin overlap' PROVE Alone(h)'
  BY DEF LoneInv
<1>1. /\ overlap \subseteq overlap' /\ h \notin overlap
      /\ Alone(h)
  BY DEF HubStep, Start, OpenTmp, WriteTmp, WriteFails, Rename, RenameFails, DropTmp, Bind,
         BindFails, Shutdown, Cleanup, Crash, ghost, LoneInv
<1>2. CASE g # h
  <2>1. hpc'[h] = hpc[h] /\ ok'[h] = ok[h]
    BY <1>2 DEF HubStep, Start, OpenTmp, WriteTmp, WriteFails, Rename, RenameFails, DropTmp,
         Bind, BindFails, Shutdown, Cleanup, Crash, Step, TypeOK
  <2>2. h \notin Live
    <3> SUFFICES ASSUME h \in Live PROVE FALSE
      OBVIOUS
    <3>1. hpc[g] \in {"idle", "gone"}
      BY <1>1, <1>2 DEF Alone, Live
    <3>2. Start(g)
      BY <3>1 DEF HubStep, OpenTmp, WriteTmp, WriteFails, Rename, RenameFails, DropTmp,
         Bind, BindFails, Shutdown, Cleanup, Crash, Step, Live
    <3> QED BY <3>2, <1>1 DEF Start
  <2> QED BY <1>1, <2>1, <2>2 DEF Alone, Live
<1>3. CASE g = h
  <2>1. \A f \in Hubs \ {h} : hpc'[f] = hpc[f]
    BY <1>3 DEF HubStep, Start, OpenTmp, WriteTmp, WriteFails, Rename, RenameFails, DropTmp,
         Bind, BindFails, Shutdown, Cleanup, Crash, Step, TypeOK
  <2>2. h \in Live' => Live' = {h}
    <3>1. CASE Start(h)
      BY <3>1, <1>1, <2>1 DEF Start, Live, Step
    <3>2. CASE ~Start(h)
      <4>1. h \in Live
        BY <3>2, <1>3 DEF HubStep, OpenTmp, WriteTmp, WriteFails, Rename, RenameFails, DropTmp,
           Bind, BindFails, Shutdown, Cleanup, Crash, Step, Live
      <4> QED BY <4>1, <1>1, <2>1 DEF Alone, Live
    <3> QED BY <3>1, <3>2
  <2> USE DEF Alone, Step, TypeOK
  <2>3. CASE Start(h)
    BY <2>2, <2>3, <1>1 DEF Start
  <2>4. CASE OpenTmp(h)
    BY <2>2, <2>4, <1>1 DEF OpenTmp
  <2>5. CASE WriteTmp(h)
    BY <2>2, <2>5, <1>1 DEF WriteTmp, Record
  <2>6. CASE WriteFails(h)
    BY <2>2, <2>6, <1>1 DEF WriteFails
  <2>7. CASE Rename(h)
    BY <2>2, <2>7, <1>1 DEF Rename, Record
  <2>8. CASE RenameFails(h) \/ DropTmp(h)
    BY <2>2, <2>8, <1>1 DEF RenameFails, DropTmp
  <2>9. CASE Bind(h)
    BY <2>2, <2>9, <1>1 DEF Bind, files, Record
  <2>10. CASE BindFails(h) \/ Shutdown(h) \/ Cleanup(h)
    BY <2>2, <2>10, <1>1 DEF BindFails, Shutdown, Cleanup
  <2>11. CASE Crash(h)
    BY <2>2, <2>11, <1>1 DEF Crash
  <2> QED BY <1>3, <2>3, <2>4, <2>5, <2>6, <2>7, <2>8, <2>9, <2>10, <2>11 DEF HubStep
<1> QED BY <1>2, <1>3

\* A hub that has had the host to itself is found under its own record, whatever
\* killed hubs left behind under either name.
THEOREM LoneHubIsFound == Spec => []LoneHubIsDiscoverable
<1>1. Init => LoneInv
  BY DEF Init, LoneInv, Alone, Live
<1>2. TypeOK /\ LoneInv /\ [Next]_vars => LoneInv'
  <2> SUFFICES ASSUME TypeOK, LoneInv, [Next]_vars PROVE LoneInv'
    OBVIOUS
  <2>1. CASE UNCHANGED <<hubs, files, ghost>>
    BY <2>1 DEF LoneInv, Alone, Live, Record, hubs, files, ghost
  <2> QED BY <2>1, LoneHub, RunLeavesHubs DEF Next, vars
<1>3. TypeOK /\ LoneInv => LoneHubIsDiscoverable
  BY HubAssumption DEF LoneInv, Alone, LoneHubIsDiscoverable, Discovery
<1> QED BY <1>1, <1>2, <1>3, HubTypesHold, PTL DEF Spec
=============================================================================
