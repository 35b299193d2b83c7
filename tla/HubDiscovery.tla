---------------------------- MODULE HubDiscovery ----------------------------
(***************************************************************************)
(* How `exalm <analyzer> --open` runs find and join a running hub          *)
(* (cmd/exalm/serve_hub.go, internal/web/ingest.go, sessions.go): processes *)
(* that share one discovery file, one temporary name beside it, and the    *)
(* TCP ports of one host.                                                  *)
(*                                                                         *)
(* A hub's secret is random per run, so the hub stands for its secret.     *)
(* Files are modelled down to the inode: os.WriteFile opens with O_TRUNC   *)
(* and writes afterwards, and a rename moves the name, not the descriptors *)
(* other processes hold.                                                   *)
(***************************************************************************)
EXTENDS FiniteSets

CONSTANTS Hubs,         \* runs of `exalm serve`
          Runs,         \* analyzer runs with --open
          Ids,          \* analyzer names
          AnalyzerOf,   \* Runs -> Ids
          Ports,        \* ports a hub can be told to use
          DefaultPort,  \* the port an analyzer's own server uses
          None

ASSUME HubAssumption ==
    /\ DefaultPort \in Ports
    /\ AnalyzerOf \in [Runs -> Ids]
    /\ None \notin Hubs \cup Runs

VARIABLES
    hpc,       \* where each hub is
    port,      \* the port it was told to use
    ok,        \* writeHubFile succeeded, so this server takes sessions
    fd,        \* the inode the hub has open for writing, or None
    disk,      \* content of each inode (an inode is named by its creator)
    tmpAt,     \* inode hub.json.tmp names, or None
    fileAt,    \* inode hub.json names, or None
    listener,  \* who listens on each port, or None
    sessions,  \* each hub's registry, its last state once the hub is gone:
               \* analyzer |-> run, or None
    rpc,       \* where each analyzer run is
    read       \* the discovery record the run read

\* Kept for the properties only.
VARIABLES
    mishaps,   \* of {"killed", "unwritten"}: a hub was killed, or failed to write
    overlap    \* hubs during whose run another hub ran

files == <<fd, disk, tmpAt, fileAt>>
hubs  == <<hpc, port, ok>>
ghost == <<mishaps, overlap>>
vars  == <<hubs, files, listener, sessions, rpc, read, ghost>>

Empty == [kind |-> "empty"]
Torn  == [kind |-> "torn"]
Record(h) == [kind |-> "record", Port |-> port[h], Secret |-> h]

Live == {h \in Hubs : hpc[h] \notin {"idle", "gone"}}

Step(h, from, to) == hpc[h] = from /\ hpc' = [hpc EXCEPT ![h] = to]
RunStep(r, from, to) == rpc[r] = from /\ rpc' = [rpc EXCEPT ![r] = to]

Init ==
    /\ hpc = [h \in Hubs |-> "idle"]
    /\ port = [h \in Hubs |-> DefaultPort]
    /\ ok = [h \in Hubs |-> FALSE]
    /\ fd = [h \in Hubs |-> None]
    /\ disk = [h \in Hubs |-> Empty]
    /\ tmpAt = None /\ fileAt = None
    /\ listener = [p \in Ports |-> None]
    /\ sessions = [h \in Hubs |-> [id \in Ids |-> None]]
    /\ rpc = [r \in Runs |-> "idle"]
    /\ read = [r \in Runs |-> Empty]
    /\ mishaps = {} /\ overlap = {}

---------------------------------------------------------------------------
(* A hub writes its record before it has its port.                         *)

Start(h) ==
    /\ Step(h, "idle", "open")
    /\ \E p \in Ports : port' = [port EXCEPT ![h] = p]
    /\ overlap' = IF Live = {} THEN overlap ELSE overlap \cup Live \cup {h}
    /\ UNCHANGED <<ok, files, listener, sessions, rpc, read, mishaps>>

\* Mutant of OpenTmp: what an earlier process left under the name is not cut off.
OpenWithoutTrunc(h) ==
    /\ Step(h, "open", "write")
    /\ LET inode == IF tmpAt = None THEN h ELSE tmpAt
       IN  fd' = [fd EXCEPT ![h] = inode] /\ tmpAt' = inode
    /\ UNCHANGED <<port, ok, disk, fileAt, listener, sessions, rpc, read, ghost>>

\* The first half of os.WriteFile: open, create or truncate.
OpenTmp(h) ==
    /\ Step(h, "open", "write")
    /\ LET inode == IF tmpAt = None THEN h ELSE tmpAt
       IN  /\ fd' = [fd EXCEPT ![h] = inode]
           /\ disk' = [disk EXCEPT ![inode] = Empty]
           /\ tmpAt' = inode
    /\ UNCHANGED <<port, ok, fileAt, listener, sessions, rpc, read, ghost>>

\* The second half.  Over another process's record, which may be longer, this
\* one's may leave a tail that is no JSON.
WriteTmp(h) ==
    /\ Step(h, "write", "rename")
    /\ \E content \in {Record(h)} \cup (IF disk[fd[h]] = Empty THEN {} ELSE {Torn}) :
           disk' = [disk EXCEPT ![fd[h]] = content]
    /\ fd' = [fd EXCEPT ![h] = None]
    /\ UNCHANGED <<port, ok, tmpAt, fileAt, listener, sessions, rpc, read, ghost>>

\* The file cannot be opened or written: "hub ingest disabled", and the
\* dashboard is served without it.
WriteFails(h) ==
    /\ Step(h, "open", "bind") \/ Step(h, "write", "bind")
    /\ fd' = [fd EXCEPT ![h] = None]
    /\ mishaps' = mishaps \cup {"unwritten"}
    /\ UNCHANGED <<port, ok, disk, tmpAt, fileAt, listener, sessions, rpc, read,
                   overlap>>

Rename(h) ==
    /\ tmpAt # None
    /\ Step(h, "rename", "bind")
    /\ fileAt' = tmpAt
    /\ tmpAt' = None
    /\ ok' = [ok EXCEPT ![h] = TRUE]
    /\ UNCHANGED <<port, fd, disk, listener, sessions, rpc, read, ghost>>

\* Another hub has renamed the temporary file away.
RenameFails(h) ==
    /\ tmpAt = None
    /\ Step(h, "rename", "drop")
    /\ UNCHANGED <<port, ok, files, listener, sessions, rpc, read, ghost>>

DropTmp(h) ==
    /\ Step(h, "drop", "bind")
    /\ tmpAt' = None
    /\ UNCHANGED <<port, ok, fd, disk, fileAt, listener, sessions, rpc, read, ghost>>

Bind(h) ==
    /\ listener[port[h]] = None
    /\ Step(h, "bind", "serving")
    /\ listener' = [listener EXCEPT ![port[h]] = h]
    /\ UNCHANGED <<port, ok, files, sessions, rpc, read, ghost>>

\* Serve returns the error; the deferred cleanup runs as on a clean exit.
BindFails(h) ==
    /\ listener[port[h]] # None
    /\ Step(h, "bind", "closing")
    /\ UNCHANGED <<port, ok, files, listener, sessions, rpc, read, ghost>>

Freed(who) == [p \in Ports |-> IF listener[p] = who THEN None ELSE listener[p]]

\* Ctrl-C: the listener closes, and Serve returns.
Shutdown(h) ==
    /\ Step(h, "serving", "closing")
    /\ listener' = Freed(h)
    /\ UNCHANGED <<port, ok, files, sessions, rpc, read, ghost>>

\* Mutant of Cleanup: the record is left to the next hub to overwrite.
LeaveFile(h) ==
    /\ Step(h, "closing", "gone")
    /\ UNCHANGED <<port, ok, files, listener, sessions, rpc, read, ghost>>

\* cleanup: the file goes, whosever record it holds.
Cleanup(h) ==
    /\ Step(h, "closing", "gone")
    /\ fileAt' = IF ok[h] THEN None ELSE fileAt
    /\ UNCHANGED <<port, ok, fd, disk, tmpAt, listener, sessions, rpc, read, ghost>>

\* The process is killed: no cleanup, but the kernel takes back its port.
Crash(h) ==
    /\ h \in Live
    /\ hpc' = [hpc EXCEPT ![h] = "gone"]
    /\ fd' = [fd EXCEPT ![h] = None]
    /\ listener' = Freed(h)
    /\ mishaps' = mishaps \cup {"killed"}
    /\ UNCHANGED <<port, ok, disk, tmpAt, fileAt, sessions, rpc, read, overlap>>

HubStep(h) ==
    \/ Start(h) \/ OpenTmp(h) \/ WriteTmp(h) \/ WriteFails(h)
    \/ Rename(h) \/ RenameFails(h) \/ DropTmp(h)
    \/ Bind(h) \/ BindFails(h) \/ Shutdown(h) \/ Cleanup(h) \/ Crash(h)

---------------------------------------------------------------------------
(* An analyzer run: tryAttachToHub, then its own server if that failed.    *)

\* What a reader of hub.json finds: a missing file is no better than an empty one.
Discovery == IF fileAt = None THEN Empty ELSE disk[fileAt]

\* The hub that answers on the port of the record the run read, if one does.
Hub(r) == {h \in Hubs : listener[read[r].Port] = h /\ hpc[h] = "serving" /\ ok[h]}

ReadRecord(r) ==
    /\ Discovery.kind = "record"
    /\ RunStep(r, "idle", "probe")
    /\ read' = [read EXCEPT ![r] = Discovery]
    /\ UNCHANGED <<hubs, files, listener, sessions, ghost>>

\* Mutant of NoRecord: what does not parse is taken for a record all the same.
TrustAnyFile(r) ==
    /\ Discovery.kind # "record"
    /\ RunStep(r, "idle", "probe")
    /\ read' = [read EXCEPT ![r] = Discovery]
    /\ UNCHANGED <<hubs, files, listener, sessions, ghost>>

\* No file, or one that does not parse.
NoRecord(r) ==
    /\ Discovery.kind # "record"
    /\ RunStep(r, "idle", "local")
    /\ UNCHANGED <<hubs, files, listener, sessions, read, ghost>>

\* healthz says "hub": true.
ProbeOK(r) ==
    /\ RunStep(r, "probe", "post")
    /\ Hub(r) # {}
    /\ UNCHANGED <<hubs, files, listener, sessions, read, ghost>>

\* Nobody answers in time, or something that is no hub.
ProbeFails(r) ==
    /\ RunStep(r, "probe", "local")
    /\ UNCHANGED <<hubs, files, listener, sessions, read, ghost>>

\* Mutant of Ingest: the hub on the port takes whatever it is handed.
IngestAny(r) ==
    /\ RunStep(r, "post", "reply")
    /\ \E h \in Hub(r) : sessions' = [sessions EXCEPT ![h][AnalyzerOf[r]] = r]
    /\ UNCHANGED <<hubs, files, listener, read, ghost>>

\* handleIngestSession: the hub that has the port NOW checks its own secret, and
\* the session replaces the analyzer's previous one.
Ingest(r) ==
    /\ RunStep(r, "post", "reply")
    /\ \E h \in Hub(r) :
           /\ read[r].Secret = h
           /\ sessions' = [sessions EXCEPT ![h][AnalyzerOf[r]] = r]
    /\ UNCHANGED <<hubs, files, listener, read, ghost>>

\* Mutant of Refused: a refused session is offered again.
RefusedRetries(r) ==
    /\ RunStep(r, "post", "probe")
    /\ UNCHANGED <<hubs, files, listener, sessions, read, ghost>>

\* Not reachable any more, 403 for a stale secret, a bad snapshot, a timeout.
Refused(r) ==
    /\ RunStep(r, "post", "local")
    /\ UNCHANGED <<hubs, files, listener, sessions, read, ghost>>

Attached(r) ==
    /\ RunStep(r, "reply", "attached")
    /\ UNCHANGED <<hubs, files, listener, sessions, read, ghost>>

\* The hub has the session but the answer does not arrive within the timeout.
ReplyLost(r) ==
    /\ RunStep(r, "reply", "local")
    /\ UNCHANGED <<hubs, files, listener, sessions, read, ghost>>

ServeLocally(r) ==
    /\ listener[DefaultPort] = None
    /\ RunStep(r, "local", "serving")
    /\ listener' = [listener EXCEPT ![DefaultPort] = r]
    /\ UNCHANGED <<hubs, files, sessions, read, ghost>>

LocalBindFails(r) ==
    /\ listener[DefaultPort] # None
    /\ RunStep(r, "local", "error")
    /\ UNCHANGED <<hubs, files, listener, sessions, read, ghost>>

LocalStops(r) ==
    /\ RunStep(r, "serving", "done")
    /\ listener' = Freed(r)
    /\ UNCHANGED <<hubs, files, sessions, read, ghost>>

Attach(r) ==
    \/ ReadRecord(r) \/ NoRecord(r) \/ ProbeOK(r) \/ ProbeFails(r)
    \/ Ingest(r) \/ Refused(r) \/ Attached(r) \/ ReplyLost(r)
    \/ ServeLocally(r) \/ LocalBindFails(r)

Next == \/ \E h \in Hubs : HubStep(h)
        \/ \E r \in Runs : Attach(r) \/ LocalStops(r)

Spec == Init /\ [][Next]_vars

\* A run in progress gets on: its HTTP client gives up after two seconds.
FairSpec == Spec /\ \A r \in Runs : WF_vars(Attach(r) /\ rpc[r] # "idle")

---------------------------------------------------------------------------
(* Properties.                                                             *)

Contents == {Empty, Torn} \cup [kind : {"record"}, Port : Ports, Secret : Hubs]

TypeOK ==
    /\ hpc \in [Hubs -> {"idle", "open", "write", "rename", "drop", "bind", "serving",
                         "closing", "gone"}]
    /\ port \in [Hubs -> Ports] /\ ok \in [Hubs -> BOOLEAN]
    /\ fd \in [Hubs -> Hubs \cup {None}] /\ disk \in [Hubs -> Contents]
    /\ \A h \in Hubs : hpc[h] = "write" => fd[h] # None
    /\ tmpAt \in Hubs \cup {None} /\ fileAt \in Hubs \cup {None}
    /\ listener \in [Ports -> Hubs \cup Runs \cup {None}]
    /\ sessions \in [Hubs -> [Ids -> Runs \cup {None}]]
    /\ rpc \in [Runs -> {"idle", "probe", "post", "reply", "attached", "local", "serving",
                         "error", "done"}]
    /\ read \in [Runs -> Contents]
    /\ \A r \in Runs : rpc[r] \in {"probe", "post", "reply"} => read[r].kind = "record"
    /\ mishaps \subseteq {"killed", "unwritten"} /\ overlap \subseteq Hubs

\* A hub that takes sessions and has had the host to itself is discoverable:
\* the file holds its whole record, whatever killed hubs left under either name
\* before it started (writeHubFile).
LoneHubIsDiscoverable ==
    \A h \in Hubs \ overlap :
        hpc[h] = "serving" /\ ok[h] => Discovery = Record(h)

\* However hubs overlapped, once they have all stopped without being killed no
\* secret is left on disk: "removed on shutdown" (serve_hub.go).  Only a failed
\* write may leave a temporary file.
NoSecretLeftBehind ==
    Live = {} /\ "killed" \notin mishaps =>
        /\ fileAt = None
        /\ "unwritten" \notin mishaps => tmpAt = None

\* A session is only ever held by the hub whose record its run had read, though
\* the process behind the port may have changed since the read and since the
\* probe.
HeldByTheHubRead ==
    \A h \in Hubs, id \in Ids :
        sessions[h][id] # None =>
            /\ read[sessions[h][id]] = Record(h)
            /\ AnalyzerOf[sessions[h][id]] = id

\* Every analyzer run comes to an end of its own: serving locally, with an error, or
\* attached, which it tells its user, its session then being with the hub whose record
\* it read (unless a later run of the same analyzer has taken its place there).
RunsSettle ==
    \A r \in Runs :
        rpc[r] = "probe" ~>
            \/ rpc[r] \in {"serving", "error", "done"}
            \/ rpc[r] = "attached" /\ sessions[read[r].Secret][AnalyzerOf[r]] # None

\* The file's purpose in its header comment: analyzer runs "use [it] to find and
\* authenticate to the running hub".  So when one hub is running, no other is
\* starting or stopping, and none was killed or failed to write, there is a record.
RunningHubIsDiscoverable ==
    \A h \in Hubs :
        hpc[h] = "serving" /\ ok[h] /\ Live = {h} /\ mishaps = {}
            => Discovery.kind = "record"
=============================================================================
