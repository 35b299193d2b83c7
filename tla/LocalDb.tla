------------------------------- MODULE LocalDb -------------------------------
(***************************************************************************)
(* Start-up of one run of exalm over the shared SQLite file: initStore     *)
(* (cmd/exalm/main.go) opens the database or falls back to the older file   *)
(* stores, and imports those files once (internal/store/migrate.go).       *)
(* Several runs may start at the same time; each may crash at any point.   *)
(*                                                                         *)
(* A record is its id and a version that grows with every write anywhere,  *)
(* so that an older copy can be told from a newer one.  An entry of a file *)
(* is readable, or of one of the kinds the importers treat differently.    *)
(***************************************************************************)
EXTENDS Integers, FiniteSets

CONSTANTS Runs,        \* processes
          Ids,         \* record ids
          Document,    \* the id of the one settings record, in Ids
          Legacies,    \* what the files may hold before the database exists:
                       \* store -> id -> entry
          MaxWrites    \* bound: writes by running processes

Stores == {"deployments", "incidents", "settings"}

\* An entry of a legacy store: a record, one without an id or that is no JSON
\* ("bad"), or, among the deployments, which alone are read line by line, a line
\* longer than the scanner's buffer ("long").
Kinds == {"good", "bad", "long"}
NoEntry == [kind |-> "absent", version |-> 0]
Entry(kind, v) == [kind |-> kind, version |-> v]

\* At first, every record has the same version, and what is no record may have any.
LocalDbAssumption ==
    \A l \in Legacies :
        /\ l \in [Stores -> [Ids -> [kind : Kinds \cup {"absent"}, version : 0..1]]]
        /\ \A s \in Stores, i \in Ids : l[s][i].kind = "good" => l[s][i].version = 1

VARIABLES
    legacy,    \* store -> id -> entry
    rows,      \* the database: store -> id -> version, 0 when there is no row
    keys,      \* schema_migrations: the stores whose import is recorded
    pc,        \* where each run is
    backend,   \* "db" or "file" once it is known
    read,      \* the legacy entries a run's import works from, if it is importing
    writes,    \* versions handed out
    original   \* kept for the properties: the ids readable from the start

vars == <<legacy, rows, keys, pc, backend, read, writes, original>>

Holds(s) == {id \in Ids : legacy[s][id] # NoEntry}
Importable(entries) == {id \in Ids : entries[id].kind = "good"}
NoEntries == [id \in Ids |-> NoEntry]

\* initStore imports the three stores in this order.
After == [deployments |-> "incidents", incidents |-> "settings", settings |-> "up"]

Init ==
    /\ legacy \in Legacies
    /\ rows = [s \in Stores |-> [id \in Ids |-> 0]]
    /\ keys = {}
    /\ pc = [r \in Runs |-> "down"]
    /\ backend = [r \in Runs |-> "none"]
    /\ read = [r \in Runs |-> NoEntries]
    /\ writes = 1
    /\ original = [s \in Stores |-> Importable(legacy[s])]

\* A run with entries in hand is between the check and the end of its import.
Importing(r) == read[r] # NoEntries

Step(r, from, to) == pc[r] = from /\ pc' = [pc EXCEPT ![r] = to]

---------------------------------------------------------------------------
(* initStore.                                                              *)

OpenDb(r) ==
    /\ Step(r, "down", "deployments")
    /\ backend' = [backend EXCEPT ![r] = "db"]
    /\ UNCHANGED <<legacy, rows, keys, read, writes, original>>

\* A warning, and this run works on the files.
OpenFails(r) ==
    /\ Step(r, "down", "up")
    /\ backend' = [backend EXCEPT ![r] = "file"]
    /\ UNCHANGED <<legacy, rows, keys, read, writes, original>>

\* alreadyMigrated is asked outside the transaction.  A missing file or
\* directory ends the import without recording it.
Check(r, s) ==
    /\ pc[r] = s /\ ~Importing(r)
    /\ IF s \in keys \/ Holds(s) = {}
       THEN pc' = [pc EXCEPT ![r] = After[s]] /\ UNCHANGED read
       ELSE read' = [read EXCEPT ![r] = legacy[s]] /\ UNCHANGED pc
    /\ UNCHANGED <<legacy, rows, keys, backend, writes, original>>

\* Mutant of Imported: INSERT OR REPLACE.
ImportedOver(s, entries) ==
    [id \in Ids |-> IF id \in Importable(entries)
                    THEN entries[id].version
                    ELSE rows[s][id]]

\* INSERT OR IGNORE of every readable entry.
Imported(s, entries) ==
    [id \in Ids |-> IF id \in Importable(entries) /\ rows[s][id] = 0
                    THEN entries[id].version
                    ELSE rows[s][id]]

\* Mutant of ScanFails: what follows the scan loop does not ask for its error,
\* and nothing behind the long line was read.
IgnoredScanError(entries) == FALSE

\* scanner.Err(): a line too long ends the scan of deployments.jsonl.
ScanFails(entries) == \E id \in Ids : entries[id].kind = "long"

\* What the scan of a file had read when it stopped: a part of it, if it failed.
Scanned(entries) ==
    IF \E id \in Ids : entries[id].kind = "long"
    THEN {[id \in Ids |-> IF id \in part THEN entries[id] ELSE NoEntry] :
              part \in SUBSET Importable(entries)}
    ELSE {entries}

\* The rows and the record of the import are one transaction.
Commit(r, s) ==
    /\ Importing(r) /\ Step(r, s, After[s])
    /\ ~ScanFails(read[r])
    /\ \E entries \in Scanned(read[r]) :
           rows' = [rows EXCEPT ![s] = Imported(s, entries)]
    /\ keys' = keys \cup {s}
    /\ read' = [read EXCEPT ![r] = NoEntries]
    /\ UNCHANGED <<legacy, backend, writes, original>>

\* The scan, a statement or the commit fails: rolled back, and initStore ignores
\* the error; the next start tries again.
Rollback(r, s) ==
    /\ Importing(r) /\ Step(r, s, After[s])
    /\ read' = [read EXCEPT ![r] = NoEntries]
    /\ UNCHANGED <<legacy, rows, keys, backend, writes, original>>

---------------------------------------------------------------------------
(* A run that is up writes to its own backend; it may end or be killed.    *)

\* The stores' own writes: a deployment is inserted once and never changed, an
\* incident is created and updated, the settings document is replaced.
Writable(s, id, present) ==
    /\ s = "deployments" => ~present
    /\ s = "settings" => id = Document

WriteDb(r, s, id) ==
    /\ pc[r] = "up" /\ backend[r] = "db" /\ writes <= MaxWrites
    /\ Writable(s, id, rows[s][id] # 0)
    /\ writes' = writes + 1
    /\ rows' = [rows EXCEPT ![s][id] = writes']
    /\ UNCHANGED <<legacy, keys, pc, backend, read, original>>

WriteFile(r, s, id) ==
    /\ pc[r] = "up" /\ backend[r] = "file" /\ writes <= MaxWrites
    /\ Writable(s, id, legacy[s][id] # NoEntry)
    /\ writes' = writes + 1
    /\ legacy' = [legacy EXCEPT ![s][id] = Entry("good", writes')]
    /\ UNCHANGED <<rows, keys, pc, backend, read, original>>

Stop(r) ==
    /\ pc[r] # "down"
    /\ pc' = [pc EXCEPT ![r] = "down"]
    /\ backend' = [backend EXCEPT ![r] = "none"]
    /\ read' = [read EXCEPT ![r] = NoEntries]
    /\ UNCHANGED <<legacy, rows, keys, writes, original>>

Next == \E r \in Runs :
    \/ OpenDb(r) \/ OpenFails(r) \/ Stop(r)
    \/ \E s \in Stores : Check(r, s) \/ Commit(r, s) \/ Rollback(r, s)
    \/ \E s \in Stores, id \in Ids : WriteDb(r, s, id) \/ WriteFile(r, s, id)

Spec == Init /\ [][Next]_vars

---------------------------------------------------------------------------

TypeOK ==
    /\ legacy \in [Stores -> [Ids -> [kind : Kinds \cup {"absent"}, version : 0..writes]]]
    /\ rows \in [Stores -> [Ids -> 0..writes]]
    /\ keys \subseteq Stores
    /\ pc \in [Runs -> {"down", "up"} \cup Stores]
    /\ backend \in [Runs -> {"none", "db", "file"}]
    /\ read \in [Runs -> [Ids -> [kind : Kinds \cup {"absent"}, version : 0..writes]]]
    /\ writes \in 1..(MaxWrites + 1)

\* No import brings an older copy of a record back, although two runs can both
\* find that nothing was imported yet (migrate.go:24) and one of them commits
\* its old copy after the other's record was changed in the database.
NoOlderRow == \A s \in Stores, id \in Ids : rows'[s][id] >= rows[s][id]

NeverGoesBack == [][NoOlderRow]_vars

\* An import that is recorded was whole: every record that was readable before
\* the database existed has a row.  A run killed half-way, or a deployments file
\* whose scan stopped at a line, leaves the import to the next start
\* (migrate.go:71-80).
RecordedImportsAreWhole ==
    \A s \in keys : \A id \in original[s] : rows[s][id] # 0
=============================================================================
