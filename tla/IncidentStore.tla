---------------------------- MODULE IncidentStore ----------------------------
(***************************************************************************)
(* The incident lifecycle (plugins/incident): the command line and the     *)
(* dashboard open, close and reopen incidents and have postmortems written *)
(* for them, over the JSON files or the SQLite table.                      *)
(*                                                                         *)
(* Every worker (a command, a request) of every process works on the store *)
(* by itself: newStore makes a new fileStore per use, so the mutex in it   *)
(* excludes nobody else, and closing, reopening and writing a postmortem   *)
(* are a Get and a later Update of the whole record.                       *)
(***************************************************************************)
EXTENDS Integers, FiniteSets

CONSTANTS Workers,     \* commands and requests that run at the same time
          Process,     \* Workers -> the process a worker belongs to
          MaxSecond,   \* bound: seconds that pass
          MaxOps       \* bound: operations begun

IncidentAssumption ==
    /\ MaxSecond \in Nat \ {0}
    /\ MaxOps \in Nat

Processes == {Process[w] : w \in Workers}

\* newIncidentID: the second and the process's own counter.
Ids == (1..MaxSecond) \X (1..MaxOps)
NoId == <<0, 0>>

\* An incident; closedAt 0 is nil, "by" stands for its title and all that was
\* set when it was opened.
Incidents == [by : Workers, status : {"open", "closed"}, openedAt : 1..MaxSecond,
              closedAt : 0..MaxSecond, postmortem : BOOLEAN]
NotFound == [status |-> "not found"]

VARIABLES
    backend,   \* "file" or "db", the same for all here
    stored,    \* the store: id -> incident or NotFound
    now,       \* the second
    counter,   \* idCounter of each process
    pc,        \* where each worker is
    id,        \* the id it works on
    copy,      \* what it has read, or is about to write
    begun,     \* operations begun
    opened     \* kept for the properties: what Open has returned, as <<id, by>>

vars == <<backend, stored, now, counter, pc, id, copy, begun, opened>>

Init ==
    /\ backend \in {"file", "db"}
    /\ stored = [i \in Ids |-> NotFound]
    /\ now = 1
    /\ counter = [p \in Processes |-> 0]
    /\ pc = [w \in Workers |-> "idle"]
    /\ id = [w \in Workers |-> NoId]
    /\ copy = [w \in Workers |-> NotFound]
    /\ begun = 0 /\ opened = {}

Exists(i) == stored[i] # NotFound

\* A worker goes on to pc with a record in hand.
Goes(w, from, to, i, record) ==
    /\ pc[w] = from /\ pc' = [pc EXCEPT ![w] = to]
    /\ id' = [id EXCEPT ![w] = i]
    /\ copy' = [copy EXCEPT ![w] = record]

Begins == begun < MaxOps /\ begun' = begun + 1

Done(w, from) == Goes(w, from, "idle", NoId, NotFound)

---------------------------------------------------------------------------
(* Open.  A request that is not valid returns before anything happens.     *)

Opened(w) == [by |-> w, status |-> "open", openedAt |-> now, closedAt |-> 0,
              postmortem |-> FALSE]

\* Mutant of NextId: the id is the second alone.
SecondOnly(w) == <<now, 1>>

NextId(w) == <<now, counter[Process[w]] + 1>>

OpenStart(w) ==
    /\ Begins
    /\ counter' = [counter EXCEPT ![Process[w]] = @ + 1]
    /\ Goes(w, "idle", "create", NextId(w), Opened(w))
    /\ UNCHANGED <<backend, stored, now, opened>>

\* The INSERT OR IGNORE of the table.
InsertRow(w) ==
    /\ Done(w, "create")
    /\ backend = "db" /\ ~Exists(id[w])
    /\ stored' = [stored EXCEPT ![id[w]] = copy[w]]
    /\ opened' = opened \cup {<<id[w], w>>}
    /\ UNCHANGED <<backend, now, counter, begun>>

\* The file store looks first and renames its file into place later.
StatFile(w) ==
    /\ Goes(w, "create", "rename", id[w], copy[w])
    /\ backend = "file" /\ ~Exists(id[w])
    /\ UNCHANGED <<backend, stored, now, counter, begun, opened>>

RenameFile(w) ==
    /\ Done(w, "rename")
    /\ stored' = [stored EXCEPT ![id[w]] = copy[w]]
    /\ opened' = opened \cup {<<id[w], w>>}
    /\ UNCHANGED <<backend, now, counter, begun>>

\* "already exists": no row affected, or the file is there.
AlreadyExists(w) ==
    /\ pc[w] = "create" /\ Exists(id[w])
    /\ Done(w, "create")
    /\ UNCHANGED <<backend, stored, now, counter, begun, opened>>

---------------------------------------------------------------------------
(* Close, Reopen and postmortem: Get, change, Update.                      *)

Get(w, op, i) ==
    /\ Exists(i) /\ Begins
    /\ Goes(w, "idle", op, i, stored[i])
    /\ UNCHANGED <<backend, stored, now, counter, opened>>

Closed(record) == [record EXCEPT !.status = "closed", !.closedAt = now]

\* Mutant of Reopened: ClosedAt is left.
StatusOnly(record) == [record EXCEPT !.status = "open"]

Reopened(record) == [record EXCEPT !.status = "open", !.closedAt = 0]

\* Close and reopen do not ask what the status is, nor does the postmortem.
Changed(op, record) ==
    CASE op = "close" -> Closed(record)
      [] op = "reopen" -> Reopened(record)
      [] op = "postmortem" -> [record EXCEPT !.postmortem = TRUE]

\* Both backends overwrite the whole record; the files do not even ask whether
\* there is one.
Update(w, op) ==
    /\ Done(w, op)
    /\ backend = "db" => Exists(id[w])
    /\ stored' = [stored EXCEPT ![id[w]] = Changed(op, copy[w])]
    /\ UNCHANGED <<backend, now, counter, begun, opened>>

\* The model or the store fails, or the request is given up.
Fails(w) ==
    /\ pc[w] # "idle"
    /\ Done(w, pc[w])
    /\ UNCHANGED <<backend, stored, now, counter, begun, opened>>

\* A process ends, or is killed, and the next one counts from the start: every
\* command is a process of its own.
Restart(p) ==
    /\ counter[p] > 0
    /\ counter' = [counter EXCEPT ![p] = 0]
    /\ LET over(f, rest) == [w \in Workers |-> IF Process[w] = p THEN rest ELSE f[w]]
       IN  pc' = over(pc, "idle") /\ id' = over(id, NoId) /\ copy' = over(copy, NotFound)
    /\ UNCHANGED <<backend, stored, now, begun, opened>>

Tick ==
    /\ now < MaxSecond
    /\ now' = now + 1
    /\ UNCHANGED <<backend, stored, counter, pc, id, copy, begun, opened>>

Operations == {"close", "reopen", "postmortem"}

Next ==
    \/ \E w \in Workers :
        \/ OpenStart(w) \/ InsertRow(w) \/ StatFile(w) \/ RenameFile(w)
        \/ AlreadyExists(w) \/ Fails(w)
        \/ \E op \in Operations : Update(w, op) \/ (\E i \in Ids : Get(w, op, i))
    \/ \E p \in Processes : Restart(p)
    \/ Tick

Spec == Init /\ [][Next]_vars

---------------------------------------------------------------------------
(* What DORA makes of the stored incidents (plugins/dora/metrics.go).      *)

Recorded == {i \in Ids : Exists(i)}

\* The incidents whose time to restore is averaged: those with a ClosedAt.
Restored == {i \in Recorded : stored[i].closedAt # 0}

RestoreTime(i) == stored[i].closedAt - stored[i].openedAt

---------------------------------------------------------------------------

TypeOK ==
    /\ backend \in {"file", "db"}
    /\ stored \in [Ids -> Incidents \cup {NotFound}]
    /\ now \in 1..MaxSecond
    /\ counter \in [Processes -> 0..MaxOps]
    /\ begun \in 0..MaxOps
    /\ pc \in [Workers -> {"idle", "create", "rename"} \cup Operations]
    /\ id \in [Workers -> Ids \cup {NoId}]
    /\ copy \in [Workers -> Incidents \cup {NotFound}]
    /\ opened \subseteq Ids \X Workers

\* The ids two processes gave out are the same when both opened their n-th
\* incident within one second (store.go:229).
OneProcess(i) == \A o1, o2 \in opened :
    o1[1] = i /\ o2[1] = i => Process[o1[2]] = Process[o2[2]]

\* An incident that Open returned stays on record as it was opened, whatever
\* overlaps with it.  The table refuses an id that is taken; the files look
\* before they write, which is enough only within one process, whose counter
\* makes its ids different.
OpenedIsKept ==
    \A o \in opened :
        backend = "db" \/ OneProcess(o[1]) =>
            stored[o[1]] # NotFound /\ stored[o[1]].by = o[2]

\* DORA averages the time to restore over every incident with a ClosedAt, and
\* the dashboard counts incidents by status: whatever lifecycle operations
\* overlapped, the two agree on which incidents are over, and none was over
\* before it was opened.
RestoredAreClosed ==
    /\ Restored = {i \in Recorded : stored[i].status = "closed"}
    /\ \A i \in Restored : RestoreTime(i) >= 0
=============================================================================
