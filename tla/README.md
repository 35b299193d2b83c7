# Exalm: formal models

TLA+ models of [exalm](../src/README.md), a Go command-line tool and web hub that
analyses clusters and logs, answers questions about them with a language model, and
applies fixes. The models are translated from the Go source; `PROJECT.json` names the
lines each definition stands for. TLC checks them on small instances and TLAPS proves
the main invariants for every value of the constants.

Contents: [inventory](#inventory), [modules](#modules), [runs](#runs),
[fairness](#fairness), [proofs](#proofs), [where the code disagrees with its
comments](#where-the-code-disagrees-with-its-comments), [observations](#observations),
[not modelled](#not-modelled), [plan](#plan).

## Inventory

About 38 000 lines of Go outside tests. One process per command; `exalm serve` is the
long-lived one (the hub), analyzer runs with `--open` are short-lived and either attach
to the hub or serve a dashboard of their own.

| Part (source) | State | Operations | Talks to |
|---|---|---|---|
| Investigation engine (`internal/investigate/engine.go`, `planner.go`) | process-wide id counter; one evidence cache per engine; locals of each turn | `Converse`: load or create, plan, execute, narrate, store | convo store, collectors, LLM; called by up to three chat handlers at a time |
| Evidence cache (`evidcache.go`) | conversations, their entries, two eviction orders, time of last use | `get`, `has`, `put`, `purge` | the engine, under the cache's mutex |
| Conversation stores (`internal/convo`) | one JSON file or one SQLite row per conversation | `Create`, `Get`, `Update`, two listings | the engine and the recall step |
| Web server (`internal/web/server.go`) | the report and its resolved-history, semaphores for fixes and chats, sessions | pages, `/api/chat`, `/api/fix`, `/api/findings/{id}/fix`, `/api/fix-all`, SSE, update pump, ticker | remediation, collectors, engine |
| Kubernetes plugin (`plugins/k8s`) | watch channel of capacity one, last client | collect, `RefreshFunc`, watch loop, `ApplyRemediation` | the cluster |
| Remediation (`internal/remediation`) | none | `FixableFromReport`, `OrderForBatch`, `ApplyAll` | the plugin's apply function |
| Hub discovery (`cmd/exalm/serve_hub.go`, `internal/web/ingest.go`, `sessions.go`) | `hub.json` and its temporary file, ports, the session registry | write and remove the record, probe, ingest | other processes on the host |
| Map-reduce analyzer (`internal/analyzer`) | a semaphore, a wait group, the partial results | chunk, map, reduce, back off, cancel | LLM |
| Investigation sessions (`internal/investigate/logsession.go`, `snapshot.go`) | the parsed events of a run under two caps, the snapshot a hub restored | append, query, page, snapshot, restore | analyzers, hub, chat |
| Log analyzers (`plugins/{syslog,httplog,iis,eventlog,cloudtrail,logs}`) | tables of symptoms, causes, checks, rules | parse, analyze, promote findings, the profile of a chat | sessions, engine, LLM |
| Kubernetes analyzers and chat (`plugins/k8s`) | the last snapshot | detect, propose fixes, collect evidence, rank and score | the cluster, the change ledger, engine |
| Anomalies (`internal/anomaly`), SLO (`plugins/slo`), DORA metrics (`plugins/dora/metrics.go`) | none | from buckets, samples and records to findings | analyzers, metrics backend, stores |
| Incidents (`plugins/incident`) | one file or row per incident; an id counter per process | open, close, reopen, postmortem | LLM, DORA |
| Deployments and webhook (`plugins/dora`, `internal/webhook`) | JSONL or table of deployments, JSONL of Terraform events | append, load, receive | Terraform Cloud |
| SQLite schema (`internal/store`) | database, applied migrations | open, three imports | the stores above |
| Terminal interface (`internal/tui`) | the screen, the form, the running command | keys, results | plugins |
| Change ledger, settings, SSH, MCP, LLM and git clients, one-shot plugins | see `PROJECT.json` | | |

**What is hard.** Hazards are listed with their lines in `PROJECT.json`; the themes are:

* *Read, work, write.* A chat turn loads a transcript, spends seconds with collectors and
  an LLM, and stores it; a fix reads the report, changes the cluster, collects and stores
  the report. Mutexes cover one read or one write, never the span.
* *Two times.* A turn uses the time it started as "now" throughout; a collection reads one
  list after another while the cluster changes. Both arrive late and out of order.
* *Bounded structures shared by concurrent users.* Cache caps with two eviction loops,
  semaphores that answer 429, a watch channel that drops.
* *Processes without a lock between them.* Hubs and analyzer runs share one discovery
  file, one temporary name and the host's ports, and can be killed at any step.
* *Failures in the middle.* A failed read, a failed store, a failed collection, one failed
  action in a batch, an answer that is lost.
* *Tables that meet.* What a reply concludes goes through a parser, a catalog of symptoms,
  checks with caps, patterns over texts, weights and rules: each is simple, and a case that
  one of them takes differently from another is hard to see and hardly ever tested.
* *Two readings of one input.* The model's prompt and the session, the report and the chat,
  the snapshot and the live cluster, a fix's target when shown and when applied.

**What makes each part correct.**

| Part | Properties |
|---|---|
| Engine and stores | a stored transcript consists of whole turns; a conversation whose turns do not overlap loses none; ids of new conversations are new; every admitted request is answered |
| Evidence cache | caps kept; order lists and entries agree; what is served is in the scope and the lifetime of what asked |
| Dashboard | the report is what one collection read, never mixed of two or blanked; it converges; a batch reports everything and is applied in order |
| Hub discovery | a hub that has the host to itself can be found; no secret survives an orderly end; sessions go only to the hub that was read; every run ends |
| Incidents, deployments, migrations | an opened incident is not lost, and counts as restored exactly while it is closed; an accepted delivery is in the log, and not counted more often; an import is whole and never brings old data back |
| Map-reduce analyzer | a report speaks for every chunk, a failure names its cause; the number of calls in flight is bounded; `Analyze` returns |
| Sessions | what a bounded corpus does not have is counted; the pages of the explorer show every match once |
| Analyzers and their chats | the model reads the errors the session has; a symptom is answered from its own lines; high confidence is earned, and never had about a pod that is well; a plan keeps the check that matters |
| Kubernetes fixes | the fix carried out is the one that was shown; `--namespace` is kept; a fix of a spec holds |
| Anomalies, SLO, DORA | a burst is reported and a reported one is one; an alert is its share of the budget; bad news never improves a band |
| Terminal interface | the result on the screen is that of the form behind it |

## Modules

| Module | Models | Code |
|---|---|---|
| `EvidenceCache` | the cache as a value with pure operations | `evidcache.go` |
| `TranscriptStore` | abstract store: a conversation is a growing list of whole turns, or is overwritten whole | what `convo.Store` promises |
| `Converse` | concurrent chat turns over one engine, one cache and one store | `engine.go`, `planner.go`, `internal/convo`, `serveChat` |
| `LiveDashboard` | requests, refresher and consumers over one report and one cluster | `server.go`, `remediation.go`, `k8s.go`, `serve.go` |
| `HubDiscovery` | hubs and analyzer runs over files, inodes and ports | `serve_hub.go`, `ingest.go`, `main.go` |
| `MapReduce` | the goroutines of an analysis by chunks | `internal/analyzer` |
| `Planner`, `Catalogs` | the plan of a turn, and the tables of all seven analyzers it is made from | `planner.go`, `intents.go`, every `profile.go` |
| `LogSession` | the corpus, its snapshot, its restoration and its pages | `logsession.go`, `snapshot.go` |
| `LogEngine` | what the log analyzers share: queries, collectors, hypotheses, confidence, promotion | `internal/investigate` |
| `Syslog`, `Httplog`, `Iis`, `Eventlog`, `Cloudtrail`, `Logs` | one analyzer each, as a record of its tables | `plugins/*` |
| `LogDiagnosis` | an analysis and the chats about it, for any of those analyzers | `LogEngine`'s sources, `plugins/*` |
| `KubeDiagnosis` | a chat about a pod: snapshot, live cluster, ledger | `plugins/k8s/{converse,symptoms,confidence,ownerchain,servicechain}.go` |
| `ClusterFixes` | collection, finding, fix, cluster, and back | `plugins/k8s/{analyzers,findings,remediate,collect}.go`, `server.go` |
| `Anomaly`, `Slo`, `Dora` | findings computed from the course of time | `internal/anomaly`, `plugins/slo`, `plugins/dora` |
| `Sums` | what the last two add up | `plugins/slo/burnrate.go` |
| `IncidentStore`, `Deployments`, `LocalDb` | the records on disk, their writers and their imports | `plugins/incident`, `plugins/dora`, `internal/webhook`, `internal/store` |
| `Tui` | screens, keys and the result of a run | `internal/tui/model.go` |
| `MCConverse`, `MCDashboard`, `MCDashboardStale`, `MCHub`, `MCComponents` | small instances for TLC | |
| `*Invariants` (two), `*Proofs` (six) | proofs | |

### EvidenceCache and Converse

A cache maps conversations to records `[entries, order, lastUsed]` and keeps the list of
conversations in order of creation, as the Go struct does. `Fresh`, `Touch`, `Put` and
`Purge` are the four methods; `StoreEntry` and `WithRoomFor` are the two eviction loops.
Keys are `collector|target` pairs and times are ticks of an abstract clock.

`Converse` runs each turn through the stages of `Engine.Converse`: `ReadCounter` and
`WriteCounter` (the unsynchronised `convoIDCounter++`, as a read and a write), `BeginTurn`
(load or create, set the focus), `StartPlan` (`buildPlan`: `has` for each step),
`ServeCached`, `LostCached`, `Collect` and `Unavailable` (`executePlan`, one action per
step and outcome), `Narrate` (the reply and the transcript in memory), `Persist` or
`Stored` / `NoRowUpdated` / `CreateRow` (the file store's one write, the SQLite store's
UPDATE and, when it matched no row, INSERT), `StoreFails` and `Return`. `Tick` moves the
clock at any moment; a turn keeps the `now` it started with, as the code does. `Restart`
kills the process: turns and cache are lost, the counter starts over, the store stays.
A message is a record of who spoke and which turn it belongs to; the text is left out.

`TranscriptStore` is the abstract specification. `Converse` implements it (property
`TranscriptsSpec`, theorem `EngineImplementsStore`): every step either leaves the stored
transcripts alone or replaces one of them by the transcript the writing turn had read, with
that whole turn at its end. The refinement maps a turn to the transcript it works from,
`Snap(t)`: a set of one from the read on, without the turn's own messages, and empty
before the read and after the write.

### LiveDashboard

The cluster is the set of problems it has; a finding is the problem it reports. A collection
makes `NLists` list calls one after another, each a step, while the cluster goes on changing
(`LoopList`, `RefreshList`); `ListOf` says which list a finding comes from. The error of a list
in `BestEffort` is dropped and leaves its findings out, that of any other list ends the
collection (`WithoutNext`). A request's collection runs under the request's context: it is cut
off by lists that fail from some point on (`RefreshMisses`), and what it has by then is stored
all the same. Findings that compare two lists, or that are read namespace by namespace, are
taken to come from one call. The refresher collects list by list and stores in a step of its
own, in analyze mode itself (`TickerStore`), in watch mode through the channel of capacity one
(`LoopPush` drops when it is full) and the pump (`PumpReceive`, `PumpStore`); under `exalm
serve`, `mergeLiveUpdates` stands in between with a channel of its own that drops as well
(`MergeReceive`, `MergeOffer`). `Setups` lists what to explore: a mode, a value of
`maxConcurrentFixes` and the requests that come. A request takes a slot, applies one item (by
id with a lookup, or by action without) or a batch item by item, collects and stores; every
failure branch of the handlers is an action. In `exalm serve`'s watch mode `RefreshFindings` is
nil and the handler's refresh does nothing: that is `NoRefresh`. `MCDashboardStale` adds a
history of what fixes removed, for the comment it disproves.

### HubDiscovery

A hub writes its record before it binds its port, as the code does. Files are modelled
down to the inode: `OpenTmp` is the open with O_TRUNC, `WriteTmp` the write (which over
another process's longer record leaves a torn file), `Rename` moves the name. `Crash` is
possible at every step of a hub. An analyzer run reads, probes, posts and, if any of it
fails, serves on the default port or ends with an error. The secret is random per hub,
so the hub's name stands for it.

### MapReduce

`TakeSlot` and `GiveUp` are the two branches of the select in `mapChunks`, `Work` the
goroutine of one chunk with `callWithBackoff` (`Call`, `Retry`, `Wake` and what cancels
them), job 0 the merging question, which runs in the caller. `stopped` holds the two
contexts: the user's, which `Interrupt` ends at any moment, and the map step's, which the
first failure ends. What a chunk says is left out; which chunks were answered is kept.

### Planner and Catalogs

`Catalogs` is the table of each analyzer: which checks a symptom and a question call for,
level by level, and which questions a reply suggests. `Planner` builds the plan from any
matching rows, any intents and any cached evidence, and follows a conversation through its
suggested questions.

### LogSession

The parser appends events under the caps of number and size (`Parse`, `AppendTo`), a run
hands its session to a hub (`Attach`), which caps it once more as it restores it
(`Restore`), and a user pages through it (`Page`) while a later run may replace it. A session
is compared with everything that was ever parsed.

### LogEngine, the six log analyzers and LogDiagnosis

A text is the set of tokens that the code's patterns find in it, a corpus a sequence of
bursts: an event, and how often its line is repeated. Each analyzer is a record of its
tables: how a line is read for the session and for the model (these are different parsers
in the code), which symptoms match which events with which classes and shares, their causes
and weights, its collectors, its rules of confidence, how its timeline is cut.
`LogDiagnosis` runs any of them: an analysis of an input (the session, what the model is
shown, the findings that are promoted) and then turns of the engine about any focus, with
diagnostics on or off and with or without an earlier conversation. It uses the plan of
`Planner`, and `LogEngine` for collecting, ranking (`MaxHypotheses`) and scoring.

### KubeDiagnosis and ClusterFixes

`KubeDiagnosis` is the same for a pod: a snapshot of the last collection, the cluster as it
is now and a ledger of changes, of which any may be out of step with the others, and the
collectors, weights and rules of `plugins/k8s`. Names are sequences of their parts between
dashes, because the code compares their prefixes.

Logs, earlier chats and resolutions of incidents may contain any words, those of the pattern
for endpoints included, because the code looks for that pattern in evidence of every kind.
`ConfidenceIsEarned` says what the rules accept, which is more than their reasons promise
(see [observations](#observations)): the pod's own status, CoreDNS, a change of what the pod
is named for in the last seven days, or anything that fits that pattern. Other logs, metrics,
pressure and configuration together are not enough. And no reply has high confidence about a
pod that is well, now and in the snapshot, with the one endpoint of its service, no change of
its own and nothing said of endpoints in its past, whatever its namesake in another namespace
suffers.

`ClusterFixes` closes the loop: a collection reads deployments, pods, services and
cronjobs and names what is wrong; the page shows findings with their fixes; a click, or a
`y` at the prompt of `exalm k8s fix`, carries out the fix that has the finding's id in the
report of that moment; `ApplyRemediation`'s patches are merge patches; controllers roll
deployments out; other people change the cluster in between. In these two modules a
collection is taken whole, unlike in `LiveDashboard`: their properties are about what comes
between a collection and its use.

### Anomaly, Slo, Dora

Each is a computation in the state of its module: a corpus grows by stretches of like
minutes, a service by samples, the records by deployments and incidents, and the analysis is
done of what there is. Medians, burn rates and shares are kept as fractions, so the models
have the code's comparisons without its floating point. `Slo` and `Anomaly` state what a
finding means without reference to how it is computed: a count of quieter minutes, a share
of the month's budget.

### IncidentStore, Deployments, LocalDb

Records on disk. An incident's id is the second and the process's own counter; closing,
reopening and writing a postmortem are a read and a later write of the whole record, by
workers of several processes, over files or the table; a process may be killed and count
anew. A webhook delivery is an event and then a deployment, it may fail between the two,
its answer may be lost, and it is delivered again. `LocalDb` is the start-up of runs that
import the older files once: the check is made outside the transaction, a file may have
lines that are bad or too long, and a run may be killed at any point.

### Tui

One action per key and screen, and the result of a run, which arrives on its own time. The
list and the viewport widgets are left out.

### MCComponents

These components share no state, and each is small: `MCComponents` instantiates them side
by side. An initial state says which component a behaviour is about; the others' variables
stay 0, and each property speaks of its own component. One run checks them all, without
multiplying their states. The constants' values are in `MCComponents.cfg`, the larger ones
as definitions of the module.

## Runs

| Run | Expected | Checks |
|---|---|---|
| `converse_cache` | pass | `TypeOK`, `CacheSound`, `ServedInScope`, `Answered` |
| `converse_store` | pass | `WholeTurns`, `SerialTurnsKeepHistory`, `TranscriptsSpec` |
| `converse_ids` | violation | `FreshIdsAreUnique` |
| `converse_known` | violation | `KnownIsContinued` |
| `dashboard` | pass | `TypeOK`, `ReportIsOneReading`, `BatchReportsAll`, `RestartsBeforeDeletes`, `Converges` |
| `dashboard_stale` | violation | `PollShowsPostFix` |
| `hub` | pass | `TypeOK`, `LoneHubIsDiscoverable`, `NoSecretLeftBehind`, `HeldByTheHubRead`, `RunsSettle` |
| `hub_running` | violation | `RunningHubIsDiscoverable` |
| `components` | pass | see below |
| `deployments_counted` | violation | `RecordedIsCounted` |
| `root_cause_fix` | violation | `RootCauseDoesNotRecur` |
| `restarted_service` | violation | `RemedyIsForACrash` |

`components` checks `TypeOK` and, of each component:

| Component | Property | What it says |
|---|---|---|
| `MapReduce` | `ReportIsWhole`, `FailureHasItsCause`, `Returns` | a report speaks for every chunk; a failure without an interrupt names what began it; `Analyze` returns |
| `Planner` | `NothingIsLeftUnchecked` | the first check of every symptom is in the plan, and that of the question as long as all of them fit |
| `LogDiagnosis` | `ErrorsAreRead` | what the session takes for an error is shown to the model, unless that list is full |
| | `SymptomShowsItsLines` | a reply shows a line of every symptom whose first check searches for it |
| | `FindingIsDiscussed` | with one or two findings, the chat weighs the cause that each of them names |
| | `ConfidenceIsEarned` | high confidence rests on lines of this corpus, or on a past that speaks of a change |
| | `UnitIsSeen` | a question about a unit is answered from the unit's events |
| | `TimelineShowsTheWorst` | no event worse than one that is listed is left out |
| `KubeDiagnosis` | `ConfidenceIsEarned`, `TimelineShowsTheWorst` | high confidence rests on the pod's status, CoreDNS, a change of seven days or what fits the pattern for endpoints, and is never had about a pod that is well; a symptom can be seen in the timeline |
| `Anomaly` | `BurstIsReported` | a burst over most of the minutes before, silent ones included, is reported, and a reported one is one |
| `Slo` | `AlertIsItsShareOfBudget` | an alert is raised exactly if its share of the month's budget has been burnt |
| `Dora` | `BadNewsNeverImproves` | a failed deployment or a new incident makes no band better |
| `LogSession` | `BoundedCoverageIsVisible` | what a bounded corpus does not have it counts, after any number of caps; pages show every match once |
| `Tui` | `ResultIsOfTheForm` | the result shown is of what is selected and typed in; one run at a time |
| `ClusterFixes` | `FixIsTheOneChosen`, `FixesStayInScope`, `SpecFixHolds` | a fix is the one shown; nothing outside `--namespace` changes; after added limits or a resumed job the finding does not come back |
| `LocalDb` | `RecordedImportsAreWhole`, `NeverGoesBack` | a recorded import missed no record; no import replaces newer data |
| `IncidentStore` | `OpenedIsKept` | an opened incident stays as opened; it counts as restored exactly while closed |
| `Deployments` | `AcceptedIsLogged` | what was answered "accepted" is in the log, and not counted more often than logged |

**Bounds, and why they are enough.**

* `converse_cache`: two turns, so that one can evict, expire or refresh what the other has
  planned to use; caps of one conversation and one entry, so that every put beyond the first is
  at both caps; two readings of the clock and TTLs of 0 and 1, so that one collector's entries
  expire within a turn and the other's do not. The bounds the code uses (32 conversations, 64
  entries) only make the evictions rarer.
* `converse_store`: three turns, so that two can overlap and a third can follow and read what
  they left; both stores; failing reads and writes; one restart (a restart takes a reading of
  the clock, of which there are two). Turns are interchangeable, so the run uses symmetry.
* `dashboard`: two findings of different kinds, the least for which the order of a batch means
  something; two requests; gates of one and two in the modes analyze and watch, so that a
  request is rejected and so that two run at once, and of one under `exalm serve`, whose second
  channel is about the refresher and not about requests, with one request, which re-collects
  nothing there; two lists, the second best-effort, each with a finding, so that a collection
  can be partial, and the two can be of different times; one change of the cluster from
  outside, besides those that the requests make.
* `hub`: two hubs, the least for which temporary files, records and ports collide; two runs of
  one analyzer, so that a session can replace another; two ports, one the default. A third hub
  adds no new pair of accesses to the two file names.
* `components`: three chunks for two slots and one retry, so that a chunk waits for a slot
  while two others fail or succeed. The plan's own cap of eight, and seven requests at it. Two
  bursts of lines, of which either may repeat twelve times: more than a search keeps, and as
  much as what a timeline keeps. One drift of the cluster between snapshot and turn; the second
  namespace is well, or its DNS is down. Three stretches of one or six like minutes, around the
  least baseline of five. Three samples, one, five and sixty-six hours apart, on both sides of
  each window. Caps of two events and three bytes, four lines, two runs. One plugin with two
  subcommands and one with one, two runs. Two namespaces with a deployment of the same name,
  one of the two crashing, one drift, one fix. Two processes, two records of each kind of entry
  and one write after the start, which an import can be older than. Three workers, two of one
  process; two seconds; three operations: two that open and one that changes what they opened.
  What the stores and the fixes promise is proved, so that these bounds may be small. Two
  commands, one Terraform run delivered twice. Windows of one day and seven, deployments in
  batches of one and twelve.
* `deployments_counted` has one command and two Terraform runs: two are needed for the second
  row to be ignored.

The runs stop when every turn, request or run has been used up, so deadlock is not
checked; that nothing waits for ever is stated as `Answered`, `Converges`, `RunsSettle` and
`Returns`.

## Fairness

* `Converse`: weak fairness of each admitted turn's steps. Every step of a turn is local
  computation or a call with a timeout (the LLM clients set 120 s, Ollama 600 s). Nothing
  is assumed of the clock, of new requests or of restarts.
* `LiveDashboard`: weak fairness of the refresher, of the merging goroutine and of the
  consumer: the ticker keeps ticking, a list call returns, with a list or an error, and a
  collection that fails is tried again at the next tick. Nothing is assumed of requests: one
  that never returns does not keep the dashboard from converging. `Converges` itself assumes
  what the code cannot do without: from some time on the refresher's lists fail no more,
  except where they had nothing to report.
* `MapReduce`: weak fairness of the caller and of each goroutine: the Go scheduler runs
  them, and a call of the model returns, because the HTTP clients have timeouts. An answer
  is not assumed: every call may fail.
* `HubDiscovery`: weak fairness of a run that has started; its HTTP client gives up after
  two seconds. Nothing is assumed of hubs.

The other modules state safety only: nothing in their code waits for anything.

## Proofs

All proofs are for every value of the constants under the named assumptions of each module
(`CacheAssumption`, `ConverseAssumption`, `DashboardAssumption`, `HubAssumption`,
`MapReduceAssumption`, `PlannerAssumption`, `IncidentAssumption`, `ClusterFixesAssumption`,
`LocalDbAssumption`, `DeploymentsAssumption`, `LogSessionAssumption`, `SloAssumption`,
`DoraAssumption`; those from `MapReduceAssumption` on are assumed together, as
`ComponentsAssumption` of `MCComponents`, which TLC evaluates in the runs of that module). They
say that caps and bounds are numbers, positive where zero makes no sense, that sets of findings
are finite and each finding comes from one list, and that `None` and `NoId` are not members of
what they are told apart from. Four say more about the data: in a cluster of `ClusterFixes`
every deployment has its pod, with the limits of its template unless a rollout is to do, and no
health is the name of another symptom; the files that `LocalDb` starts from are of before the
first write, so a record in them has the first version; and a command of `Deployments` is no
Terraform run. `PlannerAssumption` says of every catalog what `profile.go` of each analyzer
has: a row of symptoms, and an intent that has checks, has one check that comes first; those of
all rows are together no more than a plan has steps; and questions stand for intents that
messages can have. There are eight modules of proofs.

* `ConverseProofs`: every operation of the cache keeps `CacheOK` (caps, and order lists that
  name exactly the keys, once each). The hard case is `put` at the cap, where the same key must
  leave the list and the map and the new one must not be listed twice. From it, `CacheIsSound`
  and `TypesHold` follow by `SoundInv` (types and bounds together: an eviction is only typed if
  the order list names what the map holds). `HistoryIsKept` proves `SerialTurnsKeepHistory`. It
  is not inductive: nothing in it says what a turn between its read and its write has in hand.
  `KeepInv` adds that a turn which no other disturbed holds exactly the stored transcript,
  followed by its own messages if it has narrated. Steps are sorted into those that are quiet
  (`QuietStep`), the read (`BeginStep`), the reply (`NarrateStep`) and the write
  (`StoredStep`).
* `TranscriptProofs`: `EvidenceIsServedInScope` proves `ServedInScope`. Its invariant
  `ScopeInv` ties every cached entry to a turn that left it there (`FromTurn`): that turn has
  the entry's conversation, focus and time. It is inductive because a turn that has begun
  changes none of these, and because no operation of the cache makes an entry up
  (`NothingNew`): an entry that is there afterwards was there before or is the one just put.
  `TranscriptsAreWhole` proves `WholeTurns`, and `EngineImplementsStore` the refinement
  `TranscriptsSpec`. `WholeInv` says of what is stored, and of the transcript every running
  turn works from, that it is made of whole turns of turns that have returned; so a turn is not
  in what it is about to be put at the end of, and no transcript has it twice. A step is
  `Quiet` (it changes neither the store nor what any turn works from, or ends turns: a stutter
  or `Abandon`), a read (`BeginIsBegin`) or a write (`StoredIsCommit`).
* `LiveDashboardProofs`: `ReportIsAlwaysOneReading` from `ReadingInv`, which says of every
  place a collection can be on its way to the report (channels, goroutines, requests) that it
  holds a reading: for each list what the cluster had at some moment, those moments in the
  order of the lists, or nothing for a best-effort list. A collection on its way is a reading
  of the lists it has made, with nothing yet from those to come. It is inductive because a
  reading stays one as the cluster goes on (`ReadingsGrow`), and because the next list is read
  at the present moment, which no earlier list was read after (`NextListIsRead`).
  `BatchIsReportedInFull` and `BatchKeepsItsOrder` from `BatchInv`: what a request has tried
  followed by what it has left lists what it was asked for, once each and in order; applying an
  item only moves the boundary (`MoveHead`, `AppliedMoves`). That a listing of n findings with
  n entries and no repetition has all of them is the pigeonhole fact of the finite-set library.
* `HubDiscoveryProofs`: `NothingLeftBehind` (every name on disk has a hub still to see to it),
  `SessionsGoWhereRead` (a record on disk or in hand always belongs to the hub whose secret it
  holds, and a hub's port never changes once started) and `LoneHubIsFound` (a hub with the host
  to itself owns the temporary inode from its truncation on).
* `AnalysisInvariants`: the inductive invariants of the components that analyse and present,
  each by itself.
  - `MapInv` (`MapReduce`). The wait group and the semaphore count the goroutines that run (so
    the wait ends no sooner than they do, and the slots are never exceeded), every chunk is
    ahead of the loop, given up, running, answered or failed, and cancelled siblings have one
    of them to blame.
  - `PlanInv` (`Planner`): the plan of a turn is that of its symptoms and intents, both of
    which its catalog has. Why that plan leaves nothing unchecked is in `buildPlan`
    (`PlanIsPlanned`): the first levels of all requests come before every second one, a first
    level is one check, and what comes first twice is planned once; so up to the last of them
    the plan has no more checks than there are different first ones, and the cap cuts none of
    them off as long as these are no more than it. The first checks of all rows together are
    that few in every catalog (`Catalog`, which TLC evaluates for those of the seven
    analyzers); those of the questions are if symptoms and intents are. Rows and steps are
    taken in order by recursive functions; what these list is shown by a least counterexample
    (`RecursionIsDefined`).
  - `TuiInv` (`Tui`): on the running screen there is exactly one command, of the form behind
    it, on the other screens there is none.
  - `FixInv` (`ClusterFixes`): the identity of a finding (category, symptom, object) says what
    its fix is and changes, which is in scope (`FindingOK`), so a finding that is looked up
    again by identity has the fix that was shown. Findings that are as recent as the cluster
    cover everything of their kind there is to mend (`Covers`), and what was mended stays so
    until somebody else changes the cluster (`Mended`).
  - `SesInv` (`LogSession`): a session is the end of what was parsed, and its count of dropped
    events is where that end begins (`Kept`); appending, cutting down and handing over keep
    that because the end of an end is an end (`EndOfEnd`), and because there always is a cut
    that brings the caps back (`ExcessFits`). The pages of an explorer are the first matches of
    the session it reads (`Paged`). That `Matching` and `Bytes` are defined at all is shown by
    a least counterexample (`Least`).
* `RecordInvariants`: those of the components about records and metrics.
  - `IncidentInv` (`IncidentStore`), for any workers in any processes. What keeps an incident
    on record is that no id is given twice by the table nor by one process (`OpenedOnce`): a
    process's counter is behind none of the ids it is opening, two of its workers never open
    the same, and a file about to be renamed into place replaces none of the same process
    (`NothingReplaced`), also when the process was restarted and counts anew within the second.
    What makes it restored exactly while closed is that every record on file and in hand is
    proper (`RecordsAreProper`), since a stale copy that is written back is a whole record of
    its time.
  - `DbInv` (`LocalDb`): what was readable in the old files at the start stays readable, with a
    version, in the files and in what a run that is importing has read of them
    (`ReadsWhatWasThere`); a store whose import is recorded has a row for each; and no copy is
    newer than the last write. So an import, however stale what it read, only adds rows
    (`ImportOnlyAdds`).
  - `DepInv` (`Deployments`): for every Terraform run, deliveries are counted by where they
    are: those that were accepted or wrote their event are no more than the events in the
    webhook's log, those events and the deliveries still to write one no more than were
    delivered, and the deployments of the run on file and the deliveries between the two writes
    no more than the events. A step moves one delivery from one place to another (`AtMoves`,
    `OfGrows`).
  - `SloInv` (`Slo`): the samples are never more bad than all, and the findings and the summary
    are those of the samples as they are. Two sums over samples are compared through the
    recursive function that adds them up, by a least counterexample (`SumIsDefined`,
    `SumsCompare`); so a rate has a denominator whenever something failed (`RateIsKnown`), an
    objective that allows nothing alerts on the first failure (`NothingIsAbove`), and a
    threshold is the share of the budget times what the window is of the month
    (`ThresholdsAreShares`). `SloAssumption` has that no more requests fail than there are,
    which is up to the metrics backend, or to who wrote the file: the code does not look.
  - `DoraInv` (`Dora`): records have a time, and a weight that is a number. The property is one
    of a step, and what it takes is not the invariant but what a band is made of: the bands of
    a report are functions of five sums over its window (`BandsAreOfCounts`), a record that is
    appended adds its own share to each and nothing else (`WindowGrows`, `AppendAdds`, by
    `SumGrows`), a record that is bad has no share in the good ones, more failures make the
    failure rate no better (`FailuresAreMore`, `FailuresAreWorse`), and the lowest of the bands
    is no better when one of them is worse (`LowestIsWorse`).
* `AnalysisProofs`, `RecordProofs`: the properties of those ten components under the names by
  which the run `components` checks them. `MCComponents` lets one component move at a time
  (`OneStarts`, `OneMoves`), its instance is the one of the module of invariants
  (`MapIsTheSame` ... `DoraIsTheSame`), and `Invariant` says that the one that moves has its
  invariant.

Only model-checked are, of the run `components`, `TypeOK` and the properties of the analyses:
`BurstIsReported` is about the median of a window, which `Anomaly` takes from what `SortSeq`
makes of sequences of any length: the prover cannot expand it, and the library's theorems about
it take an operator as a parameter; `ErrorsAreRead`, `SymptomShowsItsLines`,
`FindingIsDiscussed`, `ConfidenceIsEarned`, `UnitIsSeen` and `TimelineShowsTheWorst` are about
the tables of seven analyzers and the queries over their lines (`LogDiagnosis`,
`KubeDiagnosis`), and hold of these tables and not of any. The liveness properties `Answered`,
`Converges`, `RunsSettle` and `Returns` stay with TLC: liveness under fairness and `ENABLED`
are out of the prover's reach. No module that theorems reach declares a `RECURSIVE` operator;
recursion is written as recursive functions.

## Where the code disagrees with its comments

Each of these is a run that TLC must find violated.

1. `converse_ids`: "newConvoID returns a process-unique conversation id" (`engine.go:65`);
   the counter is incremented by concurrent handlers without synchronisation, so two new
   conversations can share one id and one record.
2. `converse_known`: a conversation is started afresh "when it's empty/unknown"
   (`engine.go:186`); it is also started afresh, and then stored over the old one, when
   the store fails to read a known one.
3. `dashboard_stale`: "Re-collect so the next dashboard poll reflects the post-fix state"
   (`server.go:781`); a collection that began before the fix can be stored after it.
4. `hub_running`: the discovery file lets analyzer runs "find and authenticate to the
   running hub" (`serve_hub.go`); a second `exalm serve` that fails to bind its port
   replaces and then removes the running hub's record.
5. `deployments_counted`: the webhook makes "Terraform applies count toward DORA Deployment
   Frequency automatically" (`webhook.go:6`); its deployments have no id, and the table
   ignores all but the first of them (`sqlite_store.go:28`).
6. `root_cause_fix`: after a root-cause fix "the issue should not recur" (`classify.go:57`);
   a selector is fixed by a merge patch, which keeps the keys that the suggestion leaves
   out, so the service still selects nothing (`analyzers.go:491`).
7. `restarted_service`: the fix restarts the service "named in an SCM crash line"
   (`eventlog/profile.go:47`); its pattern also fits informational lines that name a
   service (line 33).

## Observations

What was seen while translating the code and is built into the models as it is. None is a
property of a run, because no line of the code or its documents promises otherwise, or
because it is not about a state that the models keep.

*Chats about logs.* A focus "/api" of a log without scopes is taken apart into scope and
unit (`logsession.go:319`). A unit given by itself is looked up in the scope that comes
first, although the comment says "when unambiguous". A search for exceptions may show
none. With three findings all causes of one may drop out of the four hypotheses. `panic` is
in none of the severity tables. An earlier conclusion that contains "change" earns the 75 of
httplog and iis; CloudTrail's rule of 70 holds for any corpus. The timelines of eventlog and
logs keep the first and the last twelve events, not the worst. A chart's points are ordered
by "15:04", which is wrong across midnight. Bare BSD syslog lines get priority 6 and never
reach the model. An event log export that is one JSON array gives no session events when it
is split into chunks, and IIS needs its `#Fields` line in every chunk. Typed statistics
become plain JSON on the hub.

*Chats about Kubernetes.* ConfigMaps and Secrets that a pod refers to become evidence of kind
"change" and lift "recent deployment". "MemoryPressure=False" counts as pressure, and "10
ready" fits the pattern `0 ready`. That pattern is looked for in all evidence, so a line of a
log, an earlier chat or an old incident that speaks of endpoints also counts as "confirmed by
live endpoint state" (`confidence.go:68`), whatever the endpoints are. "NONE selects this pod"
of the network policies is read as isolation. Policies and budgets that only have
matchExpressions match every pod. A change of the deployment `api` is attributed to pods of
`api-gateway`. The ledger is read for seven days where a rule says "within the last day".
Warning events of a pod are never evidence, so the rule of 90 needs CoreDNS. "No correlated
change in the last 30m" is always claimed. Ready endpoints are found by bare name across
namespaces.

*Fixes.* An add-limits patch overwrites a limit that exists. A fix for ImagePullBackOff names
the pod as if it were the deployment. A mismatch is reported though the selector matches a
pod that is running and not ready. `exalm serve` leaves `RefreshFindings` nil, so a fix
there shows only after the watch loop's next round. `Collect` drops the errors of most of its
lists (`collect.go:75`, 95, 99 to 117), and the collection after a fix ends with the request:
a browser that goes away can leave a report without the findings of later lists, as if they
were resolved, until the next round.

*Numbers.* A source that stops at the end of the corpus is never a drop; one whose errors
stop while its other lines go on reads as one that "stopped reporting". An outage without
good requests has no point in their series, is dropped by the join and reads green, as does
a service without samples. Objectives below about 93 % can never page. DORA is Elite when
all metrics are N/A, has no frequency when all deployments failed, and counts failed
deployments in the lead time.

*Elsewhere.* The change ledger has no caller that appends, and its reader never gets past a
malformed line. Esc on the form of a plugin with one subcommand leads to an empty list. A
suggested question may be suggested again.

## Not modelled

`PROJECT.json` lists every part with its status and the reason. Left out for good:
external services and their clients (LLM, git providers, Kubernetes API, Hubble,
Prometheus), prompts and prevention advice, formatting, redaction and reports, views of the
terminal interface, flags and dispatch, the MCP server's dispatch, the one-shot plugins
(chaos, Terraform, cost, notify) around external tools, the demo programs. The text of
messages, findings and evidence is a payload, or the set of what patterns find in it.

## Plan

Done: the chat engine with its cache and stores, its refinement of `TranscriptStore` and its
proofs; the live dashboard; hub discovery; the map-reduce analyzer, the planner, sessions,
the six log analyzers and the Kubernetes chat, fixes, anomalies, SLO, DORA, incidents,
deployments, imports and the terminal interface. What is left, most valuable first:

1. The reader of the change ledger and the listings of the conversation stores (the newest
   hundred rows are taken before the focus filter).
2. The evidence budget of a turn (`engine.go:283`): larger items are skipped, smaller later
   ones still fit.
3. Findings about nodes, storage, ingresses and policies in `ClusterFixes`, and the
   dashboard's history of resolved findings.
4. SSH: cancellation of a session and trust on first use.
5. Theorems about the log analyzers: what holds of any tables (a query shows lines of the
   session only, in order and up to its cap) stated apart from what holds of these.
