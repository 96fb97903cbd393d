# Verification of the distributed log analyzer

TLA+ specifications of the coordination code and of the log processing of this
repository, model-checked with TLC; ten components, the pairs of managers among them,
also have theorems proved with TLAPS. Paths in this file are relative to the repository; module
names are files beside it.

## 1. The system

A manager (`internal/manager`) keeps users, nodes, archives, reports, alarms and
settings in one bbolt file (`internal/store`) and serves the web interface. Workers
(`internal/worker`) store, extract, diagnose and search the log archives and
talk to the manager over HTTP. Two managers may form an active/standby pair with a
virtual address (VIP); the standby copies the active manager's database.

| Component | State | Operations | What makes it correct |
|---|---|---|---|
| HA state machine (`ha.go`, `ha_quorum.go`) | role, failure counter, VIP, switchover in progress | probe, failover, self-demotion, switchover, promote, demote, change of settings, restart | at most one active manager in the long run; a lasting failure is taken over; an active manager holds the VIP, the status tells the truth about it |
| HA replication (`ha_sync.go`, `store.go`) | database, `analyzer.db.sync_tmp`, last transaction number | download, 304, reload, crash and restart | the standby holds a past content of the active manager and catches up; an active manager loses no accepted writes |
| Node registry (`api.go`, `store.go`, `agent.go`) | node and decommissioned buckets | heartbeat, monitor, sweep, maintenance, add, remove, deploy | a dead worker is reported, a recovered one is back, a removed one stays out |
| Alarm center (`agent.go`, `store.go`, `api.go`) | alarm bucket, cooldowns, store mutex | report, aggregate, resolve, acknowledge, delete, clear | one open alarm per condition, none for a condition that is over |
| Archive lifecycle (`api.go`, `scheduler.go`, `retention.go`, `agent.go`) | archive and report records, worker's files | upload, extract, callback, retry, pin, edit, delete, retention | an archive leaves extraction; the outcome in the store is the worker's; deleted is deleted |
| Quota, users, admission (`api.go`, `store.go`) | user's quota and usage, tags | check, upload, edit, delete, users created, changed and deleted | usage is the sum of the archives and within the quota; tags are unique |
| Removal and migration (`api.go`) | archives of a node, files of its disk | migrate, delete, retain | the package is where the record says, and whole; what was moved or deleted is off the node |
| Retention and capacity (`retention.go`) | ages, pins, watermarks | cycle: expired archives, then emergency cleaning | protected archives stay; the watermark is reached if it can be |
| Extraction (`extractor.go`) | extracted tree, line notes | unpack in rounds, gather, merge by time | what fails is lost alone, a merged file is in order |
| Search (`searcher.go`) | hits, summaries, query cache | scan in chunks, collect, cache, page, cancel | every matching line is found once; what is cached is whole |
| Line index, Bloom index (`line_index.go`, `bloom_index.go`) | memory, file beside the log, lock of the file | build, save, load, evict | an index that is served is of the file that was seen |
| Rules engine (`rules/engine.go`) | automaton, report | match a line, diagnose a package | no match is lost to the shortcut, for patterns that keep their letters; a report is full or has every event |
| Template miner (`indexer/drain.go`) | clusters | preprocess, place, merge | a template stands for its lines and takes lines like its first one, unless worn down |
| Comparison, charts, AI, metrics, HTTP and sessions, web, scripts | - | - | not modelled, section 6 |

How they interact. Managers probe each other (`/api/ha/heartbeat`), ask each other
for promotion and demotion, and the standby downloads `/api/ha/snapshot`. Workers
send heartbeats every few seconds, alarms when a self-check fails, and callbacks when
an extraction ends; a manager forwards uploads, retries and clean-up orders to them.
All handlers of a manager share the store. Each store call is a transaction of its
own, and almost every handler reads a record in one and writes the whole record back in
another: most of what can go wrong in the manager is a copy that has become stale in between.
Only the alarm operations of the workers and `SetArchivePinned` are protected, by a
mutex and by one transaction. On a worker the goroutines of one search or one diagnosis share
a result under a mutex they give up between looking and adding, and those that
save an index share a file name.

Hard behaviours: crashes and restarts at any step, lost links and partitions, requests
served after the caller gave up, answers older than the state they are applied
to, goroutines nobody resumes, a database replaced while it is used, limits that several
goroutines pass together, borders of chunks, and shortcuts that must not lose a match.
`PROJECT.json` lists the weightiest as hazards, each at its line, with the properties that
would catch it and, where a property is conditional or absent, why.

## 2. Modules

| Module | Models | Values for TLC | Proofs |
|---|---|---|---|
| `HAFailover` | heartbeat, failover, quorum, self-demotion, switchover, restart of two managers | `MCHAFailover` | `ManagerProofs` |
| `HAReconfig` | one manager whose mode, peer and VIP are changed while it runs, stops and starts; peer and network are its environment | `MCHAReconfig` | `HAProofs` |
| `HASync` | snapshot replication and the reload of the store | `MCHASync` | `HAProofs` |
| `Replication` | what replication promises while roles stay put (abstract) | through `HASync!StandbyIsAPastActive` | the refinement, in `HAProofs` |
| `NodeRegistry` | worker registry of the active manager | `MCNodeRegistry` | `NodeProofs` |
| `AlarmCenter` | alarms from self-check to history | `MCAlarmCenter` | `RecordProofs` |
| `ArchiveLifecycle` | one archive from upload to deletion | its constants are numbers | `RecordProofs` |
| `Admission` | quota, ledger and tags of uploads | `MCAdmission` | `ManagerProofs` |
| `Placement` | on which worker packages are: uploads, removal of nodes, retention, deletion | `MCPlacement` | `NodeProofs` |
| `Searcher` | the pool, cap, cache and pages of searches | `MCSearcher` | `WorkerProofs` |
| `FileSearch` | search and reading in one file: chunks, Bloom index, context, line index | `MCWorkerUnits` | `FileProofs` |
| `IndexCache` | memory, file, lock and savers of an index | `MCWorkerUnits` | `WorkerProofs` |
| `Extractor` | unpacking of a package | `MCWorkerUnits` | - |
| `RuleMatching` | the rules on a line: words, automaton, full match | `MCWorkerUnits` | `WorkerProofs` |
| `Diagnosis` | the pool of a diagnosis and its limit on events | `MCWorkerUnits` | `WorkerProofs` |
| `Drain` | the miner of templates | `MCWorkerUnits` | `WorkerProofs` |
| `WorkerUnits` | composes `IndexCache`, `RuleMatching`, `Diagnosis` and `Drain`, with the assumptions on their constants | `MCWorkerUnits` | `WorkerProofs` |
| `WorkerFiles` | adds `Extractor` and `FileSearch` to that composition | `MCWorkerUnits` | `FileProofs` |

`Sums` and `Folding` hold lemmas about the sum and the fold of the community modules, and model no code.

`WorkerUnits` and `WorkerFiles` put together the parts of a worker that do not interact: a variable `unit` says
which of them a behaviour is about, and the variables of the others are "off". They are two modules because what is proved of the first holds
of the second too (`WorkerImplementsUnits`), and so of what the run checks, without the variables of a package in every proof.

Definitions beginning with a comment `Mutant:` are wrong variants of the definition
below them. They are not part of any specification; each is a bug a property must notice.

### HAFailover

`role`, `peerOnline`, `consecutiveFailures`, `vipActive`, `quorumPassed` and
`splitBrainBlocked` are the fields of `HAManager`. A probe is two steps: the peer
reads its role (`ProbeAnswered`), the prober takes its own lock and acts on the answer
(`HeartbeatSucceeded`, the branches of `markPeerFailure`). `Switchover` is a call in
stages and a request in flight: the peer may serve the request (`RequestServed`) after the
client timeout (`SwitchoverTimesOut`). The environment crashes managers, cuts
links, gateways and workers, and splits the network. The failure counter saturates at the
limit, since it is only compared with it. `Restart` takes the role from the configured mode: the role is not persisted. That each manager
restarts with the mode of its own is assumed here; that the mode is in the replicated database, and may be the peer's, is modelled in `HASync`.

### HAReconfig

One action per handler and per way a probe can end. `vip` holds what the manager
believes, what the kernel has, and which of the commands `ip addr add` and `ip addr del` have failed; `Bind` and `Release` note
the address as held or released either way, as the code ignores the errors. `loops` counts the heartbeat goroutines
(`UpdateConfig` starts one more each time it leaves standalone), `oneShots` its single
probes. Stopping is two steps because the process does not wait for its loops (`LoopEnds`, `Exit`).

### HASync and Replication

A call to `syncOnce` goes through the steps between which something else can run: the
question with the remembered number, the number read by the peer, the export, opening,
filling and verifying the temporary file, the rename under the lock, noting the number.
All calls of a manager share the temporary file; an open handle follows its file when
another call renames or removes it. A file is whole, partial, torn, blank, cut or empty: an export that fails at the peer
(`ExportFails`) ends as a regular answer with a cut or an empty body, which the standby verifies by opening it and renames over its own
database. Settings are part of the content: `Restart` takes the mode, and with it the role and the peer's address, from the settings
in the database (`main.go`, `runManager`), so a standby that has copied its peer's settings restarts as active and asks itself for
snapshots. `Copy` maps the number of writes in each database to `Replication`'s counters; a damaged or mixed database maps outside
of its range, one that a failed export has replaced, or any after a change of role, to `Lost`, which `Replication` allows only after a failure
or gives no further promise about.

### NodeRegistry

A worker is an address with up to three records, under the agent's own ID, the manager's
and the deployment's placeholder. Every handler that writes is split at its store calls and carries the
copies it read (`beat`, `monitor`, `raising`, `sweep`, `drain`, `adding`, `removing`, `deploying`): an addition clears the removal and saves the record in two steps,
a deployment looks, clears and saves, a removal reads, deletes and notes the removal of any ID, with a record or without. The age of the last heartbeat
has three values: fresh, past the monitor's limit, past that of the listing.
`GetNodeByAddr` returns the first record in key order; the order of two of the IDs depends on names, so both
are allowed.

### AlarmCenter

A worker sends one request at a time and forgets those that time out, which may
still be served. `mu` is the store's mutex: reports, resolutions by the worker and the clearing of the
history hold it between read and write; acknowledging, resolving by hand and
deleting do not. The ID of an alarm is the millisecond and the type.

### ArchiveLifecycle

`upload`, `callback`, `dispatch`, `edit` and `deletion` are the handlers and goroutines of the manager with the
copy each works on, `job` the worker's goroutine, `disk` what it has stored. A
callback has eight attempts in the code and `MaxAttempts` here; the bound exceeds the failures
that can be injected, as eight attempts exceed a short outage.

### Admission

A request takes one step per store transaction (`CheckUserQuota`, the listing for duplicate tags,
the forwarding to the worker, the look at the archive, `SaveArchive`, the two halves of `AdjustUserStorageUsage`) and `req` keeps what it
read. Uploads, edits of tags, deletions and the administrator's requests
about users run in a fixed number of slots. `alone` and `tagsAlone` are ghosts: whether requests
on the ledger of a user, or requests that check tags, have overlapped.

### Placement

`record` is the bucket of archives, `disk` the files of each worker, `node` the state of the node's
record. `upload`, `edit`, `removal` and `job` (the retention cycle, a user's deletion) are the actors, each with the list
of copies it works through. Archives are numbered by age; sizes are
whole megabytes as the code rounds them, the weight on the disk includes what a package unpacks to. Archives of one file name
share the file, as on the worker. `cut` has the files that are not whole, `torn` is a ghost: the names of which a write was cut and answered as whole, since the worker
ignores the errors of the last write and the closing. `alone`, `asked` and `deleting` are ghosts: of whose record
no two actors had copies, whose protection was acknowledged, whose clean-up was ordered.

### Searcher and FileSearch

`req` is a request from the look into the cache to its page, `work` the file each
goroutine has in hand. A goroutine reads the number of hits without the
lock of the append, so the model lets it see any length the slice has had
in this search. Cancellation may come at any step. `FileSearch` holds the scan of one file as operators over
a sequence of characters: cutting into parts at ends of line, the Bloom tokens of each chunk and
the skipping, the ring of context lines, and the window read from the nearest index entry.
Each is compared with a one-pass definition on every file up to the bound.

### IndexCache

Readers go through the two looks at the memory, the file, the lock of the file and the build; savers write
`.tmp` block by block and rename it. `inodes`, `tmp` and `idx` tell which file
a name means, as an open handle follows its file. `mixed` is a ghost: a rewrite of the log met a request or
a save, or two saves met.

### Extractor

The tree is a function from paths to files. Phases are those of `ExtractArchive`: opening the package,
unpacking nested archives in rounds, gathering the logs of one prefix in each directory with
compressed ones, and the listing. A file decodes, fails at its header or in its middle. What the code passes over is passed over: an
entry that cannot be created, opened, read or written (`EntryFault`), a last buffer of a decompressed log, a source or a write of a merge (`Faults`);
the archive, or the sources, are removed all the same. `lost` is a ghost with the logs of what has failed so.

### RuleMatching, Diagnosis and Drain

`RuleMatching` begins with the trie of the words of the rules, a node being the text that leads to it, and links of its first level. A step is a round of a loop of the code: the queue
gives the next child (`Visits`), the search for its failure link goes one link up or ends and takes over outputs (`Climbs`); then the line gets a letter (`Reads`), and the position in the
automaton goes one link up or arrives (`Goes`). A pattern is a sequence of branches of items, each with what is written in the pattern
and the texts it matches: literals, optional parts, choices, dots, escapes, letters in any case. Words are folded by `Lower`, of Unicode, lines by `LowerASCII` only. In `Diagnosis` each goroutine takes a file, reads `total` without the lock for its limit, and adds what it
found under the lock, cut to the size of the report. `Drain` keeps the clusters in the order they came, with the path of their first words, under
which they stay when a merge has changed the template. The search of the tree is whether the words lead to the path of a cluster: at each level by their own branch
if there is one, else by that of the wild card (`LeadsTo`). The ID of a cluster is `Digest` of the words of its first line, a constant that
need not be injective: the code takes 24 bits of an MD5.

## 3. Runs

| Run | Expect | Shows |
|---|---|---|
| `failover` | pass | two failures of any kind and a switchover: at most one active manager in the long run, failover and self-demotion when due, never a failover against a majority, a steady pair stays steady |
| `split_brain` | violation | a cut link between the managers is enough for two active ones |
| `settings` | pass | a pair is probed, its active manager holds the VIP, and the status is wrong about the kernel only as a failed command has left it, through changes of mode, stops and reboots |
| `replication` | pass | with one call at a time, two failures, failed exports among them, and restarts on replicated settings: refinement of `Replication`, 304 means same content, catching up |
| `concurrent_sync` | pass | two calls of the standby, a role change and writes on both sides: every call ends, a settled active manager loses no write |
| `registry` | pass | two failures and any two administrative operations: death alarmed, recovery cleared, removal effective and final |
| `alarms` | pass | two requests in service, one lost or late, two operations of the administrator: one open alarm, lasting faults shown, finished ones resolved and staying so |
| `archive` | pass | two failures and any two operations: extraction ends, the report arrives, the outcome is the worker's, deleted stays deleted |
| `admission` | pass | two users, two requests at a time: ledger, quota and tags hold for requests that do not overlap, whatever the others do |
| `placement` | pass | removals with migration beside retention, deletion, edits and uploads: packages stay where records say and stay whole where no write was cut, protected archives are spared, a cycle cleans enough, a removed node is emptied |
| `search` | pass | two searches with two goroutines over files that exceed the cap: kept results are whole or full, the overshoot is bounded, pages partition a result |
| `worker_units` | pass | unpacking, search and index of a file, cache of an index, rules, diagnosis and miner, each over its whole bounded input |

Bounds. Two managers are all the code supports. Two workers make the quorum
differ on the two sides of every partition; a majority of two is both, and `split_brain` uses three. A failover limit of two separates the first from the
deciding failure. Two failures allow a failure during the handling of another, a crash and a partition among them.
In `settings` three changes visit every mode and return, with two stops in between. In
`replication` three writes let the standby be behind by more than one and catch up in steps; in `concurrent_sync` the first standby has two calls, since a third repeats
what the second does to the shared file, and its peer none: the two managers share no temporary file.
In `registry`, `alarms` and `archive` the operations share one bound, so that every pair of them, and each one twice, meets in every order. `alarms` has six milliseconds,
more than alarms can be created in it, because a step the bound prevented would look like a
stuck handler. `archive` has four attempts of a callback for eight in the code: two failures cannot use up either.
`admission` has two of everything and four requests: two that overlap, one before and one after.
Quota two with sizes one and two makes an upload fit, fill and exceed it. `placement` has three archives, two of
which share a file name, one below a megabyte, and watermarks such that the disk may be below, between and above them;
two removals may move archives to and from each other's node. In `search` the files hold eight hits for a cap of two and two per file, and the
cache holds one item at most, so that every kept result is soon evicted. `worker_units` takes packages of up to three of eighteen entries (plain, rotated and compressed logs, nested, damaged and colliding
archives) and, in those of up to two, every single entry, source or write that may fail, files of up to six characters with chunks of one or two lines, an index of two parts with two readers, versions and builds, sets of up to two of thirteen rules
on lines of up to four letters, of which the two bytes of an umlaut are two, three files of up to three events for two goroutines and a report of five, and five lines of eight for a miner of two clusters: a template is worn
down by two lines and a fourth one is like its first.
Symmetry is used in `admission`, `placement` and `search`, whose temporal properties are about single
steps and name no element of the symmetric sets. Deadlock is not checked: a system whose bounds
are used up, or that is shut down, stops.

Fairness. A probe ticker, the sync ticker, the monitor and the heartbeats run for
ever and every client call has a timeout, so `Probe`, `Switch`, `syncOnce`, `Heartbeat`, `Monitor` and the steps of
a started handler are weakly fair. `AlarmCenter` needs strong fairness for a worker's report and
for the service of a request: a worker checks its conditions in turn at each
heartbeat, and another request or the mutex may be in the way each time it is asked, never for ever. In `worker_units` goroutines
that can go on do (`DiagnosisNext`, `IndexWork`). Nothing
makes a manager or a worker restart, a link heal, or an administrator act; properties that need
it say so (`<>[]Healed`, the condition of `FailoverHappens`). `Admission`, `Placement` and `Searcher` state safety only.

Guards in properties name what the code does not promise, and the model reaches the other side of each:
`DeadWorkerIsAlarmed` excludes listings by GET `/api/nodes`, `OneOpenAlarm` ends with the first acknowledgement, `ExtractionEnds` excludes
edits, crashes of the worker and a restart after a retry, `OutcomeIsTheWorkers` ends with the first retry,
`VipStatusIsTrue` is for one address until the first stop. `StandbyIsAPastActive` and `NotModifiedMeansSame` end with the first change of role or failed export,
`StandbyCatchesUp` begins when nothing fails, both databases are whole and the managers go by their own settings. `ActiveKeepsItsWrites`, `RemovedStaysOut`, `ResolvedStaysResolved` and
`DeletedStaysDeleted` begin when no download, heartbeat, report or handler holds a copy from before. `LedgerIsExact`, `UploadKeepsQuota` and `TagsAreUnique` are for
requests that did not overlap, `PlacementIsSound` and `RemovedNodeIsEmptied` for archives of whose record no two actors held copies at once (and, for the
package, with a file name of their own; whole it is where no write of the file was cut). `CleansEnough` is for packages that were on the disk when the cycle listed them and have a file name of their own. `IndexIsServed` ends when a rewrite meets a request or a save or two saves meet, `PackageIsUnpacked` is for packages whose files come to different places and, for a log, for its own entry, writes and source not having failed,
`TemplatesAreSound` excludes, for IDs and similarity, templates that were given lines with wild cards, and lets IDs collide when digests do;
`DiagnosisIsExact` is for rules whose items keep their letters (`Solid`), the skip scan of `FileIsSearched` for keywords whose tokens are whole words of a line inside one buffer.

## 4. Disagreements with the documentation

The run `split_brain` shows one: the promotion that a comment calls safe (`ha.go:386`) makes a second active manager. `PROJECT.json` quotes the line.

Where the guards of section 3 end, the models reach states a user of the system would not expect:

- A heartbeat between its check and its save brings a removed node back (`api.go:969`).
- An alarm resolved by hand is opened again by the report being aggregated (`store.go:1184`).
- A callback, a retry or an edit in progress saves a deleted archive again, without its files (`api.go:1340`, `scheduler.go:38`, `api.go:2010`).
- A manager promoted during a download loses the writes it has accepted since (`ha_sync.go:68`).
- A snapshot whose export fails replaces the standby's database with a cut or an empty one (`api.go:2404`).
- A standby that restarts on replicated settings comes up as active, or downloads from itself (`cmd/analyzer/main.go:105`).
- The status says the VIP is held, or released, although the command for it failed (`ha.go:511`, `ha.go:545`).
- A removal between the two transactions of an addition leaves a record that is decommissioned (`api.go:526`).
- A migration deletes the whole package after a copy of it was cut and answered 200 (`agent.go:298`, `api.go:657`).
- Two uploads of one user at once pass the quota together and lose updates of the ledger (`store.go:351`); two at once take the same tag (`api.go:1095`).
- The emergency cleaning subtracts packages another actor has already removed, and may stop early (`retention.go:196`).
- A migration leaves what it skipped recorded on a node that is gone (`api.go:648`).
- Two savers of an index publish a file half written, with a header that is accepted later (`line_index.go:215`).
- A keyword that is only part of a word is not found in a skipped chunk (`bloom_index.go:83`); a regular expression with an optional part, a choice or an escape such as `\b` loses matches (`engine.go:546`, `searcher.go:1083`), and so does a rule with a letter whose other case is beyond ASCII (`engine.go:51`, `:357`).
- Logs are lost where an archive is unpacked over a directory or file of its name, beside `d.1` and `d.1.gz` of one directory, or with a suffix in upper case (`extractor.go:629`, `extractor.go:437`); so are those of an entry, a source or a write that fails, as the archive or the sources are then removed (`extractor.go:638`, `:356`).
- A template worn down by lines with wild cards of their own no longer takes a line like its first one, which makes a second template of the same ID (`drain.go:260`, `drain.go:330`).
- Equal lines in another order give other templates, and a comparison of two archives counts equal templates apart (`drain.go:260`, `diff.go`).

## 5. Proofs

For every value of the constants that satisfies the named assumptions of the modules:

| Theorem | States |
|---|---|
| `ManagerProofs!FailoverTypeCorrect` | `[]FailoverTypeOK` |
| `ManagerProofs!ActivePastLimit` | who is active after a failed probe at the limit has a majority of its workers |
| `ManagerProofs!RolesSteady` | a pair nothing disturbs keeps its roles |
| `ManagerProofs!FailoverAgainstMinority` | in a clean partition a failover is only against a manager without quorum |
| `HAProofs!ReconfigTypeCorrect` | `[]ReconfigTypeOK` |
| `HAProofs!PairProbed` | a manager of a pair has a heartbeat loop |
| `HAProofs!VipHeld` | the active manager of a pair holds its VIP |
| `HAProofs!VipStatusTrue` | with one address, until the first stop, the status is wrong about the kernel only as a failed command has left it |
| `HAProofs!TypeCorrect` | `[]TypeOK` |
| `HAProofs!ActiveKeeps` | an active manager with a whole database and no download in hand begins none and loses no write |
| `HAProofs!StandbyFollowsActive` | with one call at a time, `HASync` refines `Replication`: failed exports and changes of role included, as what the copy is lost by |
| `HAProofs!UnchangedMeansSame` | while roles stay and the standby's database is whole, an answer 304 means the two stores are alike |
| `NodeProofs!RegistryTypeCorrect` | `[]RegistryTypeOK` |
| `NodeProofs!RemovalIsFinal` | a removed record that no handler is in the middle of writing stays out until it is added or deployed again |
| `NodeProofs!PlacementSound` | the package of a record that only one actor at a time had a copy of is where the record says, whole unless a write of it was cut, and no cycle holds a protected archive |
| `NodeProofs!NodeEmptied` | a removal that ends leaves on its node nothing it moved or deleted |
| `NodeProofs!CleansUntilTarget` | the emergency cleaning leaves a node at the target, or with everything on its list cleaned up |
| `RecordProofs!AlarmTypeCorrect` | `[]AlarmTypeOK`: one request holds the mutex, and it is in service |
| `RecordProofs!OneAlarm` | without acknowledgements a condition has one open alarm at most |
| `RecordProofs!ResolvedStays` | a resolved alarm nobody holds a copy of stays resolved |
| `RecordProofs!TypeCorrect` | `[]TypeOK` |
| `RecordProofs!OutcomeFounded` | until a retry the store says no more than the worker found |
| `RecordProofs!DeletedForGood` | a deleted archive nobody holds a copy of does not come back |
| `RecordProofs!ReadyFinal` | only a retry, or an edit begun before, puts a ready archive back into extraction |
| `ManagerProofs!TypeCorrect` | `[]TypeOK` |
| `ManagerProofs!TagsUnique` | while tag checks do not overlap, no two archives share a tag |
| `ManagerProofs!LedgerExact` | the usage of a user whose requests never overlapped is the sum of the user's archives |
| `ManagerProofs!UploadsKeepQuota` | no upload of such a user exceeds the quota |
| `WorkerProofs!ResultsSound` | a kept result of a search is whole or full, with bounded overshoot, summaries that add up and a bounded cache |
| `WorkerProofs!PagesPartitioned` | the pages of a result have each hit once |
| `WorkerProofs!ReportIsSound` | a report is within its size, without repetitions, and in the end full or complete |
| `WorkerProofs!IndexIsExact` | an index that is served is the whole one of the version the reader saw |
| `WorkerProofs!IndexBuiltOnce` | a further build of an index is paid for by a rewrite, an eviction or a restart |
| `WorkerProofs!IndexServed` | both, in the composition that the run checks: `[]IndexIsServed` |
| `WorkerProofs!AutomatonExact` | the automaton puts out exactly the rules one of whose words is in the line |
| `WorkerProofs!ShortcutLosesNothing` | the words of a pattern whose items keep their letters lose none of its matches |
| `WorkerProofs!DiagnosisExact` | the rules on a line and the report of a package are exact: `[]DiagnosisIsExact` |
| `WorkerProofs!TemplateNames` | a template that no line with wild cards has worn shares its ID with a later one only if the digests of different first lines collide, and a line like its first one finds a template |
| `WorkerProofs!TemplateCovers` | a template stands for every line counted for it |
| `WorkerProofs!TemplateSpecific` | a template keeps the words of its first line that the threshold asks for |
| `WorkerProofs!TemplatesSound` | the three, in the composition: `[]TemplatesAreSound` |
| `FileProofs!FileSearched` | a search in parts, past skipped chunks or in one pass, finds the first hits at their lines with their context, and a window is read right: `[]FileIsSearched` |
| `FileProofs!WorkerImplementsUnits` | what is proved of `UnitSpec` holds of `WorkerSpec`, the specification of the run |

The arguments. `ActivePastLimit` follows from the branches of `markPeerFailure` once the type
of the counter is known: one case per branch, `FailedProbeStep` tells which it was. `RolesSteady` is
not inductive alone: nothing keeps a probe from carrying a role the peer never had, and then
the primary would yield. The strengthening `Quiet` adds that without failures and switchovers everybody is up,
links are whole, no switchover is under way, and a probe in hand is idle or carries the peer's present role; `QuietInductive` shows
that it is preserved. `FailoverAgainstMinority` rests on `MajoritiesMeet`: two strict majorities of one finite
set of workers intersect, which is arithmetic on `Cardinality` from the library's theorems, and a clean partition gives each
worker to one side at most. In `HAReconfig` the invariants need the counters: the number
of loops is at most one more than the changes made, and at least one outside standalone; each kind of
step has a lemma of its own, and `NextFacts` combines them. `VipStatusTrue` needs that the process runs until its first stop
(a reboot of the host forgets the address only while it is down), and that binding and releasing the address, whichever commands fail, keep record and kernel in step as far as they have not failed (`TruthfulOperators`).

`ActiveKeeps`, `RemovalIsFinal`, `DeletedForGood` and `ResolvedStays` have one pattern: a state in which nobody holds an old
copy (`Settled`, `Out`, `Gone`, `Over`) is preserved by every step but the ones the property names, so that only the type invariant is needed beside it.
`RemovalIsFinal` goes through the handlers of the registry in two lemmas, the heartbeats of the workers and all others; a handler that has cleared or checked the
removal and not yet saved counts as one that holds a copy (`CopyHeld`).

`PlacementSound` and `NodeEmptied` rest on `PInv`. Neither property is inductive, since both are about a record that several actors save back from
copies. What keeps it right is that while one actor at most has a copy, the copy is the record, but for a migration that has just saved it with its new
node (`SoleCopy`). Then the package is where the record says, where an upload that was answered will make it say, and on the target of a migration before its save
(`Package`); an archive acknowledged as protected has its pin in the record, and no cycle lists it (`Protected`); and what a removal has
done with is off its node and with no other removal (`Left`). Nobody knows of an archive not yet recorded (`Waiting`, `Unknown`), which is why the
save of an upload meets nobody's copy. That the package is whole there is an invariant of its own (`Whole`): a copy that is cut without an error is `torn`,
and every other step that writes a file writes it whole or leaves what it had. A step about one archive leaves the others alone (`Quiet`, `QuietStays`), so that each action has a lemma about its own archive only (`Frame`).

`CleansUntilTarget` adds `Estimated`, again about sums. The estimate of the node in hand is never below what its disk takes together with all packages
the cycle has yet to delete (`Remaining`). When the node is taken that is its report, as the packages are on the disk. An order takes a package off the disk and
leaves the sum, the deletion of the record takes it out of the sum and at most as much off the estimate, and whatever other actors remove
only makes the sum smaller. Names of their own are needed because a package that two archives share would be subtracted twice. Every step is one of the
cycle or one it does not notice (`CycleCalm`, `CalmOrCycle`).

`StandbyFollowsActive` is shown step by step: every step of `HASync` is a `Write`, a `Refresh` or a stutter of the image under `Copy`
(`StepOfTheCopy`). The invariant is `Follows`. Contents are initial segments of the writes, since one manager alone accepts them (`Initial`). A transaction number tells a content: one the standby has seen is never above the active manager's,
and while it is equal the contents are equal (`Numbers`); saved settings take numbers without changing the content.
And each stage of a call holds at least what the standby has and at most what the active manager has (`Taken`, `CallFollows`), or what a failed export has sent, which is where overlapping
calls would break it. The active manager keeps its role, as the settings in its database are its own or those of the start (`PrimaryFollows`); a standby that restarts on settings it has
copied changes its role, and from then on nothing is said of it (`Follows`). The hypotheses, that no role changes by other means and calls do not overlap (`RolesStay`, `OneAtATime`), are the conditions of the run `replication`. `UnchangedMeansSame` reads the same invariant at the
answer 304.

`OneAlarm` needs three strengthenings. `Locking`: a request in service holds the mutex and is alone.
`Remembers`: the alarm a request has in mind is of its own condition. `Single`: without acknowledgements the request that holds
the mutex knows the open alarm of its condition, so a new one is saved only when there is none; operations of the administrator, which take no mutex,
save copies that are resolved.

`OutcomeFounded` adds what is not yet in the store: no step gives the record an outcome before the
job has it (`Unsaved`), and every copy of the record that a handler may save says no more than the worker found (`CopiesFounded`).
`TagsUnique` adds that a request between its check and its save has tags no other archive has (`Checked`), which
needs that what a request holds fits its stage (`Staged`).

`LedgerExact` needs sums over the records of a user. The sum of the community modules is a function on the subsets of a set that takes out one chosen element
after another; that the function exists, is the only one, and does not depend on which element is taken out first is proved in `Sums` with a smallest counterexample
(`MinimalSet`: a nonempty set of finite sets has a minimal member), which needs no induction over an operator (`SumsExist`, `SumTakeOut`, `SumPart`). The invariant `LInv`
says how far the ledger is off: while the one request of a user is between its change of a record and its change of the usage, the difference is the size it has
recorded and not yet charged, or released and not yet deleted (`Pending`), and it holds the usage it read only if that is still the usage (`OnItsOwn`); no two archives or requests
claim one archive for different users (`OneOwner`). A step of another user's request leaves that untouched (`StepOfOthers`), the user's own steps are taken one by one (`StepOfTheUser`). `UploadsKeepQuota`
adds that an admitted upload still fits (`Admitted`).

`ResultsSound` rests on `SInv`, whose parts per request are: a file is in the channel, in one goroutine's hand, or done with (`Handed`); its hits lie together in the result and in
order (`Segments`), so that summaries add up; the lengths a goroutine may still read are old lengths (`Counted`); each goroutine goes
beyond the cap once at most, as it has then read a length it has itself seen full (`Bounded`); and without cancellation a file is passed over
only when the result is full (`Covered`). A kept result carries what was true of its search (`Kept`), and `PagesPartitioned` adds that all pages with one
number are cut from one list without repetitions (`OneResult`, `Numbered`).

`ReportIsSound` is the invariant of a pool with a stale counter: a file is in the channel, with one goroutine, or done with (`Apart`);
the number a goroutine has read may be old, but its limit was then what the report had room for, and the room only shrinks, so that a cut leaves
the report full (`LimitsReach`); a report with room has every event of the files that are done (`Whole`), and goroutines end only when the channel
is empty or the report full (`Ends`).

`IndexIsExact` and `IndexBuiltOnce` rest on `CacheInv`. Why a crash in the middle of a save leaves nothing that is taken for an index: a saver opens, under the temporary name, a file to which
the name of the index does not lead (`OwnFile`: the two names never lead to one file, and a new build has a number neither of them has), and
renames it only after its last block; what is left of it is cut down by the next one that opens it. So the named file is always whole, of one version (`StoredExact`). While nothing
has mixed, there is one saver at most, its file is the temporary one and holds the blocks written so far (`SaversExact`), and whoever asks, builds or is served has parts of
one version only (`ReadersExact`). A build is paid for because under the free lock the memory lacks the version only if something was evicted, restarted or rewritten since the last build (`Paid`).

The three theorems about `Drain` rest on `MinerInv`. A word of a template is the one of its first line or wild (`Mined`). A line without wild cards agrees with a template
only where that still has the words of its first line, and there the template stays as it is, so that what was enough for the line is enough for the first line (`GrownIsMined`, `CloserStill`).
Where the tree leads a line like the first one of a cluster is where the cluster is: the branches have no words with digits, and every node above a cluster
is there (`LedToIt`). So a cluster that no line with wild cards has worn is a candidate for such a line (`FindsItself`), and a second one for the same line is never started; one with its ID is for a line whose digest collides.
The proof found an error in the property: as first stated it excused only the worn cluster, but it is the second one, not worn yet, that has a name already in use; with three
lines the run had never reached it, with four it did.

`AutomatonExact` is the correctness of Aho-Corasick for every set of words. A failure link of a node is its longest proper suffix that is a node; the links that exist are right (`Links`)
and what a linked node puts out are the rules whose words are suffixes of its text (`Outputs`). While the link of a child is sought, no suffix longer than where the loop stands leads on
with the last letter of the child (`Climbing`), and the queue goes level by level, so that the nodes the search passes are linked already. On a line the position is, where no letter is in hand, the longest suffix of the line that is a node; a word that ends at the last
letter is a suffix of that node, and what ended before has been put out (`Matching`).
`ShortcutLosesNothing` adds that a word of a rule is in what the rule matches: the longest literal of a branch is a part of its text without special characters (`LongestIs`), and if the items of the branch keep their letters, the
line has the letters of that part, folded, side by side wherever the branch matches (`KeptFollows`, `LiesIn`); what the special characters match lies between such parts. `Ends` and `Text` are folds of the community modules along a branch. `FoldLeft` is computed with a function that takes out one element after another; `Folding` proves what the
fold of the empty sequence and of a longer one is, and that what each step of a fold keeps holds of its result. Its step and its claim are constants with
parameters, so that a proof instantiates the module with its own operators and needs no theorem over an operator.

`FileSearched` is about what a search computes, so its invariant is only that the file is a text within its bound (`FileInv`); the rest is algebra of the operators, each
loop of the code being a fold with an invariant of its own (`Folding`). Reading lines: at an end of line nothing is in hand, so that the lines of a text are those up to any edge
followed by those after it (`TakenIs`, `LinesSplit`, `LinesBetween`); everything else speaks of a place in the file by the number of lines before it (`LinesTo`). The scan: the ring has the last
lines of what was read, in order, wherever its head is (`RingOf`, `RingPush`, `RingRead`); the hits that are out have all their lines after them and those waiting have all lines so far, and both together are the matching
lines (`Collected`). A full ring and hits waiting for their last lines meet at each line, which is why the order of feeding, looking and pushing matters (`CollectedFed`, `ScanFinds`). The parallel search: parts of a file
whose ends are edges give each its own matching lines, at their numbers if the parts either follow each other from the start or bring the number of their first line (`Parted`, `Numbered`, `Successive`, `JoinedIs`, `MergeIs`); the parts that
`calculateFileChunks` cuts follow each other and cover the file, since borders at ends of lines never go back (`NextLineMonotone`, `ChunksCover`). The Bloom index: its chunks begin and end at starts of lines and are numbered whatever the buffer,
and in a file read in one piece a filter has the tokens of all lines of its chunk (`BloomShape`, `BloomHolds`, `BloomIs`); what is left after skipping is still numbered, so hits keep their numbers (`ChosenAre`, `SkipFinds`). The line index: the entry k is
the offset after k steps of lines (`LinesNoted`, `LineIndexIs`), from which the window is counted (`WindowRead`). `FilesAssumption` says that bounds are natural numbers, parts, steps, chunks and the buffer at least one, and keywords texts. The loops of `FileSearch` are written with the fold of
the community modules and their steps have names, so that these invariants can be stated about them.

`IndexServed`, `DiagnosisExact` and `TemplatesSound` state the invariants of the run for the composition. `UnitsInv` says of each `unit` the invariant of its module; a step of one
unit leaves `unit` and the variables of the others alone (`NextUnits`). `IndexAssumption`, `PackagesAssumption`, `RulesAssumption` and `MinerAssumption` are what is assumed of the constants, evaluated by TLC in the run. They say that limits and bounds are natural numbers, that there is a goroutine, that a package lists
each of its files once, that `None` is no reader, index or save, that lines have words, the threshold is a percentage, the wild card has no digit, a special character is no letter, and a plain rule is one nonempty literal. The proof of `CacheInv` found what its first form lacked: a saver that
has not opened a file is at its first block, its index has all parts, and the number of a build under way is no saver's yet. TLC confirmed these invariants: `SInv` on the run `search`, `PInv` and `Estimated` on `placement`, `CacheInv` with two
readers, versions, parts and evictions and three builds.

The type invariants of `HASync`, `NodeRegistry` (`RegistryTypeOK`), `AlarmCenter` (`AlarmTypeOK`), `ArchiveLifecycle`, `Admission`, `HAFailover` (`FailoverTypeOK`) and `HAReconfig` are
proved and not repeated in the runs; those of `Searcher` and `IndexCache` follow from `SInv` and `CacheInv`, that of `Placement` is part of `PlacementIsSound`.

Model-checked only: everything under fairness (`ConvergesToOneActive`, `MinorityStepsDown`, `FailoverHappens`,
`StandbyCatchesUp`, `SyncCallsEnd`, `GoroutinesEnd`, the liveness of `NodeRegistry`, `AlarmCenter` and `ArchiveLifecycle`), which the prover
does not support; and `PackageIsUnpacked`. It compares what a whole extraction leaves on the disk with a definition of what the package holds, over trees of nested archives and rounds of unpacking;
TLC compares them on all packages up to the bounds.

## 6. Not modelled

Time is order: timeouts may fire at any moment their call is pending, ages have three
values. Passwords, sessions and permissions, request parsing, HTTP details, the contents of records
beyond what a property tells apart, and everything whose effect is output (web interface, charts, metrics, AI prompts, logs)
are left out. So are the shell scripts and the remote commands of a deployment, and rules, presets and
preprocessing scripts in the store, which are independent records written in one transaction each.
Within the components: context lines across the border of two chunks (the code gives none), the level filter, the
histogram and the folding of case in a search; which of the online workers an upload is sent to (any may be); false
positives of a Bloom filter (they only cost time); how a regular expression is parsed (an item is given with what it is written as and what it matches), and spaces at the ends of a word; files in the place of directories in a package where it is not the first that is found. The comparison of archives
subtracts the counts of templates, and inherits the order dependence of `Drain`.
`PROJECT.json` lists each component with its status and the reason.

## 7. What is left

- `WorkerReports`: which of two managers a worker's heartbeats and callbacks reach around a failover, composing the roles of `HAFailover` with `NodeRegistry`.
- Proofs about `Extractor`.
- The comparison of archives (`diff.go`) as a model of its own over `Drain`, and the choice of the worker (`scheduler.go`) compared with "an eligible worker, if there is any".

Hazards without a property, beside those `PROJECT.json` gives a note for:

- Pair: a standby accepts
  writes (`api.go:2376`); events of reports are not replicated (`store.go:979`); the process exits before the loop releases the VIP (`api.go:204`); a standalone manager
  made a backup keeps the VIP (`ha.go:207`), one made standalone may still be demoted (`ha.go:403`); a heartbeat interval of zero divides the timeout (`ha.go:277`).
- Nodes and alarms: a heartbeat overwrites a maintenance switch (`api.go:964`); an acknowledgement reopens a resolved alarm (`store.go:1267`); two nodes
  reported in one millisecond share an alarm (`store.go:1192`); keys used after their transaction (`store.go:1302`).
- Archives: a restart during a dispatch or an upload leaves the archive behind (`scheduler.go:32`, `api.go:1440`);
  workers are compared by different quantities and old resources (`scheduler.go:179`, `scheduler.go:218`); an upload may replace a file being extracted (`agent.go:287`).
- Workers: empty chart windows (`chart_engine.go:174`).
