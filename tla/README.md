# A TLA+ verification project for k4e-device-worker

The device worker runs on an edge device behind the yggdrasil dispatcher. It
receives configurations from the operator, runs the workloads they name as
podman pods under systemd, sends heartbeats, upgrades the operating system and
undoes everything when the device is disconnected. Beside that it runs Ansible
playbooks, collects and forwards metrics and logs, and copies the data of
workloads to a storage. This project models these parts in TLA+, checks the
models with TLC and proves their main invariants, and one refinement, with
TLAPS.

Paths below are relative to the repository; `workload/` etc. stand for
`internal/workload/` etc.

## 1. Inventory

| part | state | operations | talks to |
|---|---|---|---|
| device server (`server/`) | channel `configurationUpdates`, one goroutine per message | `Send`, `NotifyEvent`, the consumer loop | configuration manager, registration, ansible |
| configuration manager (`configuration/`) | `deviceConfiguration`, `initialConfig`, `device-config.json`, list of observers | `NewConfigurationManager`, `RegisterObserver`, `Update`, `Deregister` | calls every observer in turn |
| registration (`registration/`) | `registered`, list of deregistrables | `RegisterDevice`, retry loop, `Deregister` | dispatcher, all deregistrables |
| client certificates (`registration/certs.go`) | certificate and key in memory and in two files | `Renew`, `CreateDeviceCerts`, `WriteCertificate`, reload | registration |
| heartbeat (`heartbeat/`) | `ticker`, one goroutine per ticker ever made | `Start`, `Update`, push, `Deregister` | workload manager (events), OS, dispatcher |
| workload manager (`workload/manager.go`) | manifest and auth file per workload, `deregistered`, `eventsQueue`, `managementLock` | `Update`, `Deregister`, `StopWorkloads`, `PopEvents` | workload wrapper |
| workload wrapper (`workload/wrapper.go`) | none of its own | `Run`, `Remove`, `List`, `Stop` | podman, netfilter, mapping, systemd |
| mapping repository (`workload/mapping/`) | two maps and `workload-mapping.json` | `Add`, `Remove`, reload | – |
| systemd manager (`service/`) | services and `services.json`, unit files | `Add`, `Get`, `Remove`, `Start`, `Stop` | D-Bus |
| OS (`os/`) | requested commit, URL, two unbuffered channels | `Update`, `gracefulRebootFlow`, status | rpm-ostree, reboot listener |
| reboot listener (`cmd/device-worker/main.go`) | – | stops the services, reports completion | OS, everything it stops |
| ansible manager (`ansible/`) | two goroutines and two channels per message, wait group, events queue | `HandlePlaybook`, `execPlaybook`, `ExecutePendingPlaybooks` | server, dispatcher, heartbeat |
| ansible mapping (`ansible/mapping/`) | two maps and `playbook-mapping.json` | `Add`, `Remove`, `Exists`, reload | – |
| ansible events (`ansible/dispatcher/`) | none | results of a playbook into job events | ansible manager |
| metrics store (`metrics/metrics.go`) | the TSDB and its lock | `AddMetric`, `GetMetricsForTimeRange`, `Update`, `Deregister` | remote write, targets |
| remote write (`metrics/remote_write.go`) | client, CA file, `LastWrite` and its file, one goroutine | `Update`, `writeRoutine` | store, the receiver |
| metrics daemon and targets (`metrics/daemon.go`, `system.go`, `workload.go`) | map of targets, the last system configuration | `AddTarget`, `DeleteTarget`, observers | store, node_exporter |
| workload logs (`logs/`) | transports, writers, one podman goroutine per writer | `Update`, `WorkloadStarted`, `WorkloadRemoved` | podman, syslog |
| data transfer (`datatransfer/`) | storage, last successful copies, ticker | `Start`, `Update`, `WorkloadRemoved`, `Deregister` | the storage |
| hardware information (`hardware/`) | none | reads of the host | – |

What is hard about it:

* **Interleaving.** Message goroutines, the consumer, the DISCONNECT handler,
  the retry loop, heartbeat goroutines and the reboot listener run side by
  side; an update or a deregistration is not covered by any lock as a whole.
* **Partial failure.** A workload is deployed in some ten external steps, and
  whether it has to be deployed again is decided from its files alone.
* **Crash and restart.** Four files say what the process knew; each is written
  non-atomically and at a different moment from what it describes.
* **Waiting.** Two unbuffered channels and one time-out connect the updater
  and the reboot listener; two more, and another time-out, the handler of a
  playbook and its execution.
* **Delivery.** Samples are sent to a receiver that may not answer, or whose
  answer is lost, while the store expires them, the configuration changes the
  receiver and the process restarts.
* **Shared observers.** podman's events and configuration updates go through
  the same log, metrics and data transfer objects in two goroutines, mostly
  without a lock.

`PROJECT.json` lists the hazards one by one, with the line where each bites.

## 2. Modules

### WorkloadManager (`workload/manager.go`, `wrapper.go`, `mapping/`, `service/`)

One action per step of `Update` and `Deregister`: `pc` is the place in the
code of the goroutine that holds `managementLock`, `op` tells which loop it is
in, `todo` the workloads this loop has still to visit (in any order, which
includes the order of the configuration and that of a Go map). Every call that
can fail has a branch that fails, with what it may leave behind: the old
content or a truncated file, a pod that podman had already created, unit files
without a service. `Crash` may happen at any `pc`; `Restart` rebuilds the two
maps and the services from the files, and `RestartFails` is the start-up that
ends because a file is not JSON.

podman, netfilter and systemd are external and are modelled by what the code
sees of them: pods by id (a fresh one for each `play kube`, refused while a pod
of that name exists), removed by id or by podman's own name; chains per
workload; unit files. An empty or truncated manifest is the same to
`podConfigurationModified` as a missing one, so both are `None`.

`unfinished` is a history variable: the names whose last deployment or removal
did not run to its end. The code keeps the new manifest when `Remove` or `Run`
fails after it was stored, and the next update skips the workload as unchanged;
the invariants on the files except exactly these names.

### Heartbeat and DeviceWorker (`heartbeat/`, `server/`, `configuration/`, `registration/`, `main.go`)

`Heartbeat` has the tickers and pushes: a stopped ticker stops ticking, but its
push under way goes on and the tick its channel still holds is still received
(`buffered`). `DeviceWorker` extends it with the process: `waiting` is the set
of message goroutines blocked on the channel, `cpc`/`msg`/`k` the consumer in
`Manager.Update` (compare, observers one by one, write, swap), `dpc` the
DISCONNECT handler between two deregistrables, `retrying` the registration
loop. Observers and deregistrables without state in this module only take their
turn; that the heartbeat is one of the observers is an assumption
(`HeartbeatAssumption`, as `main` registers it). A crash loses what was in
memory, the accepted messages included. Two observers are more than a turn: the
workload manager, whose failures queue events, and the OS, whose `Update` may
send the reboot request (`cpc` = "signal") and wait for its completion or the
time-out ("await"). `listener` is the reboot listener as far as it matters
here: it stops the heartbeat's ticker (`hbs.Deregister()`, `main.go:222`), which
the history variable `quiet` records until a ticker is made again. If the
time-out came first, or the reboot fails, the device stays configured and
without heartbeats until its next update.

### OsUpgrade (`os/`, `main.go`)

`upc` is `OS.Update`, `lpc` the listener. A send on an unbuffered channel is
one step of both (`RequestReboot`, `Complete`). Requests are numbered modulo
two to tell the answer to the last request from an older one. rpm-ostree is the
commit offered, staged and booted; `HostReboots` may fall back (greenboot).
`stored` is the commit of the stored configuration, which start-up applies
before the listener exists. `playing` says whether handlers of playbooks are in
the wait group that were taken "before" the listener had waited for them, or
"after" it: `Send` starts a handler whatever the listener is doing, and one that
has timed out leaves the wait group although `ansible-playbook` goes on. So the
host may reboot under a playbook; what the code does promise, and
`RebootAfterStop` says, is that it waits for the handlers it found.

### Registration (`registration/`)

An attempt is a sequence of steps: the certificate request (with a new key, or
with the key there is when the certificate is a device certificate), the
answer, and `WriteCertificate`, which writes the certificate and then the key
and tries to put the old certificate back when the second write fails. A
certificate is its kind and the key it belongs to. Every write may fail or
garble its file; `Crash` may come between any two steps and `NewRegistration`
starts from the files. `cut` and `cutFirst` are history: a `WriteCertificate`,
and one of a first device certificate, did not run to its end. Neither is ever
reset, so that `FilesHoldGroup` says nothing after a first cut; `RenewalIsSafe`,
which depends on `cutFirst` only, goes on. The code does
not write the two files atomically, so a first certificate that is cut short
can leave a certificate and a key that do not match; the invariants say that
this is the only way.

### Ansible, AnsibleEvents (`ansible/`)

`handler` and `exec` are the places of the two goroutines of every message; a
send on one of their unbuffered channels is one step of both. `TimeOut` takes
the reader of the channels away. The repository is modelled with both its
maps, which are not inverse of each other when two messages have the same
content or the same file time: `Remove` takes the entry of the last time added
for the content. The clock of file times may stand still between two messages.
`NewAnsibleManager` reloads the mapping and `ExecutePendingPlaybooks` runs what
it names. `removedOk` is history: messages whose removal was written. `Post` is
the `Send` of the results, which has no deadline and is outside of the `select`
on the time-out (`ansible_manager.go:206`): nothing makes it return.

`AnsibleEvents` is `eventTransformer`, which a handler calls when it posts the
results: `i`, `task` and `host` are where its three loops are, and every action
appends the event the code appends there. The task's id changes in the results
when it is renamed; `number` is what was appended to it. An event keeps the
place in the results that its other fields are copied from. The results are
any in `Results`; that they come from a handler does not matter to them, so the
module stands beside `Ansible`, where results are opaque.

### MetricsStore, RemoteWrite, SampleForwarding (`metrics/metrics.go`, `remote_write.go`)

The store holds samples (series and millisecond); scrapes add, retention takes
away, a change of the retention closes and opens it. A scrape is two steps:
`AddMetric` takes the time and appends (`pending`), `Commit` makes the sample
readable, any time later, both under the shared lock that `Update` and
`Deregister` take exclusively (`Locked`). `RemoteWrite` extends it
with `Update` (client, CA file, start of the goroutine) and the goroutine:
`getConfig`, the loop over ranges, the skip to the first sample, the read, the
batches that cut series in two, the send with its retries and the record of the
end of the range. `settled` are the samples the receiver has answered for (taken or refused), `late`
those committed when reading had already passed their time (`Passed`): in the
last millisecond of a range, or by a goroutine that took its time between
`time.Now()` and `Commit`. The code does not come back for them, and they are
what `NothingSkipped` excepts.

`SampleForwarding` is the abstract specification: samples, a cursor that passes
none that is not settled or late, and restarts that may fall back but never run
ahead. `Forwards` says that `RemoteWrite` implements it under the mapping
samples, settled, late and LastWrite.

### MetricsTargets, WorkloadLogs, DataTransfer, Observers

The first three have the state and the operations of the metrics daemon with
the system and workload metrics, of the log targets and of the data transfer
monitor. `Observers` composes them: `pod` and `stream` are podman's pods and its
events, `loop` the goroutine that hands one event to the observers in the order
of their registration, `update` a configuration update on its way through the
same components, `tick` the monitor. The unlocked reads and writes of
`WorkloadStarted` (look-up of the transport, insertion of the writer, start of
its goroutine) are steps of their own, so that an update comes in between.

An event carries podman's name of the pod (`PodmanName`), not the workload's:
`podman.go:172` and `185` take it from podman and `wrapper.go:110` and `117` hand it
on, without the mapping that `List` applies (`wrapper.go:154`). The pod is named
like the workload in its manifest (`toPod`, `manager.go:465`); podman adds `_pod`
where a container has that name, which is what `GenerateSystemdService`
(`podman.go:317`) expects. So both kinds are modelled, and the observers look up
what they are given. For a pod with another name the metrics find no
configuration and add no target, the logs find no transport, and a stop
deletes nothing: the writer that the logs' `Init` made under the mapped name and
the times that ticks store under it stay. `NothingLeftBehind` is a property of
pods named like their workload, and says so.

The stream may end at any time (`StreamEnds`): `system.Events` fails, or podman
closes the connection and the vendored binding closes the channel. The worker
logs an error at most and does not subscribe again, so that later starts and
stops reach nobody.

History variables name what the code cannot help: `leaked` log goroutines whose
writer was overwritten, `stale` workloads that stopped before the stream began
or after its end, or were copied by a tick after they were gone, and `odd` what
the last update failed to bring about (system metrics, storage), which the next
one clears.

Each `MC…` module gives the constants of its module their values for TLC. Definitions whose
comment says MUTANT are wrong versions of the definition they precede. No
action uses them; put in the place of the original, each makes the property it
belongs to fail, which shows that the property is sensitive to that mistake.

## 3. Runs

| run | shows |
|---|---|
| `workloads` | passes. The maps are inverse of each other; a manifest tells the truth about pod, service and ports; an `Update` or `Deregister` that returns no error has done what it says; nothing is created after a deregistration |
| `worker` | passes. One live ticker; no event reported twice; file, memory and observers agree; a configured device sends heartbeats unless a graceful reboot has stopped them; messages are consumed unless the consumer stays in an observer for good, and the retry loop ends |
| `os` | passes. No reboot before all services are stopped and the playbooks taken before the wait are done, or the time-out; a late completion is never taken for the answer to another request |
| `registration` | passes. Between attempts files and memory hold one matching pair unless a write was cut short; a renewal is safe whenever it is cut; `registered` is set only with a device certificate; the key is never replaced once there is one; a device without a configuration is registered in the end |
| `ansible` | passes. A playbook in execution is in the mapping file, a finished one is not; the wait group counts the waiting handlers; every handler returns unless the `Send` of its results does not |
| `ansible_events` | passes. Events are numbered over all plays and framed play by play; every start is followed by the outcome of its host, once for every host of every task; uuids tell tasks apart although ids are repeated |
| `remote_write` | passes. No sample is passed over unless it was committed too late; one goroutine writes; the CA file of the client exists; requests are within their size; `RemoteWrite` implements `SampleForwarding`; with a receiver that answers the writer catches up |
| `observers` | passes. Once the stop of a workload is handled under its name nothing is left of it; a log goroutine can be stopped through its writer; system target and storage follow the configuration |
| `worker_unauthorized` | violated: the heartbeat's `reg` is nil, a 401 ends the process |
| `worker_config_file` | violated: an update under way writes the file the DISCONNECT handler has deleted |
| `workloads_stop` | violated: services reloaded from `services.json` have no D-Bus connection, `Stop` panics |
| `os_return` | violated: the reboot request of a stored configuration is sent before its receiver is started, and start-up waits for ever |

The four violated properties each state what a comment or a test of the
repository says; `findings` in `PROJECT.json` quotes the lines. The send of
`os_return` also blocks a process that serves: after a time-out nobody takes the
listener's completion, and if the reboot fails the next upgrade finds the
listener blocked (`UpdateReturns` with `main = "serving"` on its left side is
violated, too).

### Bounds

* `workloads`: two names (and podman's two own names), four specifications
  (plain, with ports, with an illegal port, unparsable), one auth file, four
  configurations that add, change, keep and remove a workload, three pod ids,
  `MaxFaults` = 2 failing calls or crashes. Two faults let a failure be
  followed by a crash, or by a failure of the clean-up; ids are reused once
  nothing refers to them. The number of operations is not bounded.
* `worker`: `MaxMessages` = 2 so that two messages may be swapped, or one may
  arrive on either side of a DISCONNECT; `MaxFaults` = 1 crash or failed write;
  three tickers (one per start or update of one process); one event; three
  configurations, two of which differ only in their version. The workload
  manager, the OS and the heartbeat stand for the nine observers, and workload
  manager, configuration manager and heartbeat for the six deregistrables, in
  `main`'s order: those without state are interchangeable. `LateMessages` lets
  messages arrive after a DISCONNECT; `worker_config_file` needs none.
  491,576 states.
* `os`: two commits (symmetric), `MaxFaults` = 3 failing commands, time-outs
  and exits: a time-out, a failed reboot and one more. Any number of playbooks.
  494,288 states. `os_return` uses 2 and no symmetry.

* `registration`: `MaxKeys` = 3 keys and `MaxFaults` = 3 failed writes and
  crashes: a failed write, the failure to put the old file back and a crash.
  6,991 states. `CHECK_DEADLOCK FALSE`: a garbled file stops the worker for good.
* `ansible`: two messages, two contents and two file times, so that contents
  and times coincide or not; results without plays and with some;
  `MaxFaults` = 1. 200,916 states. Three messages were tried as
  well, without liveness: they need distinct file times in
  `RunningIsRecorded`, see below.
* `ansible_events`: every result of one or two plays, of up to three and two
  tasks, and of three plays of up to one task, with two ids and no host, one, or
  two. A third task or play repeats an id of one that was already numbered.
  229,688 states.
* `remote_write`: two series, times up to `MaxNow` = 2, two ranges, receivers
  with requests of one and of two samples, two CA files, `MaxEvents` = 2
  updates, lost answers, refusals, failing commits and crashes; one commit
  may be pending per series. 909,094 states.
  `CHECK_DEADLOCK FALSE`: a writer that is switched off has nothing to do once
  the bounds are used.
* `observers`: two workloads, of which the second one's pod has the name
  `w2_pod`, one transport with two buffers, two storages, three configurations,
  `MaxEvents` = 3 starts, stops, removals, updates, failures, an end of the stream
  or a `Deregister`: a failed update and the one after it, or a start, a stop
  and an update between them. 4,689,480 states.
  `CHECK_DEADLOCK FALSE`: the system is at rest when no event comes.

### Fairness

Many calls of this code have no time-out: to podman, systemd and the dispatcher,
and the copies to S3 (`s3/sync.go` uses a client without one), which the event
loop makes inside `WorkloadRemoved`. Where one of them may keep a goroutine for
good no fairness is assumed of it. That is why nothing is said of when the
operations of the workload manager return, or of every event being handled:
`workloads` and `observers` check safety only.

* `worker`: weak fairness of the steps in which the consumer waits for nobody
  (`OwnStep`; the wait for a reboot has its time-out), and of the retry loop,
  whose ticker keeps ticking; strong fairness of the receipt of each message:
  Go serves the senders blocked on a channel in order. None of the observers'
  calls, the send of the reboot request, the DISCONNECT handler, the listener,
  start-up, messages, heartbeats or crashes. `MessagesConsumed` therefore excepts
  a consumer that stays in an observer: `os_return` is about one way to stay.
* `os_return`, where liveness is violated: every goroutine that can proceed
  does, services can be stopped and the handlers of playbooks return; `Timeout`
  is not fair. Even so the request is never received.
* `ansible`: weak fairness of a handler's own steps (`Handle`) and of its
  time-out. None of ansible-playbook, of `Send` or of a stop. `HandlersReturn`
  excepts a handler that stays in `Send`.
* `remote_write`: weak fairness of the goroutine's steps, each of which may fail
  within the bound; requests have a time-out in the client's configuration.
* `registration`: weak fairness of an attempt and strong fairness of `Answered`:
  the retry loop repeats the request for ever, so an operator that can be
  reached again and again answers one of them.

## 4. Proofs

All for arbitrary constants under the `ASSUME`s of the modules, in particular
for any number of names, ids, messages and faults.

* `WorkloadManagerProofs`: `TypeCorrect`, `MappingConsistent`,
  `DeregisteredIsQuiet`, `DeregisterCleansUp`, `FilesTruthful`,
  `UpdateApplies`: every safety property of the module. `MappingsInverse` is not inductive: `Add` overwrites
  the entry of `cur` and `Restart` reads the file. The invariant adds that
  `Run` works on a name that is not mapped (`Remove` went before it) and on an id
  the mapping does not have (`RunInv`), and that no name has two ids in the file
  (`FileInv`). `CurInv` says which name the goroutine works on and that its
  manifest is on the disk until the pod is made of it; `DeregInv` that a
  deregistered manager is never at a deploying step.
  `DeregisterCleansUp` follows the pods: without an error every pod is listed
  under a name that is still to be removed or is configured (`RemainInv`). That
  needs podman's look-up to find what its list showed, which holds because the
  mapping has workload names only (`NamedInv`) and loses a name after its pod
  (`GoneInv`); `CleanInv` says what the clean-up has done.
  `FilesTruthful` needs more than what the files say of the present: that a
  restart would read the same (`TruthInv` has `Recorded` beside `Deployed`), what
  `Run` has done so far for the name it works on, which is unfinished meanwhile
  (`StageInv`), and that removing a stale name never takes the pod of a deployed
  workload (`StaleInv`, from podman's having one pod of a name, `UniqueInv`).
  `UpdateApplies` combines them with `UpdateInv`: the files of the configured
  workloads the loop has passed are as configured.
* `DeviceWorkerProofs`: `TypeCorrect`, `TickerUnique`, `FileConsistent`,
  `EventsUnique`, `ObserversConsistent`, `HeartbeatsSent`.
  `TickerUnique` rests on there being no live ticker between the stop and the
  new ticker, and none while the process is down; `FileConsistent` on a
  deregistration under way having been asked for and on the file holding the
  new configuration between write and swap. The two theorems on observers and
  heartbeats need what holds in the middle of an update: the observers it has
  passed (`Given`) have the new configuration, and once the heartbeat is one of
  them its ticker runs again (`GivenInv`, `SendingInv`); at the swap all are
  passed, the heartbeat included. The listener may stop the ticker at any of
  these moments, so they are stated up to `quiet`, and `OsInv` says that the
  consumer waits for the reboot only at the OS, never in the heartbeat's turn.
* `OsUpgradeProofs`: `TypeCorrect`, `RebootsAfterStop`, `CompletionMatches`.
  The invariant says that while the updater waits, the listener is at work on
  this very request and every service it has passed is stopped (`AwaitInv`), that
  it reports completion only past the last service (`CompleteInv`), that
  `Update` goes past its first check only with an OS section (`SectionInv`), and
  that once the listener has waited for playbooks those still handled were taken
  after that (`PlayInv`).

* `RegistrationProofs`: `TypeCorrect`, `FilesAgree`, `RenewalSafe`,
  `RegisteredCertified`, `KeyNeverReplaced` (an action property). The invariant
  follows `WriteCertificate`: the answer belongs to the key of its request and
  is in its file while the key is written (`AnswerInv`); with a device
  certificate the key file holds the key in memory or nothing readable
  (`KeyInv`); without a cut the files are the memory (`WholeInv`); and as long as
  no first certificate was cut, certificate and key belong together (`FirstInv`).
* `AnsibleProofs`: `WaitGroupRight`, `ExecutionRecorded`, `FinishedForgotten`.
  `RunningIsRecorded` is not inductive because an execution may lose its own
  entry to another one with the same content; the invariant counts: a content
  has at least as many entries, in memory and in the file, as executions
  (`RecordedInv`). `ForgottenInv` says that every entry goes back to a message and that a
  message alone with its content and time finds its entry. `StageInv` relates
  the two goroutines.
* `AnsibleEventsProofs`: `EventsFramed`, `EventsAnswered`, `EventsTracked`, for
  all results. The invariant knows the last event, from which the next one has
  to go on (`LastInv`); that the starts so far are exactly those of the places
  the loops have been at (`PlaceInv`); that a start has a number exactly if its
  id is repeated in its play, not above the count of the id (`UuidInv`), so that
  the next number is new; and that the number of the task at hand is that of
  its own starts and of no other (`NumberInv`). That `countOccurence` finds the
  repeated ids is a lemma on cardinalities. A by-product is that the counter is
  never 1 when a play begins (`NotOne`): see `playbook_on_start` in section 6.
* `RemoteWriteProofs`: `SamplesNotSkipped`, `RequestsFit`, `SingleWriter`,
  `ClientFileKept` and `ImplementsForwarding`, the refinement: every step of the store, the updater,
  the goroutine and the process is a step of `SampleForwarding` or a stutter. The
  invariant says what is not yet settled of the range being written: nothing
  before its start (`RangeInv`), and of the rest only what is in the request or
  ahead of the place reached in the series (`BatchInv`, `CoverInv`). `ClientInv`
  is about goroutine and CA file. `RequestsFit` counts a set: that the samples
  taken next are as many as the places they come from needs that none of them
  is in the request already, hence that the request holds only what was passed
  (`Behind`) and that a series, being sorted, has no time twice (`FitInv`).
* `ObserversProofs`: `GoroutinesOwned`, `SystemTargetFollows`, `StorageInForce`,
  `NothingStays`.
  Between the look-up of a transport and the start of its goroutine a workload
  has no goroutine and its writer cannot be stopped (`ReadersInv`); before the
  file is written the storage is already in use (`StorageInv`). The system
  target is in the map exactly when the configuration taken for applied asks
  for it, until `Deregister`, and that configuration is the one of the update
  once it has passed the system metrics without a failure (`SystemInv`): an early
  return is right because of the first. `NothingStays`
  follows a stop from podman to the observers: in the stream, the events of a
  workload that does not run end with its stop (`StreamInv`); a start that is
  handled too late has the stop behind it, and a stop under way has undone what
  the observers it has passed had done (`LoopInv`). The property is stated for
  each workload by itself, whatever events of others are under way: that an
  event of another pod, whatever its name, touches no entry of this workload
  needs that podman's names are apart (`PodmanNameAssumption`).

Only model-checked: the liveness properties (`MessagesConsumed`, `RetriesEnd`,
`Registers`, `HandlersReturn`, `CatchesUp`), since liveness under fairness is out
of the prover's reach. Every safety
property of the passing runs is proved; the type invariants of `DeviceWorker`,
`OsUpgrade` and `Registration` are proved and need no run.

## 5. Assumptions of the models

* Nobody but the worker changes pods, chains, unit files or its files.
* A configuration names each workload once, and workload names have
  directories of their own (`OwnDirsAssumption`: blanks become dashes in
  directory names, so that two names could share one). No workload is named like
  podman's name for a pod (`ApartAssumption`: podman may add the suffix `_pod`), and the names of the pods of
  two workloads, or of one and another workload, differ (`PodmanNameAssumption`).
* One DISCONNECT is handled at a time; configurations have a heartbeat section.
* rpm-ostree and ansible-playbook are available (without them `OS.Update` does
  nothing and there is no Ansible manager).
* Two playbook files in `/tmp` have different modification times where
  `RunningIsRecorded` is concerned (`DistinctTimes`). The repository tells files
  apart by their times; with equal ones and three messages a playbook that is
  running may lose its entry in the mapping file to another one.
* No task has the id of another one with a number appended to it (the ids of
  tasks are UUIDs), so that an id and a number can stand for a uuid.
* The TSDB keeps what it was given until it expires, and gives it back in the
  order of time.

## 6. Not modelled

Modelled as far as it goes, with the reason for what is left out:

* Device server, heartbeat: the fields of a heartbeat other than the workload
  events (the hardware, the upgrade status, and the configuration version, which
  `GetConfigurationVersion` reads without the lock at `configuration.go:169`, so
  that it may belong to another configuration than the rest) are copies of state; a configuration without a heartbeat
  section, which `RetrieveInfo` dereferences, is excluded. The goroutine that a
  stopped ticker leaves behind waits for ever and does nothing.
* Registration: `Deregister` clears `registered` without the lock under which an
  attempt sets it (`registration.go:221`), so that it may be set again after a
  DISCONNECT. `Registration` has both orders; nothing but `IsRegistered` reads the
  flag, and no property is about it after a DISCONNECT.
* Workload manager: `UpdateSecret` removes a secret before it creates the new
  one, of which only the error is modelled; `StopWorkloads` and `ListWorkloads`
  change no state of the manager. Blanks in workload names (two names may share
  a directory) are excluded by `OwnDirsAssumption`.
* OS: an empty commit ID is contained in every output of rpm-ostree
  (`os.go:140`), so that a configuration with an OS section and no commit upgrades
  to whatever is offered. The `os` run has it as an input; what is upgraded to is
  judged by no property. A commit whose preview failed is not tried again until another is asked
  for; the status that heartbeats report from it is not modelled.
* Ansible: `msgList`, which all handlers append to without a lock and which is
  never emptied; events of failures that are sent with a later playbook. Nobody calls
  `PopEvents`: `main` gives the heartbeat no Ansible manager.
  The comment above `eventTransformer` says "There is always one and only one
  v2_playbook_on_start event and it is the first event"
  (`dispatcher_events.go:44`). The code asks for a counter of 1 where it is never
  1, so `PlaybookOnStart` is not reached and no such event is emitted.
  `PlaysFramed` allows the event as the first one and does not require it, so
  that it holds of the code and would hold of one that follows the comment.
  The comment also says that AWX makes a job event only of the first start
  of a task (lines 49 and 50); the code emits one start per host, as
  `HostsAnswered` and `TasksTracked` take it.
* Metrics: the scraping goroutines (a scrape is a sample that is appended and
  committed), and the ticker of one whose target was replaced in the meantime.
  `SystemFollows` is about the target: that a later update, finding its
  configuration applied, returns early and leaves a node_exporter as a failed
  update left it is in the model (`SystemMetricsFails`) and in no property. The
  same holds for a store that could not be opened again (`metrics.go:229`):
  `CatchesUp` excepts it.
* Logs: the lines in a buffer, the FIFO's limit and the syslog connection.
* Data transfer: the copying itself succeeds or fails (`s3/`).
* Start-up: observers are registered after the event loop was started, so that
  events of pods that run already may be taken before; the `observers` run
  begins with all of them registered.
* podman's events: after the binding has closed the channel, the goroutine that
  reads it receives empty events for ever (`podman.go:183`), which it ignores.
* Hardware information (`hardware/`): reads of the host, without state.
* Log texts, the contents of pods and of playbooks, generated code, mocks.
