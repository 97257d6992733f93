------------------------------ MODULE Observers ------------------------------
(***************************************************************************)
(* The observers of workloads and of the configuration, composed: podman's *)
(* events (internal/workload/podman/podman.go) reach the logs, the metrics *)
(* and the data transfer through the event loop of the workload wrapper    *)
(* (internal/workload/wrapper.go), one event at a time, while a            *)
(* configuration update (internal/configuration/configuration.go) goes     *)
(* through the same components, and the monitor ticks.                     *)
(***************************************************************************)
EXTENDS MetricsTargets, WorkloadLogs, DataTransfer, Sequences, FiniteSets

CONSTANTS
    PodmanName,     \* the name podman gives to the pod of a workload
    Configs,        \* configurations: records of what each observer reads
    NoUpdate,
    Idle,           \* the event loop waits for an event
    MaxEvents       \* bound: changes of pods, updates, failures, Deregister

ASSUME ObserversAssumption ==
    /\ LogWorkloads = Workloads /\ DataWorkloads = Workloads
    /\ \A c \in Configs : /\ c.metrics \subseteq Workloads /\ c.system \in SystemConfigs
                          /\ c.keys \subseteq Transports
                          /\ c.logs \in [Workloads -> Transports \cup {NoTransport}]
                          /\ c.storage \in Storages \cup {NoStorage}
                          /\ c.paths \subseteq Workloads
    /\ MaxEvents \in Nat

(* podman names a pod like its workload or, when a container has that      *)
(* name, "<workload>_pod", and like nothing else here.                     *)
ASSUME PodmanNameAssumption ==
    /\ DOMAIN PodmanName = Workloads
    /\ \A v, w \in Workloads : PodmanName[v] \in {w, PodmanName[w]} => v = w
    /\ \A w \in Workloads : PodmanName[w] # System

PodNames == {PodmanName[w] : w \in Workloads}

(* How far an update is, and what the observers before have left behind.   *)
UpdatePCs == {"metrics", "system", "logs", "assign", "monitor", "save"}
Failing == {"system", "storage"}
Updates == [config : Configs, pc : UpdatePCs, keys : SUBSET Transports, failed : SUBSET Failing]
ASSUME NoUpdateAssumption == NoUpdate \notin Updates

(* The event the loop of the wrapper handles, and the observer it is at.   *)
LoopPCs == {"logs", "insert", "start", "metrics", "sync", "forget"}
Loops == [event : {"started", "stopped"}, workload : PodNames, pc : LoopPCs,
          writer : Writers \cup {NoWriter}]
ASSUME IdleAssumption == Idle \notin Loops

VARIABLES
    pod,            \* the pod of a workload: "none", "running", "stopped"
    subscription,   \* to the stream of events: "no", "yes", or "ended" for good
    stream,         \* events of podman that were not read yet, with the pod's id
    listed,         \* goroutines that send the start of a pod listed at first
    loop,           \* the event the loop handles, and how far it is
    config,         \* Manager.deviceConfiguration
    update,         \* the message of the update, and how far it is
    odd,            \* what the last update did not reach, or not in the file
    deregistered,
    stale,          \* history: see below
    events          \* how many of these there have been

podman == <<pod, subscription, stream, listed>>
manager == <<config, update, odd>>
vars == <<podman, loop, manager, deregistered, stale, events, targetVars, logVars,
          transferVars>>

(* main has registered the observers with a stored configuration.  The     *)
(* first starts that the event loop took before that had no observer.      *)
Init ==
    \E c \in Configs :
        /\ config = c
        /\ TargetsInit(c.metrics, c.system)
        /\ TransferInit(c.storage)
        /\ pod \in [Workloads -> {"none", "running"}]
        /\ LET running == {w \in Workloads : pod[w] = "running"}
           IN  /\ listed \in SUBSET running
               /\ LogsInit(c.keys, c.logs, running, {w \in running : PodmanName[w] = w})
        /\ subscription = "no" /\ stream = <<>>
        /\ loop = Idle /\ update = NoUpdate
        /\ odd = IF latestConfig = "none" THEN {"system"} ELSE {}
        /\ deregistered = FALSE /\ stale = {} /\ events = 0

(* A change of a pod, an update, a failure or Deregister: there are        *)
(* MaxEvents of them.                                                      *)
Event == events < MaxEvents /\ events' = events + 1

-----------------------------------------------------------------------------
(* Pods.                                                                   *)

(* What happens before the stream has begun, or after its end, is not in   *)
(* it.                                                                     *)
PodChanges(w, from, to, event) ==
    /\ Event
    /\ pod[w] \in from
    /\ pod' = [pod EXCEPT ![w] = to]
    /\ stream' = IF subscription = "yes" THEN Append(stream, <<event, w>>) ELSE stream
    /\ stale' = IF subscription # "yes" /\ event = "stopped" THEN stale \cup {w} ELSE stale
    /\ UNCHANGED <<subscription, listed, loop, manager, deregistered, targetVars,
                   logVars, transferVars>>

PodStarts(w) == PodChanges(w, {"none", "stopped"}, "running", "started")
PodStops(w) == PodChanges(w, {"running"}, "stopped", "stopped")
PodRemoved(w) == PodChanges(w, {"running", "stopped"}, "none", "stopped")

(* system.Events in its goroutine.                                         *)
Subscribe ==
    /\ subscription = "no"
    /\ subscription' = "yes"
    /\ UNCHANGED <<pod, stream, listed, loop, manager, deregistered, stale, events,
                   targetVars, logVars, transferVars>>

(* It fails, or podman closes the connection: the error is logged, nothing *)
(* subscribes again, and what was read of the stream is still handled.     *)
StreamEnds ==
    /\ Event
    /\ subscription # "ended"
    /\ subscription' = "ended"
    /\ UNCHANGED <<pod, stream, listed, loop, manager, deregistered, stale,
                   targetVars, logVars, transferVars>>

-----------------------------------------------------------------------------
(* The event loop.                                                         *)

(* An event has podman's name of the pod, which nothing maps to the name of*)
(* the workload.                                                           *)
Handle(event, w) ==
    loop' = [event |-> event, workload |-> PodmanName[w], pc |-> "logs", writer |-> NoWriter]

(* A goroutine of Events: its start may come after the stop of the pod.    *)
TakeListed(w) ==
    /\ loop = Idle
    /\ w \in listed
    /\ listed' = listed \ {w}
    /\ Handle("started", w)
    /\ stale' = IF pod[w] = "running" THEN stale ELSE stale \cup {w}
    /\ UNCHANGED <<pod, subscription, stream, manager, deregistered, events,
                   targetVars, logVars, transferVars>>

TakeEvent ==
    /\ loop = Idle /\ stream # <<>>
    /\ stream' = Tail(stream)
    /\ Handle(Head(stream)[1], Head(stream)[2])
    /\ UNCHANGED <<pod, subscription, listed, manager, deregistered, stale, events,
                   targetVars, logVars, transferVars>>

(* The report of a pod that is gone cannot be had: its start is dropped.   *)
DropStart ==
    /\ stream # <<>>
    /\ Head(stream)[1] = "started" /\ pod[Head(stream)[2]] = "none"
    /\ stream' = Tail(stream)
    /\ UNCHANGED <<pod, subscription, listed, loop, manager, deregistered, stale,
                   events, targetVars, logVars, transferVars>>

At(pc, event) == IF loop = Idle THEN FALSE ELSE loop.pc = pc /\ loop.event = event
Goto(pc) == loop' = [loop EXCEPT !.pc = pc]
Others == <<podman, manager, deregistered>>

(* WorkloadStarted of the logs, which are the first observer,              *)
LogsStarted ==
    /\ At("logs", "started")
    /\ LogsWorkloadRemoved(loop.workload)
    /\ LET writer == Lookup(loop.workload)
       IN  loop' = [loop EXCEPT !.writer = writer,
                                !.pc = IF writer = NoWriter THEN "metrics" ELSE "insert"]
    /\ UNCHANGED <<Others, stale, events, targetVars, transferVars>>

LogsInserted ==
    /\ At("insert", "started")
    /\ InsertWriter(loop.workload, loop.writer)
    /\ Goto("start")
    /\ UNCHANGED <<Others, stale, events, targetVars, transferVars>>

LogsReading ==
    /\ At("start", "started")
    /\ \/ StartWriter(loop.workload, loop.writer) /\ UNCHANGED events
       \/ StartWriterFails /\ Event
    /\ loop' = [loop EXCEPT !.pc = "metrics", !.writer = NoWriter]
    /\ UNCHANGED <<Others, stale, targetVars, transferVars>>

(* of the metrics, and of the monitor, for which it is nothing.            *)
MetricsStarted ==
    /\ At("metrics", "started")
    /\ MetricsWorkloadStarted(loop.workload)
    /\ loop' = Idle
    /\ UNCHANGED <<Others, stale, events, logVars, transferVars>>

(* WorkloadRemoved of the logs, of the metrics and of the monitor.         *)
LogsStopped ==
    /\ At("logs", "stopped")
    /\ LogsWorkloadRemoved(loop.workload)
    /\ Goto("metrics")
    /\ UNCHANGED <<Others, stale, events, targetVars, transferVars>>

MetricsStopped ==
    /\ At("metrics", "stopped")
    /\ MetricsWorkloadRemoved(loop.workload)
    /\ Goto("sync")
    /\ UNCHANGED <<Others, stale, events, logVars, transferVars>>

MonitorSyncs ==
    /\ At("sync", "stopped")
    /\ SyncRemoved(loop.workload, config.storage, config.paths)
    /\ Goto("forget")
    /\ UNCHANGED <<Others, stale, events, targetVars, logVars>>

MonitorForgets ==
    /\ At("forget", "stopped")
    /\ ForgetSync(loop.workload)
    /\ loop' = Idle
    /\ stale' = IF subscription = "ended" THEN stale ELSE stale \ {loop.workload}
    /\ UNCHANGED <<Others, events, targetVars, logVars>>

EventLoop ==
    \/ \E w \in Workloads : TakeListed(w)
    \/ TakeEvent \/ DropStart
    \/ LogsStarted \/ LogsInserted \/ LogsReading \/ MetricsStarted
    \/ LogsStopped \/ MetricsStopped \/ MonitorSyncs \/ MonitorForgets

-----------------------------------------------------------------------------
(* Manager.Update: the observers in the order main registers them.         *)

UpdateAt(pc) == IF update = NoUpdate THEN FALSE ELSE update.pc = pc
UpdateTo(pc) == update' = [update EXCEPT !.pc = pc]
Rest == <<podman, loop, deregistered, stale, config>>

BeginUpdate(c) ==
    /\ update = NoUpdate /\ c # config
    /\ Event
    /\ update' = [config |-> c, pc |-> "metrics", keys |-> {}, failed |-> {}]
    /\ UNCHANGED <<Rest, odd, targetVars, logVars, transferVars>>

UpdateMetrics ==
    /\ UpdateAt("metrics")
    /\ WorkloadMetricsUpdate(update.config.metrics)
    /\ UpdateTo("system")
    /\ UNCHANGED <<Rest, odd, events, logVars, transferVars>>

UpdateSystem ==
    /\ UpdateAt("system")
    /\ \/ /\ SystemMetricsUpdate(update.config.system)
          /\ UpdateTo("logs")
          /\ UNCHANGED events
       \/ /\ SystemMetricsFails(update.config.system)
          /\ update' = [update EXCEPT !.pc = "logs", !.failed = {"system"}]
          /\ Event
    /\ UNCHANGED <<Rest, odd, logVars, transferVars>>

(* A transport that cannot be reached is left out.                         *)
UpdateLogs ==
    /\ UpdateAt("logs")
    /\ \E keys \in SUBSET update.config.keys :
          /\ IF keys = update.config.keys THEN UNCHANGED events ELSE Event
          /\ LogsUpdate(keys)
          /\ update' = [update EXCEPT !.pc = "assign", !.keys = keys]
    /\ UNCHANGED <<Rest, odd, targetVars, transferVars>>

AssignLogs ==
    /\ UpdateAt("assign")
    /\ LogsAssign(update.keys, update.config.logs)
    /\ UpdateTo("monitor")
    /\ UNCHANGED <<Rest, odd, events, targetVars, transferVars>>

(* s3.NewSync may fail; the update goes on.                                *)
UpdateMonitor ==
    /\ UpdateAt("monitor")
    /\ \/ /\ MonitorUpdate(update.config.storage)
          /\ UpdateTo("save")
          /\ UNCHANGED events
       \/ /\ update.config.storage # NoStorage
          /\ update' = [update EXCEPT !.pc = "save", !.failed = @ \cup {"storage"}]
          /\ Event /\ UNCHANGED transferVars
    /\ UNCHANGED <<Rest, odd, targetVars, logVars>>

(* The file is written and the configuration set, or neither.              *)
Save ==
    /\ UpdateAt("save")
    /\ \/ config' = update.config /\ odd' = update.failed /\ UNCHANGED events
       \/ Event /\ odd' = Failing /\ UNCHANGED config
    /\ update' = NoUpdate
    /\ UNCHANGED <<podman, loop, deregistered, stale, targetVars, logVars,
                   transferVars>>

Update == \/ UpdateMetrics \/ UpdateSystem \/ UpdateLogs \/ AssignLogs \/ UpdateMonitor
          \/ Save

-----------------------------------------------------------------------------
(* The goroutines of the components.                                       *)

TickBegins ==
    /\ BeginTick({w \in Workloads : pod[w] # "none"}, config.storage, config.paths)
    /\ UNCHANGED <<Others, loop, stale, events, targetVars, logVars>>

(* The pod may be gone since the workloads were listed, and its entry may  *)
(* be stored after it was deleted.                                         *)
TickSyncs ==
    /\ tick # NoTick
    /\ \/ \E w \in tick : SyncNext(w) /\ stale' = IF pod[w] = "none" THEN stale \cup {w} ELSE stale
       \/ EndTick /\ UNCHANGED stale
    /\ UNCHANGED <<Others, loop, events, targetVars, logVars>>

(* Deregister of the monitor and of the system metrics.                    *)
Deregister ==
    /\ Event
    /\ ~deregistered
    /\ deregistered' = TRUE
    /\ SystemMetricsDeregister
    /\ MonitorDeregister
    /\ UNCHANGED <<podman, loop, manager, stale, logVars>>

Next ==
    \/ \E w \in Workloads : PodStarts(w) \/ PodStops(w) \/ PodRemoved(w)
    \/ Subscribe \/ StreamEnds \/ EventLoop
    \/ (\E c \in Configs : BeginUpdate(c)) \/ Update
    \/ TickBegins \/ TickSyncs \/ Deregister

Spec == Init /\ [][Next]_vars

-----------------------------------------------------------------------------
TypeOK ==
    /\ TargetsTypeOK /\ LogsTypeOK /\ TransferTypeOK
    /\ pod \in [Workloads -> {"none", "running", "stopped"}]
    /\ subscription \in {"no", "yes", "ended"}
    /\ \A k \in DOMAIN stream : stream[k] \in {"started", "stopped"} \X Workloads
    /\ listed \subseteq Workloads
    /\ loop \in Loops \cup {Idle}
    /\ config \in Configs /\ odd \subseteq Failing /\ deregistered \in BOOLEAN
    /\ stale \subseteq Workloads
    /\ events \in 0..MaxEvents

(* A stop of w waits in the stream; the loop handles an event of w.        *)
Queued(w) == \E k \in DOMAIN stream : stream[k] = <<"stopped", w>>
Handling(event, w) ==
    IF loop = Idle THEN FALSE ELSE loop.event = event /\ loop.workload = PodmanName[w]

(* Once the last stop of a workload has been handled, nothing is left of   *)
(* it while it does not run: no target is scraped and no writer kept, and  *)
(* when it is gone no time of a copy, whatever updates and events of other *)
(* workloads came in between.  That is so of a pod that podman names like  *)
(* the workload; under another name its events reach no entry.  Left out   *)
(* are workloads that stopped before the stream had begun or after its     *)
(* end, whose first start came after their stop, or that a tick copied     *)
(* after they were gone.                                                   *)
NothingLeftBehind ==
    \A w \in Workloads \ stale :
        PodmanName[w] = w /\ ~Queued(w) /\ ~Handling("stopped", w) =>
            /\ pod[w] # "running" => w \notin targets /\ wwriter[w] = NoWriter
            /\ pod[w] = "none" => w \notin lastSync

(* Between updates the system target is scraped if the configuration in    *)
(* force says so, although an update may have failed on node_exporter or   *)
(* in the file and the next one finds its configuration applied already:   *)
(* only after the update that failed, and after Deregister, it may differ. *)
SystemFollows ==
    update = NoUpdate /\ "system" \notin odd /\ ~deregistered =>
        (System \in targets) = (config.system \in Intervals)

(* Between updates, data is copied to the storage of the configuration in  *)
(* force, whatever failed before, unless the last update did.              *)
StorageFollows ==
    update = NoUpdate /\ "storage" \notin odd /\ config.storage # NoStorage =>
        fsSync = config.storage
====
