-------------------------- MODULE ObserversProofs --------------------------
(***************************************************************************)
(* Proofs about Observers: the shape of its variables, and from it that a  *)
(* log goroutine is owned by its writer, that the system target and the    *)
(* storage follow the configuration in force, and that nothing is left     *)
(* behind of a workload once its stop is handled.                          *)
(***************************************************************************)
EXTENDS Observers, TLAPS

PodEvents == {"started", "stopped"} \X Workloads
(* Of the variables only what the proofs need.                             *)
Shape ==
    /\ stream \in Seq(PodEvents) /\ listed \subseteq Workloads
    /\ loop \in Loops \cup {Idle}
    /\ update \in Updates \cup {NoUpdate} /\ config \in Configs

LogShape ==
    /\ transports \in [Transports -> Nat] /\ created \in [Transports -> Nat]
    /\ logsConfig \in [Workloads -> Transports \cup {NoTransport}]
    /\ wwriter \in [Workloads -> Writers \cup {NoWriter}]
    /\ readers \subseteq Workloads \X (Transports \X Nat)

(* Between the look-up of a transport and the start of its goroutine, the  *)
(* workload has no goroutine, and the writer cannot be stopped yet.        *)
ReadersInv ==
    /\ ReadersOwned
    /\ At("insert", "started") \/ At("start", "started") =>
          /\ loop.workload \in Workloads
          /\ loop.writer \in Writers /\ ~loop.writer.cancel
          /\ \A r \in readers : r[1] # loop.workload

(* The target follows what the system metrics take for applied, which is   *)
(* the configuration of the update from its step on, and then the one in   *)
(* force, unless that step or the file failed.                             *)
SystemInv ==
    /\ latestConfig # "none" /\ ~deregistered =>
          ((System \in targets) <=> latestConfig \in Intervals)
    /\ (\E p \in {"logs", "assign", "monitor", "save"} : UpdateAt(p))
          /\ "system" \notin update.failed => latestConfig = update.config.system
    /\ update = NoUpdate /\ "system" \notin odd => latestConfig = config.system

(* Before the file is written, a storage that could be had is in use.      *)
StorageInv ==
    /\ StorageFollows
    /\ UpdateAt("save") /\ "storage" \notin update.failed /\ update.config.storage # NoStorage
          => fsSync = update.config.storage

(* While there is a stream, the events of a workload end with its stop when*)
(* it does not run; later that holds of those that have not stopped since. *)
StreamInv ==
    /\ pod \in [Workloads -> {"none", "running", "stopped"}]
    /\ subscription \in {"no", "yes", "ended"}
    /\ subscription = "no" => stream = <<>>
    /\ \A w \in Workloads : pod[w] # "running" /\ (subscription # "ended" \/ w \notin stale) =>
          \A k \in DOMAIN stream : stream[k] = <<"started", w>> =>
              \E j \in DOMAIN stream : j > k /\ stream[j] = <<"stopped", w>>

(* A start that is handled too late is followed by the stop; a stop undoes *)
(* observer by observer what the start has done.                           *)
LoopInv ==
    /\ \A w \in Workloads \ stale :
          pod[w] # "running" /\ Handling("started", w) => Queued(w)
    /\ At("metrics", "stopped") \/ At("sync", "stopped") \/ At("forget", "stopped") =>
          \A w \in Workloads : loop.workload = w => wwriter[w] = NoWriter
    /\ At("sync", "stopped") \/ At("forget", "stopped") =>
          \A w \in Workloads : loop.workload = w => w \notin targets

CleanInv == StreamInv /\ LoopInv /\ NothingLeftBehind

(* The pods that run when the observers are registered.                    *)
Running == {w \in Workloads : pod[w] = "running"}

LEMMA InitShape == Init => Shape /\ LogShape
<1> SUFFICES ASSUME NEW c \in Configs, Init,
                    config = c, NEW running \in SUBSET Workloads, NEW found,
                    LogsInit(c.keys, c.logs, running, found)
             PROVE  Shape /\ LogShape
  <2>1. ASSUME NEW c \in Configs, Init, config = c,
               LogsInit(c.keys, c.logs, Running, {w \in Running : PodmanName[w] = w})
        PROVE  \E r \in SUBSET Workloads : \E g : LogsInit(c.keys, c.logs, r, g)
    <3>1. Running \in SUBSET Workloads
        BY DEF Running
    <3> QED
        BY <2>1, <3>1
  <2> QED
      BY <2>1 DEF Init, Running
<1>1. Shape
    BY DEF Init, Shape
<1>2. /\ c.keys \subseteq Transports
      /\ c.logs \in [Workloads -> Transports \cup {NoTransport}]
      /\ LogWorkloads = Workloads
    BY ObserversAssumption
<1>4. LogShape
    BY <1>2 DEF LogsInit, LogShape, Writer, Writers
<1> QED
    BY <1>1, <1>4

(* A step changes loop only in the event loop, the events only in podman   *)
(* and the event loop, the update only in Manager.Update.                  *)
LoopStep ==
    \/ \E w \in Workloads : TakeListed(w)
    \/ TakeEvent \/ LogsStarted \/ LogsInserted \/ LogsReading \/ MetricsStarted
    \/ LogsStopped \/ MetricsStopped \/ MonitorSyncs \/ MonitorForgets
EventStep ==
    \/ \E w \in Workloads : PodStarts(w) \/ PodStops(w) \/ PodRemoved(w) \/ TakeListed(w)
    \/ TakeEvent \/ DropStart
UpdateStep == (\E c \in Configs : BeginUpdate(c)) \/ Update

LEMMA LoopFrame == [Next]_vars => LoopStep \/ UNCHANGED loop
BY DEF Next, EventLoop, LoopStep, vars, PodStarts, PodStops, PodRemoved, PodChanges, Subscribe, StreamEnds,
       DropStart, BeginUpdate, Update, UpdateMetrics, UpdateSystem, UpdateLogs, AssignLogs,
       UpdateMonitor, Save, TickBegins, TickSyncs, Deregister, Rest

LEMMA EventFrame == [Next]_vars => EventStep \/ UNCHANGED <<stream, listed>>
BY DEF Next, EventLoop, EventStep, vars, podman, Subscribe, StreamEnds, LogsStarted, LogsInserted,
       LogsReading, MetricsStarted, LogsStopped, MetricsStopped, MonitorSyncs, MonitorForgets,
       BeginUpdate, Update, UpdateMetrics, UpdateSystem, UpdateLogs, AssignLogs,
       UpdateMonitor, Save, TickBegins, TickSyncs, Deregister, Rest, Others

LEMMA UpdateFrame == [Next]_vars => UpdateStep \/ UNCHANGED <<update, config, odd>>
BY DEF Next, EventLoop, UpdateStep, vars, manager, PodStarts, PodStops, PodRemoved, PodChanges,
       Subscribe, StreamEnds, TakeListed, TakeEvent, DropStart, LogsStarted, LogsInserted,
       LogsReading, MetricsStarted, LogsStopped, MetricsStopped, MonitorSyncs, MonitorForgets,
       TickBegins, TickSyncs, Deregister, Others

LEMMA LoopMoves ==
    ASSUME NEW l \in Loops, NEW p \in LoopPCs, NEW wr \in Writers \cup {NoWriter}
    PROVE  /\ [l EXCEPT !.pc = p] \in Loops
           /\ [l EXCEPT !.pc = p].workload = l.workload
           /\ [l EXCEPT !.pc = p].writer = l.writer
           /\ [l EXCEPT !.pc = p].pc = p
           /\ [l EXCEPT !.pc = p].event = l.event
           /\ [l EXCEPT !.writer = wr, !.pc = p] \in Loops
           /\ [l EXCEPT !.pc = p, !.writer = wr] \in Loops
           /\ [l EXCEPT !.writer = wr, !.pc = p].workload = l.workload
           /\ [l EXCEPT !.writer = wr, !.pc = p].writer = wr
           /\ [l EXCEPT !.writer = wr, !.pc = p].pc = p
           /\ [l EXCEPT !.pc = p, !.writer = wr].pc = p
BY DEF Loops

LEMMA PCs == /\ {"logs", "insert", "start", "metrics", "sync", "forget"} \subseteq LoopPCs
             /\ {"metrics", "system", "logs", "assign", "monitor", "save"} \subseteq UpdatePCs
BY DEF LoopPCs, UpdatePCs

LEMMA ConfigShape ==
    ASSUME NEW c \in Configs
    PROVE  /\ c.keys \subseteq Transports /\ c.system \in SystemConfigs
           /\ c.logs \in [Workloads -> Transports \cup {NoTransport}]
           /\ LogWorkloads = Workloads
BY ObserversAssumption

LEMMA UpdateMoves ==
    ASSUME NEW u \in Updates, NEW p \in UpdatePCs
    PROVE  /\ u.config \in Configs
           /\ [u EXCEPT !.pc = p] \in Updates
           /\ [u EXCEPT !.pc = p].pc = p
           /\ [u EXCEPT !.pc = p].config = u.config
           /\ [u EXCEPT !.pc = p].failed = u.failed
BY DEF Updates

LEMMA KeysMoves ==
    ASSUME NEW u \in Updates, NEW p \in UpdatePCs, NEW k \in SUBSET Transports,
           update' = [u EXCEPT !.pc = p, !.keys = k]
    PROVE  /\ update' \in Updates /\ update'.pc = p
           /\ update'.config = u.config /\ update'.failed = u.failed
BY DEF Updates

LEMMA FailedMoves ==
    ASSUME NEW u \in Updates, NEW p \in UpdatePCs
    PROVE  /\ update' = [u EXCEPT !.pc = p, !.failed = {"system"}] =>
                 /\ update' \in Updates /\ update'.pc = p
                 /\ update'.config = u.config /\ update'.failed = {"system"}
           /\ update' = [u EXCEPT !.pc = p, !.failed = u.failed \cup {"storage"}] =>
                 /\ update' \in Updates /\ update'.pc = p
                 /\ update'.config = u.config /\ update'.failed = u.failed \cup {"storage"}
<1> DEFINE Moved(g) == [u EXCEPT !.pc = p, !.failed = g]
<1>1. ASSUME NEW g \in SUBSET Failing
      PROVE  /\ Moved(g) \in Updates /\ Moved(g).pc = p
             /\ Moved(g).config = u.config /\ Moved(g).failed = g
    BY DEF Updates
<1>2. {"system"} \in SUBSET Failing /\ u.failed \cup {"storage"} \in SUBSET Failing
    BY DEF Updates, Failing
<1> HIDE DEF Moved
<1> QED
  <2>1. update' = [u EXCEPT !.pc = p, !.failed = {"system"}] => update' = Moved({"system"})
      BY DEF Moved
  <2>2. update' = [u EXCEPT !.pc = p, !.failed = u.failed \cup {"storage"}]
            => update' = Moved(u.failed \cup {"storage"})
      BY DEF Moved
  <2> QED
      BY <1>1, <1>2, <2>1, <2>2

(* What the two steps that may fail do with the update.                    *)
LEMMA SystemMoves ==
    ASSUME update \in Updates, UpdateSystem
    PROVE  /\ update' \in Updates /\ update'.pc = "logs" /\ update'.config = update.config
           /\ \/ SystemMetricsUpdate(update.config.system)
              \/ /\ SystemMetricsFails(update.config.system)
                 /\ update'.failed = {"system"}
<1>1. "logs" \in UpdatePCs
    BY PCs
<1>2. CASE /\ SystemMetricsUpdate(update.config.system)
           /\ update' = [update EXCEPT !.pc = "logs"]
    BY <1>1, <1>2, UpdateMoves
<1>3. CASE /\ SystemMetricsFails(update.config.system)
           /\ update' = [update EXCEPT !.pc = "logs", !.failed = {"system"}]
    BY <1>1, <1>3, FailedMoves
<1> QED
    BY <1>2, <1>3 DEF UpdateSystem, UpdateTo

LEMMA MonitorMoves ==
    ASSUME update \in Updates, UpdateMonitor
    PROVE  /\ update' \in Updates /\ update'.config = update.config
           /\ update.failed \subseteq update'.failed
           /\ \/ MonitorUpdate(update.config.storage)
              \/ "storage" \in update'.failed
<1>1. "save" \in UpdatePCs
    BY PCs
<1>2. CASE /\ MonitorUpdate(update.config.storage)
           /\ update' = [update EXCEPT !.pc = "save"]
    BY <1>1, <1>2, UpdateMoves
<1>3. CASE update' = [update EXCEPT !.pc = "save", !.failed = update.failed \cup {"storage"}]
    BY <1>1, <1>3, FailedMoves
<1> QED
    BY <1>2, <1>3 DEF UpdateMonitor, UpdateTo

LEMMA LookupWriter == ASSUME LogShape, NEW w, LogWorkloads = Workloads
                      PROVE  /\ Lookup(w) \in Writers \cup {NoWriter}
                             /\ Lookup(w) # NoWriter => w \in Workloads /\ ~Lookup(w).cancel
BY DEF LogShape, Lookup, Writer, Writers, BufferOf

LEMMA StreamTail == ASSUME stream \in Seq(PodEvents), stream # <<>>
                    PROVE  /\ Tail(stream) \in Seq(PodEvents)
                           /\ Head(stream)[1] \in {"started", "stopped"}
                           /\ Head(stream)[2] \in Workloads
BY DEF PodEvents

LEMMA ShapeStep == Shape /\ LogShape /\ [Next]_vars => Shape'
<1> SUFFICES ASSUME Shape, LogShape, [Next]_vars PROVE Shape'
    OBVIOUS
<1>1. stream' \in Seq(PodEvents) /\ listed' \subseteq Workloads
  <2>1. CASE EventStep
    <3>1. ASSUME NEW w \in Workloads, PodStarts(w) \/ PodStops(w) \/ PodRemoved(w)
          PROVE  stream' \in Seq(PodEvents) /\ listed' = listed
      <4>1. PICK e \in {"started", "stopped"} :
               /\ stream' \in {stream, Append(stream, <<e, w>>)}
               /\ listed' = listed
          BY <3>1 DEF PodStarts, PodStops, PodRemoved, PodChanges
      <4>2. <<e, w>> \in PodEvents
          BY DEF PodEvents
      <4>3. Append(stream, <<e, w>>) \in Seq(PodEvents)
          BY <4>2 DEF Shape
      <4> QED
          BY <4>1, <4>3 DEF Shape
    <3>2. CASE \E w \in Workloads : TakeListed(w)
        BY <3>2 DEF TakeListed, Shape
    <3>3. CASE TakeEvent \/ DropStart
        BY <3>3, StreamTail DEF TakeEvent, DropStart, Shape
    <3> QED
        BY <2>1, <3>1, <3>2, <3>3 DEF EventStep, Shape
  <2> QED
      BY <2>1, EventFrame DEF Shape
<1>2. loop' \in Loops \cup {Idle}
  <2>0. loop # Idle => loop \in Loops
      BY DEF Shape
  <2>1. ASSUME NEW w \in Workloads, NEW e \in {"started", "stopped"}, Handle(e, w)
        PROVE  loop' \in Loops
      BY <2>1 DEF Handle, Loops, LoopPCs, PodNames
  <2>2. CASE \E w \in Workloads : TakeListed(w)
    <3>1. PICK w \in Workloads : Handle("started", w)
        BY <2>2 DEF TakeListed
    <3> QED
        BY <3>1, <2>1
  <2>3. CASE TakeEvent
      BY <2>3, <2>1, StreamTail DEF TakeEvent, Shape
  <2>4. CASE LogsStarted
    <3>1. loop \in Loops /\ LogWorkloads = Workloads
        BY <2>4, <2>0, ObserversAssumption DEF LogsStarted, At, Loops
    <3> QED
      <4>1. PICK p \in LoopPCs : loop' = [loop EXCEPT !.writer = Lookup(loop.workload), !.pc = p]
          BY <2>4, PCs DEF LogsStarted
      <4>2. Lookup(loop.workload) \in Writers \cup {NoWriter}
          BY <3>1, LookupWriter
      <4> QED
          BY <3>1, <4>1, <4>2, LoopMoves, PCs
  <2>5. CASE LogsReading
    <3>1. loop' = [loop EXCEPT !.pc = "metrics", !.writer = NoWriter]
        BY <2>5 DEF LogsReading
    <3>2. loop \in Loops
        BY <2>5, <2>0 DEF LogsReading, At
    <3> QED
        BY <3>1, <3>2, LoopMoves, PCs
  <2>6. CASE LogsInserted \/ LogsStopped \/ MetricsStopped \/ MonitorSyncs
    <3>1. PICK p \in LoopPCs : loop' = [loop EXCEPT !.pc = p]
        BY <2>6, PCs DEF LogsInserted, LogsStopped, MetricsStopped, MonitorSyncs, Goto
    <3>2. loop \in Loops
        BY <2>6, <2>0 DEF LogsInserted, LogsStopped, MetricsStopped, MonitorSyncs, At
    <3> QED
        BY <3>1, <3>2, LoopMoves, PCs
  <2>7. CASE MetricsStarted \/ MonitorForgets
      BY <2>7 DEF MetricsStarted, MonitorForgets
  <2> QED
      BY <2>2, <2>3, <2>4, <2>5, <2>6, <2>7, LoopFrame DEF LoopStep, Shape
<1>3. update' \in Updates \cup {NoUpdate} /\ config' \in Configs
  <2>0. update # NoUpdate => update \in Updates
      BY DEF Shape
  <2>1. ASSUME NEW c \in Configs, BeginUpdate(c) PROVE update' \in Updates /\ config' \in Configs
      BY <2>1 DEF BeginUpdate, Updates, UpdatePCs, Rest, Shape
  <2>2. CASE UpdateMetrics \/ AssignLogs
    <3>1. PICK p \in UpdatePCs : update' = [update EXCEPT !.pc = p]
        BY <2>2, PCs DEF UpdateMetrics, AssignLogs, UpdateTo
    <3>2. update \in Updates /\ config' = config
        BY <2>2, <2>0 DEF UpdateMetrics, AssignLogs, UpdateAt, Rest
    <3> QED
        BY <3>1, <3>2, UpdateMoves, PCs DEF Shape
  <2>3. CASE UpdateLogs
    <3>1. update \in Updates /\ config' = config
        BY <2>3, <2>0 DEF UpdateLogs, UpdateAt, Rest
    <3>2. update.config.keys \subseteq Transports
      <4>1. update.config \in Configs
          BY <3>1 DEF Updates
      <4> QED
          BY <4>1, ConfigShape
    <3>3. PICK k \in SUBSET Transports : update' = [update EXCEPT !.pc = "assign", !.keys = k]
        BY <2>3, <3>2 DEF UpdateLogs
    <3>4. update' \in Updates
        BY <3>1, <3>3, KeysMoves, PCs
    <3> QED
        BY <3>1, <3>4 DEF Shape
  <2>4. CASE UpdateMonitor
    <3>2. update \in Updates /\ config' = config
        BY <2>4, <2>0 DEF UpdateMonitor, UpdateAt, Rest
    <3>4. update' \in Updates
        BY <2>4, <3>2, MonitorMoves
    <3> QED
        BY <3>2, <3>4 DEF Shape
  <2>6. CASE UpdateSystem
    <3>1. update \in Updates /\ config' = config
        BY <2>6, <2>0 DEF UpdateSystem, UpdateAt, Rest
    <3>4. update' \in Updates
        BY <2>6, <3>1, SystemMoves
    <3> QED
        BY <3>1, <3>4 DEF Shape
  <2>5. CASE Save
      BY <2>5, <2>0, UpdateMoves, PCs DEF Save, UpdateAt, Shape
  <2> QED
      BY <2>1, <2>2, <2>3, <2>4, <2>5, <2>6, UpdateFrame DEF UpdateStep, Update, Shape
<1> QED
    BY <1>1, <1>2, <1>3 DEF Shape

(* The maps of the logs change only in these steps.                        *)
LogStep == LogsStarted \/ LogsInserted \/ LogsReading \/ LogsStopped \/ UpdateLogs \/ AssignLogs

LEMMA LogFrame == [Next]_vars => LogStep \/ UNCHANGED <<transports, logsConfig, wwriter, readers, created>>
BY DEF Next, EventLoop, LogStep, vars, logVars, PodStarts, PodStops, PodRemoved, PodChanges,
       Subscribe, StreamEnds, TakeListed, TakeEvent, DropStart, MetricsStarted, MetricsStopped,
       MonitorSyncs, MonitorForgets, BeginUpdate, Update, UpdateMetrics, UpdateSystem,
       UpdateMonitor, Save, TickBegins, TickSyncs, Deregister

(* The loop at work on an event is in the shape of one.                    *)
LEMMA LoopShape == ASSUME Shape, NEW p, NEW e, At(p, e)
                   PROVE  loop \in Loops /\ loop.workload \in PodNames /\ loop # Idle
BY DEF Shape, At, Loops

(* A name of podman that is a workload's is that of its own pod.           *)
LEMMA OwnName == ASSUME NEW n \in PodNames
                 PROVE  \A v \in Workloads : n = v <=> (n = PodmanName[v] /\ PodmanName[v] = v)
BY PodmanNameAssumption DEF PodNames

LEMMA NamesApart == ASSUME NEW v \in Workloads, NEW w \in Workloads, PodmanName[v] = PodmanName[w]
                    PROVE  v = w
BY PodmanNameAssumption

LEMMA UpdateShape == ASSUME Shape, NEW p, UpdateAt(p)
                     PROVE  /\ update \in Updates /\ update.config \in Configs
                            /\ update.keys \subseteq Transports
BY DEF Shape, UpdateAt, Updates

(* Stopping the writers of some workloads.                                 *)
LEMMA RemoveShape ==
    ASSUME LogShape, NEW ws, LogWorkloads = Workloads,
           wwriter' = WritersWithout(ws), readers' = ReadersWithout(ws)
    PROVE  /\ wwriter' \in [Workloads -> Writers \cup {NoWriter}]
           /\ readers' \subseteq Workloads \X (Transports \X Nat)
BY DEF LogShape, WritersWithout, ReadersWithout

LEMMA LogShapeStep == Shape /\ LogShape /\ ReadersInv /\ [Next]_vars => LogShape'
<1> SUFFICES ASSUME Shape, LogShape, ReadersInv, [Next]_vars PROVE LogShape'
    OBVIOUS
<1>0. LogWorkloads = Workloads
    BY ObserversAssumption
<1>1. CASE LogsStarted \/ LogsStopped
  <2>1. PICK w : LogsWorkloadRemoved(w)
      BY <1>1 DEF LogsStarted, LogsStopped
  <2> QED
      BY <2>1, <1>0, RemoveShape DEF LogsWorkloadRemoved, deleteWorkload, LogShape
<1>2. CASE LogsInserted
  <2>1. loop.workload \in Workloads /\ loop.writer \in Writers
      BY <1>2 DEF LogsInserted, ReadersInv
  <2> QED
    <3>1. wwriter' = [wwriter EXCEPT ![loop.workload] = loop.writer]
        BY <1>2 DEF LogsInserted, InsertWriter
    <3>2. UNCHANGED <<transports, logsConfig, readers, created>>
        BY <1>2 DEF LogsInserted, InsertWriter
    <3>3. wwriter' \in [Workloads -> Writers \cup {NoWriter}]
        BY <2>1, <3>1 DEF LogShape
    <3> QED
        BY <3>2, <3>3 DEF LogShape
<1>3. CASE LogsReading
  <2>1. loop.workload \in Workloads /\ loop.writer \in Writers
      BY <1>3 DEF LogsReading, ReadersInv
  <2>2. /\ loop.writer.buffer \in Transports \X Nat
        /\ Writer(loop.writer.buffer, TRUE) \in Writers
      BY <2>1 DEF Writers, Writer
  <2>3. CASE StartWriter(loop.workload, loop.writer)
    <3> DEFINE b == loop.writer.buffer
    <3>1. UNCHANGED <<transports, logsConfig, created>>
        BY <2>3 DEF StartWriter
    <3>2. CASE UNCHANGED <<readers, wwriter>>
        BY <3>1, <3>2 DEF LogShape
    <3>3. CASE /\ readers' = readers \cup {<<loop.workload, b>>}
               /\ wwriter' = [wwriter EXCEPT ![loop.workload] = Writer(b, TRUE)]
      <4>1. wwriter' \in [Workloads -> Writers \cup {NoWriter}]
          BY <2>1, <2>2, <3>3 DEF LogShape
      <4>2. <<loop.workload, b>> \in Workloads \X (Transports \X Nat)
          BY <2>1, <2>2
      <4>3. readers' \subseteq Workloads \X (Transports \X Nat)
          BY <3>3, <4>2 DEF LogShape
      <4> QED
          BY <3>1, <4>1, <4>3 DEF LogShape
    <3> QED
        BY <2>3, <3>2, <3>3 DEF StartWriter
  <2>4. CASE StartWriterFails
      BY <2>4 DEF StartWriterFails, logVars, LogShape
  <2> QED
      BY <1>3, <2>3, <2>4 DEF LogsReading
<1>4. CASE UpdateLogs
  <2>1. PICK k : LogsUpdate(k)
      BY <1>4 DEF UpdateLogs
  <2>2. /\ wwriter' \in [Workloads -> Writers \cup {NoWriter}]
        /\ readers' \subseteq Workloads \X (Transports \X Nat)
      BY <2>1, <1>0, RemoveShape DEF LogsUpdate
  <2>3. transports' \in [Transports -> Nat] /\ created' \in [Transports -> Nat]
      BY <2>1 DEF LogsUpdate, LogShape
  <2>4. logsConfig' = logsConfig
      BY <2>1 DEF LogsUpdate
  <2> QED
      BY <2>2, <2>3, <2>4 DEF LogShape
<1>5. CASE AssignLogs
  <2>1. update.config.logs \in [Workloads -> Transports \cup {NoTransport}]
      BY <1>5, UpdateShape, ConfigShape DEF AssignLogs
  <2> QED
      BY <1>5, <2>1 DEF AssignLogs, LogsAssign, LogShape
<1> QED
    BY <1>1, <1>2, <1>3, <1>4, <1>5, LogFrame DEF LogStep, LogShape

(* No goroutine is left of the workloads whose writers are stopped, and    *)
(* those of the others keep their writers.                                 *)
LEMMA RemoveOwned ==
    ASSUME LogShape, ReadersOwned, NEW ws, LogWorkloads = Workloads,
           wwriter' = WritersWithout(ws), readers' = ReadersWithout(ws)
    PROVE  /\ ReadersOwned' /\ readers' \subseteq readers
           /\ \A r \in readers' : r[1] \notin ws
<1>1. readers' \subseteq readers
    BY DEF ReadersWithout
<1>2. ASSUME NEW r \in readers' PROVE r[1] \notin ws
  <2>1. r \in readers /\ r[1] \in Workloads /\ r[2] \in Transports \X Nat /\ r = <<r[1], r[2]>>
      BY <1>1, <1>2 DEF LogShape
  <2>2. wwriter[r[1]] = Writer(r[2], TRUE)
      BY <2>1 DEF ReadersOwned
  <2>3. wwriter[r[1]].cancel /\ wwriter[r[1]].buffer = r[2]
      BY <2>2 DEF Writer
  <2>4. Writer(r[2], TRUE) \in Writers
      BY <2>1 DEF Writer, Writers
  <2>5. wwriter[r[1]] # NoWriter
      BY <2>2, <2>4, NoWriterAssumption
  <2> QED
      BY <2>1, <2>3, <2>5, <1>2 DEF ReadersWithout
<1>3. ASSUME NEW r \in readers' PROVE wwriter'[r[1]] = Writer(r[2], TRUE)
  <2>1. r \in readers /\ r[1] \in Workloads
      BY <1>1, <1>3 DEF LogShape
  <2>2. wwriter'[r[1]] = wwriter[r[1]]
      BY <2>1, <1>2, <1>3 DEF WritersWithout
  <2> QED
      BY <2>1, <2>2 DEF ReadersOwned
<1>4. ReadersOwned'
    BY <1>3 DEF ReadersOwned, Writer
<1> QED
    BY <1>1, <1>2, <1>4

LEMMA ReadersStep == Shape /\ LogShape /\ ReadersInv /\ [Next]_vars => ReadersInv'
<1> SUFFICES ASSUME Shape, LogShape, ReadersInv, [Next]_vars PROVE ReadersInv'
    OBVIOUS
<1> DEFINE Starting == At("insert", "started") \/ At("start", "started")
<1>0. LogWorkloads = Workloads /\ ReadersOwned
    BY ObserversAssumption DEF ReadersInv
<1>1. CASE LogsStarted
  <2>1. loop \in Loops /\ LogsWorkloadRemoved(loop.workload)
      BY <1>1, LoopShape DEF LogsStarted
  <2>2. /\ ReadersOwned'
        /\ \A r \in readers' : r[1] # loop.workload
      BY <2>1, <1>0, RemoveOwned DEF LogsWorkloadRemoved, deleteWorkload
  <2>3. PICK p \in LoopPCs :
           /\ loop' = [loop EXCEPT !.writer = Lookup(loop.workload), !.pc = p]
           /\ Lookup(loop.workload) = NoWriter => p = "metrics"
      BY <1>1, PCs DEF LogsStarted
  <2>4. /\ Lookup(loop.workload) \in Writers \cup {NoWriter}
        /\ Lookup(loop.workload) # NoWriter =>
              loop.workload \in Workloads /\ ~Lookup(loop.workload).cancel
      BY <1>0, <2>1, LookupWriter
  <2>5. /\ loop'.workload = loop.workload /\ loop'.writer = Lookup(loop.workload)
        /\ loop'.pc = p
      BY <2>1, <2>3 DEF Loops
  <2>6. Starting' => Lookup(loop.workload) # NoWriter
      BY <2>3, <2>5 DEF At
  <2> QED
      BY <2>2, <2>4, <2>5, <2>6 DEF ReadersInv
<1>2. CASE LogsStopped
  <2>1. loop \in Loops /\ LogsWorkloadRemoved(loop.workload) /\ loop' = [loop EXCEPT !.pc = "metrics"]
      BY <1>2, LoopShape DEF LogsStopped, Goto
  <2>2. ReadersOwned'
      BY <2>1, <1>0, RemoveOwned DEF LogsWorkloadRemoved, deleteWorkload
  <2>3. ~Starting'
      BY <2>1 DEF At, Loops
  <2> QED
      BY <2>2, <2>3 DEF ReadersInv
<1>3. CASE LogsInserted
  <2>1. /\ loop \in Loops /\ loop.workload \in Workloads /\ loop' = [loop EXCEPT !.pc = "start"]
        /\ loop.writer \in Writers /\ ~loop.writer.cancel
        /\ \A r \in readers : r[1] # loop.workload
        /\ wwriter' = [wwriter EXCEPT ![loop.workload] = loop.writer] /\ readers' = readers
      BY <1>3, LoopShape DEF LogsInserted, Goto, ReadersInv, InsertWriter
  <2>2. loop'.workload = loop.workload /\ loop'.writer = loop.writer
    <3>1. loop \in Loops /\ loop' = [loop EXCEPT !.pc = "start"]
        BY <2>1
    <3> QED
        BY <3>1 DEF Loops
  <2>3. ASSUME NEW r \in readers PROVE wwriter'[r[1]] = Writer(r[2], TRUE)
    <3>1. r[1] # loop.workload /\ r[1] \in Workloads
        BY <2>1, <2>3 DEF LogShape
    <3> QED
        BY <2>1, <2>3, <3>1, <1>0 DEF LogShape, ReadersOwned
  <2>4. ReadersOwned'
      BY <2>1, <2>3 DEF ReadersOwned, Writer
  <2> QED
      BY <2>1, <2>2, <2>4 DEF ReadersInv
<1>4. CASE LogsReading
  <2>1. /\ loop \in Loops /\ loop.workload \in Workloads
        /\ loop' = [loop EXCEPT !.pc = "metrics", !.writer = NoWriter]
        /\ \A r \in readers : r[1] # loop.workload
        /\ \/ StartWriter(loop.workload, loop.writer)
           \/ UNCHANGED <<readers, wwriter>>
      BY <1>4, LoopShape DEF LogsReading, ReadersInv, StartWriterFails, logVars
  <2>2. loop'.pc = "metrics"
      BY <2>1 DEF Loops
  <2>3. ASSUME NEW r \in readers' PROVE wwriter'[r[1]] = Writer(r[2], TRUE)
    <3>1. CASE r \in readers /\ UNCHANGED wwriter
        BY <3>1, <1>0 DEF ReadersOwned
    <3>2. CASE r \in readers /\ wwriter' = [wwriter EXCEPT ![loop.workload] = Writer(loop.writer.buffer, TRUE)]
      <4>1. r[1] # loop.workload /\ r[1] \in Workloads
          BY <2>1, <3>2 DEF LogShape
      <4> QED
          BY <3>2, <4>1, <1>0 DEF LogShape, ReadersOwned
    <3>3. CASE /\ r = <<loop.workload, loop.writer.buffer>>
               /\ wwriter' = [wwriter EXCEPT ![loop.workload] = Writer(loop.writer.buffer, TRUE)]
        BY <3>3, <2>1 DEF LogShape
    <3> QED
        BY <2>1, <2>3, <3>1, <3>2, <3>3 DEF StartWriter
  <2>4. ReadersOwned'
      BY <2>3 DEF ReadersOwned, Writer
  <2>5. ~Starting'
      BY <2>2 DEF At
  <2> QED
      BY <2>4, <2>5 DEF ReadersInv
<1>5. CASE UpdateLogs
  <2>1. PICK k : LogsUpdate(k)
      BY <1>5 DEF UpdateLogs
  <2>2. ReadersOwned' /\ readers' \subseteq readers
      BY <2>1, <1>0, RemoveOwned DEF LogsUpdate
  <2>3. loop' = loop
      BY <1>5 DEF UpdateLogs, Rest
  <2> QED
      BY <2>2, <2>3 DEF ReadersInv, At
<1>6. CASE UNCHANGED <<wwriter, readers>>
  <2>1. ReadersOwned'
      BY <1>0, <1>6 DEF ReadersOwned, Writer
  <2>2. CASE loop' = loop
      BY <1>6, <2>1, <2>2 DEF ReadersInv, At
  <2>3. CASE (\E w \in Workloads : TakeListed(w)) \/ TakeEvent
    <3>1. ~Starting'
        BY <2>3 DEF TakeListed, TakeEvent, Handle, At
    <3> QED
        BY <2>1, <3>1 DEF ReadersInv
  <2>4. CASE MetricsStarted \/ MonitorForgets
    <3>1. ~Starting'
        BY <2>4 DEF MetricsStarted, MonitorForgets, At
    <3> QED
        BY <2>1, <3>1 DEF ReadersInv
  <2>5. CASE MetricsStopped \/ MonitorSyncs
    <3>1. loop \in Loops /\ loop.event = "stopped"
        BY <2>5, LoopShape DEF MetricsStopped, MonitorSyncs, At
    <3>2. PICK p \in LoopPCs : loop' = [loop EXCEPT !.pc = p]
        BY <2>5, PCs DEF MetricsStopped, MonitorSyncs, Goto
    <3>3. ~Starting'
        BY <3>1, <3>2 DEF At, Loops
    <3> QED
        BY <2>1, <3>3 DEF ReadersInv
  <2> QED
      BY <1>1, <1>2, <1>3, <1>4, <2>2, <2>3, <2>4, <2>5, LoopFrame DEF LoopStep
<1>7. CASE AssignLogs
    BY <1>6, <1>7 DEF AssignLogs, LogsAssign
<1> QED
    BY <1>1, <1>2, <1>3, <1>4, <1>5, <1>6, <1>7, LogFrame DEF LogStep

-----------------------------------------------------------------------------
(* The system target and the storage.                                      *)

SystemStep == MetricsStarted \/ MetricsStopped \/ UpdateSystem \/ Deregister

LEMMA SystemFrame ==
    [Next]_vars => SystemStep \/ UNCHANGED <<targets, latestConfig, deregistered>>
BY DEF Next, EventLoop, SystemStep, vars, targetVars, Others, Rest, PodStarts, PodStops,
       PodRemoved, PodChanges, Subscribe, StreamEnds, TakeListed, TakeEvent, DropStart, LogsStarted,
       LogsInserted, LogsReading, LogsStopped, MonitorSyncs, MonitorForgets, BeginUpdate,
       Update, UpdateMetrics, WorkloadMetricsUpdate, UpdateLogs, AssignLogs, UpdateMonitor,
       Save, TickBegins, TickSyncs

(* What an update in its later steps has behind it.                        *)
AfterSystem == \E p \in {"logs", "assign", "monitor", "save"} : UpdateAt(p)

LEMMA SystemUpdateMoves ==
    ASSUME Shape, NEW c \in SystemConfigs, SystemMetricsUpdate(c) \/ SystemMetricsFails(c),
           SystemInv, deregistered' = deregistered
    PROVE  /\ latestConfig' # "none" /\ ~deregistered =>
                 ((System \in targets') <=> latestConfig' \in Intervals)
           /\ SystemMetricsUpdate(c) => latestConfig' = c
<1>1. c # "none" /\ (c # "off" <=> c \in Intervals)
    BY TargetsAssumption DEF SystemConfigs
<1>2. CASE UNCHANGED targetVars /\ latestConfig = c
    BY <1>2 DEF targetVars, SystemInv
<1>3. CASE latestConfig # c /\ SystemMetricsUpdate(c)
  <2>1. /\ latestConfig' = c
        /\ c # "off" => System \in targets'
        /\ c = "off" => System \notin targets'
      BY <1>3 DEF SystemMetricsUpdate, AddTarget, DeleteTarget
  <2> QED
      BY <1>1, <2>1
<1>4. CASE SystemMetricsFails(c) /\ ~SystemMetricsUpdate(c)
    BY <1>4 DEF SystemMetricsFails, SystemInv
<1> QED
    BY <1>2, <1>3, <1>4 DEF SystemMetricsUpdate, targetVars

LEMMA SystemStepKeeps == Shape /\ SystemInv /\ [Next]_vars => SystemInv'
<1> SUFFICES ASSUME Shape, SystemInv, [Next]_vars PROVE SystemInv'
    OBVIOUS
<1>1. CASE MetricsStarted \/ MetricsStopped
  <2>1. loop.workload # System
    <3>1. loop.workload \in PodNames
        BY <1>1, LoopShape DEF MetricsStarted, MetricsStopped
    <3> QED
        BY <3>1, PodmanNameAssumption DEF PodNames
  <2>2. /\ System \in targets' <=> System \in targets
        /\ UNCHANGED <<latestConfig, deregistered, config, update, odd>>
      BY <1>1, <2>1 DEF MetricsStarted, MetricsStopped, MetricsWorkloadStarted,
         MetricsWorkloadRemoved, AddTarget, DeleteTarget, Others, manager
  <2> QED
      BY <2>2 DEF SystemInv, UpdateAt
<1>2. CASE UpdateSystem
  <2>1. update.config.system \in SystemConfigs /\ update \in Updates
      BY <1>2, UpdateShape, ConfigShape DEF UpdateSystem
  <2>2. deregistered' = deregistered
      BY <1>2 DEF UpdateSystem, Rest
  <2>5. /\ update' \in Updates /\ update'.config = update.config
        /\ \/ SystemMetricsUpdate(update.config.system)
           \/ SystemMetricsFails(update.config.system) /\ update'.failed = {"system"}
      BY <1>2, <2>1, SystemMoves
  <2>6. update' # NoUpdate
      BY <2>5, NoUpdateAssumption
  <2>7. "system" \notin update'.failed => latestConfig' = update'.config.system
    <3>1. CASE SystemMetricsUpdate(update.config.system)
        BY <2>1, <2>2, <2>5, <3>1, SystemUpdateMoves
    <3>2. CASE update'.failed = {"system"}
        BY <3>2
    <3> QED
        BY <2>5, <3>1, <3>2
  <2>8. latestConfig' # "none" /\ ~deregistered' =>
            ((System \in targets') <=> latestConfig' \in Intervals)
      BY <2>1, <2>2, <2>5, SystemUpdateMoves
  <2> QED
      BY <2>6, <2>7, <2>8 DEF SystemInv
<1>3. CASE Deregister
  <2>1. deregistered' = TRUE /\ UNCHANGED <<latestConfig, config, update, odd>>
      BY <1>3 DEF Deregister, SystemMetricsDeregister, manager
  <2> QED
      BY <2>1 DEF SystemInv, UpdateAt
<1>4. ASSUME UNCHANGED <<targets, latestConfig, deregistered>> PROVE SystemInv'
  <2>0. latestConfig' # "none" /\ ~deregistered' =>
            ((System \in targets') <=> latestConfig' \in Intervals)
      BY <1>4 DEF SystemInv
  <2>1. CASE UNCHANGED <<update, config, odd>>
      BY <1>4, <2>1 DEF SystemInv, UpdateAt
  <2>2. ASSUME NEW c \in Configs, BeginUpdate(c) PROVE SystemInv'
    <3>1. update' = [config |-> c, pc |-> "metrics", keys |-> {}, failed |-> {}]
        BY <2>2 DEF BeginUpdate
    <3>2. update'.pc = "metrics" /\ update' \in Updates
        BY <3>1 DEF Updates, UpdatePCs
    <3>3. ~AfterSystem'
        BY <3>2 DEF AfterSystem, UpdateAt
    <3> QED
        BY <2>0, <3>2, <3>3, NoUpdateAssumption DEF SystemInv, AfterSystem
  <2>3. CASE UpdateMetrics
    <3>1. update \in Updates /\ update' = [update EXCEPT !.pc = "system"]
        BY <2>3, UpdateShape DEF UpdateMetrics, UpdateTo
    <3>2. update' \in Updates /\ update'.pc = "system"
        BY <3>1, UpdateMoves, PCs
    <3>3. ~AfterSystem'
        BY <3>2 DEF AfterSystem, UpdateAt
    <3> QED
        BY <2>0, <3>2, <3>3, NoUpdateAssumption DEF SystemInv, AfterSystem
  <2>4. CASE UpdateLogs \/ AssignLogs \/ UpdateMonitor
    <3>1. update \in Updates /\ AfterSystem
        BY <2>4, UpdateShape DEF UpdateLogs, AssignLogs, UpdateMonitor, AfterSystem
    <3>2. update' \in Updates /\ update'.config = update.config /\ update.failed \subseteq update'.failed
      <4>1. CASE UpdateLogs
        <5>1. update.config.keys \subseteq Transports
            BY <4>1, UpdateShape, ConfigShape DEF UpdateLogs
        <5>2. PICK k \in SUBSET Transports : update' = [update EXCEPT !.pc = "assign", !.keys = k]
            BY <4>1, <5>1 DEF UpdateLogs
        <5>3. "assign" \in UpdatePCs
            BY PCs
        <5> QED
            BY <3>1, <5>2, <5>3, KeysMoves
      <4>2. CASE AssignLogs
          BY <3>1, <4>2, UpdateMoves, PCs DEF AssignLogs, UpdateTo
      <4>3. CASE UpdateMonitor
          BY <3>1, <4>3, MonitorMoves
      <4> QED
          BY <2>4, <4>1, <4>2, <4>3
    <3>3. "system" \notin update'.failed => latestConfig' = update'.config.system
        BY <1>4, <3>1, <3>2 DEF SystemInv, AfterSystem
    <3>4. update' # NoUpdate
        BY <3>2, NoUpdateAssumption
    <3> QED
        BY <2>0, <3>3, <3>4 DEF SystemInv
  <2>5. CASE Save
    <3>1. /\ update' = NoUpdate /\ UpdateAt("save")
          /\ \/ config' = update.config /\ odd' = update.failed
             \/ odd' = Failing
        BY <2>5 DEF Save
    <3>2. "system" \in Failing
        BY DEF Failing
    <3>3. "system" \notin odd' => latestConfig' = config'.system
        BY <1>4, <3>1, <3>2 DEF SystemInv
    <3>4. ~AfterSystem'
        BY <3>1 DEF AfterSystem, UpdateAt
    <3> QED
        BY <2>0, <3>3, <3>4 DEF SystemInv, AfterSystem
  <2>6. CASE UpdateSystem
      BY <1>2, <2>6
  <2> QED
      BY <2>1, <2>2, <2>3, <2>4, <2>5, <2>6, UpdateFrame DEF UpdateStep, Update
<1> QED
    BY <1>1, <1>2, <1>3, <1>4, SystemFrame DEF SystemStep

LEMMA StorageFrame == [Next]_vars => UpdateMonitor \/ UNCHANGED fsSync
BY DEF Next, EventLoop, vars, transferVars, PodStarts, PodStops, PodRemoved, PodChanges,
       Subscribe, StreamEnds, TakeListed, TakeEvent, DropStart, LogsStarted, LogsInserted, LogsReading,
       MetricsStarted, LogsStopped, MetricsStopped, MonitorSyncs, SyncRemoved,
       MonitorForgets, ForgetSync, BeginUpdate, Update, UpdateMetrics, UpdateSystem,
       UpdateLogs, AssignLogs, Save, TickBegins, BeginTick, TickSyncs, SyncNext, EndTick,
       Deregister, MonitorDeregister

LEMMA StorageStep == Shape /\ StorageInv /\ [Next]_vars => StorageInv'
<1> SUFFICES ASSUME Shape, StorageInv, [Next]_vars PROVE StorageInv'
    OBVIOUS
<1>1. ASSUME NEW c \in Configs, BeginUpdate(c) PROVE StorageInv'
  <2>1. update' = [config |-> c, pc |-> "metrics", keys |-> {}, failed |-> {}]
      BY <1>1 DEF BeginUpdate
  <2>2. update'.pc = "metrics" /\ update' \in Updates
      BY <2>1 DEF Updates, UpdatePCs
  <2> QED
      BY <2>2, NoUpdateAssumption DEF StorageInv, StorageFollows, UpdateAt
<1>2. CASE UpdateMetrics \/ UpdateSystem \/ UpdateLogs \/ AssignLogs
  <2>1. update \in Updates
      BY <1>2, UpdateShape DEF UpdateMetrics, UpdateSystem, UpdateLogs, AssignLogs
  <2>2. update' \in Updates /\ update'.pc # "save"
    <3>1. CASE UpdateMetrics \/ AssignLogs
      <4>1. PICK p \in {"system", "monitor"} : update' = [update EXCEPT !.pc = p]
          BY <3>1 DEF UpdateMetrics, AssignLogs, UpdateTo
      <4>2. p \in UpdatePCs /\ p # "save"
          BY PCs
      <4> QED
          BY <2>1, <4>1, <4>2, UpdateMoves
    <3>2. CASE UpdateLogs
      <4>1. update.config.keys \subseteq Transports
          BY <3>2, UpdateShape, ConfigShape DEF UpdateLogs
      <4>2. PICK k \in SUBSET Transports : update' = [update EXCEPT !.pc = "assign", !.keys = k]
          BY <3>2, <4>1 DEF UpdateLogs
      <4>3. "assign" \in UpdatePCs
          BY PCs
      <4> QED
          BY <2>1, <4>2, <4>3, KeysMoves
    <3>3. CASE UpdateSystem
        BY <2>1, <3>3, SystemMoves
    <3> QED
        BY <1>2, <3>1, <3>2, <3>3
  <2>3. update' # NoUpdate
      BY <2>2, NoUpdateAssumption
  <2> QED
      BY <2>2, <2>3 DEF StorageInv, StorageFollows, UpdateAt
<1>3. CASE UpdateMonitor
  <2>1. update \in Updates
      BY <1>3, UpdateShape DEF UpdateMonitor
  <2>2. /\ update' \in Updates /\ update'.config = update.config
        /\ \/ MonitorUpdate(update.config.storage)
           \/ "storage" \in update'.failed
      BY <1>3, <2>1, MonitorMoves
  <2>3. MonitorUpdate(update.config.storage) /\ update.config.storage # NoStorage =>
            fsSync' = update.config.storage
      BY DEF MonitorUpdate
  <2>4. update' # NoUpdate
      BY <2>2, NoUpdateAssumption
  <2> QED
      BY <2>2, <2>3, <2>4 DEF StorageInv, StorageFollows
<1>4. CASE Save
  <2>1. fsSync' = fsSync /\ update' = NoUpdate
      BY <1>4 DEF Save, transferVars
  <2>2. CASE odd' = Failing
    <3>1. "storage" \in odd'
        BY <2>2 DEF Failing
    <3> QED
        BY <2>1, <3>1 DEF StorageInv, StorageFollows, UpdateAt
  <2>3. CASE config' = update.config /\ odd' = update.failed
    <3>1. UpdateAt("save")
        BY <1>4 DEF Save
    <3> QED
        BY <2>1, <2>3, <3>1 DEF StorageInv, StorageFollows, UpdateAt
  <2> QED
      BY <1>4, <2>2, <2>3 DEF Save
<1>5. CASE UNCHANGED <<update, config, odd, fsSync>>
    BY <1>5 DEF StorageInv, StorageFollows, UpdateAt
<1> QED
    BY <1>1, <1>2, <1>3, <1>4, <1>5, UpdateFrame, StorageFrame DEF UpdateStep, Update

LEMMA InitInvariants == Init => ReadersInv /\ SystemInv /\ StorageInv
<1> SUFFICES ASSUME NEW c \in Configs, Init, config = c, TargetsInit(c.metrics, c.system),
                    TransferInit(c.storage), NEW running \in SUBSET Workloads, NEW found,
                    LogsInit(c.keys, c.logs, running, found)
             PROVE  ReadersInv /\ SystemInv /\ StorageInv
  <2>1. Running \in SUBSET Workloads
      BY DEF Running
  <2> QED
      BY <2>1 DEF Init, Running
<1>1. ReadersInv
  <2>1. LogWorkloads = Workloads /\ loop = Idle
      BY ObserversAssumption DEF Init
  <2>2. ASSUME NEW r \in readers PROVE wwriter[r[1]] = Writer(r[2], TRUE)
    <3>1. PICK w \in running \cap found : c.logs[w] \in c.keys /\ r = <<w, <<c.logs[w], 1>>>>
        BY <2>2 DEF LogsInit
    <3>2. wwriter[w] = Writer(<<c.logs[w], 1>>, w \in found)
        BY <2>1, <3>1 DEF LogsInit
    <3> QED
        BY <3>1, <3>2 DEF Writer
  <2> QED
      BY <2>1, <2>2 DEF ReadersInv, ReadersOwned, At
<1>2. SystemInv
  <2>1. /\ latestConfig \in {c.system, "none"}
        /\ (System \in targets) <=> latestConfig \in Intervals
      BY DEF TargetsInit
  <2>2. update = NoUpdate /\ (odd = IF latestConfig = "none" THEN {"system"} ELSE {})
      BY DEF Init
  <2>3. "system" \notin odd => latestConfig = c.system
      BY <2>1, <2>2
  <2> QED
      BY <2>1, <2>2, <2>3 DEF SystemInv, UpdateAt
<1>3. StorageInv
    BY DEF Init, TransferInit, StorageInv, StorageFollows, UpdateAt
<1> QED
    BY <1>1, <1>2, <1>3

-----------------------------------------------------------------------------
(* What is left of a workload.                                             *)

(* The stream with an event added, and without its first.                  *)
LEMMA StreamAppend ==
    ASSUME NEW s \in Seq(PodEvents), NEW e \in PodEvents
    PROVE  /\ DOMAIN Append(s, e) = DOMAIN s \cup {Len(s) + 1}
           /\ \A k \in DOMAIN s : Append(s, e)[k] = s[k] /\ k < Len(s) + 1
           /\ Append(s, e)[Len(s) + 1] = e
           /\ \A k \in DOMAIN Append(s, e) : k \in DOMAIN s \/ k = Len(s) + 1
OBVIOUS

LEMMA StreamLen == ASSUME NEW s \in Seq(PodEvents)
                   PROVE  Len(s) + 1 \in Nat /\ \A k \in DOMAIN s : k \in Nat
OBVIOUS

LEMMA StreamRest ==
    ASSUME NEW s \in Seq(PodEvents), s # <<>>
    PROVE  /\ 1 \in DOMAIN s /\ s[1] = Head(s)
           /\ \A k \in DOMAIN Tail(s) : k + 1 \in DOMAIN s /\ Tail(s)[k] = s[k + 1]
           /\ \A k \in DOMAIN s : k # 1 => k - 1 \in DOMAIN Tail(s) /\ Tail(s)[k - 1] = s[k]
           /\ \A k \in DOMAIN s : k \in Nat
           /\ \A k \in DOMAIN Tail(s) : k \in Nat \ {0}
OBVIOUS

(* An event that is added does not take a stop out of the stream.          *)
LEMMA QueuedAppend ==
    ASSUME stream \in Seq(PodEvents), NEW e \in PodEvents, stream' = Append(stream, e), NEW w
    PROVE  /\ Queued(w) => Queued(w)'
           /\ e = <<"stopped", w>> => Queued(w)'
BY StreamAppend DEF Queued

(* Only a stop that is the first event can be taken out.                   *)
LEMMA QueuedRest ==
    ASSUME stream \in Seq(PodEvents), stream # <<>>, stream' = Tail(stream), NEW w,
           Queued(w), Head(stream) # <<"stopped", w>>
    PROVE  Queued(w)'
<1>1. PICK k \in DOMAIN stream : stream[k] = <<"stopped", w>>
    BY DEF Queued
<1>2. k # 1
    BY <1>1, StreamRest
<1>3. k - 1 \in DOMAIN Tail(stream) /\ Tail(stream)[k - 1] = <<"stopped", w>>
    BY <1>1, <1>2, StreamRest
<1> QED
    BY <1>3 DEF Queued

(* The rest of the stream ends with the stop as well.                      *)
LEMMA StreamInvRest ==
    ASSUME Shape, StreamInv, stream # <<>>, stream' = Tail(stream), UNCHANGED <<pod, subscription, stale>>
    PROVE  StreamInv'
<1>1. stream \in Seq(PodEvents)
    BY DEF Shape
<1>2. ASSUME NEW w \in Workloads, pod[w] # "running", subscription # "ended" \/ w \notin stale,
             NEW k \in DOMAIN stream', stream'[k] = <<"started", w>>
      PROVE  \E j \in DOMAIN stream' : j > k /\ stream'[j] = <<"stopped", w>>
  <2>1. k + 1 \in DOMAIN stream /\ stream[k + 1] = <<"started", w>> /\ k \in Nat \ {0}
      BY <1>1, <1>2, StreamRest
  <2>2. PICK j \in DOMAIN stream : j > k + 1 /\ stream[j] = <<"stopped", w>>
      BY <1>2, <2>1 DEF StreamInv
  <2>3. j \in Nat
      BY <1>1, <2>2, StreamRest
  <2>4. j # 1 /\ j - 1 > k
      BY <2>1, <2>2, <2>3
  <2>5. j - 1 \in DOMAIN stream' /\ stream'[j - 1] = <<"stopped", w>>
      BY <1>1, <2>2, <2>4, StreamRest
  <2> QED
      BY <2>4, <2>5
<1>3. subscription' # "no"
    BY DEF StreamInv
<1> QED
    BY <1>2, <1>3 DEF StreamInv

(* A pod starts, stops or is removed.                                      *)
LEMMA PodClean ==
    ASSUME Shape, CleanInv, NEW w \in Workloads,
           PodStarts(w) \/ PodStops(w) \/ PodRemoved(w)
    PROVE  CleanInv'
<1> USE DEF CleanInv
<1>1. PICK e \in {"started", "stopped"}, to \in {"none", "running", "stopped"} :
         /\ pod' = [pod EXCEPT ![w] = to]
         /\ (to = "running" <=> e = "started")
         /\ stream' = IF subscription = "yes" THEN Append(stream, <<e, w>>) ELSE stream
         /\ stale' = IF subscription # "yes" /\ e = "stopped" THEN stale \cup {w} ELSE stale
         /\ UNCHANGED <<subscription, loop, targetVars, logVars, transferVars>>
    BY DEF PodStarts, PodStops, PodRemoved, PodChanges
<1>2. stream \in Seq(PodEvents) /\ <<e, w>> \in PodEvents
    BY DEF Shape, PodEvents
<1>3. /\ pod \in [Workloads -> {"none", "running", "stopped"}]
      /\ pod' \in [Workloads -> {"none", "running", "stopped"}]
      /\ pod'[w] = to /\ \A v \in Workloads \ {w} : pod'[v] = pod[v]
    BY <1>1 DEF StreamInv
<1>4. UNCHANGED <<targets, wwriter, lastSync>> /\ stale \subseteq stale'
    BY <1>1 DEF targetVars, logVars, transferVars
<1>5. \A v : (Queued(v) => Queued(v)') /\ \A h : Handling(h, v)' <=> Handling(h, v)
    BY <1>1, <1>2, QueuedAppend DEF Queued, Handling
<1>6. to # "running" /\ w \notin stale' => Queued(w)'
  <2>1. to # "running" /\ w \notin stale' => e = "stopped" /\ stream' = Append(stream, <<e, w>>)
      BY <1>1
  <2> QED
      BY <2>1, <1>2, QueuedAppend
<1>7. StreamInv'
  <2>1. CASE subscription # "yes"
    <3>1. stream' = stream /\ subscription' = subscription
        BY <1>1, <2>1
    <3>2. ASSUME NEW v \in Workloads, pod'[v] # "running",
                 subscription' # "ended" \/ v \notin stale',
                 NEW k \in DOMAIN stream', stream'[k] = <<"started", v>>
          PROVE  \E j \in DOMAIN stream' : j > k /\ stream'[j] = <<"stopped", v>>
      <4>0. subscription # "no"
        <5>1. stream # <<>>
            BY <3>1, <3>2
        <5> QED
            BY <5>1 DEF StreamInv
      <4>1. v = w => v \in stale'
          BY <1>1, <1>3, <2>1, <3>2
      <4>2. subscription = "ended" /\ v \notin stale'
          BY <1>2, <2>1, <3>1, <3>2, <4>0 DEF StreamInv
      <4>3. v # w /\ v \notin stale /\ pod[v] # "running"
          BY <1>3, <1>4, <3>2, <4>1, <4>2
      <4> QED
          BY <3>1, <3>2, <4>2, <4>3 DEF StreamInv
    <3> QED
        BY <1>3, <3>1, <3>2 DEF StreamInv
  <2>2. CASE subscription = "yes"
    <3> DEFINE n == Len(stream) + 1
    <3>1. /\ stream' = Append(stream, <<e, w>>) /\ subscription' = "yes"
          /\ \A k \in DOMAIN stream : k \in DOMAIN stream' /\ stream'[k] = stream[k] /\ k < n
          /\ n \in DOMAIN stream' /\ stream'[n] = <<e, w>>
          /\ \A k \in DOMAIN stream' : k \in DOMAIN stream \/ k = n
      <4>1. stream' = Append(stream, <<e, w>>) /\ subscription' = "yes"
          BY <1>1, <2>2
      <4> QED
          BY <4>1, <1>2, StreamAppend
    <3> HIDE DEF n
    <3>2. ASSUME NEW v \in Workloads, pod'[v] # "running",
                 NEW k \in DOMAIN stream', stream'[k] = <<"started", v>>
          PROVE  \E j \in DOMAIN stream' : j > k /\ stream'[j] = <<"stopped", v>>
      <4>1. CASE v = w
        <5>1. e = "stopped"
            BY <1>1, <1>3, <3>2, <4>1
        <5>2. k # n
            BY <3>1, <3>2, <5>1
        <5>3. k < n
            BY <3>1, <3>2, <5>2
        <5>4. n > k
          <6>1. n \in Nat /\ k \in Nat
              BY <1>2, <3>1, <3>2, <5>2, StreamLen DEF n
          <6> QED
              BY <5>3, <6>1
        <5> QED
            BY <3>1, <4>1, <5>1, <5>4
      <4>2. CASE v # w
        <5>1. k \in DOMAIN stream /\ stream[k] = <<"started", v>> /\ pod[v] # "running"
            BY <1>3, <3>1, <3>2, <4>2
        <5>2. PICK j \in DOMAIN stream : j > k /\ stream[j] = <<"stopped", v>>
            BY <2>2, <5>1 DEF StreamInv
        <5> QED
            BY <3>1, <5>2
      <4> QED
          BY <4>1, <4>2
    <3> QED
        BY <1>3, <3>1, <3>2 DEF StreamInv
  <2> QED
      BY <2>1, <2>2
<1>8. LoopInv'
  <2>1. ASSUME NEW v \in Workloads \ stale', pod'[v] # "running", Handling("started", v)'
        PROVE  Queued(v)'
      BY <1>3, <1>4, <1>5, <1>6, <2>1 DEF LoopInv
  <2>2. \A p, h : At(p, h)' <=> At(p, h)
      BY <1>1 DEF At
  <2> QED
      BY <1>1, <1>4, <2>1, <2>2 DEF LoopInv
<1>9. NothingLeftBehind'
  <2>1. ASSUME NEW v \in Workloads \ stale', PodmanName[v] = v, ~Queued(v)', ~Handling("stopped", v)'
        PROVE  /\ pod'[v] # "running" => v \notin targets' /\ wwriter'[v] = NoWriter
               /\ pod'[v] = "none" => v \notin lastSync'
    <3>1. CASE v = w
      <4>1. pod'[v] = "running"
          BY <1>3, <1>6, <2>1, <3>1
      <4> QED
          BY <4>1
    <3>2. CASE v # w
        BY <1>3, <1>4, <1>5, <2>1, <3>2 DEF NothingLeftBehind
    <3> QED
        BY <3>1, <3>2
  <2> QED
      BY <2>1 DEF NothingLeftBehind
<1> QED
    BY <1>7, <1>8, <1>9

(* Steps that leave the events alone and start nothing.                    *)
LEMMA IdleClean ==
    ASSUME CleanInv, UNCHANGED <<pod, stream, loop>>, stale \subseteq stale',
           subscription' \in {subscription, "yes", "ended"},
           subscription = "ended" => subscription' = "ended",
           \A w \in Workloads : /\ w \in targets' => w \in targets
                                /\ wwriter'[w] \in {wwriter[w], NoWriter}
                                /\ w \in lastSync' =>
                                      w \in lastSync \/ pod[w] # "none" \/ w \in stale'
    PROVE  CleanInv'
<1> USE DEF CleanInv
<1>1. \A v : (Queued(v)' <=> Queued(v)) /\ \A h : Handling(h, v)' <=> Handling(h, v)
    BY DEF Queued, Handling
<1>2. \A p, h : At(p, h)' <=> At(p, h)
    BY DEF At
<1>3. StreamInv'
    BY DEF StreamInv
<1>4. LoopInv'
    BY <1>1, <1>2 DEF LoopInv
<1>5. NothingLeftBehind'
    BY <1>1 DEF NothingLeftBehind
<1> QED
    BY <1>3, <1>4, <1>5

(* An event is taken; the rest of the stream stays.                        *)
LEMMA TakeClean ==
    ASSUME Shape, CleanInv, (\E w \in Workloads : TakeListed(w)) \/ TakeEvent \/ DropStart
    PROVE  CleanInv'
<1> USE DEF CleanInv
<1>0. stream \in Seq(PodEvents)
    BY DEF Shape
<1>1. ASSUME NEW w \in Workloads, TakeListed(w) PROVE CleanInv'
  <2>1. /\ Handle("started", w) /\ loop = Idle
        /\ stale' = IF pod[w] = "running" THEN stale ELSE stale \cup {w}
        /\ UNCHANGED <<pod, subscription, stream, targets, wwriter, lastSync>>
      BY <1>1 DEF TakeListed, targetVars, logVars, transferVars
  <2>2. /\ \A v \in Workloads : Handling("started", v)' => v = w
        /\ \A v : ~Handling("stopped", v) /\ ~Handling("stopped", v)'
        /\ \A p : ~At(p, "stopped")'
      BY <2>1, NamesApart DEF Handle, Handling, At
  <2>3. \A v : Queued(v)' <=> Queued(v)
      BY <2>1 DEF Queued
  <2>4. StreamInv'
      BY <2>1 DEF StreamInv
  <2>5. LoopInv'
      BY <2>1, <2>2 DEF LoopInv
  <2>6. NothingLeftBehind'
      BY <2>1, <2>2, <2>3 DEF NothingLeftBehind
  <2> QED
      BY <2>4, <2>5, <2>6
<1>2. CASE TakeEvent
  <2> DEFINE h == Head(stream)[1]
             w == Head(stream)[2]
  <2>1. /\ Handle(h, w) /\ loop = Idle /\ stream # <<>> /\ stream' = Tail(stream)
        /\ UNCHANGED <<pod, subscription, stale, targets, wwriter, lastSync>>
      BY <1>2 DEF TakeEvent, targetVars, logVars, transferVars
  <2>2. h \in {"started", "stopped"} /\ w \in Workloads /\ Head(stream) = <<h, w>>
      BY <1>0, <2>1 DEF PodEvents
  <2>3. loop' \in Loops /\ loop'.event = h /\ loop'.workload = PodmanName[w] /\ loop'.pc = "logs"
      BY <2>1, <2>2 DEF Handle, Loops, LoopPCs, PodNames
  <2>4. loop' # Idle
      BY <2>3, IdleAssumption
  <2>5. StreamInv'
      BY <2>1, StreamInvRest
  <2>6. \A v : Queued(v) => Queued(v)' \/ Handling("stopped", v)'
    <3>1. ASSUME NEW v, Queued(v), Head(stream) = <<"stopped", v>> PROVE Handling("stopped", v)'
        BY <2>2, <2>3, <2>4, <3>1 DEF Handling
    <3> QED
        BY <1>0, <2>1, <3>1, QueuedRest
  <2>7. LoopInv'
    <3>1. ASSUME NEW v \in Workloads \ stale, pod[v] # "running", Handling("started", v)'
          PROVE  Queued(v)'
      <4>1. Head(stream) = <<"started", v>>
          BY <2>2, <2>3, <2>4, <3>1, NamesApart DEF Handling
      <4>2. 1 \in DOMAIN stream /\ stream[1] = <<"started", v>>
          BY <1>0, <2>1, <4>1, StreamRest
      <4>3. Queued(v)
          BY <3>1, <4>2 DEF StreamInv, Queued
      <4>4. Head(stream) # <<"stopped", v>>
          BY <4>1
      <4> QED
          BY <1>0, <2>1, <4>3, <4>4, QueuedRest
    <3>2. ~At("metrics", "stopped")' /\ ~At("sync", "stopped")' /\ ~At("forget", "stopped")'
        BY <2>3 DEF At
    <3> QED
        BY <2>1, <3>1, <3>2 DEF LoopInv
  <2>8. \A v : ~Handling("stopped", v)
      BY <2>1 DEF Handling
  <2>9. NothingLeftBehind'
      BY <2>1, <2>6, <2>8 DEF NothingLeftBehind
  <2> QED
      BY <2>5, <2>7, <2>9
<1>3. CASE DropStart
  <2>1. /\ stream # <<>> /\ stream' = Tail(stream) /\ Head(stream)[1] = "started"
        /\ UNCHANGED <<pod, subscription, loop, stale, targets, wwriter, lastSync>>
      BY <1>3 DEF DropStart, targetVars, logVars, transferVars
  <2>2. \A v : Head(stream) # <<"stopped", v>>
      BY <2>1
  <2>3. \A v : Queued(v) => Queued(v)'
      BY <1>0, <2>1, <2>2, QueuedRest
  <2>4. /\ \A v : \A h : Handling(h, v)' <=> Handling(h, v)
        /\ \A p, h : At(p, h)' <=> At(p, h)
      BY <2>1 DEF Handling, At
  <2>5. StreamInv'
      BY <2>1, StreamInvRest
  <2>6. LoopInv'
      BY <2>1, <2>3, <2>4 DEF LoopInv
  <2>7. NothingLeftBehind'
      BY <2>1, <2>3, <2>4 DEF NothingLeftBehind
  <2> QED
      BY <2>5, <2>6, <2>7
<1> QED
    BY <1>1, <1>2, <1>3

(* The observers of a start.                                               *)
LEMMA StartClean ==
    ASSUME Shape, LogShape, CleanInv,
           LogsStarted \/ LogsInserted \/ LogsReading \/ MetricsStarted
    PROVE  CleanInv'
<1> USE DEF CleanInv
<1> DEFINE w == loop.workload
<1>1. /\ loop \in Loops /\ w \in PodNames /\ loop.event = "started" /\ loop # Idle
      /\ UNCHANGED <<pod, subscription, stream, stale, lastSync>>
    BY LoopShape DEF LogsStarted, LogsInserted, LogsReading, MetricsStarted, At, Others, podman,
       transferVars
<1>2. /\ \A v \in Workloads \ {w} : /\ v \in targets' => v \in targets
                                    /\ wwriter'[v] \in {wwriter[v], NoWriter}
  <2>1. CASE LogsStarted
    <3>1. UNCHANGED targets /\ wwriter' = WritersWithout({w})
        BY <2>1 DEF LogsStarted, LogsWorkloadRemoved, deleteWorkload, targetVars
    <3> QED
        BY <3>1, ObserversAssumption DEF WritersWithout
  <2>2. CASE LogsInserted
      BY <2>2, <1>1 DEF LogsInserted, InsertWriter, targetVars, LogShape
  <2>3. CASE LogsReading
    <3>1. UNCHANGED targets
        BY <2>3 DEF LogsReading, targetVars
    <3>2. \/ UNCHANGED wwriter
          \/ wwriter' = [wwriter EXCEPT ![w] = Writer(loop.writer.buffer, TRUE)]
        BY <2>3 DEF LogsReading, StartWriter, StartWriterFails, logVars
    <3> QED
        BY <3>1, <3>2, <1>1 DEF LogShape
  <2>4. CASE MetricsStarted
      BY <2>4 DEF MetricsStarted, MetricsWorkloadStarted, AddTarget, logVars
  <2> QED
      BY <2>1, <2>2, <2>3, <2>4
<1>3. loop' = Idle \/ (loop' \in Loops /\ loop'.event = "started" /\ loop'.workload = w)
  <2>1. CASE LogsStarted
    <3>1. PICK p \in LoopPCs : loop' = [loop EXCEPT !.writer = Lookup(w), !.pc = p]
        BY <2>1, PCs DEF LogsStarted
    <3>2. Lookup(w) \in Writers \cup {NoWriter}
        BY ObserversAssumption, LookupWriter
    <3> QED
        BY <1>1, <3>1, <3>2 DEF Loops
  <2>2. CASE LogsReading
      BY <2>2, <1>1, PCs DEF LogsReading, Loops
  <2>3. CASE LogsInserted
      BY <2>3, <1>1, PCs DEF LogsInserted, Goto, Loops
  <2>4. CASE MetricsStarted
      BY <2>4 DEF MetricsStarted
  <2> QED
      BY <2>1, <2>2, <2>3, <2>4
<1>4. /\ \A v : Handling("started", v)' => Handling("started", v)
      /\ \A v : ~Handling("stopped", v) /\ ~Handling("stopped", v)'
      /\ \A v : PodmanName[v] = w => Handling("started", v)
      /\ \A p : ~At(p, "stopped")'
    BY <1>1, <1>3 DEF Handling, At
<1>5. \A v : Queued(v)' <=> Queued(v)
    BY <1>1 DEF Queued
<1>6. \A v \in Workloads \ stale :
         PodmanName[v] = w /\ pod[v] # "running" => Queued(v)
    BY <1>4 DEF LoopInv
<1>7. StreamInv'
    BY <1>1 DEF StreamInv
<1>8. LoopInv'
    BY <1>1, <1>4, <1>5 DEF LoopInv
<1>9. NothingLeftBehind'
  <2>1. ASSUME NEW v \in Workloads \ stale', PodmanName[v] = v, ~Queued(v)'
        PROVE  /\ pod'[v] # "running" => v \notin targets' /\ wwriter'[v] = NoWriter
               /\ pod'[v] = "none" => v \notin lastSync'
    <3>1. CASE v = w
      <4>1. pod'[v] = "running"
          BY <1>1, <1>5, <1>6, <2>1, <3>1
      <4> QED
          BY <4>1
    <3>2. CASE v # w
        BY <1>1, <1>2, <1>4, <1>5, <2>1, <3>2 DEF NothingLeftBehind
    <3> QED
        BY <3>1, <3>2
  <2> QED
      BY <2>1 DEF NothingLeftBehind
<1> QED
    BY <1>7, <1>8, <1>9

(* The observers of a stop.                                                *)
LEMMA StopClean ==
    ASSUME Shape, LogShape, CleanInv,
           LogsStopped \/ MetricsStopped \/ MonitorSyncs \/ MonitorForgets
    PROVE  CleanInv'
<1> USE DEF CleanInv
<1> DEFINE w == loop.workload
<1>1. /\ loop \in Loops /\ w \in PodNames /\ loop.event = "stopped" /\ loop # Idle
      /\ UNCHANGED <<pod, subscription, stream>>
    BY LoopShape DEF LogsStopped, MetricsStopped, MonitorSyncs, MonitorForgets, At, Others, podman
<1>2. \A v : Queued(v)' <=> Queued(v)
    BY <1>1 DEF Queued
<1>3. StreamInv'
  <2>1. subscription = "ended" => stale' = stale
      BY DEF LogsStopped, MetricsStopped, MonitorSyncs, MonitorForgets
  <2> QED
      BY <1>1, <2>1 DEF StreamInv
<1>4. LogWorkloads = Workloads
    BY ObserversAssumption
<1>5. ASSUME NEW p \in LoopPCs, loop' = [loop EXCEPT !.pc = p], UNCHANGED stale,
             \A v \in Workloads \ {w} : /\ v \in targets' => v \in targets
                                        /\ wwriter'[v] \in {wwriter[v], NoWriter}
                                        /\ v \in lastSync' => v \in lastSync,
             \A v \in Workloads : v = w =>
                wwriter'[v] = NoWriter /\ (p \in {"sync", "forget"} => v \notin targets')
      PROVE  CleanInv'
  <2>1. loop' \in Loops /\ loop'.event = "stopped" /\ loop'.workload = w /\ loop'.pc = p
      BY <1>1, <1>5 DEF Loops
  <2>2. loop' # Idle
      BY <2>1, IdleAssumption
  <2>3. /\ \A v : Handling("stopped", v)' <=> PodmanName[v] = w
        /\ \A v : Handling("stopped", v) <=> PodmanName[v] = w
        /\ \A v : ~Handling("started", v)'
      BY <1>1, <2>1, <2>2 DEF Handling
  <2>4. LoopInv'
    <3>1. ASSUME NEW v \in Workloads, loop'.workload = v
          PROVE  wwriter'[v] = NoWriter /\ (p \in {"sync", "forget"} => v \notin targets')
      <4>1. v = w
          BY <2>1, <3>1
      <4> QED
          BY <1>5, <4>1
    <3>2. \A q : At(q, "stopped")' <=> p = q
        BY <2>1, <2>2 DEF At
    <3> QED
        BY <2>3, <3>1, <3>2 DEF LoopInv
  <2>5. NothingLeftBehind'
      BY <1>1, <1>2, <1>5, <2>3 DEF NothingLeftBehind
  <2> QED
      BY <1>3, <2>4, <2>5
<1>6. CASE LogsStopped
  <2>1. /\ loop' = [loop EXCEPT !.pc = "metrics"] /\ wwriter' = WritersWithout({w})
        /\ UNCHANGED <<targets, lastSync, stale>>
      BY <1>6 DEF LogsStopped, Goto, LogsWorkloadRemoved, deleteWorkload, targetVars, transferVars
  <2>2. /\ \A v \in Workloads : v = w => wwriter'[v] = NoWriter
        /\ \A v \in Workloads \ {w} : wwriter'[v] \in {wwriter[v], NoWriter}
      BY <1>4, <2>1 DEF WritersWithout
  <2> QED
      BY <1>5, <2>1, <2>2, PCs
<1>7. CASE MetricsStopped
  <2>1. /\ loop' = [loop EXCEPT !.pc = "sync"] /\ targets' = targets \ {w}
        /\ UNCHANGED <<wwriter, lastSync, stale>>
      BY <1>7 DEF MetricsStopped, Goto, MetricsWorkloadRemoved, DeleteTarget, logVars, transferVars
  <2>2. \A v \in Workloads : v = w => wwriter[v] = NoWriter
      BY <1>7 DEF MetricsStopped, LoopInv
  <2> QED
      BY <1>5, <2>1, <2>2, PCs
<1>8. CASE MonitorSyncs
  <2>1. /\ loop' = [loop EXCEPT !.pc = "forget"]
        /\ lastSync' \in {lastSync, lastSync \cup {w}}
        /\ UNCHANGED <<wwriter, targets, stale>>
      BY <1>8 DEF MonitorSyncs, Goto, SyncRemoved, logVars, targetVars
  <2>2. \A v \in Workloads : v = w => wwriter[v] = NoWriter /\ v \notin targets
      BY <1>8 DEF MonitorSyncs, LoopInv
  <2> QED
      BY <1>5, <2>1, <2>2, PCs
<1>9. CASE MonitorForgets
  <2>1. /\ loop' = Idle /\ lastSync' = lastSync \ {w}
        /\ stale' = IF subscription = "ended" THEN stale ELSE stale \ {w}
        /\ UNCHANGED <<wwriter, targets>>
      BY <1>9 DEF MonitorForgets, ForgetSync, logVars, targetVars
  <2>2. \A v \in Workloads : v = w => wwriter[v] = NoWriter /\ v \notin targets
      BY <1>9 DEF MonitorForgets, LoopInv
  <2>3. \A v : /\ ~Handling("stopped", v)' /\ ~Handling("started", v)'
               /\ Handling("stopped", v) <=> PodmanName[v] = w
      BY <1>1, <2>1 DEF Handling
  <2>4. LoopInv'
      BY <2>1, <2>3 DEF LoopInv, At
  <2>5. NothingLeftBehind'
      BY <1>1, <1>2, <2>1, <2>2, <2>3 DEF NothingLeftBehind
  <2> QED
      BY <1>3, <2>4, <2>5
<1> QED
    BY <1>6, <1>7, <1>8, <1>9

(* Updates, ticks and Deregister.                                          *)
LEMMA OtherClean ==
    ASSUME Shape, LogShape, CleanInv,
           \/ Subscribe \/ StreamEnds \/ UpdateStep \/ TickBegins \/ TickSyncs \/ Deregister \/ UNCHANGED vars
    PROVE  CleanInv'
<1>1. /\ UNCHANGED <<pod, stream, loop>>
      /\ subscription' \in {subscription, "yes", "ended"}
      /\ subscription = "ended" => subscription' = "ended"
  <2>1. CASE Subscribe \/ StreamEnds
      BY <2>1 DEF Subscribe, StreamEnds
  <2>2. CASE UpdateStep
    <3>1. UNCHANGED podman /\ UNCHANGED loop
        BY <2>2 DEF UpdateStep, BeginUpdate, Update, UpdateMetrics, UpdateSystem, UpdateLogs,
             AssignLogs, UpdateMonitor, Save, Rest
    <3> QED
        BY <3>1 DEF podman
  <2>3. CASE TickBegins \/ TickSyncs \/ Deregister \/ UNCHANGED vars
      BY <2>3 DEF TickBegins, TickSyncs, Deregister, vars, Others, podman
  <2> QED
      BY <2>1, <2>2, <2>3
<1>2. ASSUME NEW v \in Workloads
      PROVE  v \in targets' => v \in targets
  <2>1. v # System
      BY TargetsAssumption
  <2> QED
      BY <2>1 DEF Subscribe, StreamEnds, UpdateStep, BeginUpdate, Update, UpdateMetrics, UpdateSystem,
             UpdateLogs, AssignLogs, UpdateMonitor, Save, TickBegins, TickSyncs, Deregister,
             vars, targetVars, WorkloadMetricsUpdate, SystemMetricsUpdate, SystemMetricsFails,
             SystemMetricsDeregister, AddTarget, DeleteTarget
<1>3. ASSUME NEW v \in Workloads
      PROVE  wwriter'[v] \in {wwriter[v], NoWriter}
  <2>1. CASE UpdateLogs
    <3>1. PICK k : wwriter' = WritersWithout(Leftovers(k))
        BY <2>1 DEF UpdateLogs, LogsUpdate
    <3>2. LogWorkloads = Workloads
        BY ObserversAssumption
    <3>3. wwriter'[v] = IF v \in Leftovers(k) THEN NoWriter ELSE wwriter[v]
        BY <3>1, <3>2 DEF WritersWithout
    <3> QED
        BY <3>3
  <2>2. CASE ~UpdateLogs
    <3>1. UNCHANGED wwriter
        BY <2>2 DEF Subscribe, StreamEnds, UpdateStep, BeginUpdate, Update, UpdateMetrics, UpdateSystem,
             AssignLogs, LogsAssign, UpdateMonitor, Save, TickBegins, TickSyncs,
             Deregister, vars, logVars
    <3> QED
        BY <3>1
  <2> QED
      BY <2>1, <2>2
<1>4. /\ stale \subseteq stale'
      /\ \A v \in Workloads : v \in lastSync' => v \in lastSync \/ pod[v] # "none" \/ v \in stale'
  <2>1. CASE TickSyncs
    <3>1. CASE EndTick /\ UNCHANGED stale
        BY <3>1 DEF EndTick
    <3>2. ASSUME NEW u \in tick, SyncNext(u),
                 stale' = IF pod[u] = "none" THEN stale \cup {u} ELSE stale
          PROVE  /\ stale \subseteq stale'
                 /\ \A v \in Workloads : v \in lastSync' => v \in lastSync \/ pod[v] # "none" \/ v \in stale'
        BY <3>2 DEF SyncNext
    <3> QED
        BY <2>1, <3>1, <3>2 DEF TickSyncs
  <2>2. CASE ~TickSyncs
    <3>1. UNCHANGED <<stale, lastSync>>
        BY <2>2 DEF Subscribe, StreamEnds, UpdateStep, BeginUpdate, Update, UpdateMetrics, UpdateSystem,
             UpdateLogs, AssignLogs, UpdateMonitor, MonitorUpdate, Save, TickBegins, BeginTick,
             Deregister, MonitorDeregister, vars, transferVars, Rest
    <3> QED
        BY <3>1
  <2> QED
      BY <2>1, <2>2
<1> QED
    BY <1>1, <1>2, <1>3, <1>4, IdleClean

LEMMA CleanStep == Shape /\ LogShape /\ CleanInv /\ [Next]_vars => CleanInv'
<1> SUFFICES ASSUME Shape, LogShape, CleanInv, [Next]_vars PROVE CleanInv'
    OBVIOUS
<1>1. ASSUME NEW w \in Workloads, PodStarts(w) \/ PodStops(w) \/ PodRemoved(w) PROVE CleanInv'
    BY <1>1, PodClean
<1>2. CASE EventLoop
    BY <1>2, TakeClean, StartClean, StopClean DEF EventLoop
<1>3. CASE \/ Subscribe \/ StreamEnds \/ (\E c \in Configs : BeginUpdate(c)) \/ Update
           \/ TickBegins \/ TickSyncs \/ Deregister \/ UNCHANGED vars
    BY <1>3, OtherClean DEF UpdateStep
<1> QED
    BY <1>1, <1>2, <1>3 DEF Next

LEMMA InitClean == Init => CleanInv
<1> SUFFICES ASSUME NEW c \in Configs, Init, TargetsInit(c.metrics, c.system),
                    TransferInit(c.storage), NEW found, LogsInit(c.keys, c.logs, Running, found)
             PROVE  CleanInv
    BY DEF Init, Running
<1>1. /\ stream = <<>> /\ subscription = "no" /\ loop = Idle /\ lastSync = {}
      /\ targets \subseteq {System}
      /\ pod \in [Workloads -> {"none", "running"}]
    BY DEF Init, TargetsInit, TransferInit
<1>2. DOMAIN stream = {}
    BY <1>1
<1>3. StreamInv
    BY <1>1, <1>2 DEF StreamInv
<1>4. LoopInv
    BY <1>1 DEF LoopInv, Handling, At
<1>5. \A w \in Workloads : pod[w] # "running" => wwriter[w] = NoWriter
    BY <1>1, ObserversAssumption DEF LogsInit, Running
<1>6. NothingLeftBehind
    BY <1>1, <1>5, TargetsAssumption DEF NothingLeftBehind
<1> QED
    BY <1>3, <1>4, <1>6 DEF CleanInv

-----------------------------------------------------------------------------
(* The inductive invariant.                                                *)
ObserversInv == Shape /\ LogShape /\ ReadersInv /\ SystemInv /\ StorageInv /\ CleanInv

LEMMA Inductive == Spec => []ObserversInv
<1>1. Init => ObserversInv
    BY InitShape, InitInvariants, InitClean DEF ObserversInv
<1>2. ObserversInv /\ [Next]_vars => ObserversInv'
    BY ShapeStep, LogShapeStep, ReadersStep, SystemStepKeeps, StorageStep,
       CleanStep DEF ObserversInv
<1> QED
    BY <1>1, <1>2, PTL DEF Spec

(* A log goroutine that has not leaked can always be stopped through the   *)
(* writer in the map (WorkloadStarted, deleteTargetWorkload of             *)
(* internal/logs), for any workloads, transports and configurations, and   *)
(* however updates and events interleave.                                  *)
THEOREM GoroutinesOwned == Spec => []ReadersOwned
<1>1. ObserversInv => ReadersOwned
    BY DEF ObserversInv, ReadersInv
<1> QED
    BY <1>1, Inductive, PTL

(* Between updates the system target is scraped exactly when the           *)
(* configuration in force has system metrics, unless the last update       *)
(* failed, or Deregister has run (SystemMetrics.Update, which returns at   *)
(* once when it finds its configuration applied already), for any sequence *)
(* of updates, failures and events.                                        *)
THEOREM SystemTargetFollows == Spec => []SystemFollows
<1>1. ObserversInv => SystemFollows
  <2> SUFFICES ASSUME ObserversInv, update = NoUpdate, "system" \notin odd, ~deregistered
               PROVE  (System \in targets) = (config.system \in Intervals)
      BY DEF SystemFollows
  <2>1. config.system \in SystemConfigs
      BY ConfigShape DEF ObserversInv, Shape
  <2>2. config.system # "none"
      BY <2>1, TargetsAssumption DEF SystemConfigs
  <2> QED
      BY <2>2 DEF ObserversInv, SystemInv
<1> QED
    BY <1>1, Inductive, PTL

(* Between updates, none of which failed at the last, the monitor copies   *)
(* to the storage of the configuration in force (Monitor.Update before     *)
(* Manager.Update sets the configuration).                                 *)
THEOREM StorageInForce == Spec => []StorageFollows
<1>1. ObserversInv => StorageFollows
    BY DEF ObserversInv, StorageInv
<1> QED
    BY <1>1, Inductive, PTL

(* Once the last stop of a workload has been handled, the metrics scrape   *)
(* no target of it, the logs keep no writer, and after its removal the     *)
(* monitor no time of a copy (the event loop of the wrapper and the        *)
(* WorkloadStarted and WorkloadRemoved of its observers), for any number   *)
(* of workloads and events, and whatever updates, ticks, Deregister and an *)
(* end of the stream interleave with them.  It says nothing of a workload  *)
(* whose pod podman names otherwise, nor of one that stopped without an    *)
(* event that is read.                                                     *)
THEOREM NothingStays == Spec => []NothingLeftBehind
<1>1. ObserversInv => NothingLeftBehind
    BY DEF ObserversInv, CleanInv
<1> QED
    BY <1>1, Inductive, PTL
====
