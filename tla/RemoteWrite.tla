----------------------------- MODULE RemoteWrite -----------------------------
(***************************************************************************)
(* Remote write of metrics (internal/metrics/remote_write.go).  Update, in *)
(* the goroutine that applies configurations, sets the client and starts   *)
(* writeRoutine, which reads ranges of samples from the store, sends them  *)
(* in requests and records in LastWrite, and in a file, how far it got.    *)
(* The process may die anywhere; the receiver may not answer, refuse, or   *)
(* take a request whose answer is lost.                                    *)
(***************************************************************************)
EXTENDS MetricsStore, Sequences

CONSTANTS
    Receivers,      \* MetricsReceiverConfiguration: records url, valid, ca, num
    NoReceiver,     \* the configuration has no receiver
    CaFiles,        \* names of temporary files for the server's CA
    NoFile,         \* the empty name
    NoClient,       \* r.client == nil
    RangeDurations, \* milliseconds of a range, one of these
    MaxEvents       \* bound: configurations, restarts and failed calls

ASSUME RemoteWriteAssumption ==
    /\ Receivers \subseteq [url : BOOLEAN, valid : BOOLEAN, ca : BOOLEAN, num : Nat \ {0}]
    /\ NoReceiver \notin Receivers
    /\ NoFile \notin CaFiles
    /\ RangeDurations \subseteq Nat
    /\ MaxEvents \in Nat

Clients == [num : Nat \ {0}, ca : CaFiles \cup {NoFile}]
ASSUME NoClientAssumption == NoClient \notin Clients

VARIABLES
    Config, client, currentServerCaFile, isRunning,     \* fields of RemoteWrite
    LastWrite, RangeDuration,
    caFiles,        \* the CA files in dataDir
    lastWriteFile,  \* the number in metrics-lastwrite, 0 when it has none
    routines,       \* goroutines in writeRoutine
    pc,             \* where the goroutine is
    writer,         \* the client and the requestNumSamples it took
    rangeStart, rangeEnd,
    series,         \* the series it read, each a sequence of times
    i, sampleIndex, \* the place in them
    request, numSamples,    \* the samples of the request, and their number
    try,
    settled,        \* samples the receiver took, or refused for good
    late,           \* samples committed behind the place that reading had come to
    events          \* configurations, restarts and failures so far

receiver == <<Config, client, currentServerCaFile, caFiles, RangeDuration>>
batch == <<series, i, sampleIndex, request, numSamples, try>>
range == <<rangeStart, rangeEnd>>
routine == <<isRunning, routines>>
progress == <<LastWrite, lastWriteFile, settled>>
vars == <<store, receiver, routine, pc, writer, range, batch, progress, late, events>>

Disabled(c) == IF c = NoReceiver THEN TRUE ELSE ~c.url

(* The file of the CA is a new one (whatever its name); without a CA there *)
(* is none.                                                                *)
CaFileFor(c, present) == IF c.ca THEN CHOOSE f \in CaFiles : f \notin present ELSE NoFile
CanName(c, present) == c.ca => CaFiles \ present # {}

(* NewRemoteWrite and Init with the stored configuration, if any.  A client*)
(* with a CA reads it from a temporary file.                               *)
Init ==
    /\ StoreInit
    /\ Config \in {c \in Receivers \cup {NoReceiver} : Disabled(c) \/ c.valid}
    /\ \/ Disabled(Config) /\ client = NoClient /\ currentServerCaFile = NoFile
       \/ /\ ~Disabled(Config)
          /\ CanName(Config, {}) /\ currentServerCaFile = CaFileFor(Config, {})
          /\ client = [num |-> Config.num, ca |-> currentServerCaFile]
    /\ caFiles = {currentServerCaFile} \cap CaFiles
    /\ isRunning = (client # NoClient)
    /\ routines = IF isRunning THEN 1 ELSE 0
    /\ pc = IF isRunning THEN "getConfig" ELSE "none"
    /\ writer = NoClient /\ rangeStart = 0 /\ rangeEnd = 0
    /\ series = <<>> /\ i = 1 /\ sampleIndex = 0 /\ request = {} /\ numSamples = 0
    /\ try = 1
    /\ RangeDuration \in RangeDurations
    /\ LastWrite = 0 /\ lastWriteFile = 0 /\ settled = {} /\ late = {}
    /\ events = 0

(* A configuration, a restart or a failure: there are MaxEvents of them.   *)
Event == events < MaxEvents /\ events' = events + 1

-----------------------------------------------------------------------------
(* The configuration.                                                      *)

(* removeServerCaFiles and a nil client.                                   *)
Disable ==
    /\ client' = NoClient
    /\ currentServerCaFile' = NoFile
    /\ caFiles' = {}

(* The goroutine, unless one is running.                                   *)
StartRoutine ==
    /\ isRunning' = TRUE
    /\ routines' = IF isRunning THEN routines ELSE routines + 1
    /\ pc' = IF isRunning THEN pc ELSE "getConfig"

(* MUTANT of applyConfig: the file of the new client is removed in place   *)
(* of the one it replaces.                                                 *)
applyConfigRemovesNew(c, f) ==
    /\ client' = [num |-> c.num, ca |-> f]
    /\ currentServerCaFile' = f
    /\ caFiles' = (caFiles \cup ({f} \cap CaFiles)) \ {currentServerCaFile'}

(* applyConfig of a valid configuration: the new CA goes to a file of its  *)
(* own, the file of the client it replaces is removed.                     *)
applyConfig(c, f) ==
    /\ client' = [num |-> c.num, ca |-> f]
    /\ currentServerCaFile' = f
    /\ caFiles' = (caFiles \cup ({f} \cap CaFiles)) \ {currentServerCaFile}

Update(c) ==
    /\ Event
    /\ c # Config
    /\ \/ /\ Disabled(c)
          /\ Disable
          /\ UNCHANGED <<isRunning, routines, pc>>
       \/ /\ ~Disabled(c) /\ c.valid
          /\ CanName(c, caFiles)
          /\ applyConfig(c, CaFileFor(c, caFiles))
          /\ StartRoutine
    /\ Config' = c
    /\ UNCHANGED <<store, RangeDuration, writer, range, batch, progress, late>>

(* applyConfig returns an error: the configuration is invalid, or the CA   *)
(* cannot be written (its file stays) or the client cannot be created (its *)
(* file is removed).  Everything else stays as it was.                     *)
UpdateFails(c) ==
    /\ Event
    /\ c # Config /\ ~Disabled(c)
    /\ \/ ~c.valid /\ UNCHANGED caFiles
       \/ c.valid
          /\ \/ UNCHANGED caFiles
             \/ c.ca /\ CanName(c, caFiles) /\ caFiles' = caFiles \cup {CaFileFor(c, caFiles)}
    /\ UNCHANGED <<store, RangeDuration, Config, client, currentServerCaFile, routine, pc,
                   writer, range, batch, progress, late>>

-----------------------------------------------------------------------------
(* The store, seen from here.                                              *)

Outside == <<receiver, routine, pc, writer, range, batch, progress>>

(* The time t is behind LastWrite, or will be although a range to be read  *)
(* begins after it, or one that is being written has been read.            *)
Passed(t) ==
    \/ t <= LastWrite
    \/ pc = "read" /\ t < rangeStart /\ t <= rangeEnd
    \/ pc \in {"batch", "send", "store"} /\ t <= rangeEnd

(* A scrape adds a sample, whose commit may come after its time has passed.*)
Scrape(l) ==
    /\ AddMetric(l)
    /\ UNCHANGED <<Outside, late, events>>

ScrapeCommits(x) ==
    /\ Commit(x)
    /\ late' = IF Passed(x.time) THEN late \cup {x} ELSE late
    /\ UNCHANGED <<Outside, events>>

ScrapeFails(x) ==
    /\ Event
    /\ CommitFails(x)
    /\ UNCHANGED <<Outside, late>>

TimePasses ==
    /\ Tick \/ \E t \in Times : Expire(t)
    /\ UNCHANGED <<Outside, late, events>>

ConfigureStore ==
    /\ Event
    /\ StoreDeregister \/ \E r \in Retentions : StoreUpdate(r)
    /\ UNCHANGED <<Outside, late>>

StoreBreaks ==
    /\ Event
    /\ \E r \in Retentions : StoreCloseFails(r) \/ StoreOpenFails(r)
    /\ UNCHANGED <<Outside, late>>

-----------------------------------------------------------------------------
(* writeRoutine and Write.                                                 *)

Go(from, to) == pc = from /\ pc' = to

(* The variables of writeRange, and those of Write, before they are set.   *)
EmptyBatch ==
    /\ series' = <<>> /\ i' = 1 /\ sampleIndex' = 0
    /\ request' = {} /\ numSamples' = 0 /\ try' = 1
EmptyRange == rangeStart' = 0 /\ rangeEnd' = 0

(* MUTANT of getConfig: the routine ends without saying so.                *)
getConfigForgets ==
    /\ \/ /\ client # NoClient /\ Go("getConfig", "loop")
          /\ writer' = client
          /\ UNCHANGED routine
       \/ /\ client = NoClient /\ Go("getConfig", "none")
          /\ routines' = routines - 1
          /\ UNCHANGED <<writer, isRunning>>
    /\ UNCHANGED <<store, receiver, range, batch, progress, late, events>>

(* Under the lock the routine takes the client, or ends.                   *)
getConfig ==
    /\ \/ /\ client # NoClient /\ Go("getConfig", "loop")
          /\ writer' = client
          /\ UNCHANGED routine
       \/ /\ client = NoClient /\ Go("getConfig", "none")
          /\ isRunning' = FALSE /\ routines' = routines - 1
          /\ UNCHANGED writer
    /\ UNCHANGED <<store, receiver, range, batch, progress, late, events>>

(* Write returns to writeRoutine, which sleeps.                            *)
WriteReturns ==
    /\ pc' = "getConfig"
    /\ writer' = NoClient
    /\ EmptyRange /\ EmptyBatch

(* The condition of the loop in Write: there are samples after LastWrite.  *)
ReadMaxTime ==
    /\ \/ /\ MaxTime > LastWrite /\ Go("loop", "min")
          /\ rangeEnd' = MaxTime
          /\ UNCHANGED <<writer, rangeStart, batch>>
       \/ /\ MaxTime <= LastWrite /\ pc = "loop"
          /\ WriteReturns
    /\ UNCHANGED <<store, receiver, routine, progress, late, events>>

AtMost(a, b) == IF a > b THEN b ELSE a
AtLeast(a, b) == IF a < b THEN b ELSE a

(* MUTANT of SetRange: the range begins a millisecond too late.            *)
SetRangeLate ==
    /\ Go("min", "read")
    /\ rangeStart' = AtLeast(LastWrite + 2, MinTime)
    /\ rangeEnd' = AtMost(rangeStart' + RangeDuration, rangeEnd)
    /\ UNCHANGED <<store, receiver, routine, writer, batch, progress, late, events>>

(* The range begins after LastWrite or with the oldest sample, and ends    *)
(* after RangeDuration or with the newest sample there was.                *)
SetRange ==
    /\ Go("min", "read")
    /\ rangeStart' = AtLeast(LastWrite + 1, MinTime)
    /\ rangeEnd' = AtMost(rangeStart' + RangeDuration, rangeEnd)
    /\ UNCHANGED <<store, receiver, routine, writer, batch, progress, late, events>>

ReadRange ==
    /\ open /\ pc = "read"
    /\ series' \in GetMetricsForTimeRange(rangeStart, rangeEnd)
    /\ pc' = IF series' = <<>> THEN "store" ELSE "batch"
    /\ UNCHANGED <<store, receiver, routine, writer, range, i, sampleIndex, request,
                   numSamples, try, progress, late, events>>

(* The store cannot be read: Write returns and is called again later.      *)
ReadFails ==
    /\ pc \in {"min", "read"}
    /\ \/ ~open /\ UNCHANGED events
       \/ Event
    /\ WriteReturns
    /\ UNCHANGED <<store, receiver, routine, progress, late>>

(* MUTANT of TakenFrom: the room in the request is not looked at.          *)
TakenFromAll(s) == Len(s) - sampleIndex

(* numSamplesToUse: what the request misses, at most the rest of s.        *)
TakenFrom(s) == AtMost(writer.num - numSamples, Len(s) - sampleIndex)

(* One turn of the loop in writeRange: the request takes samples from the  *)
(* current series, and is sent when it is full and after the last series.  *)
FillRequest ==
    LET next == sampleIndex + TakenFrom(series[i])
        last == next = Len(series[i])
    IN  /\ pc = "batch"
        /\ numSamples' = numSamples + TakenFrom(series[i])
        /\ request' = request \cup
               {[series |-> i, time |-> series[i][k]] : k \in (sampleIndex + 1)..next}
        /\ i' = IF last THEN i + 1 ELSE i
        /\ sampleIndex' = IF last THEN 0 ELSE next
        /\ pc' = IF numSamples' # writer.num /\ i' <= Len(series) THEN "batch" ELSE "send"
        /\ UNCHANGED <<store, receiver, routine, writer, range, series, try, progress, late,
                       events>>

(* The HTTP client reads the CA file on every request, and fails with a    *)
(* recoverable error when an Update has removed it.                        *)
CaReadable == writer.ca \in caFiles \cup {NoFile}

(* writeRequest returns true: the receiver took the samples, or answered   *)
(* with an error that is not recoverable ("e.g. already wrote these        *)
(* samples").  The next request begins empty.                              *)
RequestAnswered ==
    /\ pc = "send" /\ CaReadable
    /\ settled' = settled \cup request
    /\ request' = {} /\ numSamples' = 0 /\ try' = 1
    /\ pc' = IF i <= Len(series) THEN "batch" ELSE "store"
    /\ UNCHANGED <<store, receiver, routine, writer, range, series, i, sampleIndex, LastWrite,
                   lastWriteFile, late, events>>

numTries == 3

(* A recoverable error, the receiver having taken the samples or not: the  *)
(* request is repeated, and after numTries of them Write returns.          *)
RequestFails ==
    /\ pc = "send"
    /\ \/ ~CaReadable /\ UNCHANGED <<settled, events>>
       \/ /\ CaReadable /\ Event
          /\ settled' \in {settled, settled \cup request}
    /\ \/ /\ try < numTries /\ try' = try + 1
          /\ UNCHANGED <<pc, writer, range, series, i, sampleIndex, request, numSamples>>
       \/ try = numTries /\ WriteReturns
    /\ UNCHANGED <<store, receiver, routine, LastWrite, lastWriteFile, late>>

(* MUTANT of StoreLastWrite: the file is given the newest time there is.   *)
StoreNewest ==
    /\ Go("store", "loop")
    /\ LastWrite' = rangeEnd /\ lastWriteFile' = MaxTime
    /\ EmptyRange /\ EmptyBatch
    /\ UNCHANGED <<store, receiver, routine, writer, settled, late, events>>

(* Write records the end of the range in memory and in the file; an error  *)
(* of the file, which may leave it truncated, is only logged.              *)
StoreLastWrite ==
    /\ Go("store", "loop")
    /\ LastWrite' = rangeEnd
    /\ \/ lastWriteFile' = rangeEnd /\ UNCHANGED events
       \/ lastWriteFile' \in {lastWriteFile, 0} /\ Event
    /\ EmptyRange /\ EmptyBatch
    /\ UNCHANGED <<store, receiver, routine, writer, settled, late>>

WriteStep ==
    \/ getConfig \/ ReadMaxTime \/ SetRange \/ ReadRange \/ ReadFails \/ FillRequest
    \/ RequestAnswered \/ RequestFails \/ StoreLastWrite

-----------------------------------------------------------------------------
(* The process dies, in the end also after a second Close of the store,    *)
(* and is started again: NewTSDB, NewRemoteWrite, which reads the file, and*)
(* Init, which removes the CA files of the predecessor and applies the     *)
(* stored configuration.  When that is refused there is no client.         *)
NewRemoteWrite ==
    /\ Event
    /\ NewTSDB
    /\ LastWrite' = lastWriteFile
    /\ writer' = NoClient
    /\ EmptyRange /\ EmptyBatch
    /\ UNCHANGED <<RangeDuration, lastWriteFile, settled, late>>

RestartEnabled(c) ==
    /\ NewRemoteWrite
    /\ ~Disabled(c) /\ c.valid
    /\ CanName(c, {})
    /\ client' = [num |-> c.num, ca |-> CaFileFor(c, {})]
    /\ currentServerCaFile' = CaFileFor(c, {})
    /\ caFiles' = {CaFileFor(c, {})} \cap CaFiles
    /\ isRunning' = TRUE /\ routines' = 1 /\ pc' = "getConfig"
    /\ Config' = c

RestartDisabled(c) ==
    /\ NewRemoteWrite
    /\ Config' = IF Disabled(c) THEN c ELSE NoReceiver
    /\ Disable
    /\ isRunning' = FALSE /\ routines' = 0 /\ pc' = "none"

Configure ==
    \E c \in Receivers \cup {NoReceiver} :
        Update(c) \/ UpdateFails(c) \/ RestartEnabled(c) \/ RestartDisabled(c)

Next ==
    \/ Configure \/ ConfigureStore \/ StoreBreaks
    \/ TimePasses
    \/ \E l \in Series : Scrape(l)
    \/ \E x \in pending : ScrapeCommits(x) \/ ScrapeFails(x)
    \/ WriteStep

Spec == Init /\ [][Next]_vars

(* The write goroutine is scheduled, and sleeps for bounded times only.    *)
FairSpec == Spec /\ WF_vars(WriteStep)

-----------------------------------------------------------------------------
TypeOK ==
    /\ StoreTypeOK
    /\ Config \in Receivers \cup {NoReceiver}
    /\ client \in Clients \cup {NoClient} /\ writer \in Clients \cup {NoClient}
    /\ currentServerCaFile \in CaFiles \cup {NoFile} /\ caFiles \subseteq CaFiles
    /\ isRunning \in BOOLEAN
    /\ routines \in Nat
    /\ pc \in {"none", "getConfig", "loop", "min", "read", "batch", "send", "store"}
    /\ rangeStart \in Nat /\ rangeEnd \in Nat
    /\ series \in Seq(SortedTimes) /\ Len(series) <= NumSeries
    /\ i \in 1..(NumSeries + 1) /\ sampleIndex \in Nat
    /\ request \subseteq Sample /\ numSamples \in Nat /\ try \in 1..numTries
    /\ LastWrite \in Nat /\ lastWriteFile \in Nat /\ RangeDuration \in RangeDurations
    /\ settled \subseteq Sample /\ late \subseteq Sample
    /\ events \in 0..MaxEvents

(* At least once: every stored sample up to LastWrite, and up to the time  *)
(* in the file that a restarted process goes on from, was answered for by  *)
(* the receiver, across failed and repeated requests, batches, changes of  *)
(* the receiver and crashes.  The exception (late) is a sample committed   *)
(* when reading had passed its time: AddMetric takes the time first, and   *)
(* commits under a lock that it shares with the reader.                    *)
NothingSkipped ==
    \A x \in samples :
        x.time <= LastWrite \/ x.time <= lastWriteFile => x \in settled \cup late

(* However often the feature is switched off and on, one goroutine writes  *)
(* (LastWrite has no lock), and it runs whenever there is a client.        *)
OneWriter ==
    /\ routines = IF isRunning THEN 1 ELSE 0
    /\ client # NoClient => isRunning

(* The CA file the current client reads on every request exists, although  *)
(* every Update creates, replaces or removes such files.                   *)
CaFileKept == client # NoClient => client.ca \in caFiles \cup {NoFile}

(* A request holds at most RequestNumSamples samples and none twice, where *)
(* a series is cut in two as well; it is not full before it is sent.       *)
RequestFits ==
    /\ numSamples = Cardinality(request)
    /\ pc \in {"batch", "send"} => numSamples <= writer.num
    /\ pc = "batch" => numSamples < writer.num

(* Remote write implements the forwarding of samples behind a cursor.      *)
Forwarding == INSTANCE SampleForwarding WITH
    stored <- samples, cursor <- LastWrite
Forwards == Forwarding!ForwardSpec

(* Remote write catches up: while there is a client and the store can be   *)
(* read, everything stored is answered for again and again, except what    *)
(* was committed too late.                                                 *)
CatchesUp ==
    []<>(client = NoClient \/ ~open \/ samples \subseteq settled \cup late)
====
