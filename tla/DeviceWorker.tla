---------------------------- MODULE DeviceWorker ----------------------------
(***************************************************************************)
(* The life cycle of the worker process: the gRPC device server            *)
(* (internal/server/deviceserver.go), the configuration manager            *)
(* (internal/configuration/configuration.go), the registration             *)
(* (internal/registration/registration.go), the heartbeat service and the  *)
(* start-up in cmd/device-worker/main.go.                                  *)
(*                                                                         *)
(* Five kinds of goroutine run side by side: one per received message,     *)
(* waiting to hand it over; the single consumer, which walks through the   *)
(* configuration observers; the handler of a DISCONNECT event, which walks *)
(* through the deregistrables; the registration retry loop; and the reboot *)
(* listener, which stops the heartbeat among others.  No lock spans an     *)
(* update or a deregistration.                                             *)
(***************************************************************************)
EXTENDS Heartbeat, Sequences

CONSTANTS
    Observers,      \* the configuration observers, in the order of registration
    Deregistrables, \* the components to deregister, in the order main gives them
    Empty,          \* the message an unreadable content becomes
    Content,        \* configuration, workloads and secrets of a version
    None,           \* the configuration file does not exist
    Garbled,        \* the configuration file is not JSON
    LateMessages,   \* whether messages arrive after a DISCONNECT
    MaxMessages,    \* bound on messages received over all lives
    MaxFaults       \* bound on failing writes, failing removals and crashes

ASSUME ObserversAssumption == /\ Observers \in Seq(STRING) /\ Observers # <<>>
                              /\ Deregistrables \in Seq(STRING)
ASSUME HeartbeatAssumption == \E o \in DOMAIN Observers : Observers[o] = "heartbeat"
ASSUME ContentAssumption == DOMAIN Content = Versions
ASSUME SentinelsAssumption == {None, Garbled, Empty} \cap Versions = {}
ASSUME LateAssumption == LateMessages \in BOOLEAN
ASSUME BoundsAssumption == MaxMessages \in Nat /\ MaxFaults \in Nat

VARIABLES
    file,           \* device-config.json
    mem,            \* Manager.deviceConfiguration
    initial,        \* Manager.initialConfig
    waiting,        \* Send goroutines blocked on configurationUpdates
    received,       \* number of messages received
    cpc, msg, k,    \* the consumer: where it is, its message, its observer
    applied,        \* the configuration each observer was last given
    deregistered,   \* WorkloadManager.deregistered
    dpc,            \* the DISCONNECT handler: the next deregistrable, or 0
    retrying,       \* the registerDeviceWithRetries goroutine is running
    listener,       \* listenStartGracefulRebootChannel: waiting for a request,
                    \* stopping the services, or sending its completion
    up,             \* the process is running
    disconnected,   \* history: this process has received a DISCONNECT
    writeFailed,    \* history: the last update could not be written
    faults

configuration == <<file, mem, initial, applied, writeFailed>>
server == <<waiting, received, cpc, msg, k, dpc, disconnected>>
registration == <<retrying, deregistered>>
vars == <<heartbeat, configuration, server, registration, listener, up, faults>>

Message == (Versions \ {Default}) \cup {Empty}

Running == up
Fault == faults < MaxFaults /\ faults' = faults + 1
NoFault == UNCHANGED faults

Init ==
    /\ HeartbeatInit
    /\ file = None /\ mem = Default /\ initial = FALSE
    /\ waiting = {} /\ received = 0
    /\ cpc = "idle" /\ msg = Default /\ k = 1
    /\ applied = [o \in DOMAIN Observers |-> Default]
    /\ deregistered = FALSE /\ dpc = 0
    /\ retrying = FALSE /\ listener = "waiting"
    /\ up = FALSE
    /\ disconnected = FALSE /\ writeFailed = FALSE
    /\ faults = 0

-----------------------------------------------------------------------------
(* Start-up                                                                *)

(* MUTANT of Boot: the heartbeat is not started from the stored file.      *)
BootWithoutHeartbeat ==
    /\ ~up /\ ~panicked
    /\ up' = TRUE
    /\ mem' = IF file \in {None, Garbled} THEN Default ELSE file
    /\ initial' = (file = None)
    /\ applied' = [o \in DOMAIN Observers |-> mem']
    /\ retrying' = initial'
    /\ UNCHANGED <<file, writeFailed, server, deregistered, listener, faults, heartbeat>>

(* main: NewConfigurationManager reads the file; every observer's Init is  *)
(* given the configuration (OsUpgrade has what the one of the OS may wait  *)
(* for); then either the heartbeat starts or the device registers once and *)
(* goes on trying in the background.                                       *)
Boot ==
    /\ ~up /\ ~panicked
    /\ up' = TRUE
    /\ mem' = IF file \in {None, Garbled} THEN Default ELSE file
    /\ initial' = (file = None)
    /\ applied' = [o \in DOMAIN Observers |-> mem']
    /\ retrying' = initial'
    /\ IF initial' THEN UNCHANGED heartbeat ELSE initTicker(mem')
    /\ UNCHANGED <<file, writeFailed, server, deregistered, listener, faults>>

(* MUTANT of registerDeviceWithRetries: the loop never ends.               *)
registerDeviceForever == Running /\ retrying /\ UNCHANGED vars

(* registerDeviceWithRetries: on a tick of its ticker the loop registers   *)
(* once more as long as there is no configuration (the certificates that   *)
(* registration obtains are not part of this module), else it ends.        *)
registerDeviceWithRetries ==
    /\ Running /\ retrying
    /\ ~initial
    /\ retrying' = FALSE
    /\ UNCHANGED <<heartbeat, configuration, server, deregistered, listener, up, faults>>

-----------------------------------------------------------------------------
(* Configuration messages                                                  *)

(* Send: a goroutine of its own carries each message to the consumer.      *)
Send(m) ==
    /\ Running
    /\ received < MaxMessages
    /\ disconnected => LateMessages
    /\ received' = received + 1
    /\ waiting' = waiting \cup {[id |-> received', conf |-> m]}
    /\ UNCHANGED <<heartbeat, configuration, registration, cpc, msg, k, dpc,
                   disconnected, listener, up, faults>>

(* Manager.Update compares everything but the version.                     *)
Unchanged(m) == m # Empty /\ Content[m] = Content[mem]

(* The consumer takes one of the waiting messages: their goroutines reach  *)
(* the channel in any order.                                               *)
Receive(w) ==
    /\ Running /\ cpc = "idle"
    /\ w \in waiting
    /\ waiting' = waiting \ {w}
    /\ IF Unchanged(w.conf) /\ ~initial
       THEN UNCHANGED <<cpc, msg>>
       ELSE cpc' = "observe" /\ msg' = w.conf
    /\ k' = 1
    /\ UNCHANGED <<heartbeat, file, mem, initial, applied, writeFailed, registration,
                   received, dpc, disconnected, listener, up, faults>>

NextObserver ==
    IF k = Len(Observers) THEN k' = 1 /\ cpc' = "write"
                          ELSE k' = k + 1 /\ cpc' = "observe"

(* MUTANT of Observe: the first error ends the loop.                       *)
ObserveStopsAtError ==
    /\ Running /\ cpc = "observe" /\ msg # Empty
    /\ Observers[k] # "heartbeat"
    /\ applied' = [applied EXCEPT ![k] = msg]
    /\ \/ NextObserver
       \/ k' = 1 /\ cpc' = "write"
    /\ UNCHANGED <<heartbeat, file, mem, initial, writeFailed, registration, waiting,
                   received, msg, dpc, disconnected, listener, up, faults>>

(* observer.Update for all observers but the heartbeat; its error is       *)
(* collected for the log and the loop goes on; a workload that cannot be   *)
(* run queues an event.  OS.Update returns here if it asks for no reboot.  *)
Observe ==
    /\ Running /\ cpc = "observe" /\ msg # Empty
    /\ Observers[k] # "heartbeat"
    /\ applied' = IF Observers[k] = "workload manager" /\ deregistered
                  THEN applied ELSE [applied EXCEPT ![k] = msg]
    /\ NextObserver
    /\ \/ UNCHANGED heartbeat
       \/ /\ Observers[k] = "workload manager" /\ ~deregistered
          /\ \E e \in Events : QueueEvent(e)
    /\ UNCHANGED <<file, mem, initial, writeFailed, registration, waiting, received,
                   msg, dpc, disconnected, listener, up, faults>>

(* OS.Update may ask for a graceful reboot when the commit, a part of the  *)
(* content, is not the one it was last given: a send that waits until the  *)
(* listener is done with what it was asked before ...                      *)
ObserveOs ==
    /\ Running /\ cpc = "observe" /\ msg # Empty
    /\ Observers[k] = "os" /\ Content[msg] # Content[applied[k]]
    /\ cpc' = "signal"
    /\ UNCHANGED <<heartbeat, configuration, registration, waiting, received, msg, k,
                   dpc, disconnected, listener, up, faults>>

RequestReboot ==
    /\ Running /\ cpc = "signal" /\ listener = "waiting"
    /\ cpc' = "await" /\ listener' = "stopping"
    /\ UNCHANGED <<heartbeat, configuration, registration, waiting, received, msg, k,
                   dpc, disconnected, up, faults>>

(* ... and the completion or the time-out.  Either way systemctl reboot    *)
(* follows: if it fails, and until the host goes down if it does not (a    *)
(* Crash of this process), the update goes on.                             *)
ObserveOsReturns ==
    /\ Running /\ cpc = "await"
    /\ listener' \in {listener, IF listener = "completing" THEN "waiting" ELSE listener}
    /\ applied' = [applied EXCEPT ![k] = msg]
    /\ NextObserver
    /\ UNCHANGED <<heartbeat, file, mem, initial, writeFailed, registration, waiting,
                   received, msg, dpc, disconnected, up, faults>>

(* MUTANT of ObserveHeartbeatStop: the old ticker goes on.                 *)
ObserveHeartbeatKeepsTicker ==
    /\ Running /\ cpc = "observe" /\ msg # Empty
    /\ Observers[k] = "heartbeat"
    /\ cpc' = "initTicker"
    /\ UNCHANGED <<heartbeat, configuration, registration, waiting, received, msg, k,
                   dpc, disconnected, listener, up, faults>>

(* Heartbeat.Update: stop the ticker, then make a new one.                 *)
ObserveHeartbeatStop ==
    /\ Running /\ cpc = "observe" /\ msg # Empty
    /\ Observers[k] = "heartbeat"
    /\ StopTicker /\ UNCHANGED quiet
    /\ cpc' = "initTicker"
    /\ UNCHANGED <<configuration, registration, waiting, received, msg, k, dpc,
                   disconnected, listener, up, faults>>

ObserveHeartbeatInit ==
    /\ Running /\ cpc = "initTicker"
    /\ initTicker(msg)
    /\ applied' = [applied EXCEPT ![k] = msg]
    /\ NextObserver
    /\ UNCHANGED <<file, mem, initial, writeFailed, registration, waiting,
                   received, msg, dpc, disconnected, listener, up, faults>>

(* MUTANT of WriteConfig: its error is ignored.                            *)
WriteConfigUnchecked ==
    /\ Running /\ cpc = "write"
    /\ \/ file' = msg /\ NoFault
       \/ file' \in {file, Garbled} /\ Fault
    /\ cpc' = "swap"
    /\ UNCHANGED <<heartbeat, mem, initial, applied, writeFailed, registration, waiting,
                   received, msg, k, dpc, disconnected, listener, up>>

(* WriteFile: when it fails, Update returns and keeps the old              *)
(* configuration in memory.                                                *)
WriteConfig ==
    /\ Running /\ cpc = "write"
    /\ \/ file' = msg /\ cpc' = "swap" /\ UNCHANGED <<msg, writeFailed>> /\ NoFault
       \/ /\ file' \in {file, Garbled} /\ cpc' = "idle" /\ msg' = Default
          /\ writeFailed' = TRUE /\ Fault
    /\ UNCHANGED <<heartbeat, mem, initial, applied, registration, waiting,
                   received, k, dpc, disconnected, listener, up>>

(* MUTANT of SwapConfig: the lock is not given back and blocks the next    *)
(* update.                                                                 *)
SwapConfigKeepsLock ==
    /\ Running /\ cpc = "swap"
    /\ mem' = msg /\ initial' = FALSE
    /\ UNCHANGED <<heartbeat, file, applied, writeFailed, server, registration, listener, up, faults>>

SwapConfig ==
    /\ Running /\ cpc = "swap"
    /\ mem' = msg /\ initial' = FALSE
    /\ writeFailed' = FALSE
    /\ cpc' = "idle" /\ msg' = Default
    /\ UNCHANGED <<heartbeat, file, applied, registration, waiting, received, k,
                   dpc, disconnected, listener, up, faults>>

-----------------------------------------------------------------------------
(* Deregistration                                                          *)

(* NotifyEvent(RECEIVED_DISCONNECT); one handler at a time.                *)
NotifyDisconnect ==
    /\ Running /\ dpc = 0
    /\ dpc' = 1
    /\ disconnected' = TRUE
    /\ UNCHANGED <<heartbeat, configuration, registration, waiting, received,
                   cpc, msg, k, listener, up, faults>>

(* Registration.Deregister: all deregistrables in turn, whatever the ones  *)
(* before returned; those not named here keep no state of this module.     *)
Deregister ==
    /\ Running /\ dpc \in DOMAIN Deregistrables
    /\ dpc' = dpc + 1
    /\ deregistered' = (deregistered \/ Deregistrables[dpc] = "workload manager")
    /\ \/ Deregistrables[dpc] # "configuration manager" /\ UNCHANGED file /\ NoFault
       \/ Deregistrables[dpc] = "configuration manager" /\ file' = None /\ NoFault
       \/ Deregistrables[dpc] = "configuration manager" /\ UNCHANGED file /\ Fault
    /\ IF Deregistrables[dpc] = "heartbeat" THEN StopTicker /\ UNCHANGED quiet
                                            ELSE UNCHANGED heartbeat
    /\ UNCHANGED <<mem, initial, applied, writeFailed, retrying,
                   waiting, received, cpc, msg, k, disconnected, listener, up>>

Deregistered ==
    /\ Running /\ dpc = Len(Deregistrables) + 1
    /\ dpc' = 0
    /\ UNCHANGED <<heartbeat, configuration, registration, waiting, received,
                   cpc, msg, k, disconnected, listener, up, faults>>

-----------------------------------------------------------------------------
(* The reboot listener                                                     *)

(* listenStartGracefulRebootChannel stops the services, the heartbeat with *)
(* hbs.Deregister(), and sends its completion, which nobody takes if       *)
(* OS.Update has timed out.                                                *)
ListenerStops ==
    /\ Running /\ listener = "stopping"
    /\ StopTicker /\ quiet' = TRUE
    /\ listener' = "completing"
    /\ UNCHANGED <<configuration, server, registration, up, faults>>

-----------------------------------------------------------------------------
(* Heartbeats and failures                                                 *)

HeartbeatTick ==
    /\ Running
    /\ \E t \in Tickers : RetrieveInfo(t)
    /\ UNCHANGED <<configuration, server, registration, listener, up, faults>>

HeartbeatPush ==
    /\ Running
    /\ Push
    /\ UNCHANGED <<configuration, server, registration, listener, up, faults>>

(* What the process kept in memory beside the heartbeat is gone, messages  *)
(* it had accepted and not yet applied included.                           *)
Die ==
    /\ up' = FALSE
    /\ mem' = Default /\ initial' = FALSE /\ writeFailed' = FALSE
    /\ applied' = [o \in DOMAIN Observers |-> Default]
    /\ waiting' = {} /\ cpc' = "idle" /\ msg' = Default /\ k' = 1
    /\ dpc' = 0 /\ disconnected' = FALSE
    /\ retrying' = FALSE /\ deregistered' = FALSE /\ listener' = "waiting"
    /\ UNCHANGED received

(* A write that is under way when the process dies leaves a partial file.  *)
InterruptWrite == file' \in {file} \cup (IF cpc = "write" THEN {Garbled} ELSE {})

Crash ==
    /\ Running
    /\ Die /\ InterruptWrite
    /\ HeartbeatLost /\ UNCHANGED panicked
    /\ Fault

(* The first observer dereferences the Configuration an empty message does *)
(* not have.                                                               *)
ObserveEmpty ==
    /\ Running /\ cpc = "observe" /\ msg = Empty
    /\ Die
    /\ HeartbeatLost /\ UNCHANGED panicked
    /\ UNCHANGED <<file, faults>>

(* The nil dereference of a heartbeat goroutine ends the process too.      *)
HeartbeatUnauthorized ==
    /\ Running
    /\ \E t \in Tickers : SendUnauthorized(t)
    /\ Die /\ InterruptWrite
    /\ UNCHANGED faults

(* The dispatcher finds its worker dead and will start it again.           *)
Supervise ==
    /\ panicked
    /\ panicked' = FALSE
    /\ UNCHANGED <<ticker, live, buffered, period, pushing, push, eventsQueue,
                   delivered, lost, quiet, configuration, server, registration, listener,
                   up, faults>>

(* The steps of the consumer that wait for nobody (the one for the reboot  *)
(* has its time-out), and those in which another component is called.      *)
OwnStep == \/ ObserveEmpty \/ ObserveHeartbeatStop \/ ObserveHeartbeatInit
           \/ ObserveOsReturns \/ WriteConfig \/ SwapConfig
Consume == OwnStep \/ Observe \/ ObserveOs \/ RequestReboot
DeregisterStep == Deregister \/ Deregistered

Next ==
    \/ Boot
    \/ \E m \in Message : Send(m)
    \/ \E w \in waiting : Receive(w)
    \/ Consume
    \/ NotifyDisconnect \/ DeregisterStep
    \/ registerDeviceWithRetries
    \/ ListenerStops
    \/ HeartbeatTick \/ HeartbeatPush \/ HeartbeatUnauthorized
    \/ Crash \/ Supervise

Spec == Init /\ [][Next]_vars

(* The consumer's own steps are taken, a blocked sender is served (Go      *)
(* queues the senders of a channel), and the retry ticker keeps ticking.   *)
(* Nothing is assumed of the observers and of what Deregister calls, whose *)
(* external calls have no time-out, of the reboot listener, or of a new    *)
(* start of the process.                                                   *)
Fairness ==
    /\ WF_vars(OwnStep)
    /\ \A i \in 1..MaxMessages : SF_vars(\E w \in waiting : w.id = i /\ Receive(w))
    /\ WF_vars(registerDeviceWithRetries)

FairSpec == Spec /\ Fairness

-----------------------------------------------------------------------------
(* Properties                                                              *)

TypeOK ==
    /\ HeartbeatTypeOK
    /\ file \in Versions \cup {None, Garbled}
    /\ mem \in Versions
    /\ initial \in BOOLEAN
    /\ waiting \subseteq [id : 1..MaxMessages, conf : Message]
    /\ received \in 0..MaxMessages
    /\ cpc \in {"idle", "observe", "signal", "await", "initTicker", "write", "swap"}
    /\ listener \in {"waiting", "stopping", "completing"}
    /\ msg \in Versions \cup {Empty}
    /\ k \in DOMAIN Observers
    /\ applied \in [DOMAIN Observers -> Versions]
    /\ deregistered \in BOOLEAN
    /\ dpc \in 0..(Len(Deregistrables) + 1)
    /\ {retrying, up} \subseteq BOOLEAN
    /\ {disconnected, writeFailed} \subseteq BOOLEAN
    /\ faults \in 0..MaxFaults

(* Unless the device was disconnected, the file a restart would read holds *)
(* the configuration in memory (the one just written, in the instant       *)
(* before it is swapped in), or is unreadable after a failed write; it is  *)
(* missing only as long as no configuration was ever accepted.             *)
(* (configuration.go Update)                                               *)
FileMatchesMemory ==
    (Running /\ ~disconnected) =>
        \/ file = (IF cpc = "swap" THEN msg ELSE mem)
        \/ file = Garbled
        \/ file = None /\ initial

(* Between updates every observer has been given the configuration the     *)
(* manager holds and the heartbeat ticks at its interval, even if an       *)
(* observer failed ("Observer can fail, BUT device config should be        *)
(* created", configuration_test.go); the workload manager is left out once *)
(* it is deregistered, and a failed write leaves the observers ahead.      *)
ObserversFollow ==
    (Running /\ cpc = "idle" /\ ~writeFailed) =>
        /\ \A o \in DOMAIN Observers :
              applied[o] = mem \/ (Observers[o] = "workload manager" /\ deregistered)
        /\ ticker # NoTicker => period = mem

(* A configured device that was not disconnected sends heartbeats, except  *)
(* in the instant in which the ticker is replaced, and after a graceful    *)
(* reboot has stopped the ticker (heartbeat.go, main.go): if the host does *)
(* not go down then, the next update starts it again.                      *)
ConfiguredSendsHeartbeats ==
    (Running /\ ~initial /\ ~disconnected /\ ~quiet /\ cpc # "initTicker") => live = {ticker}

(* All messages that were accepted are taken by the consumer, or lost with *)
(* the process, unless the consumer stays for good in the Update of an     *)
(* observer: in an external call, or in the request for a reboot while the *)
(* listener is busy with an earlier one that has timed out                 *)
(* (deviceserver.go, os.go gracefulRebootFlow).                            *)
MessagesConsumed ==
    waiting # {} ~> (waiting = {} \/ [](cpc \in {"observe", "signal"}))

(* Once there is a configuration the retry loop ends.                      *)
RetriesEnd == (Running /\ ~initial) ~> ~retrying

(* "Delete config file as expected" (configuration_test.go): when a        *)
(* DISCONNECT has been handled and no message arrives after it, the        *)
(* configuration file is gone and stays gone until the process ends.       *)
ConfigFileStaysDeleted ==
    (Running /\ disconnected /\ dpc = 0 /\ faults = 0) => file = None
====
