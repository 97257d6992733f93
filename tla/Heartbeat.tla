------------------------------ MODULE Heartbeat ------------------------------
(***************************************************************************)
(* The heartbeat service (internal/heartbeat/heartbeat.go).  Every ticker  *)
(* has a goroutine of its own that, on each tick, collects the information *)
(* (RetrieveInfo) and sends it; stopping a ticker does not stop a push     *)
(* that is under way.  The queue of workload events it drains belongs to   *)
(* the workload manager (manager.go PopEvents).                            *)
(***************************************************************************)
EXTENDS Naturals, FiniteSets

CONSTANTS
    Versions,       \* device configurations
    Default,        \* defaultDeviceConfigurationMessage
    Tickers,        \* identities for time.Ticker values
    Events,         \* workload events
    NoTicker        \* Heartbeat.ticker == nil

ASSUME DefaultAssumption == Default \in Versions
ASSUME NoTickerAssumption == NoTicker \notin Tickers

VARIABLES
    ticker,         \* Heartbeat.ticker
    live,           \* tickers that were created and not stopped
    buffered,       \* stopped tickers whose channel still holds a tick
    period,         \* the configuration the ticker took its interval from
    pushing,        \* tickers whose goroutine is sending a heartbeat
    push,           \* the events in the heartbeat it sends
    eventsQueue,    \* WorkloadManager.eventsQueue
    delivered,      \* events of heartbeats the operator has received
    lost,           \* events of heartbeats that could not be sent
    quiet,          \* history: a graceful reboot has stopped the ticker
    panicked        \* the process has died of a nil dereference in a push

heartbeat == <<ticker, live, buffered, period, pushing, push, eventsQueue,
               delivered, lost, quiet, panicked>>

HeartbeatInit ==
    /\ ticker = NoTicker
    /\ live = {} /\ buffered = {}
    /\ period = Default
    /\ pushing = {} /\ push = [t \in Tickers |-> {}]
    /\ eventsQueue = {} /\ delivered = {} /\ lost = {}
    /\ quiet = FALSE /\ panicked = FALSE

(* A ticker that is nobody's: its identity stands for a new time.Ticker.   *)
Free(t) == t # ticker /\ t \notin live \cup buffered \cup pushing

(* initTicker: a new ticker and its goroutine.                             *)
initTicker(v) ==
    LET t == CHOOSE u \in Tickers : Free(u)
    IN  /\ \E u \in Tickers : Free(u)
        /\ ticker' = t
        /\ live' = live \cup {t}
        /\ period' = v
        /\ quiet' = FALSE
        /\ UNCHANGED <<buffered, pushing, push, eventsQueue, delivered, lost, panicked>>

(* ticker.Stop(), as Update and Deregister call it when there is a ticker: *)
(* a tick its channel holds by then is still received by its goroutine.    *)
(* The history variable quiet is left to the callers.                      *)
StopTicker ==
    /\ live' = live \ {ticker}
    /\ buffered' \in {buffered, buffered \cup (live \cap {ticker})}
    /\ UNCHANGED <<ticker, period, pushing, push, eventsQueue, delivered, lost, panicked>>

(* The workload manager queues an event (a Run that failed).               *)
QueueEvent(e) ==
    /\ e \notin eventsQueue \cup delivered \cup lost
    /\ \A t \in Tickers : e \notin push[t]
    /\ eventsQueue' = eventsQueue \cup {e}
    /\ UNCHANGED <<ticker, live, buffered, period, pushing, push, delivered, lost,
                   quiet, panicked>>

(* MUTANT of RetrieveInfo: the queue is not emptied.                       *)
RetrieveInfoKeepsQueue(t) ==
    /\ t \in live \cup buffered /\ t \notin pushing
    /\ buffered' = buffered \ {t}
    /\ pushing' = pushing \cup {t}
    /\ push' = [push EXCEPT ![t] = eventsQueue]
    /\ UNCHANGED <<ticker, live, period, eventsQueue, delivered, lost, quiet, panicked>>

(* A tick: RetrieveInfo pops the events (PopEvents).                       *)
RetrieveInfo(t) ==
    /\ t \in live \cup buffered /\ t \notin pushing
    /\ buffered' = buffered \ {t}
    /\ pushing' = pushing \cup {t}
    /\ push' = [push EXCEPT ![t] = eventsQueue]
    /\ eventsQueue' = {}
    /\ UNCHANGED <<ticker, live, period, delivered, lost, quiet, panicked>>

(* send: the operator has the heartbeat ...                                *)
Sent(t) ==
    /\ t \in pushing
    /\ pushing' = pushing \ {t}
    /\ delivered' = delivered \cup push[t]
    /\ push' = [push EXCEPT ![t] = {}]
    /\ UNCHANGED <<ticker, live, buffered, period, eventsQueue, lost, quiet, panicked>>

(* ... or Send fails: the error is logged and the heartbeat dropped.       *)
SendFails(t) ==
    /\ t \in pushing
    /\ pushing' = pushing \ {t}
    /\ lost' = lost \cup push[t]
    /\ push' = [push EXCEPT ![t] = {}]
    /\ UNCHANGED <<ticker, live, buffered, period, eventsQueue, delivered, quiet, panicked>>

Push == \E t \in Tickers : Sent(t) \/ SendFails(t)

(* The process dies: the tickers, their goroutines and the queue are gone. *)
HeartbeatLost ==
    /\ ticker' = NoTicker
    /\ live' = {} /\ buffered' = {}
    /\ pushing' = {} /\ push' = [t \in Tickers |-> {}]
    /\ lost' = lost \cup eventsQueue \cup UNION {push[t] : t \in Tickers}
    /\ eventsQueue' = {}
    /\ period' = Default /\ quiet' = FALSE
    /\ UNCHANGED delivered

(* A heartbeat answered 401 Unauthorized.  NewHeartbeatService does not    *)
(* keep the registration it is given, so s.reg.RegisterDevice() runs on a  *)
(* nil receiver and panics before the certificate is renewed.              *)
SendUnauthorized(t) ==
    /\ t \in pushing
    /\ panicked' = TRUE
    /\ HeartbeatLost

-----------------------------------------------------------------------------
HeartbeatTypeOK ==
    /\ ticker \in Tickers \cup {NoTicker}
    /\ live \subseteq Tickers /\ buffered \subseteq Tickers
    /\ period \in Versions
    /\ pushing \subseteq Tickers
    /\ push \in [Tickers -> SUBSET Events]
    /\ eventsQueue \subseteq Events
    /\ delivered \subseteq Events
    /\ lost \subseteq Events
    /\ quiet \in BOOLEAN /\ panicked \in BOOLEAN

(* However updates, deregistrations and restarts interleave, at most one   *)
(* ticker is running and it is the one Heartbeat.ticker points to, so that *)
(* the next Update or Deregister can stop it.                              *)
OneLiveTicker == live \subseteq {ticker}

(* An event is in one place only: queued, in one heartbeat being sent,     *)
(* delivered or dropped; so no event is reported twice.                    *)
EventsInOnePlace ==
    /\ eventsQueue \cap (delivered \cup lost) = {}
    /\ delivered \cap lost = {}
    /\ \A t \in Tickers : push[t] \cap (eventsQueue \cup delivered \cup lost) = {}
    /\ \A t, u \in Tickers : t # u => push[t] \cap push[u] = {}

(* "If it's already expired the cert need to be renewed" (heartbeat.go     *)
(* send): a heartbeat answered 401 leads to a new registration, not to the *)
(* end of the process.                                                     *)
UnauthorizedRenews == ~panicked
====
