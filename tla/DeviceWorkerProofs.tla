------------------------- MODULE DeviceWorkerProofs -------------------------
(***************************************************************************)
(* Proofs about DeviceWorker, for any configurations, observers,           *)
(* deregistrables, messages and any number of faults.                      *)
(***************************************************************************)
EXTENDS DeviceWorker, TLAPS

(* While the ticker is replaced, and while the process is down, no ticker  *)
(* is running.                                                             *)
TickerInv ==
    /\ OneLiveTicker
    /\ cpc = "initTicker" => live = {}
    /\ ~up => live = {} /\ cpc = "idle"

(* A running deregistration was asked for; between the write and the swap  *)
(* the file holds the new configuration.                                   *)
FileInv ==
    /\ dpc # 0 => disconnected
    /\ ~up => cpc = "idle" /\ ~disconnected
    /\ (Running /\ ~disconnected /\ cpc = "swap") => file = msg
    /\ FileMatchesMemory

(* A message that gets past the first observer is not empty.               *)
TypeInv == TypeOK /\ (cpc \notin {"idle", "observe"} => msg # Empty)

EventsInv == push \in [Tickers -> SUBSET Events] /\ eventsQueue \subseteq Events /\ EventsInOnePlace

(* A request for a reboot comes from the OS observer.                      *)
OsInv == cpc \in {"signal", "await"} => Observers[k] = "os"

(* The observers the update under way has passed.                          *)
Given == CASE cpc \in {"observe", "signal", "await", "initTicker"} -> 1..(k - 1)
           [] cpc \in {"write", "swap"} -> DOMAIN Observers
           [] OTHER -> {}

(* Those have the new configuration; when the heartbeat is one of them its *)
(* ticker runs again, at the new interval.                                 *)
GivenInv ==
    /\ \A o \in Given : /\ applied[o] = msg \/ (Observers[o] = "workload manager" /\ deregistered)
                        /\ Observers[o] = "heartbeat" => period = msg
    /\ ~up => ticker = NoTicker /\ cpc = "idle"
    /\ ObserversFollow

SendingInv ==
    /\ \A o \in Given : /\ Observers[o] = "heartbeat" /\ Running /\ ~disconnected /\ ~quiet
                        /\ cpc # "initTicker"
                        => live = {ticker}
    /\ ConfiguredSendsHeartbeats

-----------------------------------------------------------------------------
(* Deregistrables are numbered from 1: 0 stands for no deregistration.     *)
LEMMA ZeroNotAnIndex == 0 \notin DOMAIN Deregistrables
  <1>1. Deregistrables \in Seq(STRING)
    BY ObserversAssumption
  <1>2. QED
    BY <1>1

(* Every step keeps the invariant on the tickers.                          *)
LEMMA NextTicker == TickerInv /\ [Next]_vars => TickerInv'
  <1> SUFFICES ASSUME TickerInv, [Next]_vars PROVE TickerInv'
    OBVIOUS
  <1> USE DEF TickerInv, OneLiveTicker
  <1>1. CASE Boot
    BY <1>1 DEF Boot, initTicker, heartbeat, server
  <1>2. ASSUME NEW m \in Message, Send(m) PROVE TickerInv'
    BY <1>2 DEF Send, heartbeat
  <1>3. ASSUME NEW w \in waiting, Receive(w) PROVE TickerInv'
    <2>1. UNCHANGED <<live, ticker, up>> /\ up
      BY <1>3 DEF Receive, Running, heartbeat
    <2>2. cpc' # "initTicker"
      BY <1>3 DEF Receive
    <2>3. QED
      BY <2>1, <2>2
  <1>4. CASE Observe
    BY <1>4 DEF Observe, NextObserver, QueueEvent, heartbeat
  <1>5. CASE ObserveEmpty
    BY <1>5 DEF ObserveEmpty, Die, HeartbeatLost
  <1>6. CASE ObserveHeartbeatStop
    BY <1>6 DEF ObserveHeartbeatStop, StopTicker
  <1>7. CASE ObserveHeartbeatInit
    BY <1>7 DEF ObserveHeartbeatInit, NextObserver, initTicker
  <1>8. CASE WriteConfig
    BY <1>8 DEF WriteConfig, heartbeat
  <1>9. CASE SwapConfig
    BY <1>9 DEF SwapConfig, heartbeat
  <1>10. CASE NotifyDisconnect
    BY <1>10 DEF NotifyDisconnect, heartbeat
  <1>11. CASE Deregister
    BY <1>11 DEF Deregister, StopTicker, heartbeat
  <1>12. CASE Deregistered
    BY <1>12 DEF Deregistered, heartbeat
  <1>13. CASE registerDeviceWithRetries
    BY <1>13 DEF registerDeviceWithRetries, heartbeat, server
  <1>14. CASE HeartbeatTick
    BY <1>14 DEF HeartbeatTick, RetrieveInfo, server
  <1>15. CASE HeartbeatPush
    BY <1>15 DEF HeartbeatPush, Push, Sent, SendFails, server
  <1>16. CASE Crash
    BY <1>16 DEF Crash, Die, HeartbeatLost
  <1>17. CASE HeartbeatUnauthorized
    BY <1>17 DEF HeartbeatUnauthorized, SendUnauthorized, Die, HeartbeatLost
  <1>18. CASE Supervise
    BY <1>18 DEF Supervise, server
  <1>19. CASE UNCHANGED vars
    BY <1>19 DEF vars, heartbeat, server
  <1>20. CASE ObserveOs \/ RequestReboot \/ ObserveOsReturns
    BY <1>20 DEF ObserveOs, RequestReboot, ObserveOsReturns, NextObserver, heartbeat
  <1>21. CASE ListenerStops
    BY <1>21 DEF ListenerStops, StopTicker, server
  <1>22. QED
    BY <1>1, <1>2, <1>3, <1>4, <1>5, <1>6, <1>7, <1>8, <1>9, <1>10, <1>11,
       <1>12, <1>13, <1>14, <1>15, <1>16, <1>17, <1>18, <1>19, <1>20, <1>21
    DEF Next, Consume, OwnStep, DeregisterStep

(* Every step keeps the invariant on the configuration file.               *)
LEMMA NextFile == FileInv /\ [Next]_vars => FileInv'
  <1> SUFFICES ASSUME FileInv, [Next]_vars PROVE FileInv'
    OBVIOUS
  <1> USE DEF FileInv, FileMatchesMemory
  <1>1. CASE Boot
    BY <1>1 DEF Boot, server, Running
  <1>2. ASSUME NEW m \in Message, Send(m) PROVE FileInv'
    BY <1>2 DEF Send, Running, configuration, heartbeat
  <1>3. ASSUME NEW w \in waiting, Receive(w) PROVE FileInv'
    BY <1>3 DEF Receive, Running, heartbeat
  <1>4. CASE Observe
    BY <1>4 DEF Observe, Running, NextObserver, QueueEvent, heartbeat
  <1>5. CASE ObserveEmpty
    BY <1>5 DEF ObserveEmpty, Die, Running
  <1>6. CASE ObserveHeartbeatStop
    BY <1>6 DEF ObserveHeartbeatStop, Running, StopTicker, configuration
  <1>7. CASE ObserveHeartbeatInit
    BY <1>7 DEF ObserveHeartbeatInit, Running, NextObserver, initTicker
  <1>8. CASE WriteConfig
    BY <1>8 DEF WriteConfig, Running, heartbeat
  <1>9. CASE SwapConfig
    BY <1>9 DEF SwapConfig, Running, heartbeat
  <1>10. CASE NotifyDisconnect
    BY <1>10 DEF NotifyDisconnect, Running, heartbeat, configuration
  <1>11. CASE Deregister
    <2>1. dpc # 0
      <3>1. dpc \in DOMAIN Deregistrables
        BY <1>11 DEF Deregister
      <3>2. QED
        BY <3>1, ZeroNotAnIndex
    <2>2. disconnected /\ up
      BY <1>11, <2>1 DEF Deregister, Running
    <2>3. UNCHANGED <<disconnected, up>>
      BY <1>11 DEF Deregister
    <2>4. QED
      BY <2>2, <2>3, Zenon DEF Running
  <1>12. CASE Deregistered
    BY <1>12 DEF Deregistered, Running, heartbeat, configuration
  <1>13. CASE registerDeviceWithRetries
    BY <1>13 DEF registerDeviceWithRetries, Running, heartbeat, configuration, server
  <1>14. CASE HeartbeatTick
    BY <1>14 DEF HeartbeatTick, Running, RetrieveInfo, configuration, server
  <1>15. CASE HeartbeatPush
    BY <1>15 DEF HeartbeatPush, Running, configuration, server
  <1>16. CASE Crash
    BY <1>16 DEF Crash, Running, Die
  <1>17. CASE HeartbeatUnauthorized
    BY <1>17 DEF HeartbeatUnauthorized, Running, Die
  <1>18. CASE Supervise
    BY <1>18 DEF Supervise, Running, configuration, server
  <1>19. CASE UNCHANGED vars
    BY <1>19 DEF vars, Running, heartbeat, configuration, server
  <1>20. CASE ObserveOs \/ RequestReboot \/ ObserveOsReturns
    BY <1>20 DEF ObserveOs, RequestReboot, ObserveOsReturns, NextObserver, Running,
                 heartbeat, configuration
  <1>21. CASE ListenerStops
    BY <1>21 DEF ListenerStops, Running, configuration, server
  <1>22. QED
    BY <1>1, <1>2, <1>3, <1>4, <1>5, <1>6, <1>7, <1>8, <1>9, <1>10, <1>11,
       <1>12, <1>13, <1>14, <1>15, <1>16, <1>17, <1>18, <1>19, <1>20, <1>21
    DEF Next, Consume, OwnStep, DeregisterStep

(* The indices of the observers.                                           *)
LEMMA ObserversFacts ==
    /\ Len(Observers) \in Nat \ {0}
    /\ DOMAIN Observers = 1..Len(Observers)
    /\ Len(Deregistrables) \in Nat
    /\ DOMAIN Deregistrables = 1..Len(Deregistrables)
  <1>1. Observers \in Seq(STRING) /\ Observers # <<>> /\ Deregistrables \in Seq(STRING)
    BY ObserversAssumption
  <1>2. QED
    BY <1>1

(* The steps of the heartbeat keep its types.                              *)
LEMMA HeartbeatTypes ==
    ASSUME HeartbeatTypeOK
    PROVE  /\ \A v \in Versions : initTicker(v) => HeartbeatTypeOK'
           /\ StopTicker /\ quiet' \in BOOLEAN => HeartbeatTypeOK'
           /\ \A e \in Events : QueueEvent(e) => HeartbeatTypeOK'
           /\ \A t \in Tickers : RetrieveInfo(t) \/ Sent(t) \/ SendFails(t) => HeartbeatTypeOK'
           /\ HeartbeatLost /\ panicked' \in BOOLEAN => HeartbeatTypeOK'
           /\ UNCHANGED heartbeat => HeartbeatTypeOK'
  <1> USE DEF HeartbeatTypeOK
  <1>1. ASSUME NEW v \in Versions, initTicker(v) PROVE HeartbeatTypeOK'
    <2>1. PICK t \in Tickers : ticker' = t /\ live' = live \cup {t}
      BY <1>1 DEF initTicker
    <2>2. QED
      BY <1>1, <2>1 DEF initTicker
  <1>2. ASSUME StopTicker, quiet' \in BOOLEAN PROVE HeartbeatTypeOK'
    BY <1>2 DEF StopTicker
  <1>3. ASSUME NEW e \in Events, QueueEvent(e) PROVE HeartbeatTypeOK'
    BY <1>3 DEF QueueEvent
  <1>4. ASSUME NEW t \in Tickers, RetrieveInfo(t) \/ Sent(t) \/ SendFails(t) PROVE HeartbeatTypeOK'
    BY <1>4 DEF RetrieveInfo, Sent, SendFails
  <1>5. ASSUME HeartbeatLost, panicked' \in BOOLEAN PROVE HeartbeatTypeOK'
    <2>1. UNION {push[t] : t \in Tickers} \subseteq Events
      OBVIOUS
    <2>2. QED
      BY <1>5, <2>1, DefaultAssumption DEF HeartbeatLost
  <1>6. ASSUME UNCHANGED heartbeat PROVE HeartbeatTypeOK'
    BY <1>6 DEF heartbeat
  <1>7. QED
    BY <1>1, <1>2, <1>3, <1>4, <1>5, <1>6

(* The types of the consumer after it has served an observer.              *)
LEMMA NextObserverTypes ==
    ASSUME k \in DOMAIN Observers, NextObserver
    PROVE  k' \in DOMAIN Observers /\ cpc' \in {"observe", "write"}
  BY ObserversFacts DEF NextObserver

LEMMA FaultTypes ==
    ASSUME faults \in 0..MaxFaults, Fault \/ NoFault
    PROVE  faults' \in 0..MaxFaults
  <1>1. CASE Fault
    BY <1>1, BoundsAssumption DEF Fault
  <1>2. CASE NoFault
    BY <1>2 DEF NoFault
  <1>3. QED
    BY <1>1, <1>2

(* What the end of the process leaves.                                     *)
LEMMA DieTypes ==
    ASSUME TypeInv, Die, HeartbeatTypeOK', file' \in Versions \cup {None, Garbled},
           faults' \in 0..MaxFaults
    PROVE  TypeInv'
  <1>1. mem' \in Versions /\ msg' \in Versions /\ applied' \in [DOMAIN Observers -> Versions]
    BY DefaultAssumption DEF Die
  <1>2. k' \in DOMAIN Observers /\ dpc' \in 0..(Len(Deregistrables) + 1)
    BY ObserversFacts DEF Die
  <1>3. waiting' = {} /\ received' = received /\ cpc' = "idle" /\ listener' = "waiting"
    BY DEF Die
  <1>4. {initial', deregistered', retrying', up', disconnected', writeFailed'}
            \subseteq BOOLEAN
    BY DEF Die
  <1>5. QED
    BY <1>1, <1>2, <1>3, <1>4 DEF TypeInv, TypeOK

(* Every step keeps the types.                                             *)
LEMMA NextType == TypeInv /\ [Next]_vars => TypeInv'
  <1> SUFFICES ASSUME TypeInv, [Next]_vars PROVE TypeInv'
    OBVIOUS
  <1> USE DEF TypeInv, TypeOK
  <1>0. /\ Message \subseteq Versions \cup {Empty} /\ Default \in Versions /\ Default # Empty
        /\ 1 \in DOMAIN Observers /\ MaxMessages \in Nat /\ MaxFaults \in Nat
    BY DefaultAssumption, SentinelsAssumption, BoundsAssumption, ObserversFacts DEF Message
  <1>1. CASE Boot
    <2>1. mem' \in Versions
      BY <1>0, <1>1 DEF Boot
    <2>2. HeartbeatTypeOK'
      BY <1>1, <2>1, HeartbeatTypes DEF Boot
    <2>3. QED
      BY <1>1, <2>1, <2>2 DEF Boot, server
  <1>2. ASSUME NEW m \in Message, Send(m) PROVE TypeInv'
    <2>1. received' \in 1..MaxMessages
      BY <1>0, <1>2 DEF Send
    <2>2. HeartbeatTypeOK'
      BY <1>2, HeartbeatTypes DEF Send
    <2>3. QED
      BY <1>2, <2>1, <2>2 DEF Send, configuration, registration
  <1>3. ASSUME NEW w \in waiting, Receive(w) PROVE TypeInv'
    <2>1. w.conf \in Message
      OBVIOUS
    <2>2. HeartbeatTypeOK'
      BY <1>3, HeartbeatTypes DEF Receive
    <2>3. QED
      BY <1>0, <1>3, <2>1, <2>2 DEF Receive, registration
  <1>4. CASE Observe
    <2>1. HeartbeatTypeOK'
      BY <1>4, HeartbeatTypes DEF Observe
    <2>2. k' \in DOMAIN Observers /\ cpc' \in {"observe", "write"}
      BY <1>4, NextObserverTypes DEF Observe
    <2>3. msg \in Versions /\ applied' \in [DOMAIN Observers -> Versions]
      BY <1>4 DEF Observe
    <2>4. QED
      BY <1>4, <2>1, <2>2, <2>3 DEF Observe, registration
  <1>5. CASE ObserveEmpty
    <2>1. HeartbeatTypeOK'
      BY <1>5, HeartbeatTypes DEF ObserveEmpty, HeartbeatTypeOK
    <2>2. QED
      BY <1>5, <2>1, DieTypes DEF ObserveEmpty
  <1>6. CASE ObserveHeartbeatStop
    <2>1. HeartbeatTypeOK'
      BY <1>6, HeartbeatTypes DEF ObserveHeartbeatStop, HeartbeatTypeOK
    <2>2. QED
      BY <1>6, <2>1 DEF ObserveHeartbeatStop, configuration, registration
  <1>7. CASE ObserveHeartbeatInit
    <2>1. msg \in Versions /\ applied' \in [DOMAIN Observers -> Versions]
      BY <1>7 DEF ObserveHeartbeatInit
    <2>2. HeartbeatTypeOK'
      BY <1>7, <2>1, HeartbeatTypes DEF ObserveHeartbeatInit
    <2>3. k' \in DOMAIN Observers /\ cpc' \in {"observe", "write"}
      BY <1>7, NextObserverTypes DEF ObserveHeartbeatInit
    <2>4. QED
      BY <1>7, <2>1, <2>2, <2>3 DEF ObserveHeartbeatInit, registration
  <1>8. CASE WriteConfig
    <2>1. HeartbeatTypeOK'
      BY <1>8, HeartbeatTypes DEF WriteConfig
    <2>2. faults' \in 0..MaxFaults
      BY <1>8, FaultTypes DEF WriteConfig
    <2>3. QED
      BY <1>0, <1>8, <2>1, <2>2 DEF WriteConfig, registration
  <1>9. CASE SwapConfig
    <2>1. HeartbeatTypeOK'
      BY <1>9, HeartbeatTypes DEF SwapConfig
    <2>2. QED
      BY <1>0, <1>9, <2>1 DEF SwapConfig, registration
  <1>10. CASE NotifyDisconnect
    <2>1. HeartbeatTypeOK'
      BY <1>10, HeartbeatTypes DEF NotifyDisconnect
    <2>2. dpc' \in 0..(Len(Deregistrables) + 1)
      BY <1>10, ObserversFacts DEF NotifyDisconnect
    <2>3. QED
      BY <1>10, <2>1, <2>2 DEF NotifyDisconnect, configuration, registration
  <1>11. CASE Deregister
    <2>1. HeartbeatTypeOK'
      <3>1. (StopTicker /\ quiet' = quiet) \/ UNCHANGED heartbeat
        BY <1>11 DEF Deregister
      <3>2. QED
        BY <3>1, HeartbeatTypes DEF HeartbeatTypeOK
    <2>2. dpc' \in 0..(Len(Deregistrables) + 1)
      <3>1. dpc \in 1..Len(Deregistrables) /\ dpc' = dpc + 1
        BY <1>11, ObserversFacts DEF Deregister
      <3>2. QED
        BY <3>1, ObserversFacts
    <2>3. file' \in Versions \cup {None, Garbled} /\ deregistered' \in BOOLEAN
      BY <1>11 DEF Deregister
    <2>4. faults' \in 0..MaxFaults
      <3>1. Fault \/ NoFault
        BY <1>11 DEF Deregister
      <3>2. QED
        BY <3>1, FaultTypes
    <2>5. QED
      BY <1>11, <2>1, <2>2, <2>3, <2>4 DEF Deregister
  <1>12. CASE Deregistered
    <2>1. HeartbeatTypeOK'
      BY <1>12, HeartbeatTypes DEF Deregistered
    <2>2. dpc' \in 0..(Len(Deregistrables) + 1)
      BY <1>12, ObserversFacts DEF Deregistered
    <2>3. QED
      BY <1>12, <2>1, <2>2 DEF Deregistered, configuration, registration
  <1>13. CASE registerDeviceWithRetries
    <2>1. HeartbeatTypeOK'
      BY <1>13, HeartbeatTypes DEF registerDeviceWithRetries
    <2>2. QED
      BY <1>13, <2>1 DEF registerDeviceWithRetries, configuration, server
  <1>14. CASE HeartbeatTick \/ HeartbeatPush
    <2>1. HeartbeatTypeOK'
      BY <1>14, HeartbeatTypes DEF HeartbeatTick, HeartbeatPush, Push
    <2>2. QED
      BY <1>14, <2>1 DEF HeartbeatTick, HeartbeatPush, configuration, server, registration
  <1>15. CASE Crash
    <2>1. HeartbeatTypeOK'
      BY <1>15, HeartbeatTypes DEF Crash, HeartbeatTypeOK
    <2>2. file' \in Versions \cup {None, Garbled}
      BY <1>15 DEF Crash, InterruptWrite
    <2>3. faults' \in 0..MaxFaults
      BY <1>15, FaultTypes DEF Crash
    <2>4. QED
      BY <1>15, <2>1, <2>2, <2>3, DieTypes DEF Crash
  <1>16. CASE HeartbeatUnauthorized
    <2>1. HeartbeatTypeOK'
      BY <1>16, HeartbeatTypes DEF HeartbeatUnauthorized, SendUnauthorized
    <2>2. file' \in Versions \cup {None, Garbled} /\ faults' \in 0..MaxFaults
      BY <1>16 DEF HeartbeatUnauthorized, InterruptWrite
    <2>3. QED
      BY <1>16, <2>1, <2>2, DieTypes DEF HeartbeatUnauthorized
  <1>17. CASE Supervise
    <2>1. HeartbeatTypeOK'
      BY <1>17 DEF Supervise, HeartbeatTypeOK
    <2>2. QED
      BY <1>17, <2>1 DEF Supervise, configuration, server, registration
  <1>18. CASE UNCHANGED vars
    <2>1. HeartbeatTypeOK'
      BY <1>18, HeartbeatTypes DEF vars
    <2>2. QED
      BY <1>18, <2>1 DEF vars, configuration, server, registration
  <1>19. CASE ObserveOs \/ RequestReboot
    <2>1. HeartbeatTypeOK'
      BY <1>19, HeartbeatTypes DEF ObserveOs, RequestReboot
    <2>2. QED
      BY <1>19, <2>1 DEF ObserveOs, RequestReboot, configuration, registration
  <1>20. CASE ObserveOsReturns
    <2>1. HeartbeatTypeOK'
      BY <1>20, HeartbeatTypes DEF ObserveOsReturns
    <2>2. k' \in DOMAIN Observers /\ cpc' \in {"observe", "write"}
      BY <1>20, NextObserverTypes DEF ObserveOsReturns
    <2>3. msg \in Versions /\ applied' \in [DOMAIN Observers -> Versions]
      BY <1>20 DEF ObserveOsReturns
    <2>4. listener' \in {"waiting", "stopping", "completing"}
      BY <1>20 DEF ObserveOsReturns
    <2>5. QED
      BY <1>20, <2>1, <2>2, <2>3, <2>4 DEF ObserveOsReturns, registration
  <1>21. CASE ListenerStops
    <2>1. HeartbeatTypeOK'
      BY <1>21, HeartbeatTypes DEF ListenerStops
    <2>2. QED
      BY <1>21, <2>1 DEF ListenerStops, configuration, server, registration
  <1>22. QED
    BY <1>1, <1>2, <1>3, <1>4, <1>5, <1>6, <1>7, <1>8, <1>9, <1>10, <1>11,
       <1>12, <1>13, <1>14, <1>15, <1>16, <1>17, <1>18, <1>19, <1>20, <1>21
    DEF Next, Consume, OwnStep, DeregisterStep

(* The steps of the heartbeat keep events in one place.                    *)
LEMMA NextEvents == EventsInv /\ [Next]_vars => EventsInv'
  <1> SUFFICES ASSUME EventsInv, [Next]_vars PROVE EventsInv'
    OBVIOUS
  <1> USE DEF EventsInv, EventsInOnePlace
  <1>1. CASE UNCHANGED <<push, eventsQueue, delivered, lost>>
    BY <1>1
  <1>2. ASSUME NEW e \in Events, QueueEvent(e) PROVE EventsInv'
    BY <1>2 DEF QueueEvent
  <1>3. ASSUME NEW t \in Tickers, RetrieveInfo(t) PROVE EventsInv'
    <2>1. push' = [push EXCEPT ![t] = eventsQueue] /\ eventsQueue' = {}
          /\ UNCHANGED <<delivered, lost>>
      BY <1>3 DEF RetrieveInfo
    <2>2. QED
      BY <2>1
  <1>4. ASSUME NEW t \in Tickers, Sent(t) \/ SendFails(t) PROVE EventsInv'
    <2>1. /\ push' = [push EXCEPT ![t] = {}] /\ UNCHANGED eventsQueue
          /\ \/ delivered' = delivered \cup push[t] /\ lost' = lost
             \/ lost' = lost \cup push[t] /\ delivered' = delivered
      BY <1>4 DEF Sent, SendFails
    <2>2. QED
      BY <2>1
  <1>5. CASE HeartbeatLost
    <2>1. /\ push' = [t \in Tickers |-> {}] /\ eventsQueue' = {} /\ UNCHANGED delivered
          /\ lost' = lost \cup eventsQueue \cup UNION {push[t] : t \in Tickers}
      BY <1>5 DEF HeartbeatLost
    <2>2. QED
      BY <2>1
  <1>6. \/ UNCHANGED <<push, eventsQueue, delivered, lost>>
        \/ \E e \in Events : QueueEvent(e)
        \/ \E t \in Tickers : RetrieveInfo(t) \/ Sent(t) \/ SendFails(t)
        \/ HeartbeatLost
    BY DEF Next, Consume, OwnStep, DeregisterStep, Boot, Send, Receive, Observe, ObserveEmpty,
       ObserveHeartbeatStop, ObserveHeartbeatInit, WriteConfig, SwapConfig, NotifyDisconnect,
       Deregister, Deregistered, registerDeviceWithRetries, HeartbeatTick, HeartbeatPush, Push,
       HeartbeatUnauthorized, SendUnauthorized, Crash, Supervise, initTicker, StopTicker,
       ObserveOs, RequestReboot, ObserveOsReturns, ListenerStops,
       heartbeat, vars
  <1>7. QED
    BY <1>1, <1>2, <1>3, <1>4, <1>5, <1>6

(* Which observers are passed after a step of the consumer.                *)
LEMMA GivenAt ==
    /\ cpc = "idle" => Given = {}
    /\ cpc \in {"observe", "signal", "await", "initTicker"} => Given = 1..(k - 1)
    /\ cpc \in {"write", "swap"} => Given = DOMAIN Observers
  BY DEF Given

LEMMA GivenAtNext ==
    /\ cpc' = "idle" => Given' = {}
    /\ cpc' \in {"observe", "signal", "await", "initTicker"} => Given' = 1..(k' - 1)
    /\ cpc' \in {"write", "swap"} => Given' = DOMAIN Observers
  BY DEF Given

LEMMA NoneGiven == ASSUME cpc' = "idle" \/ (cpc' = "observe" /\ k' = 1) PROVE Given' = {}
  <1>1. 1..(1 - 1) = {}
    OBVIOUS
  <1>2. QED
    BY <1>1, GivenAtNext

(* Serving an observer adds it to those passed.                            *)
LEMMA GivenGrows ==
    ASSUME TypeInv, cpc \in {"observe", "signal", "await", "initTicker"}, NextObserver
    PROVE  Given' = Given \cup {k} /\ k \in DOMAIN Observers /\ k \notin Given
  <1>1. k \in 1..Len(Observers) /\ Len(Observers) \in Nat /\ DOMAIN Observers = 1..Len(Observers)
    BY ObserversFacts DEF TypeInv, TypeOK
  <1>2. CASE k = Len(Observers)
    <2>1. cpc' = "write"
      BY <1>2 DEF NextObserver
    <2>2. QED
      BY <1>1, <1>2, <2>1, GivenAt, GivenAtNext
  <1>3. CASE k # Len(Observers)
    <2>1. cpc' = "observe" /\ k' = k + 1
      BY <1>3 DEF NextObserver
    <2>2. QED
      BY <1>1, <2>1, GivenAt, GivenAtNext
  <1>4. QED
    BY <1>2, <1>3

(* A passed observer is an observer.                                       *)
LEMMA GivenObservers == ASSUME TypeInv PROVE Given \subseteq DOMAIN Observers
  <1>1. k \in 1..Len(Observers) /\ Len(Observers) \in Nat /\ DOMAIN Observers = 1..Len(Observers)
    BY ObserversFacts DEF TypeInv, TypeOK
  <1>2. CASE cpc = "idle"
    BY <1>2, GivenAt
  <1>3. CASE cpc \in {"observe", "signal", "await", "initTicker"}
    BY <1>1, <1>3, GivenAt
  <1>4. CASE cpc \in {"write", "swap"}
    BY <1>4, GivenAt
  <1>5. QED
    BY <1>2, <1>3, <1>4 DEF TypeInv, TypeOK

(* Steps that leave the consumer where it is.                              *)
LEMMA GivenStays == ASSUME UNCHANGED <<cpc, k>> PROVE Given' = Given
  BY DEF Given

(* The consumer is with the OS observer while it waits for the reboot.     *)
LEMMA NextOs == OsInv /\ [Next]_vars => OsInv'
  <1> SUFFICES ASSUME OsInv, [Next]_vars PROVE OsInv'
    OBVIOUS
  <1> USE DEF OsInv
  <1>1. CASE UNCHANGED <<cpc, k>>
    BY <1>1
  <1>2. CASE cpc' \in {"idle", "observe", "initTicker", "write", "swap"}
    BY <1>2
  <1>3. CASE ObserveOs \/ RequestReboot
    BY <1>3 DEF ObserveOs, RequestReboot
  <1>4. CASE Consume
    BY <1>2, <1>3, <1>4 DEF Consume, OwnStep, Observe, ObserveEmpty, ObserveHeartbeatStop,
       ObserveHeartbeatInit, ObserveOsReturns, WriteConfig, SwapConfig, NextObserver, Die
  <1>5. ASSUME NEW w \in waiting, Receive(w) PROVE OsInv'
    BY <1>2, <1>5 DEF Receive
  <1>6. QED
    BY <1>1, <1>2, <1>4, <1>5 DEF Next, DeregisterStep, Boot, Send, NotifyDisconnect, Deregister,
       Deregistered, registerDeviceWithRetries, HeartbeatTick, HeartbeatPush,
       HeartbeatUnauthorized, Crash, Supervise, ListenerStops, Die, server, vars

(* Every step keeps what the observers have been given.                    *)
LEMMA NextGiven == TypeInv /\ OsInv /\ GivenInv /\ [Next]_vars => GivenInv'
  <1> SUFFICES ASSUME TypeInv, OsInv, GivenInv, [Next]_vars PROVE GivenInv'
    OBVIOUS
  <1> USE DEF GivenInv, ObserversFollow, Running
  <1>1. CASE Boot
    <2>1. Given' = {}
      BY <1>1, GivenAtNext DEF Boot, server
    <2>2. /\ UNCHANGED <<cpc, k, msg, deregistered>> /\ up' = TRUE /\ ticker = NoTicker
          /\ \A o \in DOMAIN Observers : applied'[o] = mem'
          /\ ticker' = NoTicker \/ period' = mem'
      BY <1>1 DEF Boot, server, initTicker, heartbeat
    <2>3. QED
      BY <2>1, <2>2
  <1>2. CASE UNCHANGED <<cpc, k, msg, mem, applied, period, ticker, up, writeFailed>>
             /\ (deregistered => deregistered')
    <2>1. Given' = Given
      BY <1>2, GivenStays
    <2>2. QED
      BY <1>2, <2>1
  <1>3. ASSUME NEW w \in waiting, Receive(w) PROVE GivenInv'
    <2>1. UNCHANGED <<mem, applied, writeFailed, period, ticker, deregistered, up>> /\ cpc = "idle" /\ up
      BY <1>3 DEF Receive, heartbeat, registration
    <2>2. cpc' = "idle" \/ (cpc' = "observe" /\ k' = 1)
      BY <1>3 DEF Receive
    <2>3. Given' = {}
      BY <2>2, NoneGiven
    <2>4. QED
      BY <2>1, <2>3
  <1>4. CASE Observe \/ ObserveHeartbeatInit \/ ObserveOsReturns
    <2>0. cpc \in {"observe", "signal", "await", "initTicker"} /\ NextObserver /\ up
      BY <1>4 DEF Observe, ObserveHeartbeatInit, ObserveOsReturns
    <2>1. cpc' # "idle" /\ up'
      BY <1>4, <2>0 DEF Observe, ObserveHeartbeatInit, ObserveOsReturns, NextObserver
    <2>2. Given' = Given \cup {k} /\ k \in DOMAIN Observers /\ k \notin Given
      BY <2>0, GivenGrows
    <2>3. UNCHANGED <<msg, deregistered>>
      BY <1>4 DEF Observe, ObserveHeartbeatInit, ObserveOsReturns, registration
    <2>4. /\ \A o \in DOMAIN Observers \ {k} : applied'[o] = applied[o]
          /\ applied'[k] = msg \/ (Observers[k] = "workload manager" /\ deregistered)
      BY <1>4, <2>2 DEF Observe, ObserveHeartbeatInit, ObserveOsReturns, TypeInv, TypeOK
    <2>5. period' = msg \/ (period' = period /\ Observers[k] # "heartbeat")
      BY <1>4 DEF Observe, ObserveHeartbeatInit, ObserveOsReturns, OsInv, initTicker, QueueEvent,
                  heartbeat
    <2>6. \A o \in Given : o \in DOMAIN Observers \ {k}
      BY <2>2, GivenObservers
    <2>7. ASSUME NEW o \in Given'
          PROVE  /\ applied'[o] = msg' \/ (Observers[o] = "workload manager" /\ deregistered')
                 /\ Observers[o] = "heartbeat" => period' = msg'
      BY <2>2, <2>3, <2>4, <2>5, <2>6
    <2>8. QED
      BY <2>1, <2>7
  <1>5. CASE ObserveHeartbeatStop \/ ObserveOs \/ RequestReboot
    <2>1. /\ cpc \in {"observe", "signal"} /\ cpc' \in {"signal", "await", "initTicker"} /\ up /\ up'
          /\ UNCHANGED <<k, msg, applied, period, deregistered>>
      BY <1>5 DEF ObserveHeartbeatStop, ObserveOs, RequestReboot, StopTicker, heartbeat,
                  configuration, registration
    <2>2. Given' = Given
      BY <2>1, GivenAt, GivenAtNext
    <2>3. QED
      BY <2>1, <2>2
  <1>6. CASE WriteConfig
    <2>1. /\ cpc = "write" /\ up /\ up' /\ UNCHANGED <<applied, period, deregistered>>
          /\ \/ cpc' = "swap" /\ msg' = msg
             \/ cpc' = "idle" /\ writeFailed' = TRUE
      BY <1>6 DEF WriteConfig, heartbeat, registration
    <2>2. QED
      BY <2>1, GivenAt, GivenAtNext
  <1>7. CASE SwapConfig
    <2>1. /\ cpc = "swap" /\ up /\ up' /\ UNCHANGED <<applied, period, deregistered>>
          /\ mem' = msg /\ cpc' = "idle"
      BY <1>7 DEF SwapConfig, heartbeat, registration
    <2>2. period = msg
      BY <2>1, GivenAt, HeartbeatAssumption
    <2>3. \A o \in DOMAIN Observers :
              applied[o] = msg \/ (Observers[o] = "workload manager" /\ deregistered)
      BY <2>1, GivenAt
    <2>4. QED
      BY <2>1, <2>2, <2>3, GivenAtNext
  <1>8. CASE Die /\ HeartbeatLost
    <2>1. up' = FALSE /\ cpc' = "idle" /\ ticker' = NoTicker
      BY <1>8 DEF Die, HeartbeatLost
    <2>2. QED
      BY <2>1, GivenAtNext
  <1>9. CASE \/ \E m \in Message : Send(m)
             \/ NotifyDisconnect \/ Deregistered \/ registerDeviceWithRetries
             \/ HeartbeatTick \/ HeartbeatPush \/ Supervise \/ ListenerStops \/ UNCHANGED vars
    <2>1. UNCHANGED <<cpc, k, msg, mem, applied, period, ticker, up, writeFailed, deregistered>>
      BY <1>9 DEF Send, ListenerStops, StopTicker, NotifyDisconnect, Deregistered,
         registerDeviceWithRetries, HeartbeatTick, HeartbeatPush, Push, RetrieveInfo,
         Sent, SendFails, Supervise, heartbeat, configuration,
         server, registration, vars
    <2>2. QED
      BY <1>2, <2>1
  <1>10. CASE Deregister
    <2>1. UNCHANGED <<cpc, k, msg, mem, applied, period, ticker, up, writeFailed>>
      BY <1>10 DEF Deregister, StopTicker, heartbeat
    <2>2. deregistered => deregistered'
      BY <1>10, Zenon DEF Deregister
    <2>3. QED
      BY <1>2, <2>1, <2>2
  <1>11. QED
    BY <1>1, <1>3, <1>4, <1>5, <1>6, <1>7, <1>8, <1>9, <1>10
    DEF Next, Consume, OwnStep, DeregisterStep, ObserveEmpty, Crash, HeartbeatUnauthorized, SendUnauthorized

(* Every step keeps a configured device sending heartbeats.                *)
LEMMA NextSending ==
    TypeInv /\ OsInv /\ TickerInv /\ FileInv /\ SendingInv /\ [Next]_vars => SendingInv'
  <1> SUFFICES ASSUME TypeInv, OsInv, TickerInv, FileInv, SendingInv, [Next]_vars PROVE SendingInv'
    OBVIOUS
  <1> USE DEF SendingInv, ConfiguredSendsHeartbeats, Running
  <1>1. CASE Boot
    <2>1. /\ cpc' = "idle" /\ live = {}
          /\ initial' \/ live' = live \cup {ticker'}
      BY <1>1 DEF Boot, server, initTicker, TickerInv, FileInv
    <2>2. QED
      BY <2>1, GivenAtNext
  <1>2. CASE UNCHANGED <<cpc, k, initial, live, ticker, quiet, up>> /\ (disconnected => disconnected')
    <2>1. Given' = Given
      BY <1>2, GivenStays
    <2>2. QED
      BY <1>2, <2>1
  <1>3. ASSUME NEW w \in waiting, Receive(w) PROVE SendingInv'
    <2>1. UNCHANGED <<initial, live, ticker, quiet, disconnected, up>> /\ cpc = "idle"
      BY <1>3 DEF Receive, heartbeat
    <2>2. cpc' = "idle" \/ (cpc' = "observe" /\ k' = 1)
      BY <1>3 DEF Receive
    <2>3. Given' = {}
      BY <2>2, NoneGiven
    <2>4. QED
      BY <2>1, <2>3
  <1>4. CASE Observe \/ ObserveOsReturns
    <2>1. /\ cpc \in {"observe", "await"} /\ NextObserver /\ Observers[k] # "heartbeat"
          /\ UNCHANGED <<initial, live, ticker, quiet, disconnected, up>>
      BY <1>4 DEF Observe, ObserveOsReturns, OsInv, QueueEvent, heartbeat
    <2>2. Given' = Given \cup {k}
      BY <2>1, GivenGrows
    <2>3. QED
      BY <2>1, <2>2
  <1>5. CASE ObserveHeartbeatInit
    <2>1. live' = live \cup {ticker'} /\ live = {}
      BY <1>5 DEF ObserveHeartbeatInit, initTicker, TickerInv
    <2>2. QED
      BY <2>1
  <1>6. CASE ObserveHeartbeatStop
    BY <1>6 DEF ObserveHeartbeatStop
  <1>7. CASE WriteConfig
    <2>1. cpc = "write" /\ cpc' \in {"swap", "idle"} /\ UNCHANGED <<initial, live, ticker, quiet, disconnected, up>>
      BY <1>7 DEF WriteConfig, heartbeat
    <2>2. QED
      BY <2>1, GivenAt, GivenAtNext
  <1>8. CASE SwapConfig
    <2>1. cpc = "swap" /\ cpc' = "idle" /\ UNCHANGED <<live, ticker, quiet, disconnected, up>>
      BY <1>8 DEF SwapConfig, heartbeat
    <2>2. up /\ ~disconnected /\ ~quiet => live = {ticker}
      BY <2>1, GivenAt, HeartbeatAssumption
    <2>3. QED
      BY <2>1, <2>2, GivenAtNext
  <1>9. CASE Die
    BY <1>9 DEF Die
  <1>10. CASE \/ \E m \in Message : Send(m)
              \/ NotifyDisconnect \/ Deregistered \/ registerDeviceWithRetries
              \/ HeartbeatTick \/ HeartbeatPush \/ Supervise \/ UNCHANGED vars
    <2>1. UNCHANGED <<cpc, k, initial, live, ticker, quiet, up>> /\ (disconnected => disconnected')
      BY <1>10 DEF Send, NotifyDisconnect, Deregistered, registerDeviceWithRetries, HeartbeatTick,
         HeartbeatPush, Push, RetrieveInfo,
         Sent, SendFails, Supervise, heartbeat, configuration,
         server, registration, vars
    <2>2. QED
      BY <1>2, <2>1
  <1>11. CASE Deregister
    <2>1. dpc # 0
      <3>1. dpc \in DOMAIN Deregistrables
        BY <1>11 DEF Deregister
      <3>2. QED
        BY <3>1, ZeroNotAnIndex
    <2>2. disconnected'
      BY <1>11, <2>1 DEF Deregister, FileInv
    <2>3. QED
      BY <2>2
  <1>12. CASE ObserveOs \/ RequestReboot
    <2>1. /\ cpc \in {"observe", "signal"} /\ cpc' \in {"signal", "await"}
          /\ UNCHANGED <<k, initial, live, ticker, quiet, disconnected, up>>
      BY <1>12 DEF ObserveOs, RequestReboot, heartbeat, configuration
    <2>2. Given' = Given
      BY <2>1, GivenAt, GivenAtNext
    <2>3. QED
      BY <2>1, <2>2
  <1>13. CASE ListenerStops
    BY <1>13 DEF ListenerStops
  <1>14. QED
    BY <1>1, <1>3, <1>4, <1>5, <1>6, <1>7, <1>8, <1>9, <1>10, <1>11, <1>12, <1>13
    DEF Next, Consume, OwnStep, DeregisterStep, ObserveEmpty, Crash, HeartbeatUnauthorized

-----------------------------------------------------------------------------
(* At most one heartbeat ticker is running, and the service can stop it,   *)
(* however updates, deregistrations, crashes and restarts interleave.      *)
THEOREM TickerUnique == Spec => []OneLiveTicker
  <1>1. Init => TickerInv
    BY DEF Init, HeartbeatInit, TickerInv, OneLiveTicker
  <1>2. TickerInv => OneLiveTicker
    BY DEF TickerInv
  <1>3. QED
    BY <1>1, <1>2, NextTicker, PTL DEF Spec

(* As long as the device is not disconnected, a restart finds the          *)
(* configuration the process holds, or a file a failed write has garbled.  *)
THEOREM FileConsistent == Spec => []FileMatchesMemory
  <1>1. Init => FileInv
    BY DEF Init, HeartbeatInit, FileInv, FileMatchesMemory, Running
  <1>2. FileInv => FileMatchesMemory
    BY DEF FileInv
  <1>3. QED
    BY <1>1, <1>2, NextFile, PTL DEF Spec

(* The initial state has the types, and so has every other.                *)
LEMMA TypesHold == Spec => []TypeInv
  <1>1. Init => TypeInv
    <2>1. Default \in Versions /\ 1 \in DOMAIN Observers /\ MaxMessages \in Nat /\ MaxFaults \in Nat
          /\ 0 \in 0..(Len(Deregistrables) + 1)
      BY DefaultAssumption, BoundsAssumption, ObserversFacts
    <2>2. Init => HeartbeatTypeOK
      BY DefaultAssumption DEF Init, HeartbeatInit, HeartbeatTypeOK
    <2>3. ASSUME Init
          PROVE  /\ mem \in Versions /\ msg \in Versions /\ applied \in [DOMAIN Observers -> Versions]
                 /\ k \in DOMAIN Observers /\ waiting = {} /\ received \in 0..MaxMessages
                 /\ dpc \in 0..(Len(Deregistrables) + 1) /\ faults \in 0..MaxFaults
      BY <2>1, <2>3 DEF Init
    <2>4. QED
      BY <2>2, <2>3 DEF Init, TypeInv, TypeOK
  <1>2. QED
    BY <1>1, NextType, PTL DEF Spec

(* Every step keeps every variable in its type.                            *)
THEOREM TypeCorrect == Spec => []TypeOK
  <1>1. TypeInv => TypeOK
    BY DEF TypeInv
  <1>2. QED
    BY <1>1, TypesHold, PTL

(* No event is reported twice, or both reported and dropped, although      *)
(* several heartbeats may be under way at a time.                          *)
THEOREM EventsUnique == Spec => []EventsInOnePlace
  <1>1. Init => EventsInv
    BY DEF Init, HeartbeatInit, EventsInv, EventsInOnePlace
  <1>2. EventsInv => EventsInOnePlace
    BY DEF EventsInv
  <1>3. QED
    BY <1>1, <1>2, NextEvents, PTL DEF Spec

(* Between updates every observer has the configuration the manager holds, *)
(* and the heartbeat its interval.                                         *)
THEOREM ObserversConsistent == Spec => []ObserversFollow
  <1>1. Init => GivenInv
    BY GivenAt DEF Init, HeartbeatInit, GivenInv, ObserversFollow, Running
  <1>2. GivenInv => ObserversFollow
    BY DEF GivenInv
  <1>3. Init => OsInv
    BY DEF Init, OsInv
  <1>4. QED
    BY <1>1, <1>2, <1>3, TypesHold, NextOs, NextGiven, PTL DEF Spec

(* A configured device that was not disconnected, and whose ticker a       *)
(* graceful reboot has not stopped since it was made, has a running one.   *)
THEOREM HeartbeatsSent == Spec => []ConfiguredSendsHeartbeats
  <1>1. Init => TickerInv /\ FileInv /\ OsInv
    BY DEF Init, HeartbeatInit, TickerInv, OneLiveTicker, FileInv, FileMatchesMemory, OsInv, Running
  <1>2. Init => SendingInv
    BY GivenAt DEF Init, SendingInv, ConfiguredSendsHeartbeats, Running
  <1>3. SendingInv => ConfiguredSendsHeartbeats
    BY DEF SendingInv
  <1>4. QED
    BY <1>1, <1>2, <1>3, TypesHold, NextOs, NextTicker, NextFile, NextSending, PTL DEF Spec
====
