--------------------------- MODULE OsUpgradeProofs ---------------------------
(* Proofs about OsUpgrade, for any set of commits and any number of faults.*)
EXTENDS OsUpgrade, TLAPS

(* While OS.Update waits for the completion, the listener is working on    *)
(* this very request and has stopped every service it has passed.          *)
AwaitInv ==
    upc = "await" =>
        /\ lpc \in {"stopping", "complete"}
        /\ handled = sent
        /\ \A i \in 1..(step - 1) : Services[i] \in stopped

(* A listener that reports completion has passed every service.            *)
CompleteInv == lpc = "complete" => step = Len(Services) + 1

(* Update goes past its first check only with an OS section.               *)
SectionInv == upc = "url" => conf # NoCommit

(* When the wait for playbooks has ended, those it waited for are gone.    *)
PlayInv == "playbooks" \in stopped => "before" \notin playing

IInv == TypeOK /\ AwaitInv /\ CompleteInv /\ SectionInv /\ PlayInv /\ RebootAfterStop

-----------------------------------------------------------------------------
(* The list of services main stops has six entries.                        *)
LEMMA ServicesFacts ==
    /\ Len(Services) = 6
    /\ DOMAIN Services = 1..6
    /\ Services[6] = "playbooks"
    /\ \A i \in 1..5 : Services[i] # "playbooks"
  BY DEF Services

(* Every step keeps the flags Boolean.                                     *)
LEMMA NextFlags == FlagsOK /\ [Next]_vars => FlagsOK'
  <1> SUFFICES ASSUME FlagsOK, [Next]_vars PROVE FlagsOK'
    OBVIOUS
  <1> USE DEF FlagsOK
  <1>1. CASE BootInit \/ Serve \/ \E c \in Commits \cup {NoCommit, EmptyCommit} : Receive(c)
    BY <1>1 DEF BootInit, Serve, Receive, updater, host
  <1>2. CASE UpdateStep
    BY <1>2 DEF UpdateStep, UpdateUrl, Preview, Upgrade, Complete, SystemReboot, Return, host
  <1>3. CASE \/ RequestReboot \/ Timeout \/ ListenerStep
             \/ PlaybookStarts \/ \E p \in {"before", "after"} : PlaybookReturns(p)
    BY <1>3 DEF RequestReboot, Timeout, ListenerStep, StopService, Stopped, PlaybookStarts,
                PlaybookReturns, updater, host
  <1>4. CASE ProcessExit \/ HostReboots \/ \E c \in Commits : Publish(c)
    BY <1>4 DEF ProcessExit, HostReboots, Publish, FreshProcess, updater, host
  <1>5. CASE UNCHANGED vars
    BY <1>5 DEF vars, updater, host
  <1>6. QED
    BY <1>1, <1>2, <1>3, <1>4, <1>5 DEF Next

(* No process is waiting in the initial states.                            *)
LEMMA InitIInv == Init => IInv
  <1> SUFFICES ASSUME Init PROVE IInv
    OBVIOUS
  <1>1. FlagsOK
    BY DEF Init, FlagsOK
  <1>2. QED
    BY <1>1, ServicesFacts, FaultsAssumption, CommitsAssumption
    DEF Init, IInv, TypeOK, AwaitInv, CompleteInv, SectionInv, PlayInv, RebootAfterStop

(* Every step of OS.Update, of the listener, of the process and of the     *)
(* host keeps the invariant.                                               *)
LEMMA NextIInv == IInv /\ [Next]_vars => IInv'
  <1> SUFFICES ASSUME IInv, [Next]_vars PROVE IInv'
    OBVIOUS
  <1>0. FlagsOK'
    BY NextFlags DEF IInv, TypeOK
  <1> USE <1>0, ServicesFacts, FaultsAssumption, CommitsAssumption
      DEF IInv, TypeOK, AwaitInv, CompleteInv, SectionInv, PlayInv, RebootAfterStop
  <1>1. CASE BootInit
    BY <1>1 DEF BootInit, listener, host
  <1>2. CASE Serve
    BY <1>2 DEF Serve, updater, host
  <1>3. ASSUME NEW c \in Commits \cup {NoCommit, EmptyCommit}, Receive(c) PROVE IInv'
    BY <1>3 DEF Receive, host
  <1>4. CASE UpdateUrl
    BY <1>4 DEF UpdateUrl, listener, host, Fault, NoFault
  <1>5. CASE Preview
    BY <1>5 DEF Preview, listener, host, Fault, NoFault
  <1>6. CASE Upgrade
    BY <1>6 DEF Upgrade, listener, Fault, NoFault
  <1>7. CASE Complete
    BY <1>7 DEF Complete, host, AllServices
  <1>8. CASE SystemReboot
    BY <1>8 DEF SystemReboot, listener, Fault, NoFault
  <1>9. CASE Return
    BY <1>9 DEF Return, host
  <1>10. CASE RequestReboot
    BY <1>10 DEF RequestReboot, host
  <1>11. CASE Timeout
    BY <1>11 DEF Timeout, listener, host, Fault
  <1>12. CASE StopService
    BY <1>12 DEF StopService, updater, host, AllServices
  <1>13. CASE Stopped
    BY <1>13 DEF Stopped, updater, host
  <1>14. CASE ProcessExit
    BY <1>14 DEF ProcessExit, FreshProcess, host, Fault
  <1>15. CASE HostReboots
    BY <1>15 DEF HostReboots, FreshProcess
  <1>16. ASSUME NEW c \in Commits, Publish(c) PROVE IInv'
    BY <1>16 DEF Publish, updater, listener
  <1>17. CASE PlaybookStarts
    <2>1. "playbooks" \in AllServices
      BY DEF AllServices
    <2>2. QED
      BY <1>17, <2>1 DEF PlaybookStarts, updater, listener, host
  <1>18. ASSUME NEW p \in {"before", "after"}, PlaybookReturns(p) PROVE IInv'
    BY <1>18 DEF PlaybookReturns, updater, listener, host
  <1>19. CASE UNCHANGED vars
    BY <1>19 DEF vars, updater, listener, host
  <1>20. QED
    BY <1>1, <1>2, <1>3, <1>4, <1>5, <1>6, <1>7, <1>8, <1>9, <1>10, <1>11, <1>12,
       <1>13, <1>14, <1>15, <1>16, <1>17, <1>18, <1>19
    DEF Next, UpdateStep, ListenerStep

(* A completion OS.Update takes answers its own request.                   *)
LEMMA IInvCompletion == IInv => CompletionAnswersRequest
  BY DEF IInv, AwaitInv, CompletionAnswersRequest

-----------------------------------------------------------------------------
(* All variables of OS.Update, of the reboot listener and of the host keep *)
(* their types.                                                            *)
THEOREM TypeCorrect == Spec => []TypeOK
  <1>1. IInv => TypeOK
    BY DEF IInv
  <1>2. QED
    BY InitIInv, NextIInv, <1>1, PTL DEF Spec

(* However requests, time-outs, failed reboots, playbooks and restarts     *)
(* interleave, the host is rebooted only after the listener has stopped    *)
(* every service and waited for the playbooks taken until then, or after   *)
(* the time-out.                                                           *)
THEOREM RebootsAfterStop == Spec => []RebootAfterStop
  <1>1. IInv => RebootAfterStop
    BY DEF IInv
  <1>2. QED
    BY InitIInv, NextIInv, <1>1, PTL DEF Spec

(* A completion left over from a request that had timed out is never taken *)
(* for the answer to a later one.                                          *)
THEOREM CompletionMatches == Spec => []CompletionAnswersRequest
  BY InitIInv, NextIInv, IInvCompletion, PTL DEF Spec
====
