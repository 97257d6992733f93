------------------------------ MODULE OsUpgrade ------------------------------
(***************************************************************************)
(* Operating system upgrades: the OS observer (internal/os/os.go), the     *)
(* reboot listener of cmd/device-worker/main.go and the two unbuffered     *)
(* channels between them.  OS.Update runs in the configuration consumer    *)
(* (or, at start-up, in main, before the listener exists): it asks the     *)
(* listener to stop the device's services, waits for the answer for at     *)
(* most ten seconds and reboots the host.                                  *)
(*                                                                         *)
(* rpm-ostree and the host are external: the commit the remote offers, the *)
(* one that is staged and the one that is booted.                          *)
(***************************************************************************)
EXTENDS Naturals, Sequences

CONSTANTS
    Commits,        \* ostree commits
    NoCommit,       \* a configuration without an OS section
    EmptyCommit,    \* an OS section with an empty commit ID
    Unknown,        \* UnknownOsImageId
    MaxFaults       \* bound on failing commands, time-outs and process exits

ASSUME CommitsAssumption == /\ {NoCommit, EmptyCommit, Unknown} \cap Commits = {}
                            /\ NoCommit # EmptyCommit /\ NoCommit # Unknown
                            /\ EmptyCommit # Unknown
ASSUME FaultsAssumption == MaxFaults \in Nat

VARIABLES
    main,           \* "init": observers are being registered; "serving"
    upc,            \* OS.Update
    conf,           \* the commit of the configuration it applies
    requested,      \* OS.RequestedOsCommit
    urlSet,         \* OS.HostedObjectsURL is the configured one
    stored,         \* the commit of the configuration in device-config.json
    lpc,            \* listenStartGracefulRebootChannel
    step,           \* the service it is stopping
    stopped,        \* the services it has stopped
    playing,        \* playbook handlers in the wait group of the ansible manager:
                    \* some that the listener still has to wait for ("before"),
                    \* some that started when its wait was over ("after")
    sent, handled,  \* the last reboot request sent, and the one the listener took,
                    \* numbered modulo two
    timedOut,       \* the current request was given up
    available, staged, booted,  \* rpm-ostree
    rebooting,      \* systemctl reboot has succeeded
    faults

updater == <<upc, conf, requested, urlSet, stored, sent, timedOut>>
listener == <<lpc, step, stopped, handled>>
host == <<available, staged, booted, rebooting>>
vars == <<main, updater, listener, playing, host, faults>>

(* What the listener stops before it reports completion; playbooks are not *)
(* stopped, it waits for those that are being handled.                     *)
Services == <<"workloads", "data monitor", "system metrics", "metrics store",
              "heartbeat", "playbooks">>
AllServices == {Services[i] : i \in DOMAIN Services}

Fault == faults < MaxFaults /\ faults' = faults + 1
NoFault == UNCHANGED faults

Init ==
    /\ main = "init"
    /\ upc = "idle" /\ conf = NoCommit
    /\ requested = Unknown /\ urlSet = FALSE /\ stored = NoCommit
    /\ lpc = "absent" /\ step = 1 /\ stopped = {} /\ playing = {}
    /\ sent = 0 /\ handled = 0 /\ timedOut = FALSE
    /\ available \in Commits /\ booted \in Commits /\ staged = booted
    /\ rebooting = FALSE
    /\ faults = 0

-----------------------------------------------------------------------------
(* main                                                                    *)

(* RegisterObserver calls Init, which is Update with the stored            *)
(* configuration; afterwards the listener is started and the server serves.*)
BootInit ==
    /\ main = "init" /\ upc = "idle"
    /\ main' = "initOs"
    /\ conf' = stored
    /\ upc' = IF stored = NoCommit THEN "return" ELSE "url"
    /\ UNCHANGED <<requested, urlSet, stored, sent, timedOut, listener, playing, host, faults>>

Serve ==
    /\ main = "initOs" /\ upc = "idle"
    /\ main' = "serving"
    /\ lpc' = "waiting"
    /\ UNCHANGED <<updater, step, stopped, handled, playing, host, faults>>

(* The consumer hands a configuration to the observers: those before the   *)
(* OS observer may run workloads, system metrics and the metrics store     *)
(* again.  The configuration may name another URL.                         *)
Receive(c) ==
    /\ main = "serving" /\ upc = "idle"
    /\ conf' = c
    /\ upc' = IF c = NoCommit THEN "return" ELSE "url"
    /\ urlSet' \in {urlSet, FALSE}
    /\ stopped' \in {stopped, stopped \ {"workloads", "system metrics", "metrics store"}}
    /\ UNCHANGED <<main, requested, stored, sent, timedOut, lpc, step, handled, playing,
                   host, faults>>

-----------------------------------------------------------------------------
(* OS.Update                                                               *)

(* The URL of the remote and then the comparison of the commits; the       *)
(* requested commit is remembered before anything is tried.                *)
UpdateUrl ==
    /\ upc = "url"
    /\ \/ /\ urlSet' = TRUE /\ NoFault
          /\ requested' = conf
          /\ upc' = IF conf = requested THEN "return" ELSE "preview"
       \/ /\ ~urlSet /\ Fault
          /\ upc' = "return" /\ UNCHANGED <<urlSet, requested>>
    /\ UNCHANGED <<main, conf, stored, sent, timedOut, listener, playing, host>>

(* RpmOstreeUpdatePreview lists the commit the remote offers, if it is not *)
(* the booted one; every output contains the empty commit ID.              *)
Listed(c) == c = EmptyCommit \/ (c = available /\ c # booted)

Preview ==
    /\ upc = "preview"
    /\ \/ Listed(conf) /\ upc' = "upgrade" /\ NoFault
       \/ ~Listed(conf) /\ upc' = "return" /\ NoFault
       \/ upc' = "return" /\ Fault
    /\ UNCHANGED <<main, conf, requested, urlSet, stored, sent, timedOut, listener,
                   playing, host>>

(* updateGreenbootScripts and RpmOstreeUpgrade, which stages what the      *)
(* remote offers by then.                                                  *)
Upgrade ==
    /\ upc = "upgrade"
    /\ \/ staged' = available /\ upc' = "signal" /\ NoFault
       \/ upc' = "return" /\ UNCHANGED staged /\ Fault
    /\ UNCHANGED <<main, conf, requested, urlSet, stored, sent, timedOut, listener,
                   playing, available, booted, rebooting>>

(* MUTANT of RequestReboot: a send that does not wait for the listener.    *)
RequestRebootNonBlocking ==
    /\ upc = "signal"
    /\ upc' = "await" /\ timedOut' = FALSE
    /\ sent' = 1 - sent
    /\ IF lpc = "waiting" THEN lpc' = "stopping" /\ step' = 1 /\ handled' = sent'
                          ELSE UNCHANGED <<lpc, step, handled>>
    /\ UNCHANGED <<main, conf, requested, urlSet, stored, stopped, playing, host, faults>>

(* gracefulRebootFlow: the rendezvous on GracefulRebootChannel ...         *)
RequestReboot ==
    /\ upc = "signal" /\ lpc = "waiting"
    /\ upc' = "await" /\ timedOut' = FALSE
    /\ sent' = 1 - sent
    /\ lpc' = "stopping" /\ step' = 1 /\ handled' = sent'
    /\ stopped' = stopped \ {"playbooks"}
    /\ playing' = IF playing = {} THEN {} ELSE {"before"}
    /\ UNCHANGED <<main, conf, requested, urlSet, stored, host, faults>>

(* ... the one on GracefulRebootCompletionChannel ...                      *)
Complete ==
    /\ upc = "await" /\ lpc = "complete"
    /\ upc' = "reboot"
    /\ lpc' = "waiting"
    /\ UNCHANGED <<main, conf, requested, urlSet, stored, sent, timedOut,
                   step, stopped, handled, playing, host, faults>>

(* ... or the time-out.                                                    *)
Timeout ==
    /\ upc = "await"
    /\ Fault
    /\ upc' = "reboot" /\ timedOut' = TRUE
    /\ UNCHANGED <<main, conf, requested, urlSet, stored, sent, listener, playing, host>>

SystemReboot ==
    /\ upc = "reboot"
    /\ upc' = "return"
    /\ \/ rebooting' = TRUE /\ NoFault
       \/ UNCHANGED rebooting /\ Fault
    /\ UNCHANGED <<main, conf, requested, urlSet, stored, sent, timedOut, listener,
                   playing, available, staged, booted>>

(* Update returns; the observers after it run (the heartbeat starts a new  *)
(* ticker) and the configuration manager writes the configuration it was   *)
(* given.  At start-up only Init is called.                                *)
Return ==
    /\ upc = "return"
    /\ upc' = "idle" /\ conf' = NoCommit
    /\ IF main = "serving"
       THEN stored' = conf /\ stopped' = stopped \ {"heartbeat"}
       ELSE UNCHANGED <<stored, stopped>>
    /\ UNCHANGED <<main, requested, urlSet, sent, timedOut, lpc, step, handled, playing,
                   host, faults>>

-----------------------------------------------------------------------------
(* The reboot listener                                                     *)

(* MUTANT of StopService: the running playbooks are not waited for.        *)
StopServiceWithoutWait ==
    /\ lpc = "stopping" /\ step \in DOMAIN Services
    /\ stopped' = stopped \cup {Services[step]}
    /\ step' = step + 1
    /\ UNCHANGED <<main, updater, lpc, handled, playing, host, faults>>

(* The calls of the listener one by one; WaitPlaybookCompletion returns    *)
(* when the wait group is empty.                                           *)
StopService ==
    /\ lpc = "stopping" /\ step \in DOMAIN Services
    /\ Services[step] = "playbooks" => playing = {}
    /\ stopped' = stopped \cup {Services[step]}
    /\ step' = step + 1
    /\ UNCHANGED <<main, updater, lpc, handled, playing, host, faults>>

Stopped ==
    /\ lpc = "stopping" /\ step > Len(Services)
    /\ lpc' = "complete"
    /\ UNCHANGED <<main, updater, step, stopped, handled, playing, host, faults>>

-----------------------------------------------------------------------------
(* Playbooks, see Ansible                                                  *)

(* HandlePlaybook, for a message or for a playbook found at start-up, adds *)
(* its handler to the wait group, whatever the listener is doing.          *)
PlaybookStarts ==
    /\ main \in {"initOs", "serving"}
    /\ playing' = playing \cup {IF "playbooks" \in stopped THEN "after" ELSE "before"}
    /\ UNCHANGED <<main, updater, listener, host, faults>>

(* The handlers return: done, or timed out with ansible-playbook still     *)
(* running, which the wait group no longer counts.                         *)
PlaybookReturns(p) ==
    /\ p \in playing
    /\ playing' = playing \ {p}
    /\ UNCHANGED <<main, updater, listener, host, faults>>

-----------------------------------------------------------------------------
(* The process and the host                                                *)

FreshProcess ==
    /\ main' = "init"
    /\ upc' = "idle" /\ conf' = NoCommit
    /\ requested' = Unknown /\ urlSet' = FALSE /\ timedOut' = FALSE
    /\ lpc' = "absent" /\ step' = 1 /\ stopped' = {} /\ playing' = {}
    /\ UNCHANGED <<stored, sent, handled>>

(* The process exits (a service that cannot be stopped is fatal, as is a   *)
(* signal) and is started again.                                           *)
ProcessExit ==
    /\ Fault
    /\ FreshProcess
    /\ UNCHANGED host

(* The host goes down at some point after systemctl reboot; it comes up    *)
(* with the staged commit or, if greenboot finds it unhealthy, with the    *)
(* one before.                                                             *)
HostReboots ==
    /\ rebooting
    /\ rebooting' = FALSE
    /\ booted' \in {staged, booted}
    /\ staged' = booted'
    /\ FreshProcess
    /\ UNCHANGED <<available, faults>>

(* A new commit is published.                                              *)
Publish(c) ==
    /\ available' = c
    /\ UNCHANGED <<main, updater, listener, playing, staged, booted, rebooting, faults>>

UpdateStep == UpdateUrl \/ Preview \/ Upgrade \/ Complete \/ SystemReboot \/ Return
ListenerStep == StopService \/ Stopped

Next ==
    \/ BootInit \/ Serve
    \/ \E c \in Commits \cup {NoCommit, EmptyCommit} : Receive(c)
    \/ UpdateStep \/ RequestReboot \/ Timeout
    \/ ListenerStep
    \/ PlaybookStarts \/ \E p \in {"before", "after"} : PlaybookReturns(p)
    \/ ProcessExit \/ HostReboots
    \/ \E c \in Commits : Publish(c)

Spec == Init /\ [][Next]_vars

(* Every goroutine that can proceed does, services can be stopped and the  *)
(* handlers of playbooks return.                                           *)
FairSpec ==
    /\ Spec
    /\ WF_vars(BootInit) /\ WF_vars(Serve)
    /\ WF_vars(UpdateStep) /\ WF_vars(RequestReboot)
    /\ WF_vars(ListenerStep)
    /\ \A p \in {"before", "after"} : WF_vars(PlaybookReturns(p))
    /\ WF_vars(HostReboots)

-----------------------------------------------------------------------------
(* Properties                                                              *)

FlagsOK == urlSet \in BOOLEAN /\ timedOut \in BOOLEAN /\ rebooting \in BOOLEAN

TypeOK ==
    /\ FlagsOK
    /\ main \in {"init", "initOs", "serving"}
    /\ upc \in {"idle", "url", "preview", "upgrade", "signal", "await", "reboot", "return"}
    /\ conf \in Commits \cup {NoCommit, EmptyCommit}
    /\ stored \in Commits \cup {NoCommit, EmptyCommit}
    /\ requested \in Commits \cup {EmptyCommit, Unknown}
    /\ lpc \in {"absent", "waiting", "stopping", "complete"}
    /\ step \in 1..(Len(Services) + 1)
    /\ stopped \subseteq AllServices
    /\ playing \subseteq {"before", "after"}
    /\ sent \in 0..1 /\ handled \in 0..1
    /\ available \in Commits /\ staged \in Commits /\ booted \in Commits
    /\ faults \in 0..MaxFaults

(* When OS.Update reboots the host without having reached its time-out,    *)
(* every service has been stopped and none runs again, and no playbook     *)
(* that was taken before the wait for playbooks ended is still being       *)
(* handled (os.go gracefulRebootFlow, main.go                              *)
(* listenStartGracefulRebootChannel).  A playbook taken after that may be. *)
RebootAfterStop ==
    (upc = "reboot" /\ ~timedOut) => stopped = AllServices /\ "before" \notin playing

(* The completion OS.Update receives answers its own request: a completion *)
(* left over from a request that had timed out is never taken for it.      *)
CompletionAnswersRequest ==
    (upc = "await" /\ lpc = "complete") => handled = sent

(* "listen to the channel for getting StartGracefulReboot signal"          *)
(* (main.go): a reboot request of OS.Update is received, so that neither   *)
(* the start nor the consumer of configurations waits for ever in a send   *)
(* that TimeoutToGracefulRebootInSeconds does not cover.                   *)
UpdateReturns == upc = "signal" ~> upc # "signal"
====
