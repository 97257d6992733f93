--------------------------- MODULE WorkloadManager ---------------------------
(***************************************************************************)
(* The workload manager (internal/workload/manager.go) on top of the       *)
(* workload wrapper (wrapper.go), the id/name mapping repository           *)
(* (mapping/mapping.go) and the systemd service manager                    *)
(* (service/systemd.go).  Update and Deregister run under managementLock,  *)
(* so at most one of them is under way; what makes them hard is that each  *)
(* is a long sequence of effects on the disk, on podman, on netfilter and  *)
(* on systemd, any of which may fail, and that the process may die between *)
(* two of them and start again from what the files say.                    *)
(*                                                                         *)
(* podman, nftables and systemd are external: their state is what the code *)
(* can observe of it through the calls it makes.                           *)
(***************************************************************************)
EXTENDS Naturals, FiniteSets

CONSTANTS
    Names,          \* workload names a configuration may contain
    PodNames,       \* the names podman itself gives to the pods
    PodmanName,     \* podman's name for the pod of a workload
    Dirs,           \* directories below <dataDir>/workloads
    DirOf,          \* getWorkloadDirPath: blanks become dashes
    Specs,          \* workload specifications
    Unparsable,     \* specifications yaml.Unmarshal rejects
    IllegalPorts,   \* specifications with a host port out of 1..65535
    WithPorts,      \* specifications with at least one host port
    AuthFiles,      \* contents of image registry auth files
    Configs,        \* the configurations the operator sends
    PodIds,         \* ids podman assigns
    MaxFaults,      \* bound on failing calls and crashes
    None,           \* absence: "" or a missing file, pod or map entry
    Garbled         \* a file a failed or interrupted WriteFile left behind

AllNames == Names \cup PodNames

ASSUME NamesAssumption == /\ PodmanName \in [Names -> PodNames]
                          /\ \A m, n \in Names : PodmanName[m] = PodmanName[n] => m = n
(* podman adds a suffix of its own: no workload is named like a pod.       *)
ASSUME ApartAssumption == Names \cap PodNames = {}
ASSUME DirsAssumption == DirOf \in [AllNames -> Dirs]
(* Two names that differ in blanks and dashes only would share one.        *)
ASSUME OwnDirsAssumption == \A m, n \in AllNames : DirOf[m] = DirOf[n] => m = n
ASSUME SpecsAssumption == /\ Unparsable \subseteq Specs
                          /\ IllegalPorts \subseteq Specs
                          /\ WithPorts \subseteq Specs
ASSUME NoneAssumption == /\ None \notin AllNames
                         /\ None \notin PodIds
                         /\ None \notin AuthFiles
ASSUME FaultsAssumption == MaxFaults \in Nat

(* A workload of a configuration message, and a message as the workloads  *)
(* it holds under each name.                                               *)
Workload == [spec : Specs, auth : AuthFiles \cup {None}]
Config == [Names -> Workload \cup {None}]
ASSUME ConfigsAssumption == Configs \subseteq Config

(* The pod YAML: it carries the pod's name, the specification and, when    *)
(* there is an auth file, the label with its path.                         *)
Manifest == [name : Names, spec : Specs, authLabel : BOOLEAN]
toPodYaml(n, w) == [name |-> n, spec |-> w.spec, authLabel |-> w.auth # None]

Pod == [manifest : Manifest, auth : AuthFiles \cup {None}]

VARIABLES
    manifest,       \* workload.yaml in each workload directory
    authFile,       \* auth.json in each workload directory
    mappingFile,    \* workload-mapping.json
    servicesFile,   \* services.json
    units,          \* workloads with unit files in /etc/systemd/system
    pods,           \* podman: id -> pod
    chains,         \* netfilter: workloads with a chain of open ports
    idToName, nameToId,     \* mappingRepository
    services,       \* systemdManager.services
    deregistered,   \* WorkloadManager.deregistered
    pc,             \* where the holder of managementLock is
    op,             \* the phase of the operation that holds the lock
    conf,           \* the configuration being applied
    todo,           \* names the current loop has still to visit
    cur,            \* the name being worked on
    podId,          \* podIds[0].Id, the pod the current Run has created
    errors,         \* the operation has collected an error
    unfinished,     \* history: names whose last (un)deployment did not complete
    faults          \* failures and crashes so far

disk == <<manifest, authFile, mappingFile, servicesFile, units>>
external == <<pods, chains>>
memory == <<idToName, nameToId, services, deregistered>>
control == <<pc, op, conf, todo, cur, podId, errors>>
vars == <<disk, external, memory, control, unfinished, faults>>

Ops == {"none", "deploy", "stale", "deregister"}
PCs == {"idle", "loop", "store", "auth",
        "rmService", "rmPod", "rmChain", "rmMapping",
        "runNetwork", "runPod", "runMapping", "runService", "runRegister",
        "rmDirs", "rmTable", "rmVolumes", "rmMappingFile", "rmServicesFile",
        "done", "down", "panicked"}

IdMap == [PodIds -> AllNames \cup {None}]
NoIds == [i \in PodIds |-> None]

(* A file, a manifest or a pod that exists is not an absent one.           *)
ASSUME FilesAssumption == /\ None \notin IdMap \cup Manifest \cup Pod
                          /\ \A s \in SUBSET AllNames : s # None

NoOperation ==
    /\ op = "none"
    /\ conf = [n \in Names |-> None]
    /\ todo = {} /\ cur = None /\ podId = None /\ errors = FALSE

ClearOperation ==
    /\ op' = "none"
    /\ conf' = [n \in Names |-> None]
    /\ todo' = {} /\ cur' = None /\ podId' = None /\ errors' = FALSE

Init ==
    /\ manifest = [d \in Dirs |-> None]
    /\ authFile = [d \in Dirs |-> None]
    /\ mappingFile = None
    /\ servicesFile = None
    /\ units = {}
    /\ pods = [i \in PodIds |-> None]
    /\ chains = {}
    /\ idToName = NoIds
    /\ nameToId = [n \in AllNames |-> None]
    /\ services = [n \in AllNames |-> "none"]
    /\ deregistered = FALSE
    /\ pc = "idle" /\ NoOperation
    /\ unfinished = {}
    /\ faults = 0

-----------------------------------------------------------------------------
(* Helpers                                                                 *)

Fault == faults < MaxFaults /\ faults' = faults + 1
NoFault == UNCHANGED faults

(* The next iteration of the loop, with or without an error collected.     *)
Continue == pc' = "loop" /\ UNCHANGED errors
ContinueWithError == pc' = "loop" /\ errors' = TRUE

Live(i) == pods[i] # None

(* podman's lookup of a pod by what the wrapper passes: the mapped id, or  *)
(* the workload name when the mapping has none.                            *)
PodsOf(n) ==
    IF nameToId[n] # None
    THEN {i \in PodIds : i = nameToId[n] /\ Live(i)}
    ELSE {i \in PodIds : Live(i) /\ PodmanName[pods[i].manifest.name] = n}

(* MUTANT of ListedName: an id without a mapping is renamed to nothing.    *)
ListedNameUnmapped(i) == idToName[i]

(* Workload.List: podman's pods, renamed through the mapping.              *)
ListedName(i) ==
    IF idToName[i] # None THEN idToName[i] ELSE PodmanName[pods[i].manifest.name]
List == {ListedName(i) : i \in {j \in PodIds : Live(j)}}

Configured == {n \in Names : conf[n] # None}

podConfigurationModified(n) ==
    \/ manifest[DirOf[n]] # toPodYaml(n, conf[n])
    \/ authFile[DirOf[n]] # conf[n].auth

-----------------------------------------------------------------------------
(* Update: the loop over the configured workloads                          *)

(* MUTANT of BeginUpdate: no check for a finished deregistration.          *)
BeginUpdateAlways(c) ==
    /\ pc = "idle"
    /\ op' = "deploy" /\ conf' = c
    /\ todo' = {n \in Names : c[n] # None}
    /\ errors' = FALSE /\ pc' = "loop"
    /\ UNCHANGED <<disk, external, memory, cur, podId, unfinished, faults>>

(* The lock, the check for a finished deregistration and updateSecrets,    *)
(* whose errors are collected while Update goes on.                        *)
BeginUpdate(c) ==
    /\ pc = "idle"
    /\ op' = "deploy"
    /\ conf' = c
    /\ todo' = {n \in Names : c[n] # None}
    /\ \/ deregistered /\ pc' = "done" /\ errors' = FALSE /\ NoFault
       \/ ~deregistered /\ pc' = "loop" /\ errors' = FALSE /\ NoFault
       \/ ~deregistered /\ pc' = "loop" /\ errors' = TRUE /\ Fault
    /\ UNCHANGED <<disk, external, memory, cur, podId, unfinished>>

(* toPod cannot parse the specification, or the directory cannot be made.  *)
PrepareFails(n) ==
    /\ pc = "loop" /\ op = "deploy" /\ n \in todo
    /\ \/ conf[n].spec \in Unparsable /\ NoFault
       \/ conf[n].spec \notin Unparsable /\ Fault
    /\ todo' = todo \ {n}
    /\ ContinueWithError
    /\ UNCHANGED <<disk, external, memory, op, conf, cur, podId, unfinished>>

SkipUnchanged(n) ==
    /\ pc = "loop" /\ op = "deploy" /\ n \in todo
    /\ conf[n].spec \notin Unparsable
    /\ ~podConfigurationModified(n)
    /\ todo' = todo \ {n}
    /\ Continue
    /\ UNCHANGED <<disk, external, memory, op, conf, cur, podId, unfinished, faults>>

Deploy(n) ==
    /\ pc = "loop" /\ op = "deploy" /\ n \in todo
    /\ conf[n].spec \notin Unparsable
    /\ podConfigurationModified(n)
    /\ todo' = todo \ {n}
    /\ cur' = n
    /\ pc' = "store"
    /\ UNCHANGED <<disk, external, memory, op, conf, podId, errors, unfinished, faults>>

(* storeFile(manifestPath): a failing WriteFile may already have truncated *)
(* the old content.                                                        *)
StoreManifest ==
    /\ pc = "store"
    /\ \/ /\ manifest' = [manifest EXCEPT ![DirOf[cur]] = toPodYaml(cur, conf[cur])]
          /\ unfinished' = unfinished \cup {cur}
          /\ pc' = "auth" /\ UNCHANGED errors /\ NoFault
       \/ /\ Fault
          /\ \E m \in {manifest[DirOf[cur]], None} :
                manifest' = [manifest EXCEPT ![DirOf[cur]] = m]
          /\ ContinueWithError
          /\ UNCHANGED unfinished
    /\ UNCHANGED <<authFile, mappingFile, servicesFile, units,
                   external, memory, op, conf, todo, cur, podId>>

manageAuthFile ==
    /\ pc = "auth"
    /\ \/ /\ authFile' = [authFile EXCEPT ![DirOf[cur]] = conf[cur].auth]
          /\ pc' = "rmService" /\ UNCHANGED errors /\ NoFault
       \/ /\ Fault
          /\ \E a \in {authFile[DirOf[cur]], None} :
                authFile' = [authFile EXCEPT ![DirOf[cur]] = a]
          /\ ContinueWithError
    /\ UNCHANGED <<manifest, mappingFile, servicesFile, units,
                   external, memory, op, conf, todo, cur, podId, unfinished>>

-----------------------------------------------------------------------------
(* Workload.Remove(cur): called to replace a workload, to remove a stale   *)
(* one and, by Deregister, to remove them all.                             *)

RemoveFails == ContinueWithError

(* A write of services.json or of the mapping that fails leaves the old    *)
(* content or a truncated file.                                            *)
WriteServices(s) ==
    servicesFile' = {n \in AllNames : s[n] # "none"}
WriteFails(file, filePrimed) ==
    Fault /\ filePrimed \in {file, Garbled}

removeServiceAbsent ==
    /\ pc = "rmService"
    /\ services[cur] = "none"
    /\ pc' = "rmPod"
    /\ UNCHANGED <<disk, external, memory, op, conf, todo, cur, podId, errors, unfinished, faults>>

(* A service read back from services.json has no D-Bus connection: Stop    *)
(* dereferences the nil connection and the process panics.                 *)
removeServicePanics ==
    /\ pc = "rmService"
    /\ services[cur] = "loaded"
    /\ pc' = "panicked"
    /\ UNCHANGED <<disk, external, memory, op, conf, todo, cur, podId, errors, unfinished, faults>>

(* Stop's failure and serviceManager.Remove's write failure are ignored;   *)
(* a unit file that is already gone and a failing reload are not.          *)
removeServiceLive ==
    /\ pc = "rmService"
    /\ services[cur] = "live"
    /\ \/ /\ cur \in units
          /\ units' = units \ {cur}
          /\ services' = [services EXCEPT ![cur] = "none"]
          /\ \/ WriteServices(services') /\ NoFault
             \/ WriteFails(servicesFile, servicesFile')
          /\ pc' = "rmPod" /\ UNCHANGED errors
       \/ /\ \/ cur \notin units /\ units' = units /\ NoFault
             \/ cur \in units /\ Fault /\ units' \in {units, units \ {cur}}
          /\ RemoveFails
          /\ UNCHANGED <<services, servicesFile>>
    /\ UNCHANGED <<manifest, authFile, mappingFile, external,
                   idToName, nameToId, deregistered, op, conf, todo, cur, podId, unfinished>>

(* podman.Remove: no error when the pod does not exist.                    *)
RemovePod ==
    /\ pc = "rmPod"
    /\ \/ /\ pods' = [i \in PodIds |-> IF i \in PodsOf(cur) THEN None ELSE pods[i]]
          /\ pc' = "rmChain" /\ UNCHANGED errors /\ NoFault
       \/ Fault /\ RemoveFails /\ UNCHANGED pods
    /\ UNCHANGED <<disk, chains, memory, op, conf, todo, cur, podId, unfinished>>

(* MUTANT of DeleteChain: the whole table goes.                            *)
DeleteChainTable ==
    /\ pc = "rmChain"
    /\ chains' = {} /\ NoFault
    /\ pc' = "rmMapping"
    /\ UNCHANGED <<disk, pods, memory, op, conf, todo, cur, podId, errors, unfinished>>

(* netfilter.DeleteChain: its failure is only logged.                      *)
DeleteChain ==
    /\ pc = "rmChain"
    /\ \/ chains' = chains \ {cur} /\ NoFault
       \/ chains' = chains /\ Fault
    /\ pc' = "rmMapping"
    /\ UNCHANGED <<disk, pods, memory, op, conf, todo, cur, podId, errors, unfinished>>

(* MUTANT of RemoveMapping: only one of the two maps loses the entry.      *)
RemoveMappingHalf ==
    /\ pc = "rmMapping"
    /\ nameToId' = [nameToId EXCEPT ![cur] = None]
    /\ mappingFile' = idToName /\ NoFault
    /\ pc' = IF op = "deploy" THEN "runNetwork" ELSE "loop"
    /\ UNCHANGED <<manifest, authFile, servicesFile, units, external, idToName,
                   services, deregistered, op, conf, todo, cur, podId, errors, unfinished>>

(* mappingRepository.Remove, then Workload.Remove returns to its caller.   *)
RemoveMapping ==
    /\ pc = "rmMapping"
    /\ idToName' = [i \in PodIds |-> IF i = nameToId[cur] THEN None ELSE idToName[i]]
    /\ nameToId' = [nameToId EXCEPT ![cur] = None]
    /\ \/ /\ mappingFile' = idToName' /\ NoFault
          /\ pc' = IF op = "deploy" THEN "runNetwork" ELSE "loop"
          /\ UNCHANGED errors
       \/ WriteFails(mappingFile, mappingFile') /\ RemoveFails
    /\ UNCHANGED <<manifest, authFile, servicesFile, units, external,
                   services, deregistered, op, conf, todo, cur, podId, unfinished>>

-----------------------------------------------------------------------------
(* Workload.Run(cur)                                                       *)

RunFails == ContinueWithError

applyNetworkConfiguration ==
    /\ pc = "runNetwork"
    /\ LET s == conf[cur].spec IN
       \/ /\ s \notin IllegalPorts
          /\ chains' = IF s \in WithPorts THEN chains \cup {cur} ELSE chains
          /\ pc' = "runPod" /\ UNCHANGED errors /\ NoFault
       \/ s \in IllegalPorts /\ RunFails /\ UNCHANGED chains /\ NoFault
       \/ /\ s \in WithPorts \ IllegalPorts
          /\ Fault /\ RunFails
          /\ chains' \in {chains, chains \cup {cur}}
    /\ UNCHANGED <<disk, pods, memory, op, conf, todo, cur, podId, unfinished>>

(* Pod ids are opaque and never used twice: which one is new does not      *)
(* matter, and one that no pod, map or file holds any more is as good.     *)
Fresh(i) ==
    /\ ~Live(i) /\ idToName[i] = None
    /\ mappingFile \notin {None, Garbled} => mappingFile[i] = None
FreshId == CHOOSE i \in PodIds : Fresh(i)

(* podman's play kube: a new pod with an id never used before; refused     *)
(* when podman already has a pod of that name; a failing play may leave    *)
(* the pod it had created.                                                 *)
RunPod ==
    /\ pc = "runPod"
    /\ LET taken == \E i \in PodIds : Live(i) /\ pods[i].manifest.name = cur
           pod == [manifest |-> manifest[DirOf[cur]], auth |-> authFile[DirOf[cur]]]
       IN \/ /\ ~taken /\ NoFault
             /\ \E i \in PodIds : Fresh(i)
             /\ pods' = [pods EXCEPT ![FreshId] = pod]
             /\ podId' = FreshId
             /\ pc' = "runMapping" /\ UNCHANGED errors
          \/ taken /\ RunFails /\ UNCHANGED <<pods, podId>> /\ NoFault
          \/ /\ ~taken /\ Fault /\ RunFails /\ UNCHANGED podId
             /\ \/ UNCHANGED pods
                \/ /\ \E i \in PodIds : Fresh(i)
                   /\ pods' = [pods EXCEPT ![FreshId] = pod]
    /\ UNCHANGED <<disk, chains, memory, op, conf, todo, cur, unfinished>>

(* mappingRepository.Add                                                   *)
AddMapping ==
    /\ pc = "runMapping"
    /\ idToName' = [idToName EXCEPT ![podId] = cur]
    /\ nameToId' = [nameToId EXCEPT ![cur] = podId]
    /\ \/ mappingFile' = idToName' /\ pc' = "runService" /\ UNCHANGED errors /\ NoFault
       \/ WriteFails(mappingFile, mappingFile') /\ RunFails
    /\ UNCHANGED <<manifest, authFile, servicesFile, units, external,
                   services, deregistered, op, conf, todo, cur, podId, unfinished>>

(* GenerateSystemdService and createService: unit files, reload, enable    *)
(* and start.  A failure after the write leaves the unit files behind.     *)
createService ==
    /\ pc = "runService"
    /\ \/ units' = units \cup {cur} /\ pc' = "runRegister" /\ UNCHANGED errors /\ NoFault
       \/ units' \in {units, units \cup {cur}} /\ Fault /\ RunFails
    /\ UNCHANGED <<manifest, authFile, mappingFile, servicesFile, external, memory,
                   op, conf, todo, cur, podId, unfinished>>

(* serviceManager.Add: the end of a successful Run.                        *)
AddService ==
    /\ pc = "runRegister"
    /\ services' = [services EXCEPT ![cur] = "live"]
    /\ \/ /\ WriteServices(services') /\ NoFault
          /\ unfinished' = unfinished \ {cur}
          /\ Continue
       \/ WriteFails(servicesFile, servicesFile') /\ RunFails /\ UNCHANGED unfinished
    /\ UNCHANGED <<manifest, authFile, mappingFile, units, external,
                   idToName, nameToId, deregistered, op, conf, todo, cur, podId>>

-----------------------------------------------------------------------------
(* Update: removing what is deployed and not configured                    *)

(* MUTANT of indexWorkloads: nothing is found to be stale.                 *)
indexWorkloadsEmpty ==
    /\ pc = "loop" /\ op = "deploy" /\ todo = {}
    /\ op' = "stale" /\ todo' = {}
    /\ Continue /\ NoFault
    /\ UNCHANGED <<disk, external, memory, conf, cur, podId, unfinished>>

indexWorkloads ==
    /\ pc = "loop" /\ op = "deploy" /\ todo = {}
    /\ \/ /\ op' = "stale" /\ todo' = List \ Configured
          /\ Continue /\ NoFault
       \/ Fault /\ pc' = "done" /\ errors' = TRUE /\ UNCHANGED <<op, todo>>
    /\ UNCHANGED <<disk, external, memory, conf, cur, podId, unfinished>>

RemoveStale(n) ==
    /\ pc = "loop" /\ op = "stale" /\ n \in todo
    /\ \/ /\ manifest' = [manifest EXCEPT ![DirOf[n]] = None]
          /\ authFile' = [authFile EXCEPT ![DirOf[n]] = None]
          /\ UNCHANGED errors /\ NoFault
       \/ /\ Fault /\ errors' = TRUE
          /\ \/ UNCHANGED <<manifest, authFile>>
             \/ manifest' = [manifest EXCEPT ![DirOf[n]] = None] /\ UNCHANGED authFile
             \/ authFile' = [authFile EXCEPT ![DirOf[n]] = None] /\ UNCHANGED manifest
    /\ todo' = todo \ {n}
    /\ cur' = n
    /\ unfinished' = unfinished \cup {n}
    /\ pc' = "rmService"
    /\ UNCHANGED <<mappingFile, servicesFile, units, external, memory, op, conf, podId>>

EndUpdate ==
    /\ pc = "loop" /\ op = "stale" /\ todo = {}
    /\ pc' = "done"
    /\ UNCHANGED <<disk, external, memory, op, conf, todo, cur, podId, errors,
                   unfinished, faults>>

-----------------------------------------------------------------------------
(* Deregister                                                              *)

BeginDeregister ==
    /\ pc = "idle"
    /\ op' = "deregister"
    /\ unfinished' = AllNames
    /\ \/ todo' = List /\ errors' = FALSE /\ pc' = "loop" /\ NoFault
       \/ todo' = {} /\ errors' = TRUE /\ pc' = "rmDirs" /\ Fault
    /\ UNCHANGED <<disk, external, memory, conf, cur, podId>>

removeAllWorkloads(n) ==
    /\ pc = "loop" /\ op = "deregister" /\ n \in todo
    /\ todo' = todo \ {n}
    /\ cur' = n
    /\ pc' = "rmService"
    /\ UNCHANGED <<disk, external, memory, op, conf, podId, errors, unfinished, faults>>

allWorkloadsRemoved ==
    /\ pc = "loop" /\ op = "deregister" /\ todo = {}
    /\ pc' = "rmDirs"
    /\ UNCHANGED <<disk, external, memory, op, conf, todo, cur, podId, errors,
                   unfinished, faults>>

(* The clean-up calls: each is made whatever the ones before returned.     *)
CleanUp(here, next) ==
    /\ pc = here /\ pc' = next
    /\ UNCHANGED <<units, pods, idToName, nameToId, services,
                   op, conf, todo, cur, podId, unfinished>>

deleteDirs ==
    /\ CleanUp("rmDirs", "rmTable")
    /\ \/ /\ manifest' = [d \in Dirs |-> None]
          /\ authFile' = [d \in Dirs |-> None]
          /\ UNCHANGED errors /\ NoFault
       \/ /\ errors' = TRUE /\ Fault
          /\ \E gone \in SUBSET Dirs :
                /\ manifest' = [d \in Dirs |-> IF d \in gone THEN None ELSE manifest[d]]
                /\ authFile' \in {authFile,
                       [d \in Dirs |-> IF d \in gone THEN None ELSE authFile[d]]}
    /\ UNCHANGED <<mappingFile, servicesFile, chains, deregistered>>

(* MUTANT of deleteTable: the call is missing.                             *)
deleteTableSkipped ==
    /\ CleanUp("rmTable", "rmVolumes")
    /\ UNCHANGED <<manifest, authFile, mappingFile, servicesFile, chains, deregistered,
                   errors, faults>>

deleteTable ==
    /\ CleanUp("rmTable", "rmVolumes")
    /\ \/ chains' = {} /\ UNCHANGED errors /\ NoFault
       \/ errors' = TRUE /\ Fault /\ UNCHANGED chains
    /\ UNCHANGED <<manifest, authFile, mappingFile, servicesFile, deregistered>>

(* The volumes directory itself is not modelled.                           *)
deleteVolumeDir ==
    /\ CleanUp("rmVolumes", "rmMappingFile")
    /\ \/ UNCHANGED errors /\ NoFault
       \/ errors' = TRUE /\ Fault
    /\ UNCHANGED <<manifest, authFile, mappingFile, servicesFile, chains, deregistered>>

removeMappingFile ==
    /\ CleanUp("rmMappingFile", "rmServicesFile")
    /\ \/ mappingFile' = None /\ UNCHANGED errors /\ NoFault
       \/ errors' = TRUE /\ Fault /\ UNCHANGED mappingFile
    /\ UNCHANGED <<manifest, authFile, servicesFile, chains, deregistered>>

removeServicesFile ==
    /\ CleanUp("rmServicesFile", "done")
    /\ \/ servicesFile' = None /\ UNCHANGED errors /\ NoFault
       \/ errors' = TRUE /\ Fault /\ UNCHANGED servicesFile
    /\ deregistered' = TRUE
    /\ UNCHANGED <<manifest, authFile, mappingFile, chains>>

-----------------------------------------------------------------------------
(* The operation returns and gives managementLock back.                    *)
Return ==
    /\ pc = "done"
    /\ pc' = "idle" /\ ClearOperation
    /\ UNCHANGED <<disk, external, memory, unfinished, faults>>

(* The process is killed; an interrupted WriteFile leaves a partial file.  *)
Interrupted(file, writing) == {file} \cup (IF writing THEN {Garbled} ELSE {})

Crash ==
    /\ pc \notin {"down", "panicked"}
    /\ Fault
    /\ pc' = "down" /\ ClearOperation
    /\ mappingFile' \in Interrupted(mappingFile, pc \in {"rmMapping", "runMapping"})
    /\ servicesFile' \in Interrupted(servicesFile, pc \in {"rmService", "runRegister"})
    /\ \/ UNCHANGED manifest
       \/ pc = "store" /\ manifest' = [manifest EXCEPT ![DirOf[cur]] = None]
    /\ \/ UNCHANGED authFile
       \/ pc = "auth" /\ authFile' = [authFile EXCEPT ![DirOf[cur]] = None]
    /\ UNCHANGED <<units, external, memory, unfinished>>

(* NewWorkloadManager: the repositories are read back from their files.    *)
Restart ==
    /\ pc \in {"down", "panicked"}
    /\ mappingFile # Garbled /\ servicesFile # Garbled
    /\ idToName' = IF mappingFile = None THEN NoIds ELSE mappingFile
    /\ nameToId' \in {f \in [AllNames -> PodIds \cup {None}] :
            \A n \in AllNames :
                IF \E i \in PodIds : idToName'[i] = n
                THEN f[n] # None /\ idToName'[f[n]] = n
                ELSE f[n] = None}
    /\ services' = [n \in AllNames |->
            IF servicesFile # None /\ n \in servicesFile THEN "loaded" ELSE "none"]
    /\ deregistered' = FALSE
    /\ pc' = "idle" /\ ClearOperation
    /\ UNCHANGED <<disk, external, unfinished, faults>>

(* A repository file that is not JSON is fatal: main exits, is started     *)
(* again by its supervisor and exits again.                                *)
RestartFails ==
    /\ pc \in {"down", "panicked"}
    /\ Garbled \in {mappingFile, servicesFile}
    /\ pc' = "down"
    /\ UNCHANGED <<disk, external, memory, op, conf, todo, cur, podId, errors,
                   unfinished, faults>>

RemoveStep == \/ removeServiceAbsent \/ removeServicePanics \/ removeServiceLive
              \/ RemovePod \/ DeleteChain \/ RemoveMapping
RunStep == \/ applyNetworkConfiguration \/ RunPod \/ AddMapping
           \/ createService \/ AddService
UpdateStep == \/ \E n \in Names : PrepareFails(n) \/ SkipUnchanged(n) \/ Deploy(n)
              \/ StoreManifest \/ manageAuthFile
              \/ indexWorkloads
              \/ \E n \in AllNames : RemoveStale(n)
              \/ EndUpdate
DeregisterStep == \/ \E n \in AllNames : removeAllWorkloads(n)
                  \/ allWorkloadsRemoved
                  \/ deleteDirs \/ deleteTable \/ deleteVolumeDir
                  \/ removeMappingFile \/ removeServicesFile
Step == RemoveStep \/ RunStep \/ UpdateStep \/ DeregisterStep \/ Return

Next ==
    \/ \E c \in Configs : BeginUpdate(c)
    \/ BeginDeregister
    \/ Step
    \/ Crash \/ Restart \/ RestartFails

Spec == Init /\ [][Next]_vars

-----------------------------------------------------------------------------
(* Properties                                                              *)

DiskOK ==
    /\ manifest \in [Dirs -> Manifest \cup {None}]
    /\ authFile \in [Dirs -> AuthFiles \cup {None}]
    /\ mappingFile \in IdMap \cup {None, Garbled}
    /\ servicesFile \in (SUBSET AllNames) \cup {None, Garbled}
    /\ units \subseteq AllNames

ExternalOK ==
    /\ pods \in [PodIds -> Pod \cup {None}]
    /\ chains \subseteq AllNames

MemoryOK ==
    /\ idToName \in IdMap
    /\ nameToId \in [AllNames -> PodIds \cup {None}]
    /\ services \in [AllNames -> {"none", "live", "loaded"}]
    /\ deregistered \in BOOLEAN

ControlOK ==
    /\ pc \in PCs /\ op \in Ops
    /\ conf \in Config
    /\ todo \subseteq AllNames
    /\ cur \in AllNames \cup {None}
    /\ podId \in PodIds \cup {None}
    /\ errors \in BOOLEAN
    /\ unfinished \subseteq AllNames

FaultsOK == faults \in 0..MaxFaults

TypeOK == DiskOK /\ ExternalOK /\ MemoryOK /\ ControlOK /\ FaultsOK

(* The two maps of the mapping repository are inverse of each other at     *)
(* every moment, whatever fails or crashes in between: an id is found      *)
(* under the name it was added with and nothing else points to it.         *)
(* (mapping.go Add, Remove and NewMappingRepository)                       *)
MappingsInverse ==
    /\ \A n \in AllNames : nameToId[n] # None => idToName[nameToId[n]] = n
    /\ \A i \in PodIds : idToName[i] # None => nameToId[idToName[i]] = i

(* What deploying workload n promises: the pod the mapping knows under n   *)
(* was made from the manifest and auth file on the disk, its service is    *)
(* known and its ports are open.                                           *)
Deployed(n) ==
    /\ nameToId[n] # None
    /\ pods[nameToId[n]] = [manifest |-> manifest[DirOf[n]], auth |-> authFile[DirOf[n]]]
    /\ services[n] # "none"
    /\ n \in units
    /\ manifest[DirOf[n]].spec \in WithPorts => n \in chains

(* Update compares a workload with the files of its directory only and     *)
(* skips it when they match.  Whenever the process is up, files that name  *)
(* a workload tell the truth about podman, systemd and netfilter, except   *)
(* for names whose last deployment or removal was cut short or failed.     *)
ManifestTruthful ==
    pc \notin {"down", "panicked"} =>
        \A n \in Names :
            (manifest[DirOf[n]] # None /\ manifest[DirOf[n]].name = n /\ n \notin unfinished)
            => Deployed(n)

(* An Update that returns no error leaves no pod that is not configured,   *)
(* and every configured workload deployed as configured, or left over from *)
(* an earlier attempt that reported its failure or was cut short.          *)
(* (manager.go Update: "Remove any workloads that don't correspond to the  *)
(* configured ones")                                                       *)
UpdateResult ==
    (pc = "done" /\ op = "stale" /\ ~errors) =>
        /\ \A i \in PodIds : Live(i) => ListedName(i) \in Configured
        /\ \A n \in Configured :
              /\ manifest[DirOf[n]] = toPodYaml(n, conf[n])
              /\ authFile[DirOf[n]] = conf[n].auth
              /\ n \in unfinished \/ Deployed(n)

(* A Deregister that returns no error leaves nothing a later start of the  *)
(* worker would find: no pod, manifest, mapping, service list or chain.    *)
DeregisterResult ==
    (pc = "done" /\ op = "deregister" /\ ~errors) =>
        /\ \A i \in PodIds : ~Live(i)
        /\ \A d \in Dirs : manifest[d] = None /\ authFile[d] = None
        /\ mappingFile = None /\ servicesFile = None /\ chains = {}

(* Once Deregister has finished, this process never creates a pod or a     *)
(* manifest again ("deregistration was finished, no need to update         *)
(* anymore", manager.go).                                                  *)
NothingAfterDeregister ==
    [][(deregistered /\ deregistered') =>
          /\ \A i \in PodIds : pods[i] = None => pods'[i] = None
          /\ \A d \in Dirs : manifest[d] = None => manifest'[d] = None]_vars

(* "Ignore stop failure" (wrapper.go removeService): stopping a service    *)
(* never keeps Remove from going on.                                       *)
StopFailureIgnored == pc # "panicked"
====
