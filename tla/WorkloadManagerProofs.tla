----------------------- MODULE WorkloadManagerProofs -----------------------
(***************************************************************************)
(* Proofs about WorkloadManager, for any workload names, specifications,   *)
(* configurations and pod ids and any number of faults.                    *)
(***************************************************************************)
EXTENDS WorkloadManager, TLAPS

RemovePCs == {"rmService", "rmPod", "rmChain", "rmMapping"}
RunPCs == {"runNetwork", "runPod", "runMapping", "runService", "runRegister"}
CleanPCs == {"rmDirs", "rmTable", "rmVolumes", "rmMappingFile", "rmServicesFile"}

(* Where a workload is being worked on, cur is its name; while Update      *)
(* deploys, it is a configured one, and its manifest is on the disk from   *)
(* storeFile until the pod is made of it.                                  *)
CurInv ==
    /\ pc \in RemovePCs => cur \in AllNames
    /\ pc \in {"store", "auth"} \cup RunPCs => op = "deploy"
    /\ op = "deploy" => todo \subseteq Configured
    /\ (op = "deploy" /\ pc \in {"store", "auth"} \cup RemovePCs \cup RunPCs)
          => cur \in Configured
    /\ (op = "deploy" /\ pc \in {"auth", "runNetwork", "runPod"} \cup RemovePCs)
          => manifest[DirOf[cur]] = toPodYaml(cur, conf[cur])

(* Run finds the mapping without the name it is about to add (Remove went  *)
(* before it), and podman's new id is one the mapping does not have.       *)
RunInv ==
    /\ pc \in {"runNetwork", "runPod", "runMapping"} => nameToId[cur] = None
    /\ pc = "runMapping" => podId \in PodIds /\ idToName[podId] = None

(* No two ids of the mapping file carry the same name.                     *)
FileInv ==
    mappingFile \notin {None, Garbled} =>
        \A i, j \in PodIds :
            (mappingFile[i] = mappingFile[j] /\ mappingFile[i] # None) => i = j

(* A deregistered manager is at most deregistering once more.              *)
DeregInv ==
    deregistered =>
        /\ pc \notin {"store", "auth", "runNetwork", "runPod", "runMapping",
                      "runService", "runRegister"}
        /\ pc \in {"loop", "rmService", "rmPod", "rmChain", "rmMapping"} => op = "deregister"

(* What NothingAfterDeregister says of a step.                             *)
CreatesNothing ==
    (deregistered /\ deregistered') =>
        /\ \A i \in PodIds : pods[i] = None => pods'[i] = None
        /\ \A d \in Dirs : manifest[d] = None => manifest'[d] = None

TypesOK == DiskOK /\ ExternalOK /\ MemoryOK /\ ControlOK
MappingInv == RunInv /\ FileInv /\ MappingsInverse
IInv == TypesOK /\ CurInv /\ MappingInv

(* The mapping has names of workloads only, never those podman gave.       *)
NamedInv ==
    /\ \A i \in PodIds : idToName[i] # None => idToName[i] \in Names
    /\ mappingFile \notin {None, Garbled} =>
          \A i \in PodIds : mappingFile[i] # None => mappingFile[i] \in Names

(* When the mapping loses a name, its pod is gone already.                 *)
GoneInv == (pc \in {"rmChain", "rmMapping"} /\ nameToId[cur] # None) => pods[nameToId[cur]] = None

(* What the loop that removes workloads has still to remove and what it    *)
(* leaves; without an error there is no other pod.                         *)
Left == IF pc \in {"rmService", "rmPod"} THEN todo \cup {cur} ELSE todo
Wanted == IF op = "stale" THEN Configured ELSE {}
RemainInv ==
    (op \in {"stale", "deregister"} /\ ~errors) =>
        /\ pc \in {"loop"} \cup RemovePCs =>
              \A i \in PodIds : Live(i) => ListedName(i) \in Left \cup Wanted
        /\ (op = "stale" /\ pc = "done") =>
              \A i \in PodIds : Live(i) => ListedName(i) \in Configured

(* What a Deregister without an error has done when it is past a step.     *)
CleanInv ==
    (op = "deregister" /\ ~errors) =>
        /\ pc \in {"rmDirs", "rmTable", "rmVolumes", "rmMappingFile", "rmServicesFile", "done"} =>
              \A i \in PodIds : ~Live(i)
        /\ pc \in {"rmTable", "rmVolumes", "rmMappingFile", "rmServicesFile", "done"} =>
              \A d \in Dirs : manifest[d] = None /\ authFile[d] = None
        /\ pc \in {"rmVolumes", "rmMappingFile", "rmServicesFile", "done"} => chains = {}
        /\ pc \in {"rmServicesFile", "done"} => mappingFile = None
        /\ pc = "done" => servicesFile = None

(* The files that Update compares with name the workload n, and its last   *)
(* deployment or removal was completed.                                    *)
Truthful(n) ==
    /\ n \notin unfinished
    /\ manifest[DirOf[n]] # None /\ manifest[DirOf[n]].name = n

(* What a restart reads about a deployed workload is what is in memory.    *)
Recorded(n) ==
    /\ mappingFile # Garbled => mappingFile # None /\ mappingFile[nameToId[n]] = n
    /\ servicesFile # Garbled => servicesFile # None /\ n \in servicesFile

TruthInv == \A n \in Names : Truthful(n) => Deployed(n) /\ Recorded(n)

(* A workload is unfinished while it is worked on; what Run has done when  *)
(* it is at a step.                                                        *)
PodOf(n) == [manifest |-> manifest[DirOf[n]], auth |-> authFile[DirOf[n]]]
StageInv ==
    /\ pc \in {"auth"} \cup RemovePCs \cup RunPCs => cur \in unfinished
    /\ op = "deregister" => unfinished = AllNames
    /\ pc \in RemovePCs => op # "none"
    /\ pc \in CleanPCs => op = "deregister"
    /\ pc \in RunPCs \ {"runNetwork"} =>
          (manifest[DirOf[cur]].spec \in WithPorts => cur \in chains)
    /\ pc = "runMapping" => pods[podId] = PodOf(cur)
    /\ pc \in {"runService", "runRegister"} =>
          /\ nameToId[cur] # None /\ pods[nameToId[cur]] = PodOf(cur)
          /\ mappingFile # None /\ mappingFile[nameToId[cur]] = cur
    /\ pc = "runRegister" => cur \in units

(* podman has one pod of a name.                                           *)
UniqueInv == \A i, j \in PodIds :
    (Live(i) /\ Live(j) /\ pods[i].manifest.name = pods[j].manifest.name) => i = j

(* No stale name is podman's name for the pod of a workload that is        *)
(* deployed: removing it cannot take that pod away.                        *)
StaleInv ==
    op = "stale" => \A n \in Names : Truthful(n) => PodmanName[n] \notin Left

(* The configured workloads whose files an Update without an error has     *)
(* still to write; the others are on the disk as configured.  No stale     *)
(* workload is configured.                                                 *)
Pending == IF op = "stale" THEN {} ELSE IF pc \in {"store", "auth"} THEN todo \cup {cur} ELSE todo
UpdateInv ==
    /\ op = "stale" => todo \cap Configured = {}
    /\ (op \in {"deploy", "stale"} /\ ~errors) =>
          \A n \in Configured \ Pending : ~podConfigurationModified(n)

-----------------------------------------------------------------------------
(* Helpers: what the conversions and podman's list return.                 *)

(* The conversion of a workload to pod YAML yields a manifest.             *)
LEMMA toPodYamlType ==
    ASSUME NEW n \in Names, NEW w \in Workload
    PROVE  toPodYaml(n, w) \in Manifest
  BY DEF toPodYaml, Workload, Manifest

(* The pod YAML carries the name of its workload.                          *)
LEMMA toPodYamlName ==
    ASSUME NEW n, NEW w
    PROVE  toPodYaml(n, w).name = n
  BY DEF toPodYaml

(* A pod is made of a manifest and an auth file.                           *)
LEMMA PodType ==
    ASSUME NEW m \in Manifest, NEW f \in AuthFiles \cup {None}
    PROVE  [manifest |-> m, auth |-> f] \in Pod
  BY DEF Pod

(* Workload.List returns workload names or names podman gave.              *)
LEMMA ListType == ExternalOK /\ MemoryOK => List \subseteq AllNames
  <1> SUFFICES ASSUME ExternalOK, MemoryOK, NEW i \in PodIds, Live(i)
               PROVE  ListedName(i) \in AllNames
    BY DEF List
  <1>1. pods[i] \in Pod
    BY DEF ExternalOK, Live
  <1>2. PodmanName[pods[i].manifest.name] \in AllNames
    BY <1>1, NamesAssumption DEF Pod, Manifest, AllNames
  <1>3. idToName[i] # None => idToName[i] \in AllNames
    BY DEF MemoryOK, IdMap
  <1>4. QED
    BY <1>2, <1>3 DEF ListedName

(* A configured name is a name, with a workload.                           *)
LEMMA ConfiguredType ==
    ASSUME ControlOK, NEW n \in Configured
    PROVE  n \in Names /\ n \in AllNames /\ conf[n] \in Workload
           /\ conf[n].auth \in AuthFiles \cup {None} /\ DirOf[n] \in Dirs
  BY DirsAssumption DEF ControlOK, Configured, Config, Workload, AllNames

(* The identity FreshId names is new, if there is one.                     *)
LEMMA FreshIdType ==
    ASSUME \E i \in PodIds : Fresh(i)
    PROVE  FreshId \in PodIds /\ Fresh(FreshId)
  BY DEF FreshId

-----------------------------------------------------------------------------
(* Preservation                                                            *)

(* The number of faults stays within its bound.                            *)
LEMMA NextFaults == FaultsOK /\ [Next]_vars => FaultsOK'
  <1> SUFFICES ASSUME FaultsOK, [Next]_vars PROVE faults' = faults \/ Fault
    BY FaultsAssumption DEF Fault, FaultsOK
  <1> USE DEF NoFault
  <1>1. CASE RemoveStep
    BY <1>1 DEF RemoveStep, removeServiceAbsent, removeServicePanics, removeServiceLive,
       RemovePod, DeleteChain, RemoveMapping, WriteFails
  <1>2. CASE RunStep
    BY <1>2 DEF RunStep, applyNetworkConfiguration, RunPod, AddMapping, createService,
       AddService, WriteFails
  <1>3. CASE UpdateStep
    BY <1>3 DEF UpdateStep, PrepareFails, SkipUnchanged, Deploy, StoreManifest,
       manageAuthFile, indexWorkloads, RemoveStale, EndUpdate
  <1>4. CASE DeregisterStep
    BY <1>4 DEF DeregisterStep, removeAllWorkloads, allWorkloadsRemoved, deleteDirs,
       deleteTable, deleteVolumeDir, removeMappingFile, removeServicesFile
  <1>5. CASE BeginDeregister \/ \E c \in Configs : BeginUpdate(c)
    BY <1>5 DEF BeginDeregister, BeginUpdate
  <1>6. CASE Return \/ Crash \/ Restart \/ RestartFails
    BY <1>6 DEF Return, Crash, Restart, RestartFails
  <1>7. CASE UNCHANGED vars
    BY <1>7 DEF vars
  <1>8. QED
    BY <1>1, <1>2, <1>3, <1>4, <1>5, <1>6, <1>7 DEF Next, Step

(* Every step keeps the types.                                             *)
LEMMA NextTypes == IInv /\ [Next]_vars => TypesOK'
  <1> SUFFICES ASSUME IInv, [Next]_vars PROVE TypesOK'
    OBVIOUS
  <1> USE DEF IInv, TypesOK, DiskOK, ExternalOK, MemoryOK, ControlOK, PCs, Ops, IdMap, CurInv
  <1>1. ASSUME NEW c \in Configs, BeginUpdate(c) PROVE TypesOK'
    BY <1>1, ConfigsAssumption DEF BeginUpdate, disk, external, memory, AllNames
  <1>2. CASE BeginDeregister
    BY <1>2, ListType DEF BeginDeregister, disk, external, memory
  <1>3. CASE removeServiceAbsent
    BY <1>3 DEF removeServiceAbsent, disk, external, memory
  <1>4. CASE removeServicePanics
    BY <1>4 DEF removeServicePanics, disk, external, memory
  <1>5. CASE removeServiceLive
    <2> USE <1>5 DEF removeServiceLive, RemovePCs
    <2>1. cur \in AllNames
      OBVIOUS
    <2>2. units' \subseteq AllNames
      OBVIOUS
    <2>3. services' \in [AllNames -> {"none", "live", "loaded"}]
      BY <2>1
    <2>4. servicesFile' \in (SUBSET AllNames) \cup {None, Garbled}
      BY DEF WriteServices, WriteFails
    <2>5. pc' \in PCs /\ errors' \in BOOLEAN
      BY DEF RemoveFails, ContinueWithError
    <2>6. QED
      BY <2>2, <2>3, <2>4, <2>5 DEF external
  <1>6. CASE RemovePod
    BY <1>6 DEF RemovePod, disk, memory, RemoveFails, ContinueWithError
  <1>7. CASE DeleteChain
    BY <1>7 DEF DeleteChain, disk, memory
  <1>8. CASE RemoveMapping
    BY <1>8 DEF RemoveMapping, external, RemoveFails, ContinueWithError, WriteFails
  <1>9. CASE applyNetworkConfiguration
    BY <1>9, ConfiguredType DEF applyNetworkConfiguration, disk, memory, RunFails,
       ContinueWithError, RunPCs, RemovePCs
  <1>10. CASE RunPod
    <2> USE <1>10 DEF RunPod, RunPCs, RemovePCs
    <2> DEFINE pod == [manifest |-> manifest[DirOf[cur]], auth |-> authFile[DirOf[cur]]]
    <2>1. pod \in Pod
      BY ConfiguredType, toPodYamlType, PodType
    <2>2. (\E i \in PodIds : Fresh(i)) => FreshId \in PodIds
      BY FreshIdType
    <2> HIDE DEF pod
    <2>3. /\ \/ pods' = pods
             \/ pods' = [pods EXCEPT ![FreshId] = pod] /\ \E i \in PodIds : Fresh(i)
          /\ podId' = podId \/ (podId' = FreshId /\ \E i \in PodIds : Fresh(i))
      BY DEF pod
    <2>4. pods' \in [PodIds -> Pod \cup {None}] /\ podId' \in PodIds \cup {None}
      BY <2>1, <2>2, <2>3
    <2>5. pc' \in PCs /\ errors' \in BOOLEAN
      BY DEF RunFails, ContinueWithError
    <2>6. QED
      BY <2>4, <2>5 DEF disk, memory
  <1>11. CASE AddMapping
    BY <1>11, ConfiguredType DEF AddMapping, external, RunFails, ContinueWithError,
       WriteFails, RunInv, MappingInv, RunPCs, RemovePCs
  <1>12. CASE createService
    BY <1>12, ConfiguredType DEF createService, external, memory, RunFails,
       ContinueWithError, RunPCs, RemovePCs
  <1>13. CASE AddService
    BY <1>13, ConfiguredType DEF AddService, external, RunFails, ContinueWithError,
       Continue, WriteFails, WriteServices, RunPCs, RemovePCs
  <1>14. ASSUME NEW n \in Names, PrepareFails(n) PROVE TypesOK'
    BY <1>14 DEF PrepareFails, disk, external, memory, ContinueWithError
  <1>15. ASSUME NEW n \in Names, SkipUnchanged(n) PROVE TypesOK'
    BY <1>15 DEF SkipUnchanged, disk, external, memory, Continue
  <1>16. ASSUME NEW n \in Names, Deploy(n) PROVE TypesOK'
    BY <1>16, ConfiguredType DEF Deploy, disk, external, memory
  <1>17. CASE StoreManifest
    <2> USE <1>17 DEF StoreManifest, RunPCs, RemovePCs
    <2>1. /\ cur \in AllNames /\ DirOf[cur] \in Dirs
          /\ toPodYaml(cur, conf[cur]) \in Manifest
      BY ConfiguredType, toPodYamlType
    <2>2. manifest' \in [Dirs -> Manifest \cup {None}]
      BY <2>1
    <2>3. pc' \in PCs /\ errors' \in BOOLEAN /\ unfinished' \subseteq AllNames
      BY <2>1 DEF ContinueWithError
    <2>4. QED
      BY <2>2, <2>3 DEF external, memory
  <1>18. CASE manageAuthFile
    BY <1>18, ConfiguredType DEF manageAuthFile, external, memory, ContinueWithError,
       RunPCs, RemovePCs
  <1>19. CASE indexWorkloads
    BY <1>19, ListType DEF indexWorkloads, disk, external, memory, Continue
  <1>20. ASSUME NEW n \in AllNames, RemoveStale(n) PROVE TypesOK'
    <2> USE <1>20 DEF RemoveStale
    <2>1. DirOf[n] \in Dirs
      BY DirsAssumption
    <2>2. /\ manifest' \in [Dirs -> Manifest \cup {None}]
          /\ authFile' \in [Dirs -> AuthFiles \cup {None}]
      BY <2>1
    <2>3. /\ todo' \subseteq AllNames /\ cur' \in AllNames /\ unfinished' \subseteq AllNames
          /\ errors' \in BOOLEAN
      OBVIOUS
    <2>4. QED
      BY <2>2, <2>3 DEF external, memory
  <1>21. CASE EndUpdate
    BY <1>21 DEF EndUpdate, disk, external, memory
  <1>22. ASSUME NEW n \in AllNames, removeAllWorkloads(n) PROVE TypesOK'
    BY <1>22 DEF removeAllWorkloads, disk, external, memory
  <1>23. CASE allWorkloadsRemoved
    BY <1>23 DEF allWorkloadsRemoved, disk, external, memory
  <1>24. CASE deleteDirs
    <2>1. manifest' \in [Dirs -> Manifest \cup {None}]
      BY <1>24 DEF deleteDirs
    <2>2. authFile' \in [Dirs -> AuthFiles \cup {None}]
      BY <1>24 DEF deleteDirs
    <2>3. errors' \in BOOLEAN /\ pc' \in PCs
      BY <1>24 DEF deleteDirs, CleanUp
    <2>4. QED
      BY <1>24, <2>1, <2>2, <2>3 DEF deleteDirs, CleanUp
  <1>25. CASE deleteTable
    BY <1>25 DEF deleteTable, CleanUp
  <1>26. CASE deleteVolumeDir
    BY <1>26 DEF deleteVolumeDir, CleanUp
  <1>27. CASE removeMappingFile
    BY <1>27 DEF removeMappingFile, CleanUp
  <1>28. CASE removeServicesFile
    BY <1>28 DEF removeServicesFile, CleanUp
  <1>29. CASE Return
    BY <1>29 DEF Return, disk, external, memory, ClearOperation, Config
  <1>30. CASE Crash
    BY <1>30 DEF Crash, external, memory, ClearOperation, Interrupted, Config
  <1>31. CASE Restart
    BY <1>31 DEF Restart, disk, external, ClearOperation, Config, NoIds
  <1>32. CASE RestartFails
    BY <1>32 DEF RestartFails, disk, external, memory
  <1>33. CASE UNCHANGED vars
    BY <1>33 DEF vars, disk, external, memory, control
  <1>34. QED
    BY <1>1, <1>2, <1>3, <1>4, <1>5, <1>6, <1>7, <1>8, <1>9, <1>10, <1>11,
       <1>12, <1>13, <1>14, <1>15, <1>16, <1>17, <1>18, <1>19, <1>20, <1>21, <1>22,
       <1>23, <1>24, <1>25, <1>26, <1>27, <1>28, <1>29, <1>30, <1>31, <1>32, <1>33
    DEF Next, Step, RemoveStep, RunStep, UpdateStep, DeregisterStep

(* Every step keeps the invariant on the workload in progress.             *)
LEMMA NextCur == IInv /\ [Next]_vars => CurInv'
  <1> SUFFICES ASSUME IInv, [Next]_vars PROVE CurInv'
    OBVIOUS
  <1> USE DEF IInv, CurInv, RemovePCs, RunPCs, Configured
  <1>1. ASSUME NEW c \in Configs, BeginUpdate(c) PROVE CurInv'
    BY <1>1, ConfigsAssumption DEF BeginUpdate, disk, external, memory
  <1>2. CASE BeginDeregister
    BY <1>2 DEF BeginDeregister, disk, external, memory
  <1>3. CASE removeServiceAbsent
    BY <1>3 DEF removeServiceAbsent, disk, external, memory
  <1>4. CASE removeServicePanics
    BY <1>4 DEF removeServicePanics, disk, external, memory
  <1>5. CASE removeServiceLive
    BY <1>5 DEF removeServiceLive, external, RemoveFails, ContinueWithError,
       WriteServices, WriteFails
  <1>6. CASE RemovePod
    BY <1>6 DEF RemovePod, disk, memory, RemoveFails, ContinueWithError
  <1>7. CASE DeleteChain
    BY <1>7 DEF DeleteChain, disk, memory
  <1>8. CASE RemoveMapping
    BY <1>8 DEF RemoveMapping, external, RemoveFails, ContinueWithError, WriteFails
  <1>9. CASE applyNetworkConfiguration
    BY <1>9 DEF applyNetworkConfiguration, disk, memory, RunFails, ContinueWithError
  <1>10. CASE RunPod
    BY <1>10 DEF RunPod, disk, memory, RunFails, ContinueWithError
  <1>11. CASE AddMapping
    BY <1>11 DEF AddMapping, external, RunFails, ContinueWithError, WriteFails
  <1>12. CASE createService
    BY <1>12 DEF createService, external, memory, RunFails, ContinueWithError
  <1>13. CASE AddService
    BY <1>13 DEF AddService, external, RunFails, ContinueWithError, Continue,
       WriteFails, WriteServices
  <1>14. ASSUME NEW n \in Names, PrepareFails(n) PROVE CurInv'
    BY <1>14 DEF PrepareFails, disk, external, memory, ContinueWithError
  <1>15. ASSUME NEW n \in Names, SkipUnchanged(n) PROVE CurInv'
    BY <1>15 DEF SkipUnchanged, disk, external, memory, Continue
  <1>16. ASSUME NEW n \in Names, Deploy(n) PROVE CurInv'
    BY <1>16 DEF Deploy, disk, external, memory
  <1>17. CASE StoreManifest
    BY <1>17, ConfiguredType DEF StoreManifest, external, memory, ContinueWithError,
       TypesOK, DiskOK
  <1>18. CASE manageAuthFile
    <2>1. /\ op = "deploy" /\ cur \in Configured /\ todo \subseteq Configured
          /\ manifest[DirOf[cur]] = toPodYaml(cur, conf[cur])
      BY <1>18 DEF manageAuthFile
    <2>2. /\ pc' \in {"rmService", "loop"}
          /\ UNCHANGED <<op, conf, todo, cur, manifest>>
      BY <1>18 DEF manageAuthFile, ContinueWithError
    <2>3. cur \in AllNames
      BY <2>1 DEF AllNames
    <2>4. QED
      BY <2>1, <2>2, <2>3
  <1>19. CASE indexWorkloads
    BY <1>19 DEF indexWorkloads, disk, external, memory, Continue
  <1>20. ASSUME NEW n \in AllNames, RemoveStale(n) PROVE CurInv'
    BY <1>20 DEF RemoveStale, external, memory
  <1>21. CASE EndUpdate
    BY <1>21 DEF EndUpdate, disk, external, memory
  <1>22. ASSUME NEW n \in AllNames, removeAllWorkloads(n) PROVE CurInv'
    BY <1>22 DEF removeAllWorkloads, disk, external, memory
  <1>23. CASE allWorkloadsRemoved
    BY <1>23 DEF allWorkloadsRemoved, disk, external, memory
  <1>24. CASE deleteDirs
    BY <1>24 DEF deleteDirs, CleanUp
  <1>25. CASE deleteTable
    BY <1>25 DEF deleteTable, CleanUp
  <1>26. CASE deleteVolumeDir
    BY <1>26 DEF deleteVolumeDir, CleanUp
  <1>27. CASE removeMappingFile
    BY <1>27 DEF removeMappingFile, CleanUp
  <1>28. CASE removeServicesFile
    BY <1>28 DEF removeServicesFile, CleanUp
  <1>29. CASE Return
    BY <1>29 DEF Return, disk, external, memory, ClearOperation
  <1>30. CASE Crash
    BY <1>30 DEF Crash, external, memory, ClearOperation, Interrupted
  <1>31. CASE Restart
    BY <1>31 DEF Restart, disk, external, ClearOperation
  <1>32. CASE RestartFails
    BY <1>32 DEF RestartFails, disk, external, memory
  <1>33. CASE UNCHANGED vars
    BY <1>33 DEF vars, disk, external, memory, control
  <1>34. QED
    BY <1>1, <1>2, <1>3, <1>4, <1>5, <1>6, <1>7, <1>8, <1>9, <1>10, <1>11,
       <1>12, <1>13, <1>14, <1>15, <1>16, <1>17, <1>18, <1>19, <1>20, <1>21, <1>22,
       <1>23, <1>24, <1>25, <1>26, <1>27, <1>28, <1>29, <1>30, <1>31, <1>32, <1>33
    DEF Next, Step, RemoveStep, RunStep, UpdateStep, DeregisterStep

(* Every step keeps the two maps and the mapping file consistent.          *)
LEMMA NextMapping == IInv /\ [Next]_vars => MappingInv'
  <1> SUFFICES ASSUME IInv, [Next]_vars PROVE MappingInv'
    OBVIOUS
  <1> USE DEF IInv, MappingInv, RunInv, FileInv, MappingsInverse
  <1>1. ASSUME NEW c \in Configs, BeginUpdate(c) PROVE MappingInv'
    BY <1>1 DEF BeginUpdate, disk, external, memory
  <1>2. CASE BeginDeregister
    BY <1>2 DEF BeginDeregister, disk, external, memory
  <1>3. CASE removeServiceAbsent
    BY <1>3 DEF removeServiceAbsent, disk, external, memory
  <1>4. CASE removeServicePanics
    BY <1>4 DEF removeServicePanics, disk, external, memory
  <1>5. CASE removeServiceLive
    BY <1>5 DEF removeServiceLive, external, RemoveFails, ContinueWithError,
       WriteServices, WriteFails
  <1>6. CASE RemovePod
    BY <1>6 DEF RemovePod, disk, memory, RemoveFails, ContinueWithError
  <1>7. CASE DeleteChain
    BY <1>7 DEF DeleteChain, disk, memory
  <1>8. CASE RemoveMapping
    BY <1>8, NoneAssumption DEF RemoveMapping, external, RemoveFails, ContinueWithError,
       WriteFails, CurInv, RemovePCs, RunPCs, TypesOK, MemoryOK, ControlOK, IdMap
  <1>9. CASE applyNetworkConfiguration
    BY <1>9 DEF applyNetworkConfiguration, disk, memory, RunFails, ContinueWithError
  <1>10. CASE RunPod
    BY <1>10, FreshIdType DEF RunPod, disk, memory, RunFails, ContinueWithError, Fresh
  <1>11. CASE AddMapping
    <2>1. /\ cur \in AllNames /\ podId \in PodIds
          /\ nameToId[cur] = None /\ idToName[podId] = None
      BY <1>11, ConfiguredType DEF AddMapping, CurInv, RunPCs, TypesOK
    <2>2. /\ idToName \in [PodIds -> AllNames \cup {None}]
          /\ nameToId \in [AllNames -> PodIds \cup {None}]
      BY DEF TypesOK, MemoryOK, IdMap
    <2>3. /\ idToName' = [idToName EXCEPT ![podId] = cur]
          /\ nameToId' = [nameToId EXCEPT ![cur] = podId]
          /\ mappingFile' \in {idToName', mappingFile, Garbled}
          /\ pc' \in {"runService", "loop"}
      BY <1>11 DEF AddMapping, RunFails, ContinueWithError, WriteFails
    <2>4. \A n \in AllNames : nameToId'[n] # None => idToName'[nameToId'[n]] = n
      BY <2>1, <2>2, <2>3, NoneAssumption
    <2>5. \A i \in PodIds : idToName'[i] # None => nameToId'[idToName'[i]] = i
      BY <2>1, <2>2, <2>3, NoneAssumption
    <2>6. FileInv'
      <3>1. CASE mappingFile' = idToName'
        BY <3>1, <2>5
      <3>2. CASE mappingFile' \in {mappingFile, Garbled}
        BY <3>2
      <3>3. QED
        BY <2>3, <3>1, <3>2
    <2>7. QED
      BY <2>3, <2>4, <2>5, <2>6
  <1>12. CASE createService
    BY <1>12 DEF createService, external, memory, RunFails, ContinueWithError
  <1>13. CASE AddService
    BY <1>13 DEF AddService, external, RunFails, ContinueWithError, Continue,
       WriteFails, WriteServices
  <1>14. ASSUME NEW n \in Names, PrepareFails(n) PROVE MappingInv'
    BY <1>14 DEF PrepareFails, disk, external, memory, ContinueWithError
  <1>15. ASSUME NEW n \in Names, SkipUnchanged(n) PROVE MappingInv'
    BY <1>15 DEF SkipUnchanged, disk, external, memory, Continue
  <1>16. ASSUME NEW n \in Names, Deploy(n) PROVE MappingInv'
    BY <1>16 DEF Deploy, disk, external, memory
  <1>17. CASE StoreManifest
    BY <1>17 DEF StoreManifest, external, memory, ContinueWithError
  <1>18. CASE manageAuthFile
    BY <1>18 DEF manageAuthFile, external, memory, ContinueWithError
  <1>19. CASE indexWorkloads
    BY <1>19 DEF indexWorkloads, disk, external, memory, Continue
  <1>20. ASSUME NEW n \in AllNames, RemoveStale(n) PROVE MappingInv'
    BY <1>20 DEF RemoveStale, external, memory
  <1>21. CASE EndUpdate
    BY <1>21 DEF EndUpdate, disk, external, memory
  <1>22. ASSUME NEW n \in AllNames, removeAllWorkloads(n) PROVE MappingInv'
    BY <1>22 DEF removeAllWorkloads, disk, external, memory
  <1>23. CASE allWorkloadsRemoved
    BY <1>23 DEF allWorkloadsRemoved, disk, external, memory
  <1>24. CASE deleteDirs
    BY <1>24 DEF deleteDirs, CleanUp
  <1>25. CASE deleteTable
    BY <1>25 DEF deleteTable, CleanUp
  <1>26. CASE deleteVolumeDir
    BY <1>26 DEF deleteVolumeDir, CleanUp
  <1>27. CASE removeMappingFile
    BY <1>27 DEF removeMappingFile, CleanUp
  <1>28. CASE removeServicesFile
    BY <1>28 DEF removeServicesFile, CleanUp
  <1>29. CASE Return
    BY <1>29 DEF Return, disk, external, memory, ClearOperation
  <1>30. CASE Crash
    BY <1>30 DEF Crash, external, memory, ClearOperation, Interrupted
  <1>31. CASE Restart
    BY <1>31, NoneAssumption DEF Restart, disk, external, ClearOperation, NoIds,
       TypesOK, DiskOK, IdMap
  <1>32. CASE RestartFails
    BY <1>32 DEF RestartFails, disk, external, memory
  <1>33. CASE UNCHANGED vars
    BY <1>33 DEF vars, disk, external, memory, control
  <1>34. QED
    BY <1>1, <1>2, <1>3, <1>4, <1>5, <1>6, <1>7, <1>8, <1>9, <1>10, <1>11,
       <1>12, <1>13, <1>14, <1>15, <1>16, <1>17, <1>18, <1>19, <1>20, <1>21, <1>22,
       <1>23, <1>24, <1>25, <1>26, <1>27, <1>28, <1>29, <1>30, <1>31, <1>32, <1>33
    DEF Next, Step, RemoveStep, RunStep, UpdateStep, DeregisterStep

(* Every step keeps the invariant on a deregistered manager.               *)
LEMMA NextDereg == DeregInv /\ [Next]_vars => DeregInv'
  <1> SUFFICES ASSUME DeregInv, [Next]_vars PROVE DeregInv'
    OBVIOUS
  <1> USE DEF DeregInv
  <1>1. ASSUME NEW c \in Configs, BeginUpdate(c) PROVE DeregInv'
    BY <1>1 DEF BeginUpdate, memory
  <1>2. CASE BeginDeregister
    BY <1>2 DEF BeginDeregister, memory
  <1>3. CASE removeServiceAbsent
    BY <1>3 DEF removeServiceAbsent, memory
  <1>4. CASE removeServicePanics
    BY <1>4 DEF removeServicePanics, memory
  <1>5. CASE removeServiceLive
    BY <1>5 DEF removeServiceLive, RemoveFails, ContinueWithError, WriteServices,
       WriteFails
  <1>6. CASE RemovePod
    BY <1>6 DEF RemovePod, memory, RemoveFails, ContinueWithError
  <1>7. CASE DeleteChain
    BY <1>7 DEF DeleteChain, memory
  <1>8. CASE RemoveMapping
    BY <1>8 DEF RemoveMapping, RemoveFails, ContinueWithError, WriteFails
  <1>9. CASE applyNetworkConfiguration
    BY <1>9 DEF applyNetworkConfiguration, memory, RunFails, ContinueWithError
  <1>10. CASE RunPod
    BY <1>10 DEF RunPod, memory, RunFails, ContinueWithError
  <1>11. CASE AddMapping
    BY <1>11 DEF AddMapping, RunFails, ContinueWithError, WriteFails
  <1>12. CASE createService
    BY <1>12 DEF createService, memory, RunFails, ContinueWithError
  <1>13. CASE AddService
    BY <1>13 DEF AddService, RunFails, ContinueWithError, Continue, WriteFails,
       WriteServices
  <1>14. ASSUME NEW n \in Names, PrepareFails(n) PROVE DeregInv'
    BY <1>14 DEF PrepareFails, memory, ContinueWithError
  <1>15. ASSUME NEW n \in Names, SkipUnchanged(n) PROVE DeregInv'
    BY <1>15 DEF SkipUnchanged, memory, Continue
  <1>16. ASSUME NEW n \in Names, Deploy(n) PROVE DeregInv'
    BY <1>16 DEF Deploy, memory
  <1>17. CASE StoreManifest
    BY <1>17 DEF StoreManifest, memory, ContinueWithError
  <1>18. CASE manageAuthFile
    BY <1>18 DEF manageAuthFile, memory, ContinueWithError
  <1>19. CASE indexWorkloads
    BY <1>19 DEF indexWorkloads, memory, Continue
  <1>20. ASSUME NEW n \in AllNames, RemoveStale(n) PROVE DeregInv'
    BY <1>20 DEF RemoveStale, memory
  <1>21. CASE EndUpdate
    BY <1>21 DEF EndUpdate, memory
  <1>22. ASSUME NEW n \in AllNames, removeAllWorkloads(n) PROVE DeregInv'
    BY <1>22 DEF removeAllWorkloads, memory
  <1>23. CASE allWorkloadsRemoved
    BY <1>23 DEF allWorkloadsRemoved, memory
  <1>24. CASE deleteDirs
    BY <1>24 DEF deleteDirs, CleanUp
  <1>25. CASE deleteTable
    BY <1>25 DEF deleteTable, CleanUp
  <1>26. CASE deleteVolumeDir
    BY <1>26 DEF deleteVolumeDir, CleanUp
  <1>27. CASE removeMappingFile
    BY <1>27 DEF removeMappingFile, CleanUp
  <1>28. CASE removeServicesFile
    BY <1>28 DEF removeServicesFile, CleanUp
  <1>29. CASE Return
    BY <1>29 DEF Return, memory, ClearOperation
  <1>30. CASE Crash
    BY <1>30 DEF Crash, memory, ClearOperation, Interrupted
  <1>31. CASE Restart
    BY <1>31 DEF Restart, ClearOperation
  <1>32. CASE RestartFails
    BY <1>32 DEF RestartFails, memory
  <1>33. CASE UNCHANGED vars
    BY <1>33 DEF vars, memory, control
  <1>34. QED
    BY <1>1, <1>2, <1>3, <1>4, <1>5, <1>6, <1>7, <1>8, <1>9, <1>10, <1>11,
       <1>12, <1>13, <1>14, <1>15, <1>16, <1>17, <1>18, <1>19, <1>20, <1>21, <1>22,
       <1>23, <1>24, <1>25, <1>26, <1>27, <1>28, <1>29, <1>30, <1>31, <1>32, <1>33
    DEF Next, Step, RemoveStep, RunStep, UpdateStep, DeregisterStep

(* Only storeFile makes a manifest and only Run a pod, and a deregistered  *)
(* manager gets to neither.                                                *)
LEMMA StepCreatesNothing == TypesOK /\ DeregInv /\ [Next]_vars => CreatesNothing
  <1> SUFFICES ASSUME TypesOK /\ DeregInv, [Next]_vars PROVE CreatesNothing
    OBVIOUS
  <1> USE DEF DeregInv, CreatesNothing
  <1>1. ASSUME NEW c \in Configs, BeginUpdate(c) PROVE CreatesNothing
    BY <1>1 DEF BeginUpdate, disk, external, memory
  <1>2. CASE BeginDeregister
    BY <1>2 DEF BeginDeregister, disk, external, memory
  <1>3. CASE removeServiceAbsent
    BY <1>3 DEF removeServiceAbsent, disk, external, memory
  <1>4. CASE removeServicePanics
    BY <1>4 DEF removeServicePanics, disk, external, memory
  <1>5. CASE removeServiceLive
    BY <1>5 DEF removeServiceLive, external
  <1>6. CASE RemovePod
    BY <1>6 DEF RemovePod, disk, memory
  <1>7. CASE DeleteChain
    BY <1>7 DEF DeleteChain, disk, memory
  <1>8. CASE RemoveMapping
    BY <1>8 DEF RemoveMapping, external
  <1>9. CASE applyNetworkConfiguration
    BY <1>9 DEF applyNetworkConfiguration, disk, memory
  <1>10. CASE RunPod
    BY <1>10 DEF RunPod, disk, memory
  <1>11. CASE AddMapping
    BY <1>11 DEF AddMapping, external
  <1>12. CASE createService
    BY <1>12 DEF createService, external, memory
  <1>13. CASE AddService
    BY <1>13 DEF AddService, external
  <1>14. ASSUME NEW n \in Names, PrepareFails(n) PROVE CreatesNothing
    BY <1>14 DEF PrepareFails, disk, external, memory
  <1>15. ASSUME NEW n \in Names, SkipUnchanged(n) PROVE CreatesNothing
    BY <1>15 DEF SkipUnchanged, disk, external, memory
  <1>16. ASSUME NEW n \in Names, Deploy(n) PROVE CreatesNothing
    BY <1>16 DEF Deploy, disk, external, memory
  <1>17. CASE StoreManifest
    BY <1>17 DEF StoreManifest, external, memory
  <1>18. CASE manageAuthFile
    BY <1>18 DEF manageAuthFile, external, memory
  <1>19. CASE indexWorkloads
    BY <1>19 DEF indexWorkloads, disk, external, memory
  <1>20. ASSUME NEW n \in AllNames, RemoveStale(n) PROVE CreatesNothing
    BY <1>20 DEF RemoveStale, external, memory
  <1>21. CASE EndUpdate
    BY <1>21 DEF EndUpdate, disk, external, memory
  <1>22. ASSUME NEW n \in AllNames, removeAllWorkloads(n) PROVE CreatesNothing
    BY <1>22 DEF removeAllWorkloads, disk, external, memory
  <1>23. CASE allWorkloadsRemoved
    BY <1>23 DEF allWorkloadsRemoved, disk, external, memory
  <1>24. CASE deleteDirs
    BY <1>24 DEF deleteDirs, CleanUp
  <1>25. CASE deleteTable
    BY <1>25 DEF deleteTable, CleanUp
  <1>26. CASE deleteVolumeDir
    BY <1>26 DEF deleteVolumeDir, CleanUp
  <1>27. CASE removeMappingFile
    BY <1>27 DEF removeMappingFile, CleanUp
  <1>28. CASE removeServicesFile
    BY <1>28 DEF removeServicesFile, CleanUp
  <1>29. CASE Return
    BY <1>29 DEF Return, disk, external, memory
  <1>30. CASE Crash
    BY <1>30 DEF Crash, external, memory
  <1>31. CASE Restart
    BY <1>31 DEF Restart, disk, external
  <1>32. CASE RestartFails
    BY <1>32 DEF RestartFails, disk, external, memory
  <1>33. CASE UNCHANGED vars
    BY <1>33 DEF vars, disk, external
  <1>34. QED
    BY <1>1, <1>2, <1>3, <1>4, <1>5, <1>6, <1>7, <1>8, <1>9, <1>10, <1>11,
       <1>12, <1>13, <1>14, <1>15, <1>16, <1>17, <1>18, <1>19, <1>20, <1>21, <1>22,
       <1>23, <1>24, <1>25, <1>26, <1>27, <1>28, <1>29, <1>30, <1>31, <1>32, <1>33
    DEF Next, Step, RemoveStep, RunStep, UpdateStep, DeregisterStep

-----------------------------------------------------------------------------
(* Deregister removes everything.                                          *)

(* Every step keeps the names of the mapping.                              *)
LEMMA NextNamed == IInv /\ NamedInv /\ [Next]_vars => NamedInv'
  <1> SUFFICES ASSUME IInv, NamedInv, [Next]_vars PROVE NamedInv'
    OBVIOUS
  <1> USE DEF NamedInv
  <1>1. CASE UNCHANGED idToName /\ mappingFile' \in {mappingFile, None, Garbled}
    BY <1>1
  <1>2. CASE RemoveMapping
    BY <1>2 DEF RemoveMapping, WriteFails
  <1>3. CASE AddMapping
    <2>1. cur \in Names /\ idToName \in [PodIds -> AllNames \cup {None}]
      BY <1>3, ConfiguredType DEF AddMapping, IInv, CurInv, RunPCs, TypesOK, MemoryOK, IdMap
    <2>2. /\ idToName' = [idToName EXCEPT ![podId] = cur]
          /\ mappingFile' \in {idToName', mappingFile, Garbled}
      BY <1>3 DEF AddMapping, WriteFails
    <2>3. QED
      BY <2>1, <2>2
  <1>4. CASE Restart
    BY <1>4 DEF Restart, disk, NoIds
  <1>5. CASE \/ removeServiceAbsent \/ removeServicePanics \/ removeServiceLive
             \/ RemovePod \/ DeleteChain
    BY <1>1, <1>5 DEF removeServiceAbsent, removeServicePanics, removeServiceLive, RemovePod,
       DeleteChain, disk, memory
  <1>6. CASE applyNetworkConfiguration \/ RunPod \/ createService \/ AddService
    BY <1>1, <1>6 DEF applyNetworkConfiguration, RunPod, createService, AddService, disk, memory
  <1>7. CASE UpdateStep
    BY <1>1, <1>7 DEF UpdateStep, PrepareFails, SkipUnchanged, Deploy, StoreManifest,
       manageAuthFile, indexWorkloads, RemoveStale, EndUpdate, disk, memory
  <1>8. CASE DeregisterStep
    BY <1>1, <1>8 DEF DeregisterStep, removeAllWorkloads, allWorkloadsRemoved, deleteDirs,
       deleteTable, deleteVolumeDir, removeMappingFile, removeServicesFile, CleanUp, disk, memory
  <1>9. CASE \/ BeginDeregister \/ (\E c \in Configs : BeginUpdate(c))
             \/ Return \/ Crash \/ RestartFails \/ UNCHANGED vars
    BY <1>1, <1>9 DEF BeginDeregister, BeginUpdate, Return, Crash, RestartFails, Interrupted,
       vars, disk, memory
  <1>10. QED
    BY <1>2, <1>3, <1>4, <1>5, <1>6, <1>7, <1>8, <1>9 DEF Next, Step, RemoveStep, RunStep

(* podman's lookup finds every pod that is listed under a name.            *)
LEMMA ListedIsFound ==
    ASSUME IInv, NamedInv, NEW i \in PodIds, Live(i), ListedName(i) \in AllNames
    PROVE  i \in PodsOf(ListedName(i))
  <1>1. CASE idToName[i] # None
    <2>1. ListedName(i) = idToName[i] /\ nameToId[idToName[i]] = i
      BY <1>1 DEF ListedName, IInv, MappingInv, MappingsInverse
    <2>2. QED
      BY <2>1, NoneAssumption DEF PodsOf
  <1>2. CASE idToName[i] = None
    <2>1. ListedName(i) = PodmanName[pods[i].manifest.name]
      BY <1>2 DEF ListedName
    <2>2. ListedName(i) \in PodNames
      <3>1. pods[i] \in Pod
        BY DEF Live, IInv, TypesOK, ExternalOK
      <3>2. QED
        BY <2>1, <3>1, NamesAssumption DEF Pod, Manifest
    <2>3. nameToId[ListedName(i)] = None
      <3>1. ASSUME nameToId[ListedName(i)] # None PROVE FALSE
        <4>1. nameToId[ListedName(i)] \in PodIds
          BY <3>1 DEF IInv, TypesOK, MemoryOK
        <4>2. idToName[nameToId[ListedName(i)]] = ListedName(i)
          BY <3>1 DEF IInv, MappingInv, MappingsInverse
        <4>3. ListedName(i) \in Names
          BY <4>1, <4>2, NoneAssumption DEF NamedInv
        <4>4. QED
          BY <2>2, <4>3, ApartAssumption
      <3>2. QED
        BY <3>1
    <2>4. QED
      BY <2>1, <2>3 DEF PodsOf
  <1>3. QED
    BY <1>1, <1>2

(* The pod of a name is gone before its mapping.                           *)
LEMMA NextGone == IInv /\ GoneInv /\ [Next]_vars => GoneInv'
  <1> SUFFICES ASSUME IInv, GoneInv, [Next]_vars PROVE GoneInv'
    OBVIOUS
  <1>1. CASE pc' \notin {"rmChain", "rmMapping"}
    BY <1>1 DEF GoneInv
  <1>2. CASE RemovePod
    <2>1. CASE pc' = "rmChain"
      <3>1. /\ pods' = [i \in PodIds |-> IF i \in PodsOf(cur) THEN None ELSE pods[i]]
            /\ UNCHANGED <<cur, nameToId>> /\ cur \in AllNames
        BY <1>2, <2>1 DEF RemovePod, RemoveFails, ContinueWithError, memory, IInv, CurInv, RemovePCs
      <3>2. ASSUME nameToId[cur] # None PROVE pods'[nameToId[cur]] = None
        <4>1. nameToId[cur] \in PodIds
          BY <3>1, <3>2 DEF IInv, TypesOK, MemoryOK
        <4>2. pods[nameToId[cur]] = None \/ nameToId[cur] \in PodsOf(cur)
          BY <3>2, <4>1 DEF PodsOf, Live
        <4>3. QED
          BY <3>1, <4>1, <4>2
      <3>3. QED
        BY <3>1, <3>2 DEF GoneInv
    <2>2. QED
      BY <1>1, <1>2, <2>1 DEF RemovePod, RemoveFails, ContinueWithError
  <1>3. CASE DeleteChain
    BY <1>3 DEF DeleteChain, GoneInv, memory
  <1>4. CASE UNCHANGED vars
    BY <1>4 DEF vars, control, memory, external, GoneInv
  <1>5. CASE removeServiceAbsent \/ removeServicePanics \/ removeServiceLive \/ RemoveMapping
    BY <1>1, <1>5 DEF removeServiceAbsent, removeServicePanics, removeServiceLive, RemoveMapping,
       RemoveFails, ContinueWithError
  <1>6. CASE RunStep
    BY <1>1, <1>6 DEF RunStep, applyNetworkConfiguration, RunPod, AddMapping, createService,
       AddService, RunFails, ContinueWithError, Continue
  <1>7. CASE UpdateStep
    BY <1>1, <1>7 DEF UpdateStep, PrepareFails, SkipUnchanged, Deploy, StoreManifest,
       manageAuthFile, indexWorkloads, RemoveStale, EndUpdate, ContinueWithError, Continue
  <1>8. CASE DeregisterStep
    BY <1>1, <1>8 DEF DeregisterStep, removeAllWorkloads, allWorkloadsRemoved, deleteDirs,
       deleteTable, deleteVolumeDir, removeMappingFile, removeServicesFile, CleanUp
  <1>9. CASE \/ BeginDeregister \/ (\E c \in Configs : BeginUpdate(c))
             \/ Return \/ Crash \/ Restart \/ RestartFails
    BY <1>1, <1>9 DEF BeginDeregister, BeginUpdate, Return, Crash, Restart, RestartFails
  <1>10. QED
    BY <1>2, <1>3, <1>4, <1>5, <1>6, <1>7, <1>8, <1>9 DEF Next, Step, RemoveStep

(* Every step keeps the pods that are left within what the loop has still  *)
(* to remove and what is configured.                                       *)
LEMMA NextRemain ==
    IInv /\ NamedInv /\ GoneInv /\ StageInv /\ RemainInv /\ [Next]_vars => RemainInv'
  <1> SUFFICES ASSUME IInv, NamedInv, GoneInv, StageInv, RemainInv, [Next]_vars,
                      op' \in {"stale", "deregister"}, ~errors'
               PROVE  RemainInv'
    BY DEF RemainInv
  <1>1. CASE BeginDeregister
    BY <1>1 DEF BeginDeregister, RemainInv, Left, List, Live, ListedName, RemovePCs, external, memory
  <1>2. CASE removeServiceAbsent
    BY <1>2 DEF removeServiceAbsent, RemainInv, Left, Wanted, Configured, RemovePCs, Live,
       ListedName, external, memory
  <1>3. CASE removeServicePanics
    BY <1>3 DEF removeServicePanics, RemainInv, RemovePCs
  <1>4. CASE removeServiceLive
    <2>1. /\ pc = "rmService" /\ pc' = "rmPod"
          /\ UNCHANGED <<op, conf, todo, cur, errors, pods, idToName>>
      BY <1>4 DEF removeServiceLive, RemoveFails, ContinueWithError, external
    <2>2. QED
      BY <2>1 DEF RemainInv, Left, Wanted, Configured, RemovePCs, Live, ListedName
  <1>5. CASE RemovePod
    <2>1. /\ pods' = [i \in PodIds |-> IF i \in PodsOf(cur) THEN None ELSE pods[i]]
          /\ pc = "rmPod" /\ pc' = "rmChain"
          /\ UNCHANGED <<op, conf, todo, cur, errors, idToName>>
      BY <1>5 DEF RemovePod, RemoveFails, ContinueWithError, memory
    <2>2. ASSUME NEW i \in PodIds, pods'[i] # None
          PROVE  /\ Live(i) /\ i \notin PodsOf(cur) /\ pods'[i] = pods[i]
                 /\ ListedName(i) \in todo \cup {cur} \cup Wanted
      BY <2>1, <2>2 DEF RemainInv, Left, Live, RemovePCs
    <2>3. ASSUME NEW i \in PodIds, pods'[i] # None
          PROVE  ListedName(i) \in todo \cup Wanted
      <3>1. ListedName(i) \in AllNames
        BY <2>1, <2>2, <2>3 DEF IInv, TypesOK, ControlOK, CurInv, RemovePCs, Wanted, Configured,
           AllNames
      <3>2. i \in PodsOf(ListedName(i))
        BY <2>2, <2>3, <3>1, ListedIsFound
      <3>3. QED
        BY <2>2, <2>3, <3>2
    <2>4. ASSUME NEW i \in PodIds, Live(i)' PROVE ListedName(i)' \in Left' \cup Wanted'
      <3>1. ListedName(i) \in todo \cup Wanted /\ pods'[i] = pods[i]
        BY <2>2, <2>3, <2>4 DEF Live
      <3>2. QED
        BY <2>1, <3>1 DEF ListedName, Left, Wanted, Configured
    <2>5. QED
      BY <2>1, <2>4 DEF RemainInv
  <1>6. CASE DeleteChain
    BY <1>6 DEF DeleteChain, RemainInv, Left, Wanted, Configured, RemovePCs, Live, ListedName, memory
  <1>7. CASE RemoveMapping
    <2>1. /\ pc = "rmMapping" /\ pc' = "loop" /\ UNCHANGED <<op, conf, todo, cur, errors, pods>>
          /\ idToName' = [i \in PodIds |-> IF i = nameToId[cur] THEN None ELSE idToName[i]]
      BY <1>7 DEF RemoveMapping, RemoveFails, ContinueWithError, external
    <2>2. ASSUME NEW i \in PodIds, Live(i)
          PROVE  i # nameToId[cur] /\ ListedName(i) \in todo \cup Wanted
      <3>1. ListedName(i) \in todo \cup Wanted
        BY <2>1, <2>2 DEF RemainInv, Left, RemovePCs
      <3>2. i # nameToId[cur]
        BY <2>1, <2>2, NoneAssumption DEF GoneInv, Live
      <3>3. QED
        BY <3>1, <3>2
    <2>3. ASSUME NEW i \in PodIds, Live(i)' PROVE ListedName(i)' \in Left' \cup Wanted'
      <3>1. Live(i) /\ pods'[i] = pods[i]
        BY <2>1, <2>3 DEF Live
      <3>2. idToName'[i] = idToName[i]
        BY <2>1, <2>2, <3>1
      <3>3. QED
        BY <2>1, <2>2, <3>1, <3>2 DEF ListedName, Left, Wanted, Configured
    <2>4. QED
      BY <2>1, <2>3 DEF RemainInv
  <1>8. CASE RunStep
    BY <1>8 DEF RunStep, applyNetworkConfiguration, RunPod, AddMapping, createService, AddService,
       IInv, CurInv, RunPCs
  <1>9. CASE \/ (\E n \in Names : PrepareFails(n) \/ SkipUnchanged(n) \/ Deploy(n))
             \/ StoreManifest \/ manageAuthFile
    BY <1>9 DEF PrepareFails, SkipUnchanged, Deploy, StoreManifest, manageAuthFile, IInv, CurInv
  <1>10. CASE indexWorkloads
    <2>1. /\ pc' = "loop" /\ op' = "stale" /\ todo' = List \ Configured
          /\ UNCHANGED <<conf, pods, idToName>>
      BY <1>10 DEF indexWorkloads, Continue, external, memory
    <2>2. ASSUME NEW i \in PodIds, Live(i)' PROVE ListedName(i)' \in Left' \cup Wanted'
      <3>1. Live(i) /\ ListedName(i)' = ListedName(i)
        BY <2>1, <2>2 DEF Live, ListedName
      <3>2. ListedName(i) \in List
        BY <3>1 DEF List
      <3>3. QED
        BY <2>1, <3>1, <3>2 DEF Left, Wanted, Configured
    <2>3. QED
      BY <2>1, <2>2 DEF RemainInv
  <1>11. ASSUME NEW n \in AllNames, RemoveStale(n) \/ removeAllWorkloads(n) PROVE RemainInv'
    <2>1. /\ pc = "loop" /\ pc' = "rmService" /\ n \in todo /\ todo' = todo \ {n} /\ cur' = n
          /\ UNCHANGED <<op, conf, errors, pods, idToName>>
      BY <1>11 DEF RemoveStale, removeAllWorkloads, external, memory
    <2>2. QED
      BY <2>1 DEF RemainInv, Left, Wanted, Configured, RemovePCs, Live, ListedName
  <1>12. CASE EndUpdate
    BY <1>12 DEF EndUpdate, RemainInv, Left, Wanted, Configured, RemovePCs, Live, ListedName,
       external, memory
  <1>13. CASE \/ allWorkloadsRemoved \/ deleteDirs \/ deleteTable \/ deleteVolumeDir
              \/ removeMappingFile \/ removeServicesFile
    <2>1. /\ pc' \in {"rmDirs", "rmTable", "rmVolumes", "rmMappingFile", "rmServicesFile", "done"}
          /\ op' = op /\ pc \in {"loop"} \cup CleanPCs /\ (pc = "loop" => op = "deregister")
      BY <1>13 DEF allWorkloadsRemoved, deleteDirs, deleteTable, deleteVolumeDir,
         removeMappingFile, removeServicesFile, CleanUp, CleanPCs
    <2>2. op = "deregister"
      BY <2>1 DEF StageInv
    <2>3. QED
      BY <2>1, <2>2 DEF RemainInv, RemovePCs
  <1>14. CASE (\E c \in Configs : BeginUpdate(c)) \/ Return \/ Crash \/ Restart
    BY <1>14 DEF BeginUpdate, Return, Crash, Restart, ClearOperation
  <1>15. CASE RestartFails
    BY <1>15 DEF RestartFails, RemainInv, RemovePCs
  <1>16. CASE UNCHANGED vars
    BY <1>16 DEF vars, external, memory, control, RemainInv, Left, Wanted, Configured, RemovePCs,
       Live, ListedName
  <1>17. QED
    BY <1>1, <1>2, <1>3, <1>4, <1>5, <1>6, <1>7, <1>8, <1>9, <1>10, <1>11, <1>12, <1>13,
       <1>14, <1>15, <1>16 DEF Next, Step, RemoveStep, UpdateStep, DeregisterStep

(* Every step keeps what Deregister has achieved.                          *)
LEMMA NextClean == IInv /\ RemainInv /\ CleanInv /\ [Next]_vars => CleanInv'
  <1> SUFFICES ASSUME IInv, RemainInv, CleanInv, [Next]_vars, op' = "deregister", ~errors'
               PROVE  CleanInv'
    BY DEF CleanInv
  <1>1. CASE BeginDeregister
    BY <1>1 DEF BeginDeregister, CleanInv
  <1>2. CASE RemoveStep
    <2>1. pc' \in {"loop", "panicked", "rmPod", "rmChain", "rmMapping", "runNetwork"}
      BY <1>2 DEF RemoveStep, removeServiceAbsent, removeServicePanics, removeServiceLive,
         RemovePod, DeleteChain, RemoveMapping, RemoveFails, ContinueWithError
    <2>2. QED
      BY <2>1 DEF CleanInv
  <1>3. CASE RunStep
    BY <1>3 DEF RunStep, applyNetworkConfiguration, RunPod, AddMapping, createService, AddService,
       IInv, CurInv, RunPCs
  <1>4. CASE UpdateStep
    BY <1>4 DEF UpdateStep, PrepareFails, SkipUnchanged, Deploy, StoreManifest,
       manageAuthFile, indexWorkloads, RemoveStale, EndUpdate, IInv, CurInv
  <1>5. ASSUME NEW n \in AllNames, removeAllWorkloads(n) PROVE CleanInv'
    BY <1>5 DEF removeAllWorkloads, CleanInv
  <1>6. CASE allWorkloadsRemoved
    BY <1>6 DEF allWorkloadsRemoved, CleanInv, RemainInv, Left, Wanted, RemovePCs, Live, external
  <1>7. CASE deleteDirs
    BY <1>7 DEF deleteDirs, CleanUp, CleanInv, Live
  <1>8. CASE deleteTable \/ deleteVolumeDir \/ removeMappingFile \/ removeServicesFile
    BY <1>8 DEF deleteTable, deleteVolumeDir, removeMappingFile, removeServicesFile, CleanUp,
       CleanInv, Live
  <1>9. CASE (\E c \in Configs : BeginUpdate(c)) \/ Return \/ Crash \/ Restart
    BY <1>9 DEF BeginUpdate, Return, Crash, Restart, ClearOperation
  <1>10. CASE RestartFails
    BY <1>10 DEF RestartFails, CleanInv
  <1>11. CASE UNCHANGED vars
    BY <1>11 DEF vars, disk, external, control, CleanInv, Live
  <1>12. QED
    BY <1>1, <1>2, <1>3, <1>4, <1>5, <1>6, <1>7, <1>8, <1>9, <1>10, <1>11
    DEF Next, Step, DeregisterStep

-----------------------------------------------------------------------------
(* The files tell the truth.                                               *)

(* The name a step works on, and its directory.                            *)
LEMMA CurName ==
    ASSUME IInv, pc \in {"store", "auth"} \cup RemovePCs \cup RunPCs
    PROVE  /\ cur \in AllNames /\ DirOf[cur] \in Dirs
           /\ pc \in {"store", "auth"} \cup RunPCs => cur \in Names /\ op = "deploy"
  <1>1. CASE pc \in RemovePCs
    BY <1>1, DirsAssumption DEF IInv, CurInv, RemovePCs, RunPCs
  <1>2. CASE pc \in {"store", "auth"} \cup RunPCs
    <2>1. op = "deploy" /\ cur \in Configured
      BY <1>2 DEF IInv, CurInv
    <2>2. QED
      BY <2>1, ConfiguredType DEF IInv, TypesOK
  <1>3. QED
    BY <1>1, <1>2

(* Other workloads have other directories.                                 *)
LEMMA OtherDir ==
    ASSUME NEW m \in AllNames, NEW n \in Names, m # n
    PROVE  DirOf[n] \in Dirs /\ DirOf[n] # DirOf[m]
  BY DirsAssumption, OwnDirsAssumption DEF AllNames

(* Every step keeps what Run has done so far.                              *)
LEMMA NextStage == IInv /\ StageInv /\ [Next]_vars => StageInv'
  <1> SUFFICES ASSUME IInv, StageInv, [Next]_vars PROVE StageInv'
    OBVIOUS
  <1> USE DEF StageInv, RemovePCs, RunPCs, CleanPCs
  <1>1. ASSUME NEW c \in Configs, BeginUpdate(c) PROVE StageInv'
    BY <1>1 DEF BeginUpdate
  <1>2. CASE BeginDeregister
    BY <1>2 DEF BeginDeregister
  <1>3. CASE removeServiceAbsent \/ removeServicePanics \/ removeServiceLive
    BY <1>3 DEF removeServiceAbsent, removeServicePanics, removeServiceLive, RemoveFails,
       ContinueWithError
  <1>4. CASE RemovePod \/ DeleteChain
    BY <1>4 DEF RemovePod, DeleteChain, RemoveFails, ContinueWithError
  <1>5. CASE RemoveMapping
    BY <1>5 DEF RemoveMapping, RemoveFails, ContinueWithError
  <1>6. CASE applyNetworkConfiguration
    <2>1. manifest[DirOf[cur]].spec = conf[cur].spec
      BY <1>6 DEF applyNetworkConfiguration, IInv, CurInv, toPodYaml
    <2>2. /\ UNCHANGED <<cur, op, unfinished, manifest>>
          /\ pc' = "loop" \/ (pc' = "runPod" /\ (conf[cur].spec \in WithPorts => cur \in chains'))
          /\ cur \in unfinished
      BY <1>6 DEF applyNetworkConfiguration, RunFails, ContinueWithError, disk
    <2>3. QED
      BY <2>1, <2>2
  <1>7. CASE RunPod
    <2>1. UNCHANGED <<cur, op, unfinished, manifest, authFile, chains>> /\ cur \in unfinished
      BY <1>7 DEF RunPod, disk
    <2>2. CASE pc' = "runMapping"
      <3>1. FreshId \in PodIds /\ pods' = [pods EXCEPT ![FreshId] = PodOf(cur)] /\ podId' = FreshId
        BY <1>7, <2>2, FreshIdType DEF RunPod, RunFails, ContinueWithError, PodOf
      <3>2. pods'[podId'] = PodOf(cur)
        BY <3>1 DEF IInv, TypesOK, ExternalOK
      <3>3. (PodOf(cur))' = PodOf(cur)
        BY <2>1 DEF PodOf
      <3>4. manifest[DirOf[cur]].spec \in WithPorts => cur \in chains
        BY <1>7 DEF RunPod
      <3>5. QED
        BY <2>1, <2>2, <3>2, <3>3, <3>4
    <2>3. CASE pc' = "loop"
      BY <2>1, <2>3
    <2>4. QED
      BY <1>7, <2>2, <2>3 DEF RunPod, RunFails, ContinueWithError
  <1>8. CASE AddMapping
    <2>1. UNCHANGED <<cur, op, unfinished, manifest, authFile, chains, pods>> /\ cur \in unfinished
      BY <1>8 DEF AddMapping, external
    <2>2. CASE pc' = "runService"
      <3>1. cur \in AllNames /\ podId \in PodIds
        BY <1>8, CurName DEF AddMapping, IInv, MappingInv, RunInv
      <3>2. /\ idToName' = [idToName EXCEPT ![podId] = cur] /\ mappingFile' = idToName'
            /\ nameToId' = [nameToId EXCEPT ![cur] = podId]
        BY <1>8, <2>2 DEF AddMapping, RunFails, ContinueWithError
      <3>3. nameToId'[cur] = podId /\ idToName'[podId] = cur /\ idToName' \in IdMap
        BY <3>1, <3>2 DEF IInv, TypesOK, MemoryOK, IdMap
      <3>4. mappingFile' # None /\ podId # None
        BY <3>1, <3>2, <3>3, FilesAssumption, NoneAssumption
      <3>5. (PodOf(cur))' = PodOf(cur) /\ pods[podId] = PodOf(cur)
        BY <1>8, <2>1 DEF PodOf, AddMapping
      <3>6. manifest[DirOf[cur]].spec \in WithPorts => cur \in chains
        BY <1>8 DEF AddMapping
      <3>7. QED
        BY <2>1, <2>2, <3>2, <3>3, <3>4, <3>5, <3>6
    <2>3. CASE pc' = "loop"
      BY <2>1, <2>3
    <2>4. QED
      BY <1>8, <2>2, <2>3 DEF AddMapping, RunFails, ContinueWithError
  <1>9. CASE createService
    BY <1>9 DEF createService, PodOf, RunFails, ContinueWithError, memory, external
  <1>10. CASE AddService
    <2>1. pc' = "loop" /\ op' = op /\ op = "deploy"
      BY <1>10, CurName DEF AddService, RunFails, ContinueWithError, Continue
    <2>2. QED
      BY <2>1
  <1>11. CASE \E n \in Names : PrepareFails(n) \/ SkipUnchanged(n) \/ Deploy(n)
    BY <1>11 DEF PrepareFails, SkipUnchanged, Deploy, Continue, ContinueWithError
  <1>12. CASE StoreManifest \/ manageAuthFile
    <2>1. op = "deploy" /\ op' = op /\ cur' = cur /\ (pc' \in {"auth", "rmService"} => cur \in unfinished')
          /\ pc' \in {"auth", "rmService", "loop"}
      BY <1>12, CurName DEF StoreManifest, manageAuthFile, ContinueWithError
    <2>2. QED
      BY <2>1
  <1>13. CASE indexWorkloads \/ EndUpdate
    BY <1>13 DEF indexWorkloads, EndUpdate, Continue
  <1>14. ASSUME NEW n \in AllNames, RemoveStale(n) PROVE StageInv'
    BY <1>14 DEF RemoveStale
  <1>15. ASSUME NEW n \in AllNames, removeAllWorkloads(n) PROVE StageInv'
    BY <1>15 DEF removeAllWorkloads
  <1>16. CASE \/ allWorkloadsRemoved \/ deleteDirs \/ deleteTable \/ deleteVolumeDir
              \/ removeMappingFile \/ removeServicesFile
    BY <1>16 DEF allWorkloadsRemoved, deleteDirs, deleteTable, deleteVolumeDir,
       removeMappingFile, removeServicesFile, CleanUp
  <1>17. CASE Return \/ Crash \/ Restart \/ RestartFails
    BY <1>17 DEF Return, Crash, Restart, RestartFails, ClearOperation
  <1>18. CASE UNCHANGED vars
    BY <1>18 DEF vars, disk, external, memory, control, PodOf
  <1>19. QED
    BY <1>1, <1>2, <1>3, <1>4, <1>5, <1>6, <1>7, <1>8, <1>9, <1>10, <1>11, <1>12, <1>13,
       <1>14, <1>15, <1>16, <1>17, <1>18
    DEF Next, Step, RemoveStep, RunStep, UpdateStep, DeregisterStep

(* podman keeps pod names apart.                                           *)
LEMMA NextUnique == IInv /\ UniqueInv /\ [Next]_vars => UniqueInv'
  <1> SUFFICES ASSUME IInv, UniqueInv, [Next]_vars PROVE UniqueInv'
    OBVIOUS
  <1>1. CASE \A i \in PodIds : pods'[i] = pods[i] \/ pods'[i] = None
    BY <1>1 DEF UniqueInv, Live
  <1>2. CASE RunPod
    <2>1. CASE pods' = pods
      BY <1>1, <2>1
    <2>2. CASE pods' # pods
      <3>1. /\ \A i \in PodIds : Live(i) => pods[i].manifest.name # cur
            /\ FreshId \in PodIds /\ pods' = [pods EXCEPT ![FreshId] = PodOf(cur)]
        BY <1>2, <2>2, FreshIdType DEF RunPod, PodOf
      <3>2. PodOf(cur).manifest.name = cur
        <4>1. manifest[DirOf[cur]] = toPodYaml(cur, conf[cur])
          BY <1>2 DEF RunPod, IInv, CurInv, RunPCs
        <4>2. QED
          BY <4>1 DEF PodOf, toPodYaml
      <3>3. \A i \in PodIds : pods'[i] = IF i = FreshId THEN PodOf(cur) ELSE pods[i]
        BY <3>1 DEF IInv, TypesOK, ExternalOK
      <3>4. QED
        BY <3>1, <3>2, <3>3 DEF UniqueInv, Live
    <2>3. QED
      BY <2>1, <2>2
  <1>3. CASE RemovePod
    BY <1>1, <1>3 DEF RemovePod
  <1>4. CASE \/ removeServiceAbsent \/ removeServicePanics \/ removeServiceLive
             \/ DeleteChain \/ RemoveMapping
    BY <1>1, <1>4 DEF removeServiceAbsent, removeServicePanics, removeServiceLive,
       DeleteChain, RemoveMapping, external
  <1>5. CASE applyNetworkConfiguration \/ AddMapping \/ createService \/ AddService
    BY <1>1, <1>5 DEF applyNetworkConfiguration, AddMapping, createService, AddService, external
  <1>6. CASE UpdateStep
    BY <1>1, <1>6 DEF UpdateStep, PrepareFails, SkipUnchanged, Deploy, StoreManifest,
       manageAuthFile, indexWorkloads, RemoveStale, EndUpdate, external
  <1>7. CASE DeregisterStep
    BY <1>1, <1>7 DEF DeregisterStep, removeAllWorkloads, allWorkloadsRemoved, deleteDirs,
       deleteTable, deleteVolumeDir, removeMappingFile, removeServicesFile, CleanUp, external
  <1>8. CASE \/ BeginDeregister \/ (\E c \in Configs : BeginUpdate(c))
             \/ Return \/ Crash \/ Restart \/ RestartFails \/ UNCHANGED vars
    BY <1>1, <1>8 DEF BeginDeregister, BeginUpdate, Return, Crash, Restart, RestartFails,
       vars, external
  <1>9. QED
    BY <1>2, <1>3, <1>4, <1>5, <1>6, <1>7, <1>8 DEF Next, Step, RemoveStep, RunStep

(* What a step leaves of a workload that is deployed: its files, its pod,  *)
(* its service, its chain, and the records a restart reads or a new record *)
(* that has it.                                                            *)
Kept(n) ==
    /\ manifest'[DirOf[n]] = manifest[DirOf[n]] /\ authFile'[DirOf[n]] = authFile[DirOf[n]]
    /\ nameToId'[n] = nameToId[n] /\ pods'[nameToId[n]] = pods[nameToId[n]]
    /\ services'[n] = services[n]
    /\ n \in units => n \in units'
    /\ n \in chains => n \in chains'
    /\ \/ mappingFile' \in {mappingFile, Garbled}
       \/ mappingFile' # None /\ mappingFile'[nameToId[n]] = n
    /\ \/ servicesFile' \in {servicesFile, Garbled}
       \/ servicesFile' # None /\ n \in servicesFile'

(* A workload of which all that is kept stays deployed and recorded.       *)
LEMMA KeptStays ==
    ASSUME NEW n \in Names, Deployed(n), Recorded(n), Kept(n)
    PROVE  Deployed(n)' /\ Recorded(n)'
  <1>1. Deployed(n)'
    BY DEF Kept, Deployed
  <1>2. Recorded(n)'
    BY DEF Kept, Recorded
  <1>3. QED
    BY <1>1, <1>2

(* The mapping has a deployed workload under its own identity.             *)
LEMMA DeployedId ==
    ASSUME IInv, NEW n \in Names, Deployed(n)
    PROVE  /\ n \in AllNames /\ DirOf[n] \in Dirs
           /\ nameToId[n] \in PodIds /\ idToName[nameToId[n]] = n
           /\ \A m \in AllNames : m # n => nameToId[m] # nameToId[n]
  <1>1. n \in AllNames /\ DirOf[n] \in Dirs
    BY DirsAssumption DEF AllNames
  <1>2. nameToId[n] \in PodIds /\ idToName[nameToId[n]] = n
    BY <1>1 DEF Deployed, IInv, TypesOK, MemoryOK, MappingInv, MappingsInverse
  <1>3. ASSUME NEW m \in AllNames, nameToId[m] = nameToId[n] PROVE m = n
    BY <1>2, <1>3, NoneAssumption DEF IInv, MappingInv, MappingsInverse
  <1>4. QED
    BY <1>1, <1>2, <1>3

(* Every step keeps the files truthful.                                    *)
LEMMA NextTruth == IInv /\ StageInv /\ StaleInv /\ TruthInv /\ [Next]_vars => TruthInv'
  <1> SUFFICES ASSUME IInv, StageInv, StaleInv, TruthInv, [Next]_vars,
                      NEW n \in Names, Truthful(n)'
               PROVE  Deployed(n)' /\ Recorded(n)'
    BY DEF TruthInv
  <1>n. n \in AllNames
    BY DEF AllNames
  <1>k. ASSUME Truthful(n), Deployed(n) => Kept(n) PROVE Deployed(n)' /\ Recorded(n)'
    <2>1. Deployed(n) /\ Recorded(n)
      BY <1>k DEF TruthInv
    <2>2. QED
      BY <1>k, <2>1, KeptStays
  <1>u. CASE UNCHANGED <<disk, external, memory, unfinished>>
    <2>1. Truthful(n)
      BY <1>u DEF Truthful, disk
    <2>2. Kept(n)
      BY <1>u DEF Kept, disk, external, memory
    <2>3. QED
      BY <1>k, <2>1, <2>2
  <1>d. CASE op = "deregister" /\ unfinished' = unfinished
    BY <1>d, <1>n DEF StageInv, Truthful
  <1>1. CASE (\E c \in Configs : BeginUpdate(c)) \/ Return \/ RestartFails \/ UNCHANGED vars
    BY <1>u, <1>1 DEF BeginUpdate, Return, RestartFails, vars
  <1>2. CASE BeginDeregister
    BY <1>2, <1>n DEF BeginDeregister, Truthful
  <1>3. CASE removeServiceAbsent \/ removeServicePanics
    BY <1>u, <1>3 DEF removeServiceAbsent, removeServicePanics
  <1>4. CASE removeServiceLive
    <2>1. n # cur /\ Truthful(n) /\ cur \in AllNames
      BY <1>4, CurName DEF removeServiceLive, Truthful, StageInv, RemovePCs
    <2>2. ASSUME Deployed(n) PROVE Kept(n)
      <3>1. /\ UNCHANGED <<manifest, authFile, mappingFile, pods, chains, nameToId>>
            /\ units' \in {units, units \ {cur}}
            /\ services' \in {services, [services EXCEPT ![cur] = "none"]}
            /\ \/ servicesFile' \in {servicesFile, Garbled}
               \/ servicesFile' = {m \in AllNames : services'[m] # "none"}
        BY <1>4 DEF removeServiceLive, WriteFails, WriteServices, external
      <3>2. services'[n] = services[n] /\ services[n] # "none"
        BY <2>1, <2>2, <3>1, <1>n DEF Deployed, IInv, TypesOK, MemoryOK
      <3>3. n \in units => n \in units'
        BY <2>1, <3>1
      <3>4. \/ servicesFile' \in {servicesFile, Garbled}
            \/ servicesFile' # None /\ n \in servicesFile'
        BY <3>1, <3>2, <1>n, FilesAssumption
      <3>5. QED
        BY <3>1, <3>2, <3>3, <3>4 DEF Kept
    <2>3. QED
      BY <1>k, <2>1, <2>2
  <1>5. CASE RemovePod
    <2>1. n # cur /\ Truthful(n) /\ cur \in AllNames /\ cur \in unfinished
      BY <1>5, CurName DEF RemovePod, Truthful, StageInv, RemovePCs, disk
    <2>2. ASSUME Deployed(n) PROVE nameToId[n] \notin PodsOf(cur)
      <3>1. CASE nameToId[cur] # None
        BY <2>1, <2>2, <3>1, DeployedId DEF PodsOf
      <3>2. CASE nameToId[cur] = None
        <4>1. SUFFICES ASSUME PodmanName[pods[nameToId[n]].manifest.name] = cur PROVE FALSE
          BY <3>2 DEF PodsOf
        <4>2. cur = PodmanName[n] /\ cur \in PodNames
          BY <4>1, <2>1, <2>2, NamesAssumption DEF Deployed, Truthful
        <4>3. op # "deploy"
          <5>1. ASSUME op = "deploy" PROVE cur \in Names
            BY <1>5, <5>1, ConfiguredType DEF RemovePod, IInv, CurInv, RemovePCs, TypesOK
          <5>2. QED
            BY <4>2, <5>1, ApartAssumption
        <4>4. op # "stale"
          BY <1>5, <2>1, <4>2 DEF StaleInv, Left, RemovePod
        <4>5. op # "deregister"
          BY <1>n, <2>1 DEF StageInv, Truthful
        <4>6. QED
          BY <1>5, <4>3, <4>4, <4>5 DEF RemovePod, StageInv, RemovePCs, IInv, TypesOK, ControlOK, Ops
      <3>3. QED
        BY <3>1, <3>2
    <2>3. ASSUME Deployed(n) PROVE Kept(n)
      <3>1. /\ UNCHANGED <<disk, chains, memory>>
            /\ \/ pods' = pods
               \/ pods' = [i \in PodIds |-> IF i \in PodsOf(cur) THEN None ELSE pods[i]]
        BY <1>5 DEF RemovePod
      <3>2. pods'[nameToId[n]] = pods[nameToId[n]]
        BY <2>2, <2>3, <3>1, DeployedId
      <3>3. QED
        BY <3>1, <3>2 DEF Kept, disk, memory
    <2>4. QED
      BY <1>k, <2>1, <2>3
  <1>6. CASE DeleteChain
    <2>1. n # cur /\ Truthful(n)
      BY <1>6 DEF DeleteChain, Truthful, StageInv, RemovePCs, disk
    <2>2. Kept(n)
      BY <1>6, <2>1 DEF DeleteChain, Kept, disk, memory
    <2>3. QED
      BY <1>k, <2>1, <2>2
  <1>7. CASE RemoveMapping
    <2>1. n # cur /\ Truthful(n) /\ cur \in AllNames
      BY <1>7, CurName DEF RemoveMapping, Truthful, StageInv, RemovePCs
    <2>2. ASSUME Deployed(n) PROVE Kept(n)
      <3>1. /\ UNCHANGED <<manifest, authFile, servicesFile, units, pods, chains, services>>
            /\ idToName' = [i \in PodIds |-> IF i = nameToId[cur] THEN None ELSE idToName[i]]
            /\ nameToId' = [nameToId EXCEPT ![cur] = None]
            /\ mappingFile' \in {mappingFile, Garbled, idToName'}
        BY <1>7 DEF RemoveMapping, WriteFails, external
      <3>2. nameToId'[n] = nameToId[n]
        BY <2>1, <3>1, <1>n DEF IInv, TypesOK, MemoryOK
      <3>3. idToName' # None
        <4>1. idToName' \in IdMap
          BY <3>1 DEF IdMap, IInv, TypesOK, MemoryOK
        <4>2. QED
          BY <4>1, FilesAssumption
      <3>4. idToName'[nameToId[n]] = n
        BY <2>1, <2>2, <3>1, DeployedId
      <3>5. QED
        BY <3>1, <3>2, <3>3, <3>4 DEF Kept
    <2>3. QED
      BY <1>k, <2>1, <2>2
  <1>8. CASE applyNetworkConfiguration
    <2>1. Truthful(n)
      BY <1>8 DEF applyNetworkConfiguration, Truthful, disk
    <2>2. Kept(n)
      BY <1>8 DEF applyNetworkConfiguration, Kept, disk, memory
    <2>3. QED
      BY <1>k, <2>1, <2>2
  <1>9. CASE RunPod
    <2>1. Truthful(n)
      BY <1>9 DEF RunPod, Truthful, disk
    <2>2. ASSUME Deployed(n) PROVE Kept(n)
      <3>1. /\ UNCHANGED <<disk, chains, memory>>
            /\ \/ pods' = pods
               \/ (\E i \in PodIds : Fresh(i)) /\ pods' = [pods EXCEPT ![FreshId] = PodOf(cur)]
        BY <1>9 DEF RunPod, PodOf
      <3>2. pods'[nameToId[n]] = pods[nameToId[n]]
        <4>1. CASE \E i \in PodIds : Fresh(i)
          <5>1. FreshId \in PodIds /\ idToName[FreshId] = None
            BY <4>1, FreshIdType DEF Fresh
          <5>2. nameToId[n] \in PodIds /\ nameToId[n] # FreshId
            BY <2>2, <5>1, <1>n, DeployedId, NoneAssumption
          <5>3. QED
            BY <3>1, <5>1, <5>2 DEF IInv, TypesOK, ExternalOK
        <4>2. QED
          BY <3>1, <4>1
      <3>3. QED
        BY <3>1, <3>2 DEF Kept, disk, memory
    <2>3. QED
      BY <1>k, <2>1, <2>2
  <1>10. CASE AddMapping
    <2>1. n # cur /\ Truthful(n) /\ cur \in AllNames /\ podId \in PodIds /\ idToName[podId] = None
      BY <1>10, CurName DEF AddMapping, Truthful, StageInv, RunPCs, IInv, MappingInv, RunInv
    <2>2. ASSUME Deployed(n) PROVE Kept(n)
      <3>1. /\ UNCHANGED <<manifest, authFile, servicesFile, units, pods, chains, services>>
            /\ idToName' = [idToName EXCEPT ![podId] = cur]
            /\ nameToId' = [nameToId EXCEPT ![cur] = podId]
            /\ mappingFile' \in {mappingFile, Garbled, idToName'}
        BY <1>10 DEF AddMapping, WriteFails, external
      <3>2. nameToId'[n] = nameToId[n]
        BY <2>1, <3>1, <1>n DEF IInv, TypesOK, MemoryOK
      <3>3. idToName' # None
        <4>1. idToName' \in IdMap
          BY <2>1, <3>1 DEF IdMap, IInv, TypesOK, MemoryOK
        <4>2. QED
          BY <4>1, FilesAssumption
      <3>4. idToName'[nameToId[n]] = n
        <4>1. nameToId[n] \in PodIds /\ nameToId[n] # podId /\ idToName[nameToId[n]] = n
          BY <2>1, <2>2, <1>n, DeployedId, NoneAssumption
        <4>2. QED
          BY <2>1, <3>1, <4>1 DEF IInv, TypesOK, MemoryOK, IdMap
      <3>5. QED
        BY <3>1, <3>2, <3>3, <3>4 DEF Kept
    <2>3. QED
      BY <1>k, <2>1, <2>2
  <1>11. CASE createService
    <2>1. Truthful(n)
      BY <1>11 DEF createService, Truthful
    <2>2. Kept(n)
      BY <1>11 DEF createService, Kept, external, memory
    <2>3. QED
      BY <1>k, <2>1, <2>2
  <1>12. CASE AddService
    <2>1. /\ UNCHANGED <<manifest, authFile, mappingFile, units, pods, chains, nameToId>>
          /\ services' = [services EXCEPT ![cur] = "live"]
          /\ cur \in AllNames /\ cur \in unfinished
      BY <1>12, CurName DEF AddService, StageInv, RunPCs, external
    <2>2. services'[cur] = "live" /\ \A m \in AllNames : m # cur => services'[m] = services[m]
      BY <2>1 DEF IInv, TypesOK, MemoryOK
    <2>3. servicesFile' = {m \in AllNames : services'[m] # "none"}
             \/ (servicesFile' \in {servicesFile, Garbled} /\ unfinished' = unfinished)
      BY <1>12 DEF AddService, WriteServices, WriteFails
    <2>4. CASE n = cur
      <3>1. servicesFile' = {m \in AllNames : services'[m] # "none"}
        BY <2>1, <2>3, <2>4 DEF Truthful
      <3>2. servicesFile' # None /\ n \in servicesFile'
        BY <2>1, <2>2, <2>4, <3>1, FilesAssumption
      <3>3. /\ nameToId[n] # None /\ pods[nameToId[n]] = PodOf(n) /\ n \in units
            /\ mappingFile # None /\ mappingFile[nameToId[n]] = n
            /\ manifest[DirOf[n]].spec \in WithPorts => n \in chains
        BY <1>12, <2>4 DEF AddService, StageInv, RunPCs
      <3>4. Deployed(n)'
        BY <2>1, <2>2, <2>4, <3>3 DEF Deployed, PodOf
      <3>5. Recorded(n)'
        BY <2>1, <3>2, <3>3 DEF Recorded
      <3>6. QED
        BY <3>4, <3>5
    <2>5. CASE n # cur
      <3>1. Truthful(n)
        BY <1>12, <2>5 DEF AddService, Truthful
      <3>2. ASSUME Deployed(n) PROVE Kept(n)
        <4>1. \/ servicesFile' \in {servicesFile, Garbled}
              \/ servicesFile' # None /\ n \in servicesFile'
          BY <2>2, <2>3, <2>5, <3>2, <1>n, FilesAssumption DEF Deployed
        <4>2. QED
          BY <2>1, <2>2, <2>5, <4>1, <1>n DEF Kept
      <3>3. QED
        BY <1>k, <3>1, <3>2
    <2>6. QED
      BY <2>4, <2>5
  <1>13. CASE \/ (\E m \in Names : PrepareFails(m) \/ SkipUnchanged(m) \/ Deploy(m))
              \/ indexWorkloads \/ EndUpdate
    BY <1>u, <1>13 DEF PrepareFails, SkipUnchanged, Deploy, indexWorkloads, EndUpdate
  <1>14. CASE StoreManifest
    <2>1. /\ UNCHANGED <<authFile, mappingFile, servicesFile, units, external, memory>>
          /\ cur \in AllNames /\ DirOf[cur] \in Dirs
      BY <1>14, CurName DEF StoreManifest
    <2>2. CASE n = cur
      <3>1. /\ unfinished' = unfinished
            /\ \E m \in {manifest[DirOf[cur]], None} :
                 manifest' = [manifest EXCEPT ![DirOf[cur]] = m]
        BY <1>14, <2>2 DEF StoreManifest, Truthful
      <3>2. manifest'[DirOf[n]] = manifest[DirOf[n]]
        BY <2>1, <2>2, <3>1 DEF Truthful, IInv, TypesOK, DiskOK
      <3>3. Truthful(n)
        BY <3>1, <3>2 DEF Truthful
      <3>4. Kept(n)
        BY <2>1, <3>2 DEF Kept, external, memory
      <3>5. QED
        BY <1>k, <3>3, <3>4
    <2>3. CASE n # cur
      <3>1. \E m : manifest' = [manifest EXCEPT ![DirOf[cur]] = m]
        BY <1>14 DEF StoreManifest
      <3>2. manifest'[DirOf[n]] = manifest[DirOf[n]]
        BY <2>1, <2>3, <3>1, OtherDir DEF IInv, TypesOK, DiskOK
      <3>3. Truthful(n)
        BY <1>14, <3>2 DEF StoreManifest, Truthful
      <3>4. Kept(n)
        BY <2>1, <3>2 DEF Kept, external, memory
      <3>5. QED
        BY <1>k, <3>3, <3>4
    <2>4. QED
      BY <2>2, <2>3
  <1>15. CASE manageAuthFile
    <2>1. n # cur /\ Truthful(n) /\ cur \in AllNames
      BY <1>15, CurName DEF manageAuthFile, Truthful, StageInv
    <2>2. /\ UNCHANGED <<manifest, mappingFile, servicesFile, units, external, memory>>
          /\ \E f : authFile' = [authFile EXCEPT ![DirOf[cur]] = f]
      BY <1>15 DEF manageAuthFile
    <2>3. authFile'[DirOf[n]] = authFile[DirOf[n]]
      BY <2>1, <2>2, OtherDir DEF IInv, TypesOK, DiskOK
    <2>4. Kept(n)
      BY <2>2, <2>3 DEF Kept, external, memory
    <2>5. QED
      BY <1>k, <2>1, <2>4
  <1>16. ASSUME NEW m \in AllNames, RemoveStale(m) PROVE Deployed(n)' /\ Recorded(n)'
    <2>1. /\ UNCHANGED <<mappingFile, servicesFile, units, external, memory>>
          /\ manifest' \in {manifest, [manifest EXCEPT ![DirOf[m]] = None]}
          /\ authFile' \in {authFile, [authFile EXCEPT ![DirOf[m]] = None]}
          /\ unfinished' = unfinished \cup {m}
      BY <1>16 DEF RemoveStale
    <2>2. n # m
      BY <2>1 DEF Truthful
    <2>3. manifest'[DirOf[n]] = manifest[DirOf[n]] /\ authFile'[DirOf[n]] = authFile[DirOf[n]]
      BY <2>1, <2>2, OtherDir DEF IInv, TypesOK, DiskOK
    <2>4. Truthful(n)
      BY <2>1, <2>3 DEF Truthful
    <2>5. Kept(n)
      BY <2>1, <2>3 DEF Kept, external, memory
    <2>6. QED
      BY <1>k, <2>4, <2>5
  <1>17. ASSUME NEW m \in AllNames, removeAllWorkloads(m) PROVE Deployed(n)' /\ Recorded(n)'
    BY <1>u, <1>17 DEF removeAllWorkloads
  <1>18. CASE allWorkloadsRemoved
    BY <1>u, <1>18 DEF allWorkloadsRemoved
  <1>19. CASE deleteDirs \/ deleteTable \/ deleteVolumeDir \/ removeMappingFile \/ removeServicesFile
    <2>1. pc \in CleanPCs /\ unfinished' = unfinished
      BY <1>19 DEF deleteDirs, deleteTable, deleteVolumeDir, removeMappingFile,
         removeServicesFile, CleanUp, CleanPCs
    <2>2. QED
      BY <1>d, <2>1 DEF StageInv
  <1>20. CASE Crash
    <2>1. /\ UNCHANGED <<units, external, memory, unfinished>>
          /\ mappingFile' \in {mappingFile, Garbled} /\ servicesFile' \in {servicesFile, Garbled}
      BY <1>20 DEF Crash, Interrupted
    <2>2. manifest'[DirOf[n]] = manifest[DirOf[n]]
      <3>1. CASE manifest' = manifest
        BY <3>1
      <3>2. CASE pc = "store" /\ manifest' = [manifest EXCEPT ![DirOf[cur]] = None]
        <4>1. cur \in AllNames /\ DirOf[cur] \in Dirs
          BY <3>2, CurName
        <4>2. n # cur
          BY <3>2, <4>1 DEF Truthful, IInv, TypesOK, DiskOK
        <4>3. QED
          BY <3>2, <4>1, <4>2, OtherDir DEF IInv, TypesOK, DiskOK
      <3>3. QED
        BY <1>20, <3>1, <3>2 DEF Crash
    <2>3. Truthful(n)
      BY <2>1, <2>2 DEF Truthful
    <2>4. authFile'[DirOf[n]] = authFile[DirOf[n]]
      <3>1. CASE authFile' = authFile
        BY <3>1
      <3>2. CASE pc = "auth" /\ authFile' = [authFile EXCEPT ![DirOf[cur]] = None]
        <4>1. cur \in AllNames /\ n # cur
          BY <2>3, <3>2, CurName DEF Truthful, StageInv
        <4>2. QED
          BY <3>2, <4>1, OtherDir DEF IInv, TypesOK, DiskOK
      <3>3. QED
        BY <1>20, <3>1, <3>2 DEF Crash
    <2>5. Kept(n)
      BY <2>1, <2>2, <2>4 DEF Kept, external, memory
    <2>6. QED
      BY <1>k, <2>3, <2>5
  <1>21. CASE Restart
    <2>1. /\ UNCHANGED <<disk, external, unfinished>> /\ mappingFile # Garbled /\ servicesFile # Garbled
      BY <1>21 DEF Restart
    <2>2. Deployed(n) /\ Recorded(n)
      BY <2>1 DEF Truthful, TruthInv, disk
    <2>3. /\ mappingFile # None /\ mappingFile[nameToId[n]] = n
          /\ servicesFile # None /\ n \in servicesFile
      BY <2>1, <2>2 DEF Recorded
    <2>4. idToName' = mappingFile /\ services'[n] = "loaded"
      BY <1>21, <2>3, <1>n DEF Restart
    <2>5. nameToId[n] \in PodIds /\ idToName'[nameToId[n]] = n
      BY <2>2, <2>3, <2>4, DeployedId
    <2>6. nameToId'[n] # None /\ nameToId'[n] \in PodIds \cup {None} /\ idToName'[nameToId'[n]] = n
      BY <1>21, <2>5, <1>n DEF Restart
    <2>7. nameToId'[n] = nameToId[n]
      BY <2>1, <2>3, <2>4, <2>5, <2>6, <1>n, NoneAssumption DEF IInv, MappingInv, FileInv
    <2>8. Deployed(n)'
      BY <2>1, <2>2, <2>4, <2>7 DEF Deployed, disk, external
    <2>9. Recorded(n)'
      BY <2>1, <2>2, <2>7 DEF Recorded, disk
    <2>10. QED
      BY <2>8, <2>9
  <1>22. QED
    BY <1>1, <1>2, <1>3, <1>4, <1>5, <1>6, <1>7, <1>8, <1>9, <1>10, <1>11, <1>12, <1>13,
       <1>14, <1>15, <1>16, <1>17, <1>18, <1>19, <1>20, <1>21
    DEF Next, Step, RemoveStep, RunStep, UpdateStep, DeregisterStep

(* A name that Update finds to be stale is not podman's name for the pod   *)
(* of a deployed workload, and none becomes so before it is removed.       *)
LEMMA NextStale ==
    IInv /\ NamedInv /\ StageInv /\ UniqueInv /\ TruthInv /\ StaleInv /\ [Next]_vars => StaleInv'
  <1> SUFFICES ASSUME IInv, NamedInv, StageInv, UniqueInv, TruthInv, StaleInv, [Next]_vars,
                      op' = "stale",
                      NEW n \in Names, Truthful(n)'
               PROVE  PodmanName[n] \notin Left'
    BY DEF StaleInv
  <1>1. CASE op = "stale" /\ Truthful(n) /\ Left' \subseteq Left
    BY <1>1 DEF StaleInv
  <1>2. CASE indexWorkloads /\ op = "deploy"
    <2>1. Truthful(n) /\ todo' = List \ Configured /\ pc' = "loop"
      BY <1>2 DEF indexWorkloads, Truthful, disk, Continue
    <2>2. Deployed(n)
      BY <2>1 DEF TruthInv
    <2>3. nameToId[n] \in PodIds /\ idToName[nameToId[n]] = n
      BY <2>2, DeployedId
    <2>4. Live(nameToId[n]) /\ pods[nameToId[n]].manifest.name = n
      <3>1. pods[nameToId[n]].manifest.name = n
        BY <2>1, <2>2 DEF Deployed, Truthful
      <3>2. pods[nameToId[n]] \in Pod
        <4>1. manifest[DirOf[n]] \in Manifest /\ authFile[DirOf[n]] \in AuthFiles \cup {None}
          BY <2>1, <2>2, DeployedId DEF Truthful, IInv, TypesOK, DiskOK
        <4>2. QED
          BY <2>2, <4>1, PodType DEF Deployed
      <3>3. QED
        BY <3>1, <3>2, FilesAssumption DEF Live
    <2>5. ASSUME NEW i \in PodIds, Live(i), ListedName(i) = PodmanName[n] PROVE FALSE
      <3>1. CASE idToName[i] # None
        BY <2>5, <3>1, NamesAssumption, ApartAssumption DEF ListedName, NamedInv
      <3>2. CASE idToName[i] = None
        <4>1. pods[i].manifest.name \in Names
          BY <2>5 DEF Live, IInv, TypesOK, ExternalOK, Pod, Manifest
        <4>2. pods[i].manifest.name = n
          BY <2>5, <3>2, <4>1, NamesAssumption DEF ListedName
        <4>3. i = nameToId[n]
          BY <2>3, <2>4, <2>5, <4>2 DEF UniqueInv
        <4>4. QED
          BY <2>3, <3>2, <4>3, NoneAssumption DEF AllNames
      <3>3. QED
        BY <3>1, <3>2
    <2>6. PodmanName[n] \notin List
      BY <2>5 DEF List
    <2>7. QED
      BY <2>1, <2>6 DEF Left
  <1>3. CASE removeServiceAbsent \/ removeServicePanics
    BY <1>1, <1>3 DEF removeServiceAbsent, removeServicePanics, Truthful, Left, disk
  <1>4. CASE removeServiceLive
    BY <1>1, <1>4 DEF removeServiceLive, Truthful, Left, RemoveFails, ContinueWithError
  <1>5. CASE RemovePod \/ DeleteChain \/ RemoveMapping
    <2>1. op' = op /\ todo' = todo /\ cur' = cur /\ pc \in {"rmPod", "rmChain", "rmMapping"}
          /\ UNCHANGED <<manifest, unfinished>>
      BY <1>5 DEF RemovePod, DeleteChain, RemoveMapping, disk
    <2>2. pc' \in {"loop", "rmChain", "rmMapping", "runNetwork"}
      BY <1>5 DEF RemovePod, DeleteChain, RemoveMapping, RemoveFails, ContinueWithError
    <2>3. QED
      BY <1>1, <2>1, <2>2 DEF Truthful, Left
  <1>6. CASE RunStep \/ StoreManifest \/ manageAuthFile
    <2>1. op' = op /\ pc \in {"store", "auth"} \cup RunPCs
      BY <1>6 DEF RunStep, applyNetworkConfiguration, RunPod, AddMapping, createService, AddService,
         StoreManifest, manageAuthFile, RunPCs
    <2>2. QED
      BY <2>1, CurName
  <1>7. CASE \E m \in Names : PrepareFails(m) \/ SkipUnchanged(m) \/ Deploy(m)
    BY <1>7 DEF PrepareFails, SkipUnchanged, Deploy
  <1>8. CASE indexWorkloads
    BY <1>2, <1>8 DEF indexWorkloads
  <1>9. ASSUME NEW m \in AllNames, RemoveStale(m) PROVE PodmanName[n] \notin Left'
    <2>1. /\ pc = "loop" /\ op = "stale" /\ m \in todo /\ todo' = todo \ {m} /\ cur' = m
          /\ manifest' \in {manifest, [manifest EXCEPT ![DirOf[m]] = None]}
          /\ unfinished' = unfinished \cup {m}
      BY <1>9 DEF RemoveStale
    <2>2. n # m
      BY <2>1 DEF Truthful
    <2>3. manifest'[DirOf[n]] = manifest[DirOf[n]]
      BY <2>1, <2>2, OtherDir DEF IInv, TypesOK, DiskOK
    <2>4. Truthful(n)
      BY <2>1, <2>3 DEF Truthful
    <2>5. QED
      BY <1>1, <2>1, <2>4 DEF Left
  <1>10. CASE EndUpdate \/ RestartFails
    BY <1>1, <1>10 DEF EndUpdate, RestartFails, Truthful, Left, disk
  <1>11. CASE DeregisterStep
    BY <1>11 DEF DeregisterStep, removeAllWorkloads, allWorkloadsRemoved, deleteDirs, deleteTable,
       deleteVolumeDir, removeMappingFile, removeServicesFile, CleanUp, CleanPCs, StageInv
  <1>12. CASE (\E c \in Configs : BeginUpdate(c)) \/ BeginDeregister \/ Return \/ Crash \/ Restart
    BY <1>12 DEF BeginUpdate, BeginDeregister, Return, Crash, Restart, ClearOperation
  <1>13. CASE UNCHANGED vars
    BY <1>1, <1>13 DEF vars, control, disk, Truthful, Left
  <1>14. QED
    BY <1>3, <1>4, <1>5, <1>6, <1>7, <1>8, <1>9, <1>10, <1>11, <1>12, <1>13
    DEF Next, Step, RemoveStep, UpdateStep

(* Every step keeps the files of the configured workloads as configured.   *)
LEMMA NextUpdate == IInv /\ StageInv /\ UpdateInv /\ [Next]_vars => UpdateInv'
  <1> SUFFICES ASSUME IInv, StageInv, UpdateInv, [Next]_vars PROVE UpdateInv'
    OBVIOUS
  <1>c. UNCHANGED conf => Configured' = Configured
    BY DEF Configured
  <1>m. ASSUME NEW n, UNCHANGED conf, manifest'[DirOf[n]] = manifest[DirOf[n]],
               authFile'[DirOf[n]] = authFile[DirOf[n]]
        PROVE  podConfigurationModified(n)' = podConfigurationModified(n)
    BY <1>m DEF podConfigurationModified, toPodYaml
  <1>u. CASE /\ UNCHANGED <<manifest, authFile, conf, op>> /\ (errors => errors')
             /\ Pending \subseteq Pending' /\ todo' \subseteq todo
    BY <1>u, <1>c, <1>m DEF UpdateInv
  <1>e. CASE op' \notin {"deploy", "stale"}
    BY <1>e DEF UpdateInv
  <1>1. ASSUME NEW c \in Configs, BeginUpdate(c) PROVE UpdateInv'
    <2>1. op' = "deploy" /\ todo' = Configured' /\ pc' \in {"loop", "done"}
      BY <1>1 DEF BeginUpdate, Configured
    <2>2. QED
      BY <2>1 DEF UpdateInv, Pending
  <1>2. CASE BeginDeregister \/ Return \/ Crash \/ Restart
    BY <1>2, <1>e DEF BeginDeregister, Return, Crash, Restart, ClearOperation
  <1>3. CASE RemoveStep
    <2>1. UNCHANGED <<manifest, authFile, conf, op, todo>> /\ (errors => errors')
      BY <1>3 DEF RemoveStep, removeServiceAbsent, removeServicePanics, removeServiceLive,
         RemovePod, DeleteChain, RemoveMapping, RemoveFails, ContinueWithError, disk
    <2>2. pc \in RemovePCs
      BY <1>3 DEF RemoveStep, removeServiceAbsent, removeServicePanics, removeServiceLive,
         RemovePod, DeleteChain, RemoveMapping, RemovePCs
    <2>3. QED
      BY <1>u, <2>1, <2>2 DEF Pending, RemovePCs
  <1>4. CASE RunStep
    <2>1. UNCHANGED <<manifest, authFile, conf, op, todo>> /\ (errors => errors')
      BY <1>4 DEF RunStep, applyNetworkConfiguration, RunPod, AddMapping, createService,
         AddService, RunFails, ContinueWithError, Continue, disk
    <2>2. pc \in RunPCs
      BY <1>4 DEF RunStep, applyNetworkConfiguration, RunPod, AddMapping, createService,
         AddService, RunPCs
    <2>3. QED
      BY <1>u, <2>1, <2>2 DEF Pending, RunPCs
  <1>5. ASSUME NEW m \in Names, PrepareFails(m) PROVE UpdateInv'
    BY <1>5 DEF PrepareFails, ContinueWithError, UpdateInv
  <1>6. ASSUME NEW m \in Names, SkipUnchanged(m) PROVE UpdateInv'
    <2>1. /\ UNCHANGED <<manifest, authFile, conf, op, errors>> /\ op = "deploy"
          /\ pc = "loop" /\ pc' = "loop" /\ todo' = todo \ {m} /\ ~podConfigurationModified(m)
      BY <1>6 DEF SkipUnchanged, Continue, disk
    <2>2. QED
      BY <2>1, <1>c, <1>m DEF UpdateInv, Pending
  <1>7. ASSUME NEW m \in Names, Deploy(m) PROVE UpdateInv'
    <2>1. /\ UNCHANGED <<manifest, authFile, conf, op, errors>> /\ op = "deploy"
          /\ pc = "loop" /\ pc' = "store" /\ todo' = todo \ {m} /\ cur' = m
      BY <1>7 DEF Deploy, disk
    <2>2. QED
      BY <1>u, <2>1 DEF Pending
  <1>8. CASE StoreManifest
    <2>1. /\ UNCHANGED <<authFile, conf, op, todo, cur>> /\ pc = "store" /\ op = "deploy"
          /\ cur \in AllNames
          /\ \E v : manifest' = [manifest EXCEPT ![DirOf[cur]] = v]
          /\ errors' = TRUE \/ (pc' = "auth" /\ errors' = errors)
      BY <1>8, CurName DEF StoreManifest, ContinueWithError
    <2>2. ASSUME NEW n \in Configured, n # cur PROVE manifest'[DirOf[n]] = manifest[DirOf[n]]
      BY <2>1, <2>2, OtherDir DEF Configured, IInv, TypesOK, DiskOK
    <2>3. QED
      BY <2>1, <2>2, <1>c, <1>m DEF UpdateInv, Pending
  <1>9. CASE manageAuthFile
    <2>1. /\ UNCHANGED <<manifest, conf, op, todo, cur>> /\ pc = "auth" /\ op = "deploy"
          /\ cur \in AllNames /\ DirOf[cur] \in Dirs
          /\ \E v : authFile' = [authFile EXCEPT ![DirOf[cur]] = v]
      BY <1>9, CurName DEF manageAuthFile
    <2>2. \/ errors' = TRUE
          \/ /\ pc' = "rmService" /\ errors' = errors
             /\ authFile' = [authFile EXCEPT ![DirOf[cur]] = conf[cur].auth]
      BY <1>9 DEF manageAuthFile, ContinueWithError
    <2>3. ASSUME NEW n \in Configured, n # cur PROVE authFile'[DirOf[n]] = authFile[DirOf[n]]
      BY <2>1, <2>3, OtherDir DEF Configured, IInv, TypesOK, DiskOK
    <2>4. ASSUME ~errors' PROVE ~podConfigurationModified(cur)'
      <3>1. manifest[DirOf[cur]] = toPodYaml(cur, conf[cur])
        BY <2>1 DEF IInv, CurInv
      <3>2. authFile'[DirOf[cur]] = conf[cur].auth
        BY <2>1, <2>2, <2>4 DEF IInv, TypesOK, DiskOK
      <3>3. QED
        BY <2>1, <3>1, <3>2 DEF podConfigurationModified, toPodYaml
    <2>5. QED
      BY <2>1, <2>2, <2>3, <2>4, <1>c, <1>m DEF UpdateInv, Pending
  <1>10. CASE indexWorkloads
    <2>1. /\ UNCHANGED <<manifest, authFile, conf>> /\ pc = "loop" /\ op = "deploy" /\ todo = {}
          /\ \/ op' = "stale" /\ todo' = List \ Configured /\ errors' = errors
             \/ op' = op /\ errors' = TRUE
      BY <1>10 DEF indexWorkloads, Continue, disk
    <2>2. QED
      BY <2>1, <1>c, <1>m DEF UpdateInv, Pending
  <1>11. ASSUME NEW m \in AllNames, RemoveStale(m) PROVE UpdateInv'
    <2>1. /\ UNCHANGED <<conf, op>> /\ op = "stale" /\ m \in todo /\ todo' = todo \ {m}
          /\ manifest' \in {manifest, [manifest EXCEPT ![DirOf[m]] = None]}
          /\ authFile' \in {authFile, [authFile EXCEPT ![DirOf[m]] = None]}
          /\ (errors => errors')
      BY <1>11 DEF RemoveStale
    <2>2. ASSUME NEW n \in Configured
          PROVE  /\ manifest'[DirOf[n]] = manifest[DirOf[n]]
                 /\ authFile'[DirOf[n]] = authFile[DirOf[n]]
      <3>1. n \in Names /\ m # n
        BY <2>1 DEF UpdateInv, Configured
      <3>2. QED
        BY <2>1, <3>1, OtherDir DEF IInv, TypesOK, DiskOK
    <2>3. QED
      BY <2>1, <2>2, <1>c, <1>m DEF UpdateInv, Pending
  <1>12. CASE EndUpdate \/ RestartFails
    BY <1>u, <1>12 DEF EndUpdate, RestartFails, Pending, disk
  <1>13. CASE DeregisterStep
    BY <1>13, <1>e DEF DeregisterStep, removeAllWorkloads, allWorkloadsRemoved, deleteDirs,
       deleteTable, deleteVolumeDir, removeMappingFile, removeServicesFile, CleanUp, CleanPCs,
       StageInv
  <1>14. CASE UNCHANGED vars
    BY <1>u, <1>14 DEF vars, disk, control, Pending
  <1>15. QED
    BY <1>1, <1>2, <1>3, <1>4, <1>5, <1>6, <1>7, <1>8, <1>9, <1>10, <1>11, <1>12, <1>13, <1>14
    DEF Next, Step, UpdateStep

-----------------------------------------------------------------------------
(* The initial states satisfy the invariants.                              *)
LEMMA InitIInv == Init => IInv /\ DeregInv /\ FaultsOK
  <1> SUFFICES ASSUME Init PROVE IInv /\ DeregInv /\ FaultsOK
    OBVIOUS
  <1>1. TypesOK
    BY DEF Init, NoOperation, NoIds, TypesOK, DiskOK, ExternalOK, MemoryOK, ControlOK,
       PCs, Ops, Config, IdMap
  <1>2. CurInv /\ MappingInv /\ DeregInv
    BY NoneAssumption DEF Init, NoOperation, NoIds, CurInv, MappingInv, RunInv, FileInv,
       MappingsInverse, DeregInv, RemovePCs, RunPCs
  <1>3. FaultsOK
    BY FaultsAssumption DEF Init, FaultsOK
  <1>4. QED
    BY <1>1, <1>2, <1>3 DEF IInv

(* Every step keeps the inductive invariant.                               *)
LEMMA NextIInv == IInv /\ [Next]_vars => IInv'
  BY NextTypes, NextCur, NextMapping DEF IInv

(* All variables of the workload manager, of its repositories and of what  *)
(* it sees of podman, netfilter and systemd keep their types.              *)
THEOREM TypeCorrect == Spec => []TypeOK
  <1>1. IInv /\ FaultsOK => TypeOK
    BY DEF IInv, TypesOK, TypeOK
  <1>2. QED
    BY InitIInv, NextIInv, NextFaults, <1>1, PTL DEF Spec

(* The two maps of the mapping repository are inverse of each other at     *)
(* every moment, whatever write fails and wherever the process dies.       *)
THEOREM MappingConsistent == Spec => []MappingsInverse
  <1>1. IInv => MappingsInverse
    BY DEF IInv, MappingInv
  <1>2. QED
    BY InitIInv, NextIInv, <1>1, PTL DEF Spec

(* Once Deregister has finished, the process makes no pod and no manifest, *)
(* whatever updates are still waiting for managementLock.                  *)
THEOREM DeregisteredIsQuiet == Spec => NothingAfterDeregister
  <1>1. IInv /\ DeregInv /\ [Next]_vars => [CreatesNothing]_vars
    BY StepCreatesNothing DEF IInv
  <1>2. Spec => [][CreatesNothing]_vars
    BY InitIInv, NextIInv, NextDereg, <1>1, PTL DEF Spec
  <1>3. QED
    BY <1>2 DEF NothingAfterDeregister, CreatesNothing

(* The initial states satisfy the invariants of the workloads.             *)
LEMMA InitWorkloads ==
    Init => /\ NamedInv /\ GoneInv /\ StageInv /\ RemainInv /\ CleanInv
            /\ UniqueInv /\ StaleInv /\ TruthInv /\ UpdateInv
  <1> SUFFICES ASSUME Init
               PROVE  /\ NamedInv /\ GoneInv /\ StageInv /\ RemainInv /\ CleanInv
                      /\ UniqueInv /\ StaleInv /\ TruthInv /\ UpdateInv
    OBVIOUS
  <1>1. NamedInv /\ GoneInv /\ UniqueInv
    BY DEF Init, NoIds, NamedInv, GoneInv, UniqueInv, Live
  <1>2. StageInv /\ RemainInv /\ CleanInv /\ StaleInv /\ UpdateInv
    BY DEF Init, NoOperation, StageInv, RemainInv, CleanInv, StaleInv, UpdateInv, RemovePCs,
       RunPCs, CleanPCs
  <1>3. TruthInv
    BY DirsAssumption DEF Init, TruthInv, Truthful, AllNames
  <1>4. QED
    BY <1>1, <1>2, <1>3

(* A Deregister that returns no error has removed every pod, mapped or     *)
(* not, and every file a later start would read.                           *)
THEOREM DeregisterCleansUp == Spec => []DeregisterResult
  <1>1. CleanInv => DeregisterResult
    BY DEF CleanInv, DeregisterResult
  <1>2. QED
    BY <1>1, InitIInv, InitWorkloads, NextIInv, NextNamed, NextGone, NextStage, NextRemain,
       NextClean, PTL DEF Spec

(* Files that name a workload tell the truth about podman, systemd and     *)
(* netfilter, except for names whose last deployment or removal was cut    *)
(* short or failed, across write failures, crashes and restarts: what      *)
(* Update skips is deployed as configured.                                 *)
THEOREM FilesTruthful == Spec => []ManifestTruthful
  <1>1. TruthInv => ManifestTruthful
    BY DEF TruthInv, ManifestTruthful, Truthful
  <1>2. QED
    BY <1>1, InitIInv, InitWorkloads, NextIInv, NextNamed, NextStage, NextUnique, NextStale,
       NextTruth, PTL DEF Spec

(* An Update that returns no error leaves no pod that is not configured,   *)
(* and every configured workload deployed as configured or left over from  *)
(* an attempt that reported its failure or was cut short.                  *)
THEOREM UpdateApplies == Spec => []UpdateResult
  <1>1. IInv /\ RemainInv /\ UpdateInv /\ TruthInv => UpdateResult
    <2> SUFFICES ASSUME IInv, RemainInv, UpdateInv, TruthInv, pc = "done", op = "stale", ~errors
                 PROVE  /\ \A i \in PodIds : Live(i) => ListedName(i) \in Configured
                        /\ \A n \in Configured :
                              /\ manifest[DirOf[n]] = toPodYaml(n, conf[n])
                              /\ authFile[DirOf[n]] = conf[n].auth
                              /\ n \in unfinished \/ Deployed(n)
      BY DEF UpdateResult
    <2>1. \A i \in PodIds : Live(i) => ListedName(i) \in Configured
      BY DEF RemainInv
    <2>2. ASSUME NEW n \in Configured
          PROVE  /\ manifest[DirOf[n]] = toPodYaml(n, conf[n])
                 /\ authFile[DirOf[n]] = conf[n].auth
      BY DEF UpdateInv, Pending, podConfigurationModified
    <2>3. ASSUME NEW n \in Configured, n \notin unfinished PROVE Deployed(n)
      <3>1. n \in Names /\ conf[n] \in Workload
        BY ConfiguredType DEF IInv, TypesOK
      <3>2. manifest[DirOf[n]] # None
        BY <2>2, <3>1, toPodYamlType, FilesAssumption
      <3>3. manifest[DirOf[n]].name = n
        BY <2>2, toPodYamlName
      <3>4. QED
        BY <2>3, <3>1, <3>2, <3>3 DEF TruthInv, Truthful
    <2>4. QED
      BY <2>1, <2>2, <2>3
  <1>2. QED
    BY <1>1, InitIInv, InitWorkloads, NextIInv, NextNamed, NextGone, NextStage, NextRemain,
       NextUnique, NextStale, NextTruth, NextUpdate, PTL DEF Spec
====
