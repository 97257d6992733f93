---------------------------- MODULE DataTransfer ----------------------------
(***************************************************************************)
(* The data transfer monitor (internal/datatransfer/monitor.go): on every  *)
(* tick the data paths of the workloads there are, and once more those of  *)
(* a workload that was removed, are copied to the storage.  The copying    *)
(* itself (s3/sync.go) succeeds or fails.                                  *)
(***************************************************************************)
CONSTANTS DataWorkloads, Storages, NoStorage, NoTick

VARIABLES
    fsSync,         \* the storage of the last update that had one
    lastSync,       \* lastSuccessfulSyncTimes: the workloads with an entry
    tick,           \* syncPaths: the workloads it has still to copy
    ticker          \* the ticker has not been stopped

transferVars == <<fsSync, lastSync, tick, ticker>>

TransferInit(storage) ==
    /\ fsSync = storage /\ lastSync = {} /\ tick = NoTick /\ ticker = TRUE

(* HasStorageDefined asks the configuration, getFsSync the last update.    *)
CanSync(storage) == storage # NoStorage /\ fsSync # NoStorage

(* syncPaths: the list of workloads, the storage and their paths are read. *)
BeginTick(listed, storage, paths) ==
    /\ ticker /\ tick = NoTick
    /\ CanSync(storage)
    /\ tick' = listed \cap paths
    /\ UNCHANGED <<fsSync, lastSync, ticker>>

(* One of them is copied; its time is stored when every path was.          *)
SyncNext(w) ==
    /\ tick' = tick \ {w}
    /\ lastSync' \in {lastSync, lastSync \cup {w}}
    /\ UNCHANGED <<fsSync, ticker>>

EndTick ==
    /\ tick = {}
    /\ tick' = NoTick
    /\ UNCHANGED <<fsSync, lastSync, ticker>>

(* WorkloadRemoved: syncPathsWorkload, then the entry is deleted.          *)
SyncRemoved(w, storage, paths) ==
    /\ lastSync' \in {lastSync} \cup
           (IF CanSync(storage) /\ w \in paths THEN {lastSync \cup {w}} ELSE {})
    /\ UNCHANGED <<fsSync, tick, ticker>>

ForgetSync(w) ==
    /\ lastSync' = lastSync \ {w}
    /\ UNCHANGED <<fsSync, tick, ticker>>

(* MUTANT of MonitorUpdate: only the first storage is used.                *)
MonitorUpdateOnce(storage) ==
    /\ fsSync' = IF fsSync = NoStorage THEN storage ELSE fsSync
    /\ UNCHANGED <<lastSync, tick, ticker>>

(* Update: a configuration without storage leaves the one there was.       *)
MonitorUpdate(storage) ==
    /\ fsSync' = IF storage = NoStorage THEN fsSync ELSE storage
    /\ UNCHANGED <<lastSync, tick, ticker>>

MonitorDeregister ==
    /\ ticker' = FALSE
    /\ UNCHANGED <<fsSync, lastSync, tick>>

TransferTypeOK ==
    /\ fsSync \in Storages \cup {NoStorage}
    /\ lastSync \subseteq DataWorkloads
    /\ tick \in SUBSET DataWorkloads \cup {NoTick}
    /\ ticker \in BOOLEAN
====
