---------------------------- MODULE WorkloadLogs ----------------------------
(***************************************************************************)
(* The logs of workloads (internal/logs).  A transport is a buffer with a  *)
(* goroutine that sends its lines; a configuration update replaces every   *)
(* transport by a new one and stops none.  A writer is what podman's log   *)
(* goroutine of a workload writes to: the buffer of the transport at the   *)
(* time the workload was started.  The maps have no lock: Update and       *)
(* WorkloadStarted may run at the same time.                               *)
(***************************************************************************)
EXTENDS Naturals

CONSTANTS
    LogWorkloads,
    Transports,     \* keys of LogCollection
    NoWriter

Buffers == Transports \X (Nat \ {0})
Writers == [buffer : Transports \X Nat, cancel : BOOLEAN]
ASSUME NoWriterAssumption == NoWriter \notin Writers
NoTransport == "none"

VARIABLES
    transports,     \* the buffer a key has now; 0: no such transport
    logsConfig,     \* workloadsConfig: the transport of a workload
    wwriter,        \* the buffer of a workload's writer, and if it can be stopped
    readers,        \* <<workload, buffer>>: log goroutines of podman
    leaked,         \* those whose writer was gone before they were started
    created         \* the last buffer created for a key

logVars == <<transports, logsConfig, wwriter, readers, leaked, created>>

Writer(b, stoppable) == [buffer |-> b, cancel |-> stoppable]
BufferOf(t) == <<t, transports[t]>>

(* Init: Update, and WorkloadStarted for the workloads that are listed.    *)
(* The log goroutine is started for those whose pod is found under the     *)
(* workload's name.                                                        *)
LogsInit(keys, config, listing, found) ==
    LET logged == {w \in listing : config[w] \in keys}
        first(w) == <<config[w], 1>>
    IN  /\ created = [t \in Transports |-> 1]
        /\ transports = [t \in Transports |-> IF t \in keys THEN 1 ELSE 0]
        /\ logsConfig = config
        /\ wwriter = [w \in LogWorkloads |->
                         IF w \in logged THEN Writer(first(w), w \in found) ELSE NoWriter]
        /\ readers = {<<w, first(w)>> : w \in logged \cap found}
        /\ leaked = {}

(* The log goroutines after writer.Stop() for the workloads ws.            *)
ReadersWithout(ws) ==
    readers \ {<<w, wwriter[w].buffer>> :
                   w \in {v \in ws \cap LogWorkloads :
                             IF wwriter[v] = NoWriter THEN FALSE ELSE wwriter[v].cancel}}
WritersWithout(ws) == [w \in LogWorkloads |-> IF w \in ws THEN NoWriter ELSE wwriter[w]]

-----------------------------------------------------------------------------
(* Update: the new transports are made; those that cannot be are missing.  *)

(* deleteTargetTransport for every key that is no longer there.            *)
Leftovers(keys) ==
    {w \in LogWorkloads :
        IF wwriter[w] = NoWriter THEN FALSE
        ELSE transports[wwriter[w].buffer[1]] # 0 /\ wwriter[w].buffer[1] \notin keys}

LogsUpdate(keys) ==
    /\ created' = [t \in Transports |-> IF t \in keys THEN created[t] + 1 ELSE created[t]]
    /\ transports' = [t \in Transports |-> IF t \in keys THEN transports[t] ELSE 0]
    /\ wwriter' = WritersWithout(Leftovers(keys))
    /\ readers' = ReadersWithout(Leftovers(keys))
    /\ UNCHANGED <<leaked, logsConfig>>

(* The maps are replaced.                                                  *)
LogsAssign(keys, config) ==
    /\ transports' = [t \in Transports |-> IF t \in keys THEN created[t] ELSE 0]
    /\ logsConfig' = config
    /\ UNCHANGED <<wwriter, readers, leaked, created>>

-----------------------------------------------------------------------------
(* The events of a workload.                                               *)

(* MUTANT of deleteWorkload: the writer is not stopped.                    *)
deleteWorkloadOnly(w) ==
    /\ wwriter' = WritersWithout({w})
    /\ UNCHANGED readers

deleteWorkload(w) ==
    /\ wwriter' = WritersWithout({w})
    /\ readers' = ReadersWithout({w})

LogsWorkloadRemoved(w) ==
    /\ deleteWorkload(w)
    /\ UNCHANGED <<leaked, transports, logsConfig, created>>

(* WorkloadStarted in three steps: a leftover is deleted and the transport *)
(* looked up, in vain under a name that no workload has; the writer is put *)
(* in the map; the log goroutine is started.                               *)
Lookup(w) == IF w \notin LogWorkloads THEN NoWriter
             ELSE IF logsConfig[w] = NoTransport THEN NoWriter
             ELSE IF transports[logsConfig[w]] = 0 THEN NoWriter
             ELSE Writer(BufferOf(logsConfig[w]), FALSE)

InsertWriter(w, writer) ==
    /\ wwriter' = [wwriter EXCEPT ![w] = writer]
    /\ UNCHANGED <<transports, logsConfig, readers, leaked, created>>

(* The goroutine runs although the writer may no longer be in the map.     *)
StartWriter(w, writer) ==
    /\ IF wwriter[w] = writer
       THEN /\ readers' = readers \cup {<<w, writer.buffer>>}
            /\ wwriter' = [wwriter EXCEPT ![w] = Writer(writer.buffer, TRUE)]
            /\ UNCHANGED leaked
       ELSE leaked' = leaked \cup {<<w, writer.buffer>>} /\ UNCHANGED <<readers, wwriter>>
    /\ UNCHANGED <<transports, logsConfig, created>>

(* Logs fails: the writer stays in the map and cannot be stopped.          *)
StartWriterFails == UNCHANGED logVars

-----------------------------------------------------------------------------
LogsTypeOK ==
    /\ transports \in [Transports -> Nat]
    /\ logsConfig \in [LogWorkloads -> Transports \cup {NoTransport}]
    /\ \A w \in LogWorkloads :
          wwriter[w] \in [buffer : Buffers, cancel : BOOLEAN] \cup {NoWriter}
    /\ readers \subseteq LogWorkloads \X Buffers /\ leaked \subseteq LogWorkloads \X Buffers
    /\ created \in [Transports -> Nat \ {0}]

(* A log goroutine that has not leaked can be stopped: its writer is in    *)
(* the map, with the buffer it writes to, while updates and events of the  *)
(* workload change the map at the same time.                               *)
ReadersOwned == \A r \in readers : wwriter[r[1]] = Writer(r[2], TRUE)
====
