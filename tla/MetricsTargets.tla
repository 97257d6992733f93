--------------------------- MODULE MetricsTargets ---------------------------
(***************************************************************************)
(* What is scraped: the metrics daemon (internal/metrics/daemon.go), the   *)
(* metrics of workloads (workload.go) and of the system (system.go).  Of a *)
(* target only its place in the daemon's map is kept; its goroutine, which *)
(* scrapes on every tick and stores what it gets, changes nothing here.    *)
(***************************************************************************)
EXTENDS Naturals

CONSTANTS
    Workloads,
    System,         \* the name of the system target
    Intervals       \* of system metrics; a disabled one has "off"

ASSUME TargetsAssumption == System \notin Workloads /\ {"off", "none"} \cap Intervals = {}

SystemConfigs == Intervals \cup {"off"}

VARIABLES
    targets,        \* md.targets: the names in it
    workloadConfig, \* WorkloadMetrics: the workloads with metrics
    latestConfig,   \* SystemMetrics: the last one applied; "none": there is none
    exporter        \* the service node_exporter runs

targetVars == <<targets, workloadConfig, latestConfig, exporter>>

(* After Init with a stored configuration, which may have failed.          *)
TargetsInit(names, config) ==
    /\ latestConfig \in {config, "none"}
    /\ targets = IF latestConfig \in Intervals THEN {System} ELSE {}
    /\ workloadConfig = names
    /\ exporter = (latestConfig \in Intervals)

(* MUTANT of DeleteTarget: a target that is stopped is kept in the map.    *)
DeleteTargetStops(n) == UNCHANGED targets

DeleteTarget(n) == targets' = targets \ {n}

(* "stop if it is already present."                                        *)
AddTarget(n) == targets' = targets \cup {n}

-----------------------------------------------------------------------------
(* WorkloadMetrics.                                                        *)

WorkloadMetricsUpdate(names) ==
    /\ workloadConfig' = names
    /\ UNCHANGED <<targets, latestConfig, exporter>>

(* The pod's name n is looked up among the workloads of the configuration; *)
(* the target has the name in the report, which is the pod's too.          *)
MetricsWorkloadStarted(n) ==
    /\ IF n \in workloadConfig THEN AddTarget(n) ELSE UNCHANGED targets
    /\ UNCHANGED <<workloadConfig, latestConfig, exporter>>

MetricsWorkloadRemoved(n) ==
    /\ DeleteTarget(n)
    /\ UNCHANGED <<workloadConfig, latestConfig, exporter>>

-----------------------------------------------------------------------------
(* SystemMetrics.                                                          *)

(* MUTANT of SystemMetricsUpdate: the configuration is stored, the target  *)
(* of the one before is not deleted.                                       *)
SystemUpdateAddsOnly(config) ==
    /\ exporter' = (config # "off")
    /\ IF config # "off" THEN AddTarget(System) ELSE UNCHANGED targets
    /\ latestConfig' = config
    /\ UNCHANGED workloadConfig

(* An equal configuration changes nothing, whatever state the exporter is  *)
(* in.                                                                     *)
SystemMetricsUpdate(config) ==
    IF latestConfig = config THEN UNCHANGED targetVars
    ELSE /\ exporter' = (config # "off")
         /\ IF config # "off" THEN AddTarget(System) ELSE DeleteTarget(System)
         /\ latestConfig' = config
         /\ UNCHANGED workloadConfig

(* ensureNodeExporterState fails: in its first call (Stop or Enable), or   *)
(* with the service stopped but not disabled, or enabled but not started.  *)
SystemMetricsFails(config) ==
    /\ latestConfig # config
    /\ exporter' \in {exporter, exporter /\ config # "off"}
    /\ UNCHANGED <<targets, workloadConfig, latestConfig>>

(* latestConfig stays what it was.                                         *)
SystemMetricsDeregister ==
    /\ DeleteTarget(System)
    /\ UNCHANGED <<workloadConfig, latestConfig, exporter>>

TargetsTypeOK ==
    /\ targets \subseteq Workloads \cup {System}
    /\ workloadConfig \subseteq Workloads
    /\ latestConfig \in SystemConfigs \cup {"none"}
    /\ exporter \in BOOLEAN
====
