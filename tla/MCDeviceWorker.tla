--------------------------- MODULE MCDeviceWorker ---------------------------
(* Model-checking instances of DeviceWorker.                               *)
EXTENDS DeviceWorker, TLC

CONSTANTS v1, v2

(* v1 differs from the default configuration in nothing but its version.   *)
MCVersions == {Default, v1, v2}
MCContent == (Default :> 0) @@ (v1 :> 0) @@ (v2 :> 1)

(* One observer without a state in this module stands for the seven that   *)
(* main registers beside the OS and the heartbeat; of the deregistrables   *)
(* those without one are left out.  main's order.                          *)
MCObservers == <<"workload manager", "os", "heartbeat">>
MCDeregistrables == <<"workload manager", "configuration manager", "heartbeat">>
====
