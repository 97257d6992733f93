----------------------------- MODULE MCObservers -----------------------------
(* Model-checking instance of Observers: a workload whose pod has its name *)
(* and one whose pod has another; a configuration in which both have       *)
(* metrics and logs and the first has data to copy, one with another       *)
(* storage and no system metrics, and one in which they have nothing.      *)
EXTENDS Observers

MCPodmanName == [w \in Workloads |-> IF w = "w2" THEN "w2_pod" ELSE w]

MCConfigs == {
    [metrics |-> Workloads, system |-> "slow", keys |-> Transports, paths |-> {"w1"},
     logs |-> [w \in Workloads |-> CHOOSE t \in Transports : TRUE], storage |-> "s1"],
    [metrics |-> Workloads, system |-> "off", keys |-> Transports, paths |-> {"w1"},
     logs |-> [w \in Workloads |-> CHOOSE t \in Transports : TRUE], storage |-> "s2"],
    [metrics |-> {}, system |-> "off", keys |-> {}, paths |-> {},
     logs |-> [w \in Workloads |-> NoTransport], storage |-> NoStorage]}
====
