------------------------- MODULE MCWorkloadManager -------------------------
(* Model-checking instances of WorkloadManager.                            *)
EXTENDS WorkloadManager, TLC

CONSTANTS a, b, aPod, bPod, plain, ports, illegal, broken, auth1

MCNames == {a, b}
MCPodNames == {aPod, bPod}
MCPodmanName == (a :> aPod) @@ (b :> bPod)
MCDirs == MCNames \cup MCPodNames
MCDirOf == [n \in MCNames \cup MCPodNames |-> n]

(* One workload changing its specification and its auth file and going     *)
(* away, a second one coming, changing and staying, and specifications     *)
(* that are refused beside one that is not.                                *)
W(s, f) == [spec |-> s, auth |-> f]
MCConfigs == {
    (a :> W(plain, None))   @@ (b :> None),
    (a :> W(ports, auth1))  @@ (b :> W(plain, None)),
    (a :> None)             @@ (b :> W(ports, None)),
    (a :> W(illegal, None)) @@ (b :> W(broken, None))}
====
