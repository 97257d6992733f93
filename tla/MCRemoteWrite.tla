---------------------------- MODULE MCRemoteWrite ----------------------------
(* Model-checking instance of RemoteWrite.                                 *)
EXTENDS RemoteWrite

(* A receiver with a CA and single samples, one without a CA and pairs,    *)
(* and one that is invalid.                                                *)
MCReceivers == {
    [url |-> TRUE, valid |-> TRUE, ca |-> TRUE, num |-> 1],
    [url |-> TRUE, valid |-> TRUE, ca |-> FALSE, num |-> 2],
    [url |-> TRUE, valid |-> FALSE, ca |-> FALSE, num |-> 1]}
====
