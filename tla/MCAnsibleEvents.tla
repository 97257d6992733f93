--------------------------- MODULE MCAnsibleEvents ---------------------------
(* Model-checking instance of AnsibleEvents: every result of up to two     *)
(* plays, of up to three and two tasks, and of three plays of up to one,   *)
(* with two ids and no host, one host or two.                              *)
EXTENDS AnsibleEvents, SequencesExt

MCHosts == {<<>>, <<{}>>, <<Flags, {"skipped"}>>}
MCTasks == [id : TaskIds, hosts : MCHosts]
MCPlays(n) == BoundedSeq(MCTasks, n)
MCResults == {<<>>} \cup {<<p>> : p \in MCPlays(3)}
             \cup {<<p, q>> : p \in MCPlays(3), q \in MCPlays(2)}
             \cup {<<p, q, r>> : p \in MCPlays(1), q \in MCPlays(1), r \in MCPlays(1)}
====
