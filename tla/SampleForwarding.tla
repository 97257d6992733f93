-------------------------- MODULE SampleForwarding --------------------------
(***************************************************************************)
(* What remote write promises of the metrics store: samples are forwarded  *)
(* behind a cursor that passes none of them too early.  The requests, the  *)
(* retries, the configuration of the receiver and the file of the cursor   *)
(* are not visible here.                                                   *)
(***************************************************************************)
EXTENDS Naturals

CONSTANT Sample

VARIABLES
    stored,     \* samples that can still be read
    settled,    \* samples the receiver has answered for
    late,       \* samples stored behind the place that reading had come to
    cursor      \* every sample up to this time is done with

abstract == <<stored, settled, late, cursor>>

ForwardInit ==
    /\ stored = {} /\ settled = {} /\ late = {}
    /\ cursor = 0

Store(x) ==
    /\ x \notin stored
    /\ stored' = stored \cup {x}
    /\ late' = late \/ late' = late \cup {x}
    /\ x.time <= cursor => x \in late'
    /\ UNCHANGED <<settled, cursor>>

(* The receiver answers for samples; some may have expired meanwhile.      *)
Settle ==
    /\ settled' \in SUBSET Sample
    /\ settled \subseteq settled'
    /\ UNCHANGED <<stored, late, cursor>>

(* The cursor moves on, and passes nothing that was not answered for.      *)
Advance ==
    /\ cursor' > cursor
    /\ \A x \in stored : x.time <= cursor' => x \in settled \cup late
    /\ UNCHANGED <<stored, settled, late>>

ExpireSome ==
    /\ stored' \in SUBSET stored
    /\ UNCHANGED <<settled, late, cursor>>

(* A new process may start behind the place its predecessor had reached,   *)
(* never ahead of it, and finds the samples or an empty store.             *)
StartAgain ==
    /\ cursor' <= cursor
    /\ stored' \in SUBSET stored
    /\ UNCHANGED <<settled, late>>

ForwardNext ==
    \/ \E x \in Sample : Store(x)
    \/ Settle \/ Advance \/ ExpireSome \/ StartAgain

ForwardSpec == ForwardInit /\ [][ForwardNext]_abstract
====
