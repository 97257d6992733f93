---------------------------- MODULE MetricsStore ----------------------------
(***************************************************************************)
(* The metrics store (internal/metrics/metrics.go): a Prometheus TSDB that *)
(* several goroutines append to and one reads, under dbLock, and that a    *)
(* change of the retention closes and opens again.  A sample is a series   *)
(* and a time in milliseconds; its value and labels are left out.  The     *)
(* TSDB itself is external.                                                *)
(***************************************************************************)
EXTENDS Naturals, FiniteSets

CONSTANTS
    NumSeries,          \* series are numbered in the order of their labels
    MaxNow,             \* bound: milliseconds the clock advances
    Retentions,         \* values of Metrics.Retention
    DefaultRetention    \* DefaultRetentionDuration, DefaultMaxBytes

ASSUME StoreAssumption ==
    /\ NumSeries \in Nat /\ MaxNow \in Nat \ {0}
    /\ DefaultRetention \in Retentions

VARIABLES
    now,            \* time.Now() in milliseconds; 0 is time.Time{}
    pending,        \* appended, not committed: their goroutines hold dbLock.RLock
    samples,        \* what the TSDB holds
    open,           \* t.db is an open database
    applied,        \* t.appliedOptions
    removed         \* the metrics directory is deleted from disk

store == <<now, pending, samples, open, applied, removed>>

Series == 1..NumSeries
Times == 1..MaxNow
Sample == [series : Series, time : Times]

(* NewTSDB opens the database with the default retention.                  *)
StoreInit ==
    /\ now = 1
    /\ pending = {}
    /\ samples = {}
    /\ open = TRUE
    /\ applied = DefaultRetention
    /\ removed = FALSE

(* MaxTime and MinTime, fromDbTime included: the time of no sample is zero.*)
(* They take no lock, and work on a closed database as well.  The first    *)
(* append to an empty database sets both, before it is committed.          *)
TimesOf(S) == {x.time : x \in S}
Seen ==
    IF samples = {} THEN {x \in pending : \A y \in pending : x.time <= y.time}
    ELSE samples
MaxTime ==
    IF Seen = {} THEN 0
    ELSE CHOOSE t \in TimesOf(Seen) : \A u \in TimesOf(Seen) : u <= t
MinTime ==
    IF Seen = {} THEN 0
    ELSE CHOOSE t \in TimesOf(Seen) : \A u \in TimesOf(Seen) : t <= u

(* The sorted data points of a series, as an iterator delivers them.       *)
SortedTimes ==
    {s \in UNION {[1..k -> Times] : k \in 0..MaxNow} :
        \A i, j \in DOMAIN s : i < j => s[i] < s[j]}
PointsOf(l, lo, hi) ==
    {t \in Times : lo <= t /\ t <= hi /\ [series |-> l, time |-> t] \in samples}

(* GetMetricsForTimeRange, toSeries and the regular expression that matches*)
(* every label: the series in order.  A series of which a chunk overlaps   *)
(* the range is returned without data points when none of them is in it.   *)
GetMetricsForTimeRange(lo, hi) ==
    LET points == [l \in Series |-> PointsOf(l, lo, hi)]
        InOrder(n) == {f \in [1..n -> SortedTimes] :
                          \A l \in 1..n : {f[l][k] : k \in DOMAIN f[l]} = points[l]}
    IN  UNION {InOrder(n) :
                  n \in {m \in 0..NumSeries : \A l \in Series : l > m => points[l] = {}}}

Tick ==
    /\ now < MaxNow
    /\ now' = now + 1
    /\ UNCHANGED <<pending, samples, open, applied, removed>>

(* AddMetric takes dbLock.RLock and the time, and appends; the TSDB refuses*)
(* a second sample of the series at that time, and a closed database any   *)
(* (Rollback).  A series has one target, which adds one sample at a time.  *)
AddMetric(l) ==
    /\ open
    /\ \A x \in pending : x.series # l
    /\ [series |-> l, time |-> now] \notin samples
    /\ pending' = pending \cup {[series |-> l, time |-> now]}
    /\ UNCHANGED <<now, samples, open, applied, removed>>

(* Commit, however much later: only now can the sample be read.  Then the  *)
(* goroutine unlocks.                                                      *)
Commit(x) ==
    /\ x \in pending
    /\ pending' = pending \ {x}
    /\ samples' = samples \cup {x}
    /\ UNCHANGED <<now, open, applied, removed>>

(* Commit fails: the error is logged, the sample is lost.                  *)
CommitFails(x) ==
    /\ x \in pending
    /\ pending' = pending \ {x}
    /\ UNCHANGED <<now, samples, open, applied, removed>>

(* The retention of the TSDB deletes the oldest blocks, never the head.    *)
Expire(t) ==
    /\ open
    /\ t <= MaxTime
    /\ \E x \in samples : x.time < t
    /\ samples' = {x \in samples : x.time >= t}
    /\ UNCHANGED <<now, pending, open, applied, removed>>

(* dbLock.Lock waits for every goroutine in AddMetric.                     *)
Locked == pending = {}

(* Update with another retention closes the database and opens it again    *)
(* under dbLock.  On a closed database tsdb.DB.Close panics (it closes its *)
(* stop channel a second time), here and in Deregister: the process dies.  *)
StoreUpdate(r) ==
    /\ r # applied /\ open /\ Locked
    /\ applied' = r
    /\ UNCHANGED <<now, pending, samples, open, removed>>

(* Close fails: the new retention is not recorded.                         *)
StoreCloseFails(r) ==
    /\ r # applied /\ open /\ Locked
    /\ open' = FALSE
    /\ UNCHANGED <<now, pending, samples, applied, removed>>

(* Open fails: the closed database stays in use, and the retention counts  *)
(* as applied, so that the same configuration does not open it again.      *)
StoreOpenFails(r) ==
    /\ r # applied /\ open /\ Locked
    /\ open' = FALSE
    /\ applied' = r
    /\ UNCHANGED <<now, pending, samples, removed>>

(* Deregister: close, then delete the directory.                           *)
StoreDeregister ==
    /\ open /\ Locked
    /\ open' = FALSE
    /\ removed' = TRUE
    /\ UNCHANGED <<now, pending, samples, applied>>

(* A new process opens the database (main ends when NewTSDB fails); what   *)
(* was not committed is lost.                                              *)
NewTSDB ==
    /\ pending' = {}
    /\ open' = TRUE
    /\ applied' = DefaultRetention
    /\ samples' = IF removed THEN {} ELSE samples
    /\ removed' = FALSE
    /\ UNCHANGED now

StoreTypeOK ==
    /\ now \in Times
    /\ pending \subseteq Sample /\ samples \subseteq Sample
    /\ open \in BOOLEAN
    /\ applied \in Retentions
    /\ removed \in BOOLEAN
====
