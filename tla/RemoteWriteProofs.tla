------------------------- MODULE RemoteWriteProofs -------------------------
(***************************************************************************)
(* Proofs about RemoteWrite, for any number of series, any times, ranges,  *)
(* sizes of requests, configurations and failures: no sample is skipped,   *)
(* a request is no larger than allowed, and remote write implements the    *)
(* forwarding of samples behind a cursor.                                  *)
(***************************************************************************)
EXTENDS RemoteWrite, WellFoundedInduction, SequenceTheorems, FiniteSetTheorems, TLAPS

PCs == {"none", "getConfig", "loop", "min", "read", "batch", "send", "store"}

(* What is stored, and that the file is never ahead of LastWrite.          *)
DataInv ==
    /\ now \in Times /\ samples \subseteq Sample /\ settled \subseteq Sample
    /\ pending \subseteq Sample /\ pending \cap samples = {}
    /\ LastWrite \in Nat /\ lastWriteFile \in Nat /\ lastWriteFile <= LastWrite
    /\ RangeDuration \in Nat /\ pc \in PCs

(* A range ends after LastWrite, and nothing before its start that its end *)
(* will pass is missing: what is committed there from now on is late.      *)
RangeInv ==
    /\ rangeStart \in Nat /\ rangeEnd \in Nat
    /\ pc \in {"min", "read", "batch", "send", "store"} => rangeEnd > LastWrite
    /\ pc \in {"read", "batch", "send", "store"} =>
          \A x \in samples :
              x.time < rangeStart /\ x.time <= rangeEnd => x \in settled \cup late

(* The place in the series, and that a request being filled is not full.   *)
BatchInv ==
    /\ series \in Seq(Seq(Times)) /\ Len(series) <= NumSeries
    /\ i \in Nat \ {0} /\ sampleIndex \in Nat /\ numSamples \in Nat
    /\ request \subseteq Sample
    /\ pc \in {"loop", "min", "read", "batch", "send", "store"} => writer.num \in Nat \ {0}
    /\ pc \in {"none", "getConfig", "loop", "min", "read"} =>
          numSamples = 0 /\ i = 1 /\ sampleIndex = 0
    /\ pc = "batch" => i <= Len(series) /\ numSamples < writer.num
    /\ pc \in {"batch", "send"} /\ i <= Len(series) => sampleIndex <= Len(series[i])

(* The sample x is in the series at or after the place reached.            *)
Ahead(x) ==
    /\ x.series \in i..Len(series)
    /\ \E k \in 1..Len(series[x.series]) :
          /\ series[x.series][k] = x.time
          /\ x.series = i => k > sampleIndex

(* Every sample of the range is answered for, late, in the request, or     *)
(* still ahead; when the end of the range is to be recorded, only the      *)
(* first two are left.                                                     *)
CoverInv ==
    /\ pc \in {"batch", "send"} =>
          \A x \in samples : x.time >= rangeStart /\ x.time <= rangeEnd =>
              x \in settled \cup late \cup request \/ Ahead(x)
    /\ pc = "store" =>
          \A x \in samples : x.time <= rangeEnd => x \in settled \cup late

WriteInv == DataInv /\ RangeInv /\ BatchInv /\ CoverInv /\ NothingSkipped

(* The sample x is in the series before the place reached.                 *)
Behind(x) ==
    /\ x.series <= i
    /\ x.series = i => \E k \in 1..sampleIndex : series[i][k] = x.time

(* What is in the request was passed, and nothing is passed twice: a       *)
(* series holds no time twice.                                             *)
FitInv ==
    /\ pc \in {"none", "getConfig", "loop", "min", "read"} => request = {}
    /\ \A l \in 1..Len(series) : series[l] \in SortedTimes
    /\ \A x \in request : Behind(x)
    /\ IsFiniteSet(request) /\ RequestFits

(* The goroutine, and the file of the client.                              *)
ClientInv ==
    /\ client \in Clients \cup {NoClient}
    /\ pc = "none" <=> ~isRunning
    /\ isRunning \in BOOLEAN /\ OneWriter
    /\ client # NoClient => client.ca = currentServerCaFile
    /\ currentServerCaFile \in caFiles \cup {NoFile} /\ caFiles \subseteq CaFiles

-----------------------------------------------------------------------------
(* Facts about the store.                                                  *)

LEMMA LeastNatural == ASSUME NEW T \in SUBSET Nat, T # {}
                      PROVE  \E x \in T : \A y \in T : x <= y
<1> DEFINE R == {p \in Nat \X Nat : p[1] < p[2]}
<1>0. IsWellFoundedOn(R, Nat)
    BY NatLessThanWellFounded, Zenon DEF OpToRel
<1> HIDE DEF R
<1>1. PICK x \in T : \A y \in T : <<y, x>> \notin R
    BY <1>0, WFMin
<1>2. \A y \in T : ~(y < x)
    BY <1>1 DEF R
<1> QED
    BY <1>2

LEMMA GreatestNatural == ASSUME NEW T \in SUBSET Nat, T # {}, NEW m \in Nat, \A y \in T : y <= m
                         PROVE  \E x \in T : \A y \in T : y <= x
<1> DEFINE D == {m - y : y \in T}
<1>1. D \in SUBSET Nat /\ D # {}
  <2>1. ASSUME NEW y \in T PROVE m - y \in Nat
      BY <2>1
  <2>2. PICK y \in T : TRUE
      OBVIOUS
  <2>3. m - y \in D
      BY <2>2
  <2> QED
      BY <2>1, <2>3
<1>2. PICK d \in D : \A e \in D : d <= e
    BY <1>1, LeastNatural
<1>3. PICK x \in T : d = m - x
    BY <1>2
<1>4. ASSUME NEW y \in T PROVE y <= x
  <2>1. m - y \in D
      BY <1>4
  <2> QED
      BY <1>2, <1>3, <2>1
<1> QED
    BY <1>4

LEMMA TimesBounded == ASSUME samples \subseteq Sample, pending \subseteq Sample
                      PROVE  /\ TimesOf(Seen) \in SUBSET Nat
                             /\ \A t \in TimesOf(Seen) : t <= MaxNow
                             /\ Seen # {} => TimesOf(Seen) # {}
                             /\ MaxNow \in Nat
<1>1. Seen \subseteq Sample
    BY DEF Seen
<1> QED
    BY <1>1, StoreAssumption DEF TimesOf, Sample, Times

LEMMA MaxTimeNat == ASSUME samples \subseteq Sample, pending \subseteq Sample
                    PROVE  MaxTime \in Nat
<1>1. CASE Seen = {}
    BY <1>1 DEF MaxTime
<1>2. CASE Seen # {}
  <2>1. \E t \in TimesOf(Seen) : \A u \in TimesOf(Seen) : u <= t
      BY <1>2, TimesBounded, GreatestNatural
  <2>2. MaxTime \in TimesOf(Seen)
      BY <1>2, <2>1 DEF MaxTime
  <2> QED
      BY <2>2, TimesBounded
<1> QED
    BY <1>1, <1>2

LEMMA MinTimeFirst == ASSUME samples \subseteq Sample, pending \subseteq Sample
                      PROVE  /\ MinTime \in Nat
                             /\ \A x \in samples : MinTime <= x.time
<1>1. CASE Seen = {}
    BY <1>1 DEF MinTime, Seen
<1>2. CASE Seen # {}
  <2>1. \E t \in TimesOf(Seen) : \A u \in TimesOf(Seen) : t <= u
      BY <1>2, TimesBounded, LeastNatural
  <2>2. MinTime \in TimesOf(Seen) /\ \A u \in TimesOf(Seen) : MinTime <= u
      BY <1>2, <2>1 DEF MinTime
  <2>3. \A x \in samples : x.time \in TimesOf(Seen)
      BY DEF TimesOf, Seen
  <2> QED
      BY <2>2, <2>3, TimesBounded
<1> QED
    BY <1>1, <1>2

(* What is read of a range holds every stored sample of it.                *)
LEMMA RangeRead ==
    ASSUME samples \subseteq Sample, NEW lo \in Nat, NEW hi \in Nat,
           NEW s \in GetMetricsForTimeRange(lo, hi)
    PROVE  /\ s \in Seq(Seq(Times)) /\ Len(s) <= NumSeries
           /\ \A l \in 1..Len(s) : s[l] \in SortedTimes
           /\ \A x \in samples : lo <= x.time /\ x.time <= hi =>
                 /\ x.series \in 1..Len(s)
                 /\ \E k \in 1..Len(s[x.series]) : s[x.series][k] = x.time
<1> DEFINE points == [m \in Series |-> PointsOf(m, lo, hi)]
           InOrder(n) == {f \in [1..n -> SortedTimes] :
                             \A l \in 1..n : {f[l][k] : k \in DOMAIN f[l]} = points[l]}
           Lengths == {m \in 0..NumSeries : \A l \in Series : l > m => points[l] = {}}
<1>1. PICK n \in 0..NumSeries :
         /\ s \in [1..n -> SortedTimes]
         /\ \A l \in Series : l > n => PointsOf(l, lo, hi) = {}
         /\ \A l \in 1..n : {s[l][k] : k \in DOMAIN s[l]} = [m \in Series |-> PointsOf(m, lo, hi)][l]
  <2>1. PICK n \in Lengths : s \in InOrder(n)
    <3>1. s \in UNION {InOrder(n) : n \in Lengths}
        BY DEF GetMetricsForTimeRange
    <3> HIDE DEF InOrder, Lengths
    <3> QED
        BY <3>1
  <2> QED
      BY <2>1
<1>2. n \in Nat /\ n <= NumSeries /\ NumSeries \in Nat
    BY <1>1, StoreAssumption
<1>3. ASSUME NEW q \in SortedTimes PROVE q \in Seq(Times) /\ DOMAIN q = 1..Len(q)
  <2>1. PICK k \in 0..MaxNow : q \in [1..k -> Times]
      BY <1>3 DEF SortedTimes
  <2>2. k \in Nat
      BY <2>1, StoreAssumption
  <2>3. q \in Seq(Times)
      BY <2>1, <2>2, SeqDef
  <2> QED
      BY <2>3, LenProperties
<1>4. s \in [1..n -> Seq(Times)]
    BY <1>1, <1>3
<1>5. s \in Seq(Seq(Times))
    BY <1>2, <1>4, SeqDef
<1>6. Len(s) = n
  <2>1. DOMAIN s = 1..Len(s) /\ Len(s) \in Nat /\ DOMAIN s = 1..n
      BY <1>4, <1>5, LenProperties
  <2>2. ASSUME NEW a \in Nat, NEW b \in Nat, 1..a = 1..b PROVE ~(a < b)
    <3>1. a < b => b \in 1..b /\ b \notin 1..a
        OBVIOUS
    <3> QED
        BY <2>2, <3>1
  <2>3. ~(Len(s) < n) /\ ~(n < Len(s))
      BY <2>1, <1>2, <2>2
  <2>4. Len(s) \in Nat
      BY <2>1
  <2> QED
      BY <2>4, <2>3, <1>2
<1>7. ASSUME NEW x \in samples, lo <= x.time, x.time <= hi
      PROVE  /\ x.series \in 1..n
             /\ \E k \in 1..Len(s[x.series]) : s[x.series][k] = x.time
  <2>1. x.series \in Series /\ x.time \in Times /\ x = [series |-> x.series, time |-> x.time]
      BY <1>7 DEF Sample
  <2>2. x.time \in PointsOf(x.series, lo, hi)
      BY <1>7, <2>1 DEF PointsOf
  <2>3. x.series \in 1..n
      BY <1>1, <1>2, <2>1, <2>2 DEF Series
  <2>4. x.time \in {s[x.series][k] : k \in DOMAIN s[x.series]}
      BY <1>1, <2>1, <2>2, <2>3
  <2>5. DOMAIN s[x.series] = 1..Len(s[x.series])
      BY <1>1, <1>3, <2>3
  <2> QED
      BY <2>3, <2>4, <2>5
<1>8. \A l \in 1..Len(s) : s[l] \in SortedTimes
    BY <1>1, <1>6
<1> QED
    BY <1>2, <1>5, <1>6, <1>7, <1>8

-----------------------------------------------------------------------------
(* WriteInv is kept by every step.                                         *)

(* Between two calls of Write only the samples and LastWrite matter.       *)
LEMMA Empty ==
    ASSUME DataInv', NothingSkipped', EmptyRange, EmptyBatch,
           pc' \in {"none", "getConfig", "loop"},
           pc' = "loop" => writer'.num \in Nat \ {0}
    PROVE  WriteInv'
<1>1. <<>> \in Seq(Seq(Times)) /\ Len(<<>>) = 0 /\ NumSeries \in Nat
    BY EmptySeq, StoreAssumption
<1>2. RangeInv' /\ CoverInv'
    BY DEF RangeInv, CoverInv, EmptyRange
<1>3. BatchInv'
    BY <1>1 DEF BatchInv, EmptyBatch
<1> QED
    BY <1>2, <1>3 DEF WriteInv

Untouched == <<now, pending, samples, settled, late, LastWrite, lastWriteFile, RangeDuration, writer,
               rangeStart, rangeEnd, batch>>

LEMMA UntouchedStep ==
    ASSUME WriteInv, UNCHANGED Untouched,
           pc' = pc \/ {pc, pc'} \subseteq {"getConfig", "none"}
    PROVE  WriteInv'
<1> USE DEF WriteInv, Untouched
<1>1. DataInv' /\ NothingSkipped'
    BY DEF DataInv, PCs, NothingSkipped
<1>2. RangeInv'
    BY DEF RangeInv
<1>3. BatchInv'
    BY DEF BatchInv, batch
<1>4. CoverInv'
    BY DEF CoverInv, Ahead, batch
<1> QED
    BY <1>1, <1>2, <1>3, <1>4

LEMMA TimeStep == ASSUME WriteInv, TimePasses PROVE WriteInv'
<1> USE DEF WriteInv
<1>1. UNCHANGED <<settled, late, LastWrite, lastWriteFile, RangeDuration, writer,
                  rangeStart, rangeEnd, batch, pc>>
    BY DEF TimePasses, Outside, receiver, range, progress
<1>2. samples' \subseteq samples /\ now' \in Times /\ now <= now' /\ now' \in Nat /\ now \in Nat
  <2>1. now \in Nat
      BY DEF DataInv, Times
  <2>2. CASE Tick
      BY <2>1, <2>2, StoreAssumption DEF Tick, Times
  <2>3. CASE \E t \in Times : Expire(t)
      BY <2>1, <2>3 DEF Expire, DataInv
  <2> QED
      BY <2>2, <2>3 DEF TimePasses
<1>3. \A x \in samples : x.time \in Nat
    BY DEF DataInv, Sample, Times
<1>4. DataInv'
  <2>1. pending' = pending
      BY DEF TimePasses, Tick, Expire
  <2> QED
      BY <1>1, <1>2, <2>1 DEF DataInv
<1>5. NothingSkipped'
    BY <1>1, <1>2 DEF NothingSkipped
<1>6. RangeInv'
    BY <1>1, <1>2 DEF RangeInv
<1>7. BatchInv'
    BY <1>1 DEF BatchInv, batch
<1>8. CoverInv'
    BY <1>1, <1>2 DEF CoverInv, Ahead, batch
<1> QED
    BY <1>4, <1>5, <1>6, <1>7, <1>8

LEMMA ScrapeStep ==
    ASSUME WriteInv, NEW l, NEW x, (l \in Series /\ Scrape(l)) \/ ScrapeFails(x)
    PROVE  WriteInv' /\ UNCHANGED <<samples, settled, late, LastWrite, batch, writer, pc>>
<1> DEFINE new == [series |-> l, time |-> now]
<1>1. UNCHANGED <<now, samples, settled, late, LastWrite, lastWriteFile, RangeDuration, writer,
                  rangeStart, rangeEnd, batch, pc>>
    BY DEF Scrape, ScrapeFails, AddMetric, CommitFails, Outside, receiver, range, progress
<1>2. \/ l \in Series /\ pending' = pending \cup {new} /\ new \notin samples
      \/ pending' \subseteq pending
    BY DEF Scrape, ScrapeFails, AddMetric, CommitFails
<1>3. l \in Series => new \in Sample
    BY DEF WriteInv, DataInv, Sample
<1>4. pending' \subseteq Sample /\ pending' \cap samples = {}
    BY <1>2, <1>3 DEF WriteInv, DataInv
<1>5. DataInv' /\ NothingSkipped'
    BY <1>1, <1>4 DEF WriteInv, DataInv, NothingSkipped
<1>6. RangeInv' /\ BatchInv'
    BY <1>1 DEF WriteInv, RangeInv, BatchInv, batch
<1>7. CoverInv'
    BY <1>1 DEF WriteInv, CoverInv, Ahead, batch
<1> QED
    BY <1>1, <1>5, <1>6, <1>7 DEF WriteInv

LEMMA CommitStep == ASSUME WriteInv, NEW new \in pending, ScrapeCommits(new) PROVE WriteInv'
<1> USE DEF WriteInv
<1>1. UNCHANGED <<settled, LastWrite, lastWriteFile, RangeDuration, writer,
                  rangeStart, rangeEnd, batch, pc, now>>
    BY DEF ScrapeCommits, Commit, Outside, receiver, range, progress
<1>2. samples' = samples \cup {new} /\ pending' = pending \ {new}
    BY DEF ScrapeCommits, Commit
<1>3. late \subseteq late' /\ (Passed(new.time) => new \in late')
    BY DEF ScrapeCommits
<1>4. new \in Sample /\ new.time \in Nat
    BY DEF DataInv, Sample, Times
<1>5. DataInv'
  <2>1. samples' \subseteq Sample /\ pending' \subseteq Sample /\ pending' \cap samples' = {}
      BY <1>2, <1>4 DEF DataInv
  <2> QED
      BY <1>1, <2>1 DEF DataInv
<1>6. NothingSkipped'
  <2>1. new.time <= LastWrite \/ new.time <= lastWriteFile => new \in late'
      BY <1>3, <1>4 DEF DataInv, Passed
  <2> QED
      BY <1>1, <1>2, <1>3, <2>1 DEF NothingSkipped
<1>8. RangeInv'
  <2>1. pc \in {"read", "batch", "send", "store"} /\ new.time < rangeStart
            /\ new.time <= rangeEnd => new \in late'
      BY <1>3 DEF Passed
  <2> QED
      BY <1>1, <1>2, <1>3, <2>1 DEF RangeInv
<1>9. BatchInv'
    BY <1>1 DEF BatchInv, batch
<1>10. CoverInv'
  <2>1. pc \in {"batch", "send", "store"} /\ new.time <= rangeEnd => new \in late'
      BY <1>3 DEF Passed
  <2>2. \A x : Ahead(x)' <=> Ahead(x)
      BY <1>1 DEF Ahead, batch
  <2>3. UNCHANGED request
      BY <1>1 DEF batch
  <2> QED
      BY <1>1, <1>2, <1>3, <2>1, <2>2, <2>3 DEF CoverInv
<1> QED
    BY <1>5, <1>6, <1>8, <1>9, <1>10

LEMMA ReturnStep ==
    ASSUME WriteInv, WriteReturns, settled \subseteq settled', settled' \subseteq Sample,
           UNCHANGED <<now, pending, samples, late, LastWrite, lastWriteFile, RangeDuration>>
    PROVE  WriteInv'
<1>1. DataInv' /\ NothingSkipped'
    BY DEF WriteInv, DataInv, NothingSkipped, WriteReturns, PCs
<1> QED
    BY <1>1, Empty DEF WriteReturns

LEMMA GetConfigStep == ASSUME WriteInv, ClientInv, getConfig PROVE WriteInv'
<1>1. UNCHANGED <<now, pending, samples, settled, late, LastWrite, lastWriteFile, RangeDuration,
                  rangeStart, rangeEnd, batch>>
    BY DEF getConfig, store, receiver, range, progress
<1>2. CASE client = NoClient
    BY <1>1, <1>2, UntouchedStep DEF getConfig, Go, Untouched
<1>3. CASE client # NoClient
  <2>1. pc = "getConfig" /\ pc' = "loop" /\ writer' = client
      BY <1>3 DEF getConfig, Go
  <2>2. writer'.num \in Nat \ {0}
      BY <1>3, <2>1 DEF ClientInv, Clients
  <2>3. DataInv' /\ NothingSkipped'
      BY <1>1, <2>1 DEF WriteInv, DataInv, PCs, NothingSkipped
  <2>4. RangeInv' /\ CoverInv'
      BY <1>1, <2>1 DEF WriteInv, RangeInv, CoverInv
  <2>5. BatchInv'
      BY <1>1, <2>1, <2>2 DEF WriteInv, BatchInv, batch
  <2> QED
      BY <2>3, <2>4, <2>5 DEF WriteInv
<1> QED
    BY <1>2, <1>3

LEMMA ReadMaxTimeStep == ASSUME WriteInv, ReadMaxTime PROVE WriteInv'
<1>1. UNCHANGED <<now, pending, samples, settled, late, LastWrite, lastWriteFile, RangeDuration>>
    BY DEF ReadMaxTime, store, receiver, progress
<1>2. CASE MaxTime <= LastWrite /\ WriteReturns
    BY <1>1, <1>2, ReturnStep DEF WriteInv, DataInv
<1>3. CASE MaxTime > LastWrite /\ Go("loop", "min") /\ rangeEnd' = MaxTime
           /\ UNCHANGED <<writer, rangeStart, batch>>
  <2>1. MaxTime \in Nat
      BY MaxTimeNat DEF WriteInv, DataInv
  <2>2. DataInv' /\ NothingSkipped'
      BY <1>1, <1>3 DEF WriteInv, DataInv, PCs, NothingSkipped, Go
  <2>3. RangeInv'
      BY <1>1, <1>3, <2>1 DEF WriteInv, RangeInv, Go
  <2>4. BatchInv' /\ CoverInv'
      BY <1>3 DEF WriteInv, BatchInv, CoverInv, batch, Go
  <2> QED
      BY <2>2, <2>3, <2>4 DEF WriteInv
<1> QED
    BY <1>2, <1>3 DEF ReadMaxTime

LEMMA Bounds == ASSUME NEW a \in Nat, NEW b \in Nat
                PROVE  /\ AtLeast(a, b) = a \/ (AtLeast(a, b) = b /\ b > a)
                       /\ AtMost(a, b) \in {a, b}
BY DEF AtLeast, AtMost

LEMMA SetRangeStep == ASSUME WriteInv, SetRange PROVE WriteInv'
<1> USE DEF WriteInv
<1>1. /\ UNCHANGED <<now, pending, samples, settled, late, LastWrite, lastWriteFile, RangeDuration,
                     writer, batch>>
      /\ pc = "min" /\ pc' = "read"
    BY DEF SetRange, store, receiver, progress, Go
<1>2. /\ rangeStart' = AtLeast(LastWrite + 1, MinTime)
      /\ rangeEnd' = AtMost(rangeStart' + RangeDuration, rangeEnd)
    BY DEF SetRange
<1>3. /\ LastWrite \in Nat /\ RangeDuration \in Nat /\ rangeEnd \in Nat /\ rangeEnd > LastWrite
      /\ \A x \in samples : x.time \in Nat
    BY <1>1 DEF DataInv, RangeInv, Times, Sample
<1>4. MinTime \in Nat /\ \A x \in samples : MinTime <= x.time
    BY MinTimeFirst DEF DataInv
<1>5. /\ rangeStart' \in Nat /\ rangeEnd' \in Nat /\ rangeEnd' > LastWrite
      /\ rangeStart' = LastWrite + 1 \/ (rangeStart' = MinTime /\ MinTime > LastWrite)
  <2>1. /\ rangeStart' \in Nat
        /\ rangeStart' = LastWrite + 1 \/ (rangeStart' = MinTime /\ MinTime > LastWrite)
      BY <1>2, <1>3, <1>4, Bounds
  <2>2. rangeStart' + RangeDuration \in Nat /\ rangeStart' + RangeDuration > LastWrite
    <3>1. \A a, d \in Nat : a > LastWrite => a + d \in Nat /\ a + d > LastWrite
        BY <1>3
    <3>2. rangeStart' > LastWrite
        BY <1>3, <1>4, <2>1
    <3> QED
        BY <1>3, <2>1, <3>1, <3>2
  <2>3. rangeEnd' \in {rangeStart' + RangeDuration, rangeEnd}
      BY <1>2, <1>3, <2>2, Bounds
  <2> QED
      BY <1>3, <2>1, <2>2, <2>3
<1>7. ASSUME NEW x \in samples, x.time < rangeStart' PROVE x \in settled \cup late
  <2>1. x.time <= LastWrite
      BY <1>3, <1>4, <1>5, <1>7
  <2> QED
      BY <2>1, <1>7 DEF NothingSkipped
<1>8. RangeInv'
    BY <1>1, <1>5, <1>7 DEF RangeInv
<1>9. DataInv' /\ NothingSkipped'
    BY <1>1 DEF DataInv, PCs, NothingSkipped
<1>10. BatchInv' /\ CoverInv'
    BY <1>1 DEF BatchInv, CoverInv, batch
<1> QED
    BY <1>8, <1>9, <1>10

LEMMA ReadRangeStep == ASSUME WriteInv, ReadRange PROVE WriteInv'
<1> USE DEF WriteInv
<1>1. /\ UNCHANGED <<now, pending, samples, settled, late, LastWrite, lastWriteFile, RangeDuration,
                     writer, rangeStart, rangeEnd, i, sampleIndex, request, numSamples>>
      /\ pc = "read" /\ series' \in GetMetricsForTimeRange(rangeStart, rangeEnd)
      /\ pc' = IF series' = <<>> THEN "store" ELSE "batch"
    BY DEF ReadRange, store, receiver, range, progress
<1>2. /\ i = 1 /\ sampleIndex = 0 /\ numSamples = 0 /\ rangeStart \in Nat /\ rangeEnd \in Nat
      /\ samples \subseteq Sample /\ writer.num \in Nat \ {0} /\ request \subseteq Sample
    BY <1>1 DEF DataInv, RangeInv, BatchInv
<1>3. /\ series' \in Seq(Seq(Times)) /\ Len(series') <= NumSeries
      /\ \A x \in samples : rangeStart <= x.time /\ x.time <= rangeEnd =>
            /\ x.series \in 1..Len(series')
            /\ \E k \in 1..Len(series'[x.series]) : series'[x.series][k] = x.time
    BY <1>1, <1>2, RangeRead
<1>4. series' # <<>> => Len(series') >= 1
    BY <1>3, EmptySeq
<1>5. series' = <<>> => Len(series') = 0
    BY EmptySeq
<1>6. \A l \in 1..Len(series') : Len(series'[l]) \in Nat
    BY <1>3, ElementOfSeq, LenProperties
<1>7. BatchInv'
  <2>1. /\ i' = 1 /\ sampleIndex' = 0 /\ numSamples' = 0 /\ writer'.num \in Nat \ {0}
        /\ pc' \in {"store", "batch"}
      BY <1>1, <1>2
  <2>2. pc' = "batch" => Len(series') >= 1
      BY <1>1, <1>4
  <2>3. 1 <= Len(series') => 0 <= Len(series'[1])
      BY <1>3, <1>6, LenProperties
  <2> QED
      BY <1>1, <1>2, <1>3, <2>1, <2>2, <2>3 DEF BatchInv
<1>8. RangeInv'
    BY <1>1 DEF RangeInv
<1>9. DataInv' /\ NothingSkipped'
    BY <1>1 DEF DataInv, PCs, NothingSkipped
<1>10. ASSUME NEW x \in samples, x.time >= rangeStart, x.time <= rangeEnd
       PROVE  Ahead(x)' /\ series' # <<>>
  <2>1. x.time \in Nat
      BY <1>2, <1>10 DEF Sample, Times
  <2>2. PICK k \in 1..Len(series'[x.series]) : series'[x.series][k] = x.time
      BY <1>2, <1>3, <1>10, <2>1
  <2>3. x.series \in 1..Len(series')
      BY <1>2, <1>3, <1>10, <2>1
  <2>4. series' # <<>>
      BY <2>3, <1>5
  <2>5. k > 0
      BY <2>2
  <2> QED
      BY <1>1, <1>2, <2>2, <2>3, <2>4, <2>5 DEF Ahead
<1>11. CoverInv'
  <2>1. \A x \in samples : x.time \in Nat
      BY <1>2 DEF Sample, Times
  <2>2. \A x \in samples : x.time < rangeStart /\ x.time <= rangeEnd => x \in settled \cup late
      BY <1>1 DEF RangeInv
  <2>3. ASSUME pc' = "store", NEW x \in samples, x.time <= rangeEnd
        PROVE  x \in settled \cup late
    <3>1. series' = <<>>
        BY <1>1, <2>3
    <3>2. x.time < rangeStart
        BY <1>2, <1>10, <2>1, <2>3, <3>1
    <3> QED
        BY <2>2, <2>3, <3>2
  <2> QED
      BY <1>1, <1>10, <2>3 DEF CoverInv
<1> QED
    BY <1>7, <1>8, <1>9, <1>11

(* What is taken of a series fits in the request, and is in the series.    *)
LEMMA TakenBounds ==
    ASSUME NEW q \in Seq(Times), sampleIndex \in Nat, sampleIndex <= Len(q),
           numSamples \in Nat, writer.num \in Nat, numSamples < writer.num
    PROVE  /\ TakenFrom(q) \in Nat /\ sampleIndex + TakenFrom(q) \in Nat
           /\ sampleIndex + TakenFrom(q) <= Len(q) /\ numSamples + TakenFrom(q) <= writer.num
<1> DEFINE taken == TakenFrom(q)
<1>1. Len(q) \in Nat
    BY LenProperties
<1>2. writer.num - numSamples \in Nat /\ Len(q) - sampleIndex \in Nat
    BY <1>1
<1>3. taken \in {writer.num - numSamples, Len(q) - sampleIndex}
    BY <1>2, Bounds DEF TakenFrom
<1>4. taken <= writer.num - numSamples /\ taken <= Len(q) - sampleIndex
    BY <1>2 DEF TakenFrom, AtMost
<1> HIDE DEF taken
<1>5. taken \in Nat /\ sampleIndex + taken \in Nat /\ sampleIndex + taken <= Len(q)
      /\ numSamples + taken <= writer.num
    BY <1>1, <1>2, <1>3, <1>4
<1> QED
    BY <1>5 DEF taken

LEMMA FillStep == ASSUME WriteInv, FillRequest PROVE WriteInv'
<1> USE DEF WriteInv
<1> DEFINE s == series[i]
           taken == TakenFrom(s)
           next == sampleIndex + taken
           last == next = Len(s)
<1>1. /\ UNCHANGED <<now, pending, samples, settled, late, LastWrite, lastWriteFile, RangeDuration,
                     writer, rangeStart, rangeEnd, series>>
      /\ pc = "batch" /\ numSamples' = numSamples + taken
      /\ request' = request \cup {[series |-> i, time |-> s[k]] : k \in (sampleIndex + 1)..next}
      /\ i' = IF last THEN i + 1 ELSE i
      /\ sampleIndex' = IF last THEN 0 ELSE next
      /\ pc' = IF numSamples' # writer.num /\ i' <= Len(series) THEN "batch" ELSE "send"
    BY DEF FillRequest, store, receiver, range, progress
<1>2. /\ series \in Seq(Seq(Times)) /\ Len(series) <= NumSeries /\ i \in 1..Len(series)
      /\ sampleIndex \in Nat /\ sampleIndex <= Len(s) /\ request \subseteq Sample
      /\ numSamples \in Nat /\ numSamples < writer.num /\ writer.num \in Nat
      /\ Len(series) \in Nat
    BY <1>1, LenProperties DEF BatchInv
<1>3. s \in Seq(Times) /\ Len(s) \in Nat
    BY <1>2, ElementOfSeq, LenProperties
<1>4. taken \in Nat /\ next \in Nat /\ next <= Len(s) /\ numSamples + taken <= writer.num
    BY <1>2, <1>3, TakenBounds
<1> HIDE DEF taken
<1>5. request' \subseteq Sample
  <2>1. ASSUME NEW k \in (sampleIndex + 1)..next PROVE [series |-> i, time |-> s[k]] \in Sample
    <3>1. k \in 1..Len(s)
        BY <1>2, <1>3, <1>4, <2>1
    <3>2. s[k] \in Times
        BY <1>3, <3>1, ElementOfSeq
    <3>3. i \in Series
        BY <1>2, StoreAssumption DEF Series
    <3> QED
        BY <3>2, <3>3 DEF Sample
  <2> QED
      BY <1>1, <1>2, <2>1
<1>6. BatchInv'
  <2>1. pc' \in {"batch", "send"} /\ (pc' = "batch" => numSamples' # writer.num /\ i' <= Len(series))
      BY <1>1
  <2>2. i' \in Nat \ {0} /\ sampleIndex' \in Nat /\ numSamples' \in Nat
      BY <1>1, <1>2, <1>4
  <2>3. numSamples' <= writer.num
      BY <1>1, <1>4
  <2>4. i' <= Len(series) => sampleIndex' <= Len(series[i'])
    <3>1. CASE last
      <4>1. i' = i + 1 /\ sampleIndex' = 0
          BY <1>1, <3>1
      <4>2. i + 1 <= Len(series) => Len(series[i + 1]) \in Nat
          BY <1>2, ElementOfSeq, LenProperties
      <4> QED
          BY <4>1, <4>2
    <3>2. CASE ~last
        BY <1>1, <1>4, <3>2
    <3> QED
        BY <3>1, <3>2
  <2>5. pc' = "batch" => numSamples' < writer.num
      BY <1>2, <2>1, <2>2, <2>3
  <2>6. writer' = writer /\ series' = series /\ writer.num \in Nat \ {0}
      BY <1>1, <1>2
  <2> QED
      BY <1>2, <1>5, <2>1, <2>2, <2>4, <2>5, <2>6 DEF BatchInv
<1>7. RangeInv'
    BY <1>1 DEF RangeInv
<1>8. DataInv' /\ NothingSkipped'
    BY <1>1 DEF DataInv, PCs, NothingSkipped
<1>9. ASSUME NEW x \in samples, Ahead(x) PROVE x \in request' \/ Ahead(x)'
  <2>0. x \in Sample /\ x = [series |-> x.series, time |-> x.time]
      BY <1>9 DEF DataInv, Sample
  <2>1. PICK k \in 1..Len(series[x.series]) :
           series[x.series][k] = x.time /\ (x.series = i => k > sampleIndex)
      BY <1>9 DEF Ahead
  <2>2. x.series \in i..Len(series)
      BY <1>9 DEF Ahead
  <2>3. CASE x.series = i /\ k <= next
    <3>1. k \in (sampleIndex + 1)..next
        BY <1>2, <1>3, <1>4, <2>1, <2>3
    <3>2. [series |-> i, time |-> s[k]] \in request'
        BY <1>1, <3>1
    <3>3. x = [series |-> i, time |-> s[k]]
        BY <2>0, <2>1, <2>3
    <3> QED
        BY <3>2, <3>3
  <2>4. CASE x.series = i /\ ~(k <= next)
    <3>1. k > next /\ ~last
        BY <1>3, <1>4, <2>1, <2>4
    <3>2. i' = i /\ sampleIndex' = next
        BY <1>1, <3>1
    <3> QED
        BY <1>1, <2>1, <2>2, <3>1, <3>2 DEF Ahead
  <2>5. CASE x.series # i
    <3>1. x.series \in (i + 1)..Len(series) /\ x.series \in i..Len(series)
        BY <1>2, <2>2, <2>5
    <3>2. x.series \in i'..Len(series)
        BY <1>1, <3>1
    <3>3. x.series = i' => k > sampleIndex'
        BY <1>1, <2>1, <2>5
    <3> QED
        BY <1>1, <2>1, <3>2, <3>3 DEF Ahead
  <2> QED
      BY <2>3, <2>4, <2>5
<1>10. CoverInv'
  <2>1. request \subseteq request' /\ pc' \in {"batch", "send"}
      BY <1>1
  <2> QED
      BY <1>1, <1>9, <2>1 DEF CoverInv
<1> QED
    BY <1>6, <1>7, <1>8, <1>10

LEMMA AnsweredStep == ASSUME WriteInv, RequestAnswered PROVE WriteInv'
<1> USE DEF WriteInv
<1>1. /\ UNCHANGED <<now, pending, samples, late, LastWrite, lastWriteFile, RangeDuration,
                     writer, rangeStart, rangeEnd, series, i, sampleIndex>>
      /\ pc = "send" /\ settled' = settled \cup request
      /\ request' = {} /\ numSamples' = 0
      /\ pc' = IF i <= Len(series) THEN "batch" ELSE "store"
    BY DEF RequestAnswered, store, receiver, range
<1>2. DataInv'
    BY <1>1 DEF DataInv, PCs, BatchInv
<1>3. NothingSkipped'
    BY <1>1 DEF NothingSkipped
<1>4. RangeInv'
    BY <1>1 DEF RangeInv
<1>5. BatchInv'
  <2>1. pc' \in {"batch", "store"} /\ (pc' = "batch" => i <= Len(series))
      BY <1>1
  <2>2. writer.num \in Nat \ {0} /\ (i <= Len(series) => sampleIndex <= Len(series[i]))
      BY <1>1 DEF BatchInv
  <2> QED
      BY <1>1, <2>1, <2>2 DEF BatchInv
<1>6. \A x : Ahead(x)' <=> Ahead(x)
    BY <1>1 DEF Ahead
<1>7. CoverInv'
  <2>1. CASE pc' = "batch"
      BY <1>1, <1>6, <2>1 DEF CoverInv
  <2>2. CASE pc' = "store"
    <3>1. ~(i <= Len(series)) /\ i \in Nat /\ Len(series) \in Nat
        BY <1>1, <2>2, LenProperties DEF BatchInv
    <3>2. ASSUME NEW x \in samples PROVE ~Ahead(x)
        BY <3>1 DEF Ahead
    <3>3. \A x \in samples : x.time \in Nat /\ rangeStart \in Nat
        BY DEF DataInv, RangeInv, Sample, Times
    <3>4. ASSUME NEW x \in samples, x.time <= rangeEnd PROVE x \in settled' \cup late
      <4>1. CASE x.time < rangeStart
          BY <1>1, <3>4, <4>1 DEF RangeInv
      <4>2. CASE x.time >= rangeStart
          BY <1>1, <3>2, <3>4, <4>2 DEF CoverInv
      <4> QED
          BY <3>3, <4>1, <4>2
    <3> QED
        BY <1>1, <2>2, <3>4 DEF CoverInv
  <2> QED
      BY <1>1, <2>1, <2>2
<1> QED
    BY <1>2, <1>3, <1>4, <1>5, <1>7

LEMMA FailsStep == ASSUME WriteInv, RequestFails PROVE WriteInv'
<1> USE DEF WriteInv
<1>1. /\ UNCHANGED <<now, pending, samples, late, LastWrite, lastWriteFile, RangeDuration>>
      /\ pc = "send" /\ settled \subseteq settled' /\ settled' \subseteq settled \cup request
    BY DEF RequestFails, store, receiver
<1>2. settled' \subseteq Sample
    BY <1>1 DEF DataInv, BatchInv
<1>3. CASE UNCHANGED <<pc, writer, range, series, i, sampleIndex, request, numSamples>>
  <2>1. DataInv' /\ NothingSkipped'
      BY <1>1, <1>2, <1>3 DEF DataInv, NothingSkipped
  <2>2. RangeInv'
      BY <1>1, <1>3 DEF RangeInv, range
  <2>3. BatchInv'
      BY <1>3 DEF BatchInv
  <2>4. \A x : Ahead(x)' <=> Ahead(x)
      BY <1>3 DEF Ahead
  <2>5. CoverInv'
      BY <1>1, <1>3, <2>4 DEF CoverInv, range
  <2> QED
      BY <2>1, <2>2, <2>3, <2>5
<1>4. CASE WriteReturns
    BY <1>1, <1>2, <1>4, ReturnStep
<1> QED
    BY <1>3, <1>4 DEF RequestFails

LEMMA StoreStep == ASSUME WriteInv, StoreLastWrite PROVE WriteInv'
<1> USE DEF WriteInv
<1>1. /\ UNCHANGED <<now, pending, samples, settled, late, RangeDuration, writer>>
      /\ pc = "store" /\ pc' = "loop" /\ LastWrite' = rangeEnd
      /\ lastWriteFile' \in {rangeEnd, lastWriteFile, 0}
      /\ EmptyRange /\ EmptyBatch
    BY DEF StoreLastWrite, store, receiver, Go
<1>2. /\ rangeEnd \in Nat /\ rangeEnd > LastWrite /\ LastWrite \in Nat
      /\ lastWriteFile \in Nat /\ lastWriteFile <= LastWrite /\ writer.num \in Nat \ {0}
    BY <1>1 DEF DataInv, RangeInv, BatchInv
<1>3. lastWriteFile' \in Nat /\ lastWriteFile' <= rangeEnd
    BY <1>1, <1>2
<1>4. DataInv'
    BY <1>1, <1>2, <1>3 DEF DataInv, PCs
<1>5. NothingSkipped'
  <2>1. \A x \in samples : x.time \in Nat
      BY DEF DataInv, Sample, Times
  <2>2. \A x \in samples : x.time <= lastWriteFile' => x.time <= rangeEnd
      BY <1>2, <1>3, <2>1
  <2> QED
      BY <1>1, <2>2 DEF NothingSkipped, CoverInv
<1> QED
    BY <1>1, <1>2, <1>4, <1>5, Empty

LEMMA RestartStep ==
    ASSUME WriteInv, NewRemoteWrite, pc' \in {"none", "getConfig"} PROVE WriteInv'
<1>1. /\ UNCHANGED <<now, settled, late, RangeDuration, lastWriteFile>>
      /\ samples' \subseteq samples /\ LastWrite' = lastWriteFile /\ pending' = {}
    BY DEF NewRemoteWrite, NewTSDB
<1>2. DataInv'
    BY <1>1 DEF WriteInv, DataInv, PCs
<1>3. NothingSkipped'
    BY <1>1 DEF WriteInv, NothingSkipped
<1> QED
    BY <1>2, <1>3, Empty DEF NewRemoteWrite

-----------------------------------------------------------------------------
(* The goroutine and the CA file.                                          *)

LEMMA NewFile ==
    ASSUME NEW c \in Receivers, NEW present, CanName(c, present)
    PROVE  /\ CaFileFor(c, present) \in (CaFiles \ present) \cup {NoFile}
           /\ [num |-> c.num, ca |-> CaFileFor(c, present)] \in Clients
<1>1. CaFileFor(c, present) \in (CaFiles \ present) \cup {NoFile}
    BY DEF CanName, CaFileFor
<1>2. c.num \in Nat \ {0}
    BY RemoteWriteAssumption
<1> QED
    BY <1>1, <1>2 DEF Clients

LEMMA EnabledIsReceiver ==
    ASSUME NEW c \in Receivers \cup {NoReceiver}, ~Disabled(c) PROVE c \in Receivers
BY DEF Disabled

LEMMA ClientStep == ASSUME ClientInv, [Next]_vars PROVE ClientInv'
<1> DEFINE clientVars == <<client, currentServerCaFile, caFiles>>
<1>0. NoFile \notin CaFiles
    BY RemoteWriteAssumption
<1>1. ASSUME NEW c \in Receivers \cup {NoReceiver}, Update(c) PROVE ClientInv'
  <2>1. CASE Disable /\ UNCHANGED <<isRunning, routines, pc>>
      BY <2>1 DEF Disable, ClientInv, OneWriter
  <2>2. CASE /\ ~Disabled(c) /\ CanName(c, caFiles)
             /\ applyConfig(c, CaFileFor(c, caFiles)) /\ StartRoutine
    <3> DEFINE f == CaFileFor(c, caFiles)
    <3>1. f \in (CaFiles \ caFiles) \cup {NoFile} /\ [num |-> c.num, ca |-> f] \in Clients
        BY <2>2, EnabledIsReceiver, NewFile
    <3> HIDE DEF f
    <3>2. /\ client' = [num |-> c.num, ca |-> f] /\ currentServerCaFile' = f
          /\ caFiles' = (caFiles \cup ({f} \cap CaFiles)) \ {currentServerCaFile}
        BY <2>2 DEF applyConfig, f
    <3>3. client' \in Clients /\ client'.ca = currentServerCaFile'
        BY <3>1, <3>2
    <3>4. currentServerCaFile' \in caFiles' \cup {NoFile} /\ caFiles' \subseteq CaFiles
        BY <3>1, <3>2, <1>0 DEF ClientInv
    <3>5. /\ isRunning' = TRUE /\ pc' # "none"
          /\ routines' = 1
        BY <2>2 DEF StartRoutine, ClientInv, OneWriter
    <3> QED
        BY <3>3, <3>4, <3>5 DEF ClientInv, OneWriter
  <2> QED
      BY <1>1, <2>1, <2>2 DEF Update
<1>2. ASSUME NEW c \in Receivers \cup {NoReceiver}, UpdateFails(c) PROVE ClientInv'
  <2>1. UNCHANGED <<client, currentServerCaFile, isRunning, routines, pc>>
      BY <1>2 DEF UpdateFails, routine
  <2>2. caFiles \subseteq caFiles' /\ caFiles' \subseteq CaFiles
    <3>1. CASE UNCHANGED caFiles
        BY <3>1 DEF ClientInv
    <3>2. CASE c.ca /\ CanName(c, caFiles) /\ caFiles' = caFiles \cup {CaFileFor(c, caFiles)}
      <4>1. CaFileFor(c, caFiles) \in CaFiles
          BY <3>2 DEF CanName, CaFileFor
      <4> QED
          BY <3>2, <4>1 DEF ClientInv
    <3> QED
        BY <1>2, <3>1, <3>2 DEF UpdateFails
  <2> QED
      BY <2>1, <2>2 DEF ClientInv, OneWriter
<1>3. ASSUME NEW c \in Receivers \cup {NoReceiver}, RestartEnabled(c) PROVE ClientInv'
  <2> DEFINE f == CaFileFor(c, {})
  <2>1. f \in CaFiles \cup {NoFile} /\ [num |-> c.num, ca |-> f] \in Clients
      BY <1>3, EnabledIsReceiver, NewFile DEF RestartEnabled
  <2> HIDE DEF f
  <2>2. /\ client' = [num |-> c.num, ca |-> f] /\ currentServerCaFile' = f
        /\ caFiles' = {f} \cap CaFiles
        /\ isRunning' = TRUE /\ routines' = 1 /\ pc' = "getConfig"
      BY <1>3 DEF RestartEnabled, f
  <2> QED
      BY <2>1, <2>2 DEF ClientInv, OneWriter
<1>4. ASSUME NEW c \in Receivers \cup {NoReceiver}, RestartDisabled(c) PROVE ClientInv'
    BY <1>4 DEF RestartDisabled, Disable, ClientInv, OneWriter
<1>5. CASE getConfig
  <2>1. UNCHANGED clientVars
      BY <1>5 DEF getConfig, receiver
  <2>2. CASE client # NoClient /\ pc' = "loop" /\ UNCHANGED routine
    <3>1. pc # "none" /\ pc' # "none" /\ UNCHANGED <<isRunning, routines>>
        BY <1>5, <2>2 DEF getConfig, Go, routine
    <3> QED
        BY <2>1, <3>1 DEF ClientInv, OneWriter
  <2>4. CASE client = NoClient
    <3>1. pc = "getConfig" /\ pc' = "none" /\ routines' = routines - 1
        BY <1>5, <2>4 DEF getConfig, Go
    <3>2. isRunning' = FALSE
        BY <1>5, <2>4, Zenon DEF getConfig, Go
    <3>3. isRunning /\ routines = 1
        BY <3>1 DEF ClientInv, OneWriter
    <3>4. routines' = 0
        BY <3>1, <3>3
    <3> QED
        BY <2>1, <2>4, <3>1, <3>2, <3>4 DEF ClientInv, OneWriter
  <2>5. CASE client # NoClient
      BY <1>5, <2>2, <2>5 DEF getConfig, Go
  <2> QED
      BY <2>4, <2>5
<1>6. CASE \/ ReadMaxTime \/ SetRange \/ ReadRange \/ ReadFails \/ FillRequest
           \/ RequestAnswered \/ RequestFails \/ StoreLastWrite
  <2>1. UNCHANGED clientVars /\ UNCHANGED <<isRunning, routines>>
      BY <1>6 DEF ReadMaxTime, SetRange, ReadRange, ReadFails, FillRequest, RequestAnswered,
                  RequestFails, StoreLastWrite, receiver, routine
  <2>2. pc # "none" /\ pc' # "none"
      BY <1>6 DEF ReadMaxTime, SetRange, ReadRange, ReadFails, FillRequest, RequestAnswered,
                  RequestFails, StoreLastWrite, WriteReturns, Go
  <2> QED
      BY <2>1, <2>2 DEF ClientInv, OneWriter
<1>7. CASE \/ ConfigureStore \/ StoreBreaks \/ TimePasses \/ (\E l \in Series : Scrape(l))
           \/ (\E x \in pending : ScrapeCommits(x) \/ ScrapeFails(x)) \/ UNCHANGED vars
  <2>1. UNCHANGED clientVars /\ UNCHANGED <<isRunning, routines, pc>>
      BY <1>7 DEF ConfigureStore, StoreBreaks, TimePasses, Scrape, ScrapeCommits, ScrapeFails,
                  Outside, receiver, routine, vars
  <2> QED
      BY <2>1 DEF ClientInv, OneWriter
<1> QED
    BY <1>1, <1>2, <1>3, <1>4, <1>5, <1>6, <1>7 DEF Next, Configure, WriteStep

-----------------------------------------------------------------------------
(* Initial states, and every step.                                         *)

LEMMA InitInv == Init => ClientInv /\ WriteInv
<1> SUFFICES ASSUME Init PROVE ClientInv /\ WriteInv
    OBVIOUS
<1>1. ClientInv
  <2>1. CASE Disabled(Config) /\ client = NoClient /\ currentServerCaFile = NoFile
    <3>1. caFiles = {}
        BY <2>1, RemoteWriteAssumption DEF Init
    <3>2. isRunning = FALSE /\ routines = 0 /\ pc = "none"
        BY <2>1 DEF Init
    <3> QED
        BY <2>1, <3>1, <3>2 DEF ClientInv, OneWriter
  <2>2. CASE /\ ~Disabled(Config) /\ CanName(Config, {})
             /\ currentServerCaFile = CaFileFor(Config, {})
             /\ client = [num |-> Config.num, ca |-> currentServerCaFile]
    <3>1. Config \in Receivers
        BY <2>2, EnabledIsReceiver DEF Init
    <3>2. currentServerCaFile \in CaFiles \cup {NoFile} /\ client \in Clients
        BY <2>2, <3>1, NewFile
    <3>3. isRunning = TRUE /\ routines = 1 /\ pc = "getConfig"
        BY <3>2, NoClientAssumption DEF Init
    <3>4. caFiles = {currentServerCaFile} \cap CaFiles
        BY DEF Init
    <3> QED
        BY <2>2, <3>2, <3>3, <3>4 DEF ClientInv, OneWriter
  <2> QED
      BY <2>1, <2>2 DEF Init
<1>2. WriteInv
  <2>1. <<>> \in Seq(Seq(Times)) /\ Len(<<>>) = 0 /\ NumSeries \in Nat /\ 1 \in Times
      BY EmptySeq, StoreAssumption DEF Times
  <2>2. RangeDuration \in Nat
      BY RemoteWriteAssumption DEF Init
  <2>3. pc \in {"none", "getConfig"}
      BY DEF Init
  <2>4. DataInv /\ NothingSkipped
      BY <2>1, <2>2, <2>3 DEF Init, StoreInit, DataInv, PCs, NothingSkipped
  <2>5. RangeInv /\ CoverInv
      BY <2>3 DEF Init, RangeInv, CoverInv
  <2>6. BatchInv
      BY <2>1, <2>3 DEF Init, BatchInv
  <2> QED
      BY <2>4, <2>5, <2>6 DEF WriteInv
<1> QED
    BY <1>1, <1>2

(* The steps that touch neither the samples nor the goroutine's work.      *)
LEMMA SettingsStep ==
    ASSUME WriteInv, ClientInv, NEW c \in Receivers \cup {NoReceiver},
           Update(c) \/ UpdateFails(c) \/ ConfigureStore \/ StoreBreaks \/ UNCHANGED vars
    PROVE  UNCHANGED Untouched /\ WriteInv'
<1>1. UNCHANGED Untouched
    BY DEF Update, UpdateFails, ConfigureStore, StoreBreaks, vars, Untouched, Outside, store,
           StoreDeregister, StoreUpdate, StoreCloseFails, StoreOpenFails, receiver, range,
           progress
<1>2. pc' = pc \/ {pc, pc'} \subseteq {"getConfig", "none"}
    BY DEF Update, UpdateFails, ConfigureStore, StoreBreaks, vars, Outside, StartRoutine, ClientInv
<1> QED
    BY <1>1, <1>2, UntouchedStep

LEMMA ReadFailsStep == ASSUME WriteInv, ReadFails PROVE WriteInv'
<1>1. UNCHANGED <<now, pending, samples, settled, late, LastWrite, lastWriteFile, RangeDuration>>
    BY DEF ReadFails, store, receiver, progress
<1>2. WriteReturns /\ settled \subseteq settled' /\ settled' \subseteq Sample
    BY <1>1 DEF ReadFails, WriteInv, DataInv
<1> QED
    BY <1>1, <1>2, ReturnStep

LEMMA WriteStepKeeps == ASSUME WriteInv, ClientInv, [Next]_vars PROVE WriteInv'
<1>1. CASE ConfigureStore \/ StoreBreaks \/ UNCHANGED vars
    BY <1>1, SettingsStep
<1>2. ASSUME NEW c \in Receivers \cup {NoReceiver},
             Update(c) \/ UpdateFails(c) \/ RestartEnabled(c) \/ RestartDisabled(c)
      PROVE  WriteInv'
    BY <1>2, SettingsStep, RestartStep DEF RestartEnabled, RestartDisabled
<1>3. CASE WriteStep
    BY <1>3, GetConfigStep, ReadMaxTimeStep, SetRangeStep, ReadRangeStep, ReadFailsStep,
       FillStep, AnsweredStep, FailsStep, StoreStep DEF WriteStep
<1>4. CASE (\E l \in Series : Scrape(l)) \/ (\E x \in pending : ScrapeFails(x))
    BY <1>4, ScrapeStep
<1> QED
    BY <1>1, <1>2, <1>3, <1>4, TimeStep, CommitStep DEF Next, Configure

LEMMA Invariants == Spec => [](WriteInv /\ ClientInv)
<1>1. WriteInv /\ ClientInv /\ [Next]_vars => (WriteInv /\ ClientInv)'
    BY WriteStepKeeps, ClientStep
<1> QED
    BY <1>1, InitInv, PTL DEF Spec

(* At least once: no stored sample up to LastWrite, nor up to the time in  *)
(* the file, is missing at the receiver unless it was stored too late      *)
(* (RemoteWrite.Write and writeRange), for any number of series, any range *)
(* and request size, failures, changes of the receiver and crashes.        *)
THEOREM SamplesNotSkipped == Spec => []NothingSkipped
<1>1. WriteInv => NothingSkipped
    BY DEF WriteInv
<1> QED
    BY <1>1, Invariants, PTL

(* One goroutine is in writeRoutine, and one is whenever there is a client *)
(* (Update and writeRoutine share isRunning under the lock).               *)
THEOREM SingleWriter == Spec => []OneWriter
<1>1. ClientInv => OneWriter
    BY DEF ClientInv
<1> QED
    BY <1>1, Invariants, PTL

(* applyConfig and removeServerCaFiles keep the CA file of the client.     *)
THEOREM ClientFileKept == Spec => []CaFileKept
<1>1. ClientInv => CaFileKept
    BY DEF ClientInv, CaFileKept
<1> QED
    BY <1>1, Invariants, PTL

-----------------------------------------------------------------------------
(* The size of a request.                                                  *)

(* The data points of a series have different times.                       *)
LEMMA TimesDistinct ==
    ASSUME NEW q \in SortedTimes
    PROVE  q \in Seq(Times) /\ \A j, k \in 1..Len(q) : q[j] = q[k] => j = k
<1>1. PICK n \in 0..MaxNow : q \in [1..n -> Times]
    BY DEF SortedTimes
<1>2. q \in Seq(Times)
    BY <1>1, SeqDef, StoreAssumption
<1>3. DOMAIN q = 1..Len(q) /\ Len(q) \in Nat
    BY <1>2, LenProperties
<1>4. \A j, k \in 1..Len(q) : j < k => q[j] < q[k]
    BY <1>3 DEF SortedTimes
<1>5. \A k \in 1..Len(q) : q[k] \in Nat
  <2>1. Times \subseteq Nat
      BY DEF Times
  <2> QED
      BY <1>1, <1>3, <2>1
<1>6. \A j, k \in 1..Len(q) : j < k => q[j] # q[k]
    BY <1>4, <1>5
<1> QED
    BY <1>2, <1>3, <1>6

(* An interval without repetitions of a sequence has as many elements as   *)
(* it has places.                                                          *)
LEMMA PlacesCount ==
    ASSUME NEW a \in Nat, NEW b \in Nat, a <= b, NEW S,
           NEW f \in [(a + 1)..b -> S], \A x \in S : \E k \in (a + 1)..b : f[k] = x,
           \A j, k \in (a + 1)..b : f[j] = f[k] => j = k
    PROVE  IsFiniteSet(S) /\ Cardinality(S) = b - a
<1>1. f \in Injection((a + 1)..b, S)
    BY DEF Injection, IsInjective
<1>2. f \in Surjection((a + 1)..b, S)
    BY DEF Surjection
<1>3. ExistsBijection((a + 1)..b, S)
    BY <1>1, <1>2 DEF ExistsBijection, Bijection
<1>4. IsFiniteSet((a + 1)..b) /\ Cardinality((a + 1)..b) = b - a
  <2>1. /\ IsFiniteSet((a + 1)..b)
        /\ Cardinality((a + 1)..b) = IF a + 1 > b THEN 0 ELSE b - (a + 1) + 1
      BY FS_Interval
  <2> QED
      BY <2>1
<1> QED
    BY <1>3, <1>4, FS_Bijection

LEMMA FillFits == ASSUME WriteInv, FitInv, FillRequest PROVE FitInv'
<1> DEFINE s == series[i]
           taken == TakenFrom(s)
           next == sampleIndex + taken
           last == next = Len(s)
           new == {[series |-> i, time |-> s[k]] : k \in (sampleIndex + 1)..next}
<1>1. /\ UNCHANGED <<writer, series>>
      /\ pc = "batch" /\ numSamples' = numSamples + taken
      /\ request' = request \cup new
      /\ i' = IF last THEN i + 1 ELSE i
      /\ sampleIndex' = IF last THEN 0 ELSE next
      /\ pc' = IF numSamples' # writer.num /\ i' <= Len(series) THEN "batch" ELSE "send"
    BY DEF FillRequest
<1>2. /\ series \in Seq(Seq(Times)) /\ i \in 1..Len(series)
      /\ sampleIndex \in Nat /\ sampleIndex <= Len(s) /\ request \subseteq Sample
      /\ numSamples \in Nat /\ numSamples < writer.num /\ writer.num \in Nat
      /\ Len(series) \in Nat
    BY <1>1, LenProperties DEF WriteInv, BatchInv
<1>3. s \in Seq(Times) /\ Len(s) \in Nat /\ s \in SortedTimes
    BY <1>2, ElementOfSeq, LenProperties DEF FitInv
<1>4. taken \in Nat /\ next \in Nat /\ next <= Len(s) /\ numSamples + taken <= writer.num
    BY <1>2, <1>3, TakenBounds
<1> HIDE DEF taken, s, new
<1>5. IsFiniteSet(new) /\ Cardinality(new) = taken
  <2>1. IsFiniteSet(new) /\ Cardinality(new) = next - sampleIndex
    <3>1. sampleIndex <= next
        BY <1>2, <1>4
    <3> DEFINE f == [k \in (sampleIndex + 1)..next |-> [series |-> i, time |-> s[k]]]
    <3>2. f \in [(sampleIndex + 1)..next -> new] /\
          \A x \in new : \E k \in (sampleIndex + 1)..next : f[k] = x
        BY DEF new
    <3>3. \A k \in (sampleIndex + 1)..next : k \in 1..Len(s)
        BY <1>2, <1>3, <1>4
    <3>4. \A j, k \in (sampleIndex + 1)..next : f[j] = f[k] => j = k
      <4>1. ASSUME NEW j \in (sampleIndex + 1)..next, NEW k \in (sampleIndex + 1)..next, f[j] = f[k]
            PROVE  s[j] = s[k]
          BY <4>1
      <4> QED
          BY <4>1, <1>3, <3>3, TimesDistinct
    <3> HIDE DEF f
    <3> QED
        BY <1>2, <1>4, <3>1, <3>2, <3>4, PlacesCount
  <2> QED
      BY <1>2, <1>4, <2>1
<1>6. request \cap new = {}
  <2>1. SUFFICES ASSUME NEW x \in request, x \in new PROVE FALSE
      OBVIOUS
  <2>2. PICK k \in (sampleIndex + 1)..next : x.series = i /\ x.time = s[k]
      BY <2>1 DEF new
  <2>3. PICK j \in 1..sampleIndex : s[j] = x.time
      BY <2>1, <2>2 DEF FitInv, Behind, s
  <2>4. j \in 1..Len(s) /\ k \in 1..Len(s) /\ j # k
      BY <1>2, <1>3, <1>4, <2>2, <2>3
  <2> QED
      BY <1>3, <2>2, <2>3, <2>4, TimesDistinct
<1>7. IsFiniteSet(request') /\ numSamples' = Cardinality(request')
  <2>1. /\ IsFiniteSet(request \cup new)
        /\ Cardinality(request \cup new) = Cardinality(request) + Cardinality(new) - Cardinality({})
      BY <1>5, <1>6, FS_Union DEF FitInv
  <2>2. Cardinality({}) = 0 /\ Cardinality(request) = numSamples
      BY FS_EmptySet DEF FitInv, RequestFits
  <2> QED
      BY <1>1, <1>2, <1>4, <1>5, <2>1, <2>2
<1>8. RequestFits'
  <2>1. numSamples' \in Nat /\ numSamples' <= writer.num
      BY <1>1, <1>2, <1>4
  <2>2. pc' = "batch" => numSamples' # writer.num
      BY <1>1
  <2>3. pc' = "batch" => numSamples' < writer.num
      BY <1>2, <2>1, <2>2
  <2> QED
      BY <1>1, <1>7, <2>1, <2>3 DEF RequestFits
<1>9. ASSUME NEW x \in request' PROVE Behind(x)'
  <2>1. x.series \in Nat /\ x.series <= i
    <3>1. CASE x \in request
        BY <1>2, <3>1 DEF FitInv, Behind, Sample, Series
    <3>2. CASE x \in new
        BY <1>2, <3>2 DEF new
    <3> QED
        BY <1>1, <1>9, <3>1, <3>2
  <2>2. CASE last
    <3>1. i' = i + 1
        BY <1>1, <2>2
    <3> QED
        BY <1>2, <2>1, <3>1 DEF Behind
  <2>3. CASE ~last
    <3>1. i' = i /\ sampleIndex' = next /\ series'[i'] = s
        BY <1>1, <2>3 DEF s
    <3>2. x.series = i => \E k \in 1..next : s[k] = x.time
      <4>1. CASE x \in request
          BY <1>2, <1>4, <4>1 DEF FitInv, Behind, s
      <4>2. CASE x \in new
          BY <1>2, <1>4, <4>2 DEF new
      <4> QED
          BY <1>1, <1>9, <4>1, <4>2
    <3> QED
        BY <2>1, <3>1, <3>2 DEF Behind
  <2> QED
      BY <2>2, <2>3
<1> QED
    BY <1>1, <1>7, <1>8, <1>9 DEF FitInv

(* A new request is empty.                                                 *)
LEMMA EmptyFits ==
    ASSUME request' = {}, numSamples' = 0, \A l \in 1..Len(series') : series'[l] \in SortedTimes,
           pc' \in {"batch", "send"} => writer'.num \in Nat \ {0}
    PROVE  FitInv'
<1>1. IsFiniteSet({}) /\ Cardinality({}) = 0
    BY FS_EmptySet
<1> QED
    BY <1>1 DEF FitInv, RequestFits

LEMMA EmptyBatchFits == ASSUME EmptyBatch, pc' \notin {"batch", "send"} PROVE FitInv'
<1>1. Len(series') = 0
    BY EmptySeq DEF EmptyBatch
<1>2. \A l \in 1..Len(series') : series'[l] \in SortedTimes
    BY <1>1
<1> QED
    BY <1>2, EmptyFits DEF EmptyBatch

(* The steps that leave the batch alone and do not begin or end one.       *)
LEMMA UntouchedFits ==
    ASSUME WriteInv, FitInv, UNCHANGED <<batch, writer>>,
           pc' = pc \/ pc \in {"none", "getConfig", "loop", "min"},
           pc' = pc \/ pc' \in {"none", "getConfig", "loop", "min", "read"}
    PROVE  FitInv'
<1>1. UNCHANGED <<series, i, sampleIndex, request, numSamples>>
    BY DEF batch
<1>2. \A x : Behind(x)' <=> Behind(x)
    BY <1>1 DEF Behind
<1> QED
    BY <1>1, <1>2 DEF FitInv, RequestFits

LEMMA FitStep == ASSUME WriteInv, ClientInv, FitInv, [Next]_vars PROVE FitInv'
<1>1. CASE FillRequest
    BY <1>1, FillFits
<1>2. CASE RequestAnswered
  <2>1. /\ request' = {} /\ numSamples' = 0 /\ UNCHANGED <<series, writer>> /\ pc = "send"
      BY <1>2 DEF RequestAnswered
  <2>2. writer.num \in Nat \ {0}
      BY <2>1 DEF WriteInv, BatchInv
  <2> QED
      BY <2>1, <2>2, EmptyFits DEF FitInv
<1>3. CASE ReadRange
  <2>1. /\ pc = "read" /\ UNCHANGED <<request, numSamples, writer>>
        /\ series' \in GetMetricsForTimeRange(rangeStart, rangeEnd)
      BY <1>3 DEF ReadRange
  <2>2. /\ request = {} /\ numSamples = 0 /\ writer.num \in Nat \ {0}
        /\ samples \subseteq Sample /\ rangeStart \in Nat /\ rangeEnd \in Nat
      BY <2>1 DEF FitInv, WriteInv, BatchInv, DataInv, RangeInv
  <2>3. \A l \in 1..Len(series') : series'[l] \in SortedTimes
      BY <2>1, <2>2, RangeRead
  <2> QED
      BY <2>1, <2>2, <2>3, EmptyFits
<1>4. CASE RequestFails
  <2>1. CASE WriteReturns
      BY <2>1, EmptyBatchFits DEF WriteReturns
  <2>2. CASE UNCHANGED <<pc, writer, series, i, sampleIndex, request, numSamples>>
    <3>1. \A x : Behind(x)' <=> Behind(x)
        BY <2>2 DEF Behind
    <3> QED
        BY <2>2, <3>1 DEF FitInv, RequestFits
  <2> QED
      BY <1>4, <2>1, <2>2 DEF RequestFails
<1>5. CASE WriteReturns \/ StoreLastWrite
    BY <1>5, EmptyBatchFits DEF WriteReturns, StoreLastWrite, Go
<1>6. ASSUME NEW c \in Receivers \cup {NoReceiver}, RestartEnabled(c) \/ RestartDisabled(c)
      PROVE  FitInv'
    BY <1>6, EmptyBatchFits DEF RestartEnabled, RestartDisabled, NewRemoteWrite
<1>7. ASSUME NEW c \in Receivers \cup {NoReceiver}, Update(c) \/ UpdateFails(c)
      PROVE  FitInv'
  <2>1. UNCHANGED <<batch, writer>>
      BY <1>7 DEF Update, UpdateFails
  <2>2. pc' = pc \/ (pc = "none" /\ pc' = "getConfig")
      BY <1>7 DEF Update, UpdateFails, StartRoutine, ClientInv
  <2> QED
      BY <2>1, <2>2, UntouchedFits
<1>8. CASE getConfig
  <2>1. UNCHANGED <<series, i, sampleIndex, request, numSamples>>
      BY <1>8 DEF getConfig, batch
  <2>2. pc = "getConfig" /\ pc' \in {"loop", "none"}
      BY <1>8 DEF getConfig, Go
  <2>3. request = {} /\ numSamples = 0
      BY <2>2 DEF FitInv, WriteInv, BatchInv
  <2> QED
      BY <2>1, <2>2, <2>3, EmptyFits DEF FitInv
<1>9. CASE (ReadMaxTime /\ ~WriteReturns) \/ SetRange
    BY <1>9, UntouchedFits DEF ReadMaxTime, SetRange, Go
<1>10. CASE \/ ConfigureStore \/ StoreBreaks \/ TimePasses \/ (\E l \in Series : Scrape(l))
            \/ (\E x \in pending : ScrapeCommits(x) \/ ScrapeFails(x)) \/ UNCHANGED vars
  <2>1. UNCHANGED <<batch, writer, pc>>
      BY <1>10 DEF ConfigureStore, StoreBreaks, TimePasses, Scrape, ScrapeCommits, ScrapeFails,
                   Outside, vars
  <2> QED
      BY <2>1, UntouchedFits
<1>11. CASE ReadFails
    BY <1>5, <1>11 DEF ReadFails
<1> QED
    BY <1>1, <1>2, <1>3, <1>4, <1>5, <1>6, <1>7, <1>8, <1>9, <1>10, <1>11
       DEF Next, Configure, WriteStep

(* A request takes at most RequestNumSamples samples and none twice, also  *)
(* where it ends in the middle of a series and the next one goes on there  *)
(* (writeRange), for any series, sizes and failures, and also when Update  *)
(* changes the receiver while a request is being filled.                   *)
THEOREM RequestsFit == Spec => []RequestFits
<1>1. Init => FitInv
  <2>1. Len(<<>>) = 0 /\ IsFiniteSet({}) /\ Cardinality({}) = 0
      BY EmptySeq, FS_EmptySet
  <2>2. ASSUME Init PROVE /\ series = <<>> /\ request = {} /\ numSamples = 0
                          /\ pc \in {"none", "getConfig"}
      BY <2>2 DEF Init
  <2>3. ASSUME Init PROVE FitInv
    <3>1. \A l \in 1..Len(series) : series[l] \in SortedTimes
        BY <2>1, <2>2, <2>3
    <3>2. IsFiniteSet(request) /\ RequestFits
        BY <2>1, <2>2, <2>3 DEF RequestFits
    <3> QED
        BY <2>2, <2>3, <3>1, <3>2 DEF FitInv
  <2> QED
      BY <2>3
<1>2. WriteInv /\ ClientInv /\ FitInv /\ [Next]_vars => FitInv'
    BY FitStep
<1>3. FitInv => RequestFits
    BY DEF FitInv
<1> QED
    BY <1>1, <1>2, <1>3, Invariants, PTL DEF Spec

-----------------------------------------------------------------------------
(* Refinement.                                                             *)

abstractVars == <<samples, settled, late, LastWrite>>

LEMMA ForwardStep ==
    ASSUME WriteInv, ClientInv, [Next]_vars
    PROVE  Forwarding!ForwardNext \/ UNCHANGED abstractVars
<1>1. CASE ConfigureStore \/ StoreBreaks \/ UNCHANGED vars
    BY <1>1, SettingsStep DEF Untouched, abstractVars
<1>2. ASSUME NEW c \in Receivers \cup {NoReceiver}, Update(c) \/ UpdateFails(c)
      PROVE  UNCHANGED abstractVars
    BY <1>2, SettingsStep DEF Untouched, abstractVars
<1>3. CASE NewRemoteWrite
  <2>1. samples' \subseteq samples /\ LastWrite' <= LastWrite /\ UNCHANGED <<settled, late>>
      BY <1>3 DEF NewRemoteWrite, NewTSDB, WriteInv, DataInv
  <2> QED
      BY <2>1 DEF Forwarding!ForwardNext, Forwarding!StartAgain
<1>4. CASE TimePasses
  <2>1. samples' \subseteq samples /\ UNCHANGED <<settled, late, LastWrite>>
      BY <1>4 DEF TimePasses, Tick, Expire, Outside, progress
  <2> QED
      BY <2>1 DEF Forwarding!ForwardNext, Forwarding!ExpireSome
<1>5. ASSUME NEW new \in pending, ScrapeCommits(new) PROVE Forwarding!ForwardNext
  <2>1. new \in Sample /\ new \notin samples
      BY DEF WriteInv, DataInv
  <2>2. /\ samples' = samples \cup {new}
        /\ late' = late \/ late' = late \cup {new}
        /\ new.time <= LastWrite => new \in late'
        /\ UNCHANGED <<settled, LastWrite>>
      BY <1>5 DEF ScrapeCommits, Commit, Passed, Outside, progress
  <2>3. Forwarding!Store(new)
      BY <2>1, <2>2 DEF Forwarding!Store
  <2> QED
      BY <2>1, <2>3 DEF Forwarding!ForwardNext
<1>9. CASE (\E l \in Series : Scrape(l)) \/ (\E x \in pending : ScrapeFails(x))
    BY <1>9, ScrapeStep DEF abstractVars
<1>6. CASE RequestAnswered \/ RequestFails
  <2>1. /\ settled \subseteq settled' /\ settled' \subseteq settled \cup request
        /\ UNCHANGED <<samples, late, LastWrite>>
      BY <1>6 DEF RequestAnswered, RequestFails, store
  <2>2. settled' \subseteq Sample
      BY <2>1 DEF WriteInv, DataInv, BatchInv
  <2> QED
      BY <2>1, <2>2 DEF Forwarding!ForwardNext, Forwarding!Settle
<1>7. CASE StoreLastWrite
  <2>1. /\ LastWrite' = rangeEnd /\ UNCHANGED <<samples, settled, late>> /\ pc = "store"
      BY <1>7 DEF StoreLastWrite, store, Go
  <2>2. rangeEnd > LastWrite /\ \A x \in samples : x.time <= rangeEnd => x \in settled \cup late
      BY <2>1 DEF WriteInv, RangeInv, CoverInv
  <2> QED
      BY <2>1, <2>2 DEF Forwarding!ForwardNext, Forwarding!Advance
<1>8. CASE getConfig \/ ReadMaxTime \/ SetRange \/ ReadRange \/ ReadFails \/ FillRequest
    BY <1>8 DEF getConfig, ReadMaxTime, SetRange, ReadRange, ReadFails, FillRequest, store,
                progress, abstractVars
<1> QED
    BY <1>1, <1>2, <1>3, <1>4, <1>5, <1>6, <1>7, <1>8, <1>9
       DEF Next, Configure, WriteStep, RestartEnabled, RestartDisabled

(* Remote write implements the abstract forwarding of samples: requests,   *)
(* retries, failed writes of the file and restarts are steps of it or no   *)
(* steps at all.                                                           *)
THEOREM ImplementsForwarding == Spec => Forwards
<1>1. Init => Forwarding!ForwardInit
    BY DEF Init, StoreInit, Forwarding!ForwardInit
<1>2. WriteInv /\ ClientInv /\ [Next]_vars => [Forwarding!ForwardNext]_(Forwarding!abstract)
    BY ForwardStep DEF abstractVars, Forwarding!abstract
<1> QED
    BY <1>1, <1>2, Invariants, PTL DEF Spec, Forwards, Forwarding!ForwardSpec
====
