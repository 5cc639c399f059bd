------------------------------ MODULE MonitorStorage ------------------------------
(***************************************************************************)
(* apps/monitor/database.py, outages.py: the samples of a device, the       *)
(* intervals of outage that are computed of them, the aggregates by bucket  *)
(* of time, and what retention deletes.  Several sessions measure; samples  *)
(* of one session and instant count as present if any of them is.           *)
(*                                                                         *)
(* Latencies are left out, and with them availability, which is a quotient  *)
(* of the same counts; so are incidents, states and identities, which are   *)
(* single rows.  One device: nothing relates two of them.                   *)
(***************************************************************************)
EXTENDS Integers, Sequences, FiniteSets, SequencesExt, FiniteSetsExt, Places

CONSTANTS
    MonitorRun,     \* sessions
    RunOrder,       \* ... as their names sort
    Resolution,     \* lengths of buckets
    Raw,            \* how long samples are kept
    Kept,           \* of each resolution, how long aggregates are
    MaxTime, MaxSamples     \* bounds

ASSUME MonitorStorageAssumption ==
    /\ RunOrder \in Seq(MonitorRun) /\ ToSet(RunOrder) = MonitorRun /\ IsInjective(RunOrder)
    /\ Resolution \subseteq Nat \ {0} /\ Kept \in [Resolution -> Nat]
    /\ \A r \in Resolution : Raw <= Kept[r]
    /\ {Raw, MaxTime, MaxSamples} \subseteq Nat

VARIABLES
    clock,
    samples,        \* the table: session, instant, present
    aggregates,     \* the table: of a resolution and the begin of a bucket
    maintenance,    \* the resolutions that aggregate has yet to write, and the timeline it has loaded
    taken           \* for the bound

storageVars == <<clock, samples, aggregates, maintenance, taken>>

Sample == [run : MonitorRun, at : 0..MaxTime, present : BOOLEAN]
NotMaintaining == [left |-> {}, outages |-> << >>]

-----------------------------------------------------------------------------
(* OutageTimeline *)

\* load_outages: one row for a session and an instant, by session, then by time.
RunPlace(run) == CHOOSE i \in DOMAIN RunOrder : RunOrder[i] = run
RowBefore(a, b) == RunPlace(a.run) < RunPlace(b.run) \/ (a.run = b.run /\ a.at < b.at)

RowSet(of) ==
    {[run |-> s.run, at |-> s.at, present |-> \E o \in of : o.run = s.run /\ o.at = s.at /\ o.present] : s \in of}
Rows(of) == Ordered(RowSet(of), RowBefore)

NotStarted == -1

\* The row that follows: the interval that is open ends with the last row of its session, or
\* with the first one that is present.
TakesRow(acc, row) ==
    LET left == acc.run # row.run /\ acc.start # NotStarted
        found == IF left THEN Append(acc.intervals, <<acc.start, acc.last>>) ELSE acc.intervals
        start == IF acc.run # row.run THEN NotStarted ELSE acc.start
        closes == row.present /\ start # NotStarted
    IN  [run |-> row.run, last |-> row.at,
         intervals |-> IF closes THEN Append(found, <<start, row.at>>) ELSE found,
         start |-> IF row.present THEN NotStarted ELSE IF start = NotStarted THEN row.at ELSE start]

Observed(of) ==
    LET end == FoldLeft(TakesRow, [run |-> "none", start |-> NotStarted, last |-> 0, intervals |-> << >>],
                        Rows(of))
    IN  IF end.start # NotStarted THEN Append(end.intervals, <<end.start, end.last>>) ELSE end.intervals

\* Intervals that touch are one.
Joins(merged, i) ==
    IF merged # << >> /\ i[1] <= Last(merged)[2]
    THEN Append(Front(merged), <<Last(merged)[1], Max({i[2], Last(merged)[2]})>>)
    ELSE Append(merged, i)

\* sorted: by begin, then by end.
StartsBefore(i, j) == i[1] < j[1] \/ (i[1] = j[1] /\ i[2] < j[2])

Sorted(found) ==
    LET places == Ordered(DOMAIN found, LAMBDA i, j : StartsBefore(found[i], found[j]) \/ (found[i] = found[j] /\ i < j))
    IN  [k \in DOMAIN found |-> found[places[k]]]

Timeline(of) == FoldLeft(Joins, << >>, Sorted(Observed(of)))

\* Fault: an interval that ends where the bucket begins is left out.
ReachesInto(i, from, resolution) == from < i[2] /\ i[1] < from + resolution

\* bucket: the intervals from the first that does not end before it.
Touches(i, from, resolution) == from <= i[2] /\ i[1] < from + resolution

OutageCount(outages, from, resolution) ==
    Cardinality({k \in DOMAIN outages : /\ Touches(outages[k], from, resolution)
                                        /\ from <= outages[k][1]})

Overlap(i, from, resolution) == Max({0, Min({i[2], from + resolution}) - Max({i[1], from})})

OutageTime(outages, from, resolution) ==
    FoldLeft(LAMBDA sum, i : IF Touches(i, from, resolution) THEN sum + Overlap(i, from, resolution) ELSE sum,
             0, outages)

-----------------------------------------------------------------------------
(* MetricsStore *)

Begin(at, resolution) == at - (at % resolution)

StorageInit ==
    /\ clock = 0 /\ samples = {} /\ aggregates = [r \in Resolution |-> << >>]
    /\ maintenance = NotMaintaining /\ taken = 0

TimePasses == clock < MaxTime /\ clock' = clock + 1 /\ UNCHANGED <<samples, aggregates, maintenance, taken>>

\* write, with the instant of the check.
TakeSample(run, present) ==
    /\ taken < MaxSamples /\ taken' = taken + 1
    /\ samples' = samples \cup {[run |-> run, at |-> clock, present |-> present]}
    /\ UNCHANGED <<clock, aggregates, maintenance>>

\* aggregate: the timeline is loaded once, the samples for each resolution.
BeginMaintenance ==
    /\ maintenance.left = {} /\ maintenance' = [left |-> Resolution, outages |-> Timeline(samples)]
    /\ UNCHANGED <<clock, samples, aggregates, taken>>

Bucket(from, resolution, outages) ==
    LET here == {s \in samples : Begin(s.at, resolution) = from} IN
    [samples |-> Cardinality(here), losses |-> Cardinality({s \in here : ~s.present}),
     outages |-> OutageCount(outages, from, resolution), time |-> OutageTime(outages, from, resolution)]

\* Of every bucket of which there are samples, INSERT OR REPLACE.
Aggregate(resolution) ==
    /\ resolution \in maintenance.left
    /\ LET new == {Begin(s.at, resolution) : s \in samples}
           old == DOMAIN aggregates[resolution]
       IN  aggregates' = [aggregates EXCEPT ![resolution] =
               [b \in new \cup old |-> IF b \in new THEN Bucket(b, resolution, maintenance.outages) ELSE @[b]]]
    /\ maintenance' = [maintenance EXCEPT !.left = @ \ {resolution}]
    /\ UNCHANGED <<clock, samples, taken>>

\* cleanup, after it.
CleanUp ==
    /\ maintenance.left = {} /\ maintenance # NotMaintaining /\ maintenance' = NotMaintaining
    /\ samples' = {s \in samples : s.at >= clock - Raw}
    /\ aggregates' = [r \in Resolution |->
           [b \in {c \in DOMAIN aggregates[r] : c >= clock - Kept[r]} |-> aggregates[r][b]]]
    /\ UNCHANGED <<clock, taken>>

StorageNext ==
    \/ TimePasses \/ BeginMaintenance \/ CleanUp
    \/ \E r \in MonitorRun, present \in BOOLEAN : TakeSample(r, present)
    \/ \E r \in Resolution : Aggregate(r)

StorageSpec == StorageInit /\ [][StorageNext]_storageVars

-----------------------------------------------------------------------------
(* Properties *)

StorageTypeOK ==
    /\ clock \in 0..MaxTime /\ samples \subseteq Sample /\ taken \in 0..MaxSamples
    /\ maintenance.left \subseteq Resolution
    /\ \A r \in Resolution : \A b \in DOMAIN aggregates[r] :
          /\ b % r = 0
          /\ aggregates[r][b].losses <= aggregates[r][b].samples /\ aggregates[r][b].time <= r

\* An instant (and the time up to the next one) is in an outage when in some session the last
\* observation so far is a failed one, and another one follows.
Failed(run, at) ==
    LET before == {s \in samples : s.run = run /\ s.at <= at}
        last == Max({s.at : s \in before})
    IN  /\ before # {} /\ \A s \in before : s.at = last => ~s.present
        /\ \E s \in samples : s.run = run /\ s.at > at

\* However sessions overlap and whatever retention has deleted, the buckets of a resolution add
\* up to the outages: every one is counted in one bucket, each bucket has the instants of it
\* that are in an outage, and the intervals keep apart.  (OutageTimeline; docs/MONITOR.md:70-76.)
OutagesAddUp ==
    LET outages == Timeline(samples)
        buckets(r) == {b \in 0..MaxTime : b % r = 0}
    IN  /\ \A k \in 1..(Len(outages) - 1) : outages[k][2] < outages[k + 1][1]
        /\ \A r \in Resolution :
              /\ Len(outages) = MapThenSumSet(LAMBDA b : OutageCount(outages, b, r), buckets(r))
              /\ \A b \in buckets(r) :
                    OutageTime(outages, b, r) =
                        Cardinality({i \in b..(b + r - 1) : \E run \in MonitorRun : Failed(run, i)})
================================================================================
