----------------------------- MODULE SessionTime -----------------------------
(* Session time, and what is aligned to it: synchronization/clock.py,          *)
(* bindings.py, quality.py and profiles.py with the catalog of bindings. An    *)
(* artifact keeps its rows and their order; every row gains the nanosecond of  *)
(* the session its source timestamp maps to and whether the session, a closed  *)
(* window, contains it. Source timestamps are counted in 1/Grain nanoseconds.  *)
EXTENDS Integers, FiniteSets, SequencesExt, FiniteSetsExt

CONSTANTS
  Unit,           \* the scale of a clock without drift
  Grain,          \* source ticks per nanosecond
  MaxInt64,
  MaxSessionEnd   \* MAX_SESSION_END_NS_V0_1

ASSUME TimeAssumption ==
  /\ Unit \in Nat \ {0} /\ Grain \in Nat \ {0}
  /\ MaxInt64 \in Nat /\ MaxSessionEnd \in 0..MaxInt64

-----------------------------------------------------------------------------
(* Clocks: [method, scale, offset, drift, rms, max]. *)

RoundHalfEven(n, d) ==
  LET q == n \div d
      r == n % d
  IN  IF 2 * r > d \/ (2 * r = d /\ q % 2 = 1) THEN q + 1 ELSE q

\* The product and the sum are exact; the sum is rounded, once.
SessionNs(t, clock) ==
  RoundHalfEven(t * clock.scale + clock.offset * Unit * Grain, Unit * Grain)

TrueClock == [method |-> "identity", scale |-> Unit, offset |-> 0, drift |-> 0, rms |-> 0, max |-> 0]

InInt64(n) == n \in (-MaxInt64 - 1)..MaxInt64

DeclarationConsistent(clock) == clock.drift = clock.scale - Unit /\ clock.rms <= clock.max

\* What streams of one clock must agree on; their residuals may differ.
Mapping(clock) == <<clock.method, clock.scale, clock.offset, clock.drift>>

-----------------------------------------------------------------------------
(* The catalog: how the tables of a stream get their times, in this order. *)

Point(role) == [role |-> role, mode |-> "point", parent |-> role]
Interval(role) == [role |-> role, mode |-> "interval", parent |-> role]
Inherit(role, parent) == [role |-> role, mode |-> "inherit", parent |-> parent]

Bindings(m) ==
  CASE m \in {"X", "U", "EEG"} -> <<Point("samples")>>
    [] m = "I"                 -> <<Point("frame_index"), Inherit("aoi_instances", "frame_index")>>
    [] m = "G"                 -> <<Point("gaze_samples"), Interval("fixations")>>
    [] m = "ECG"               -> <<Point("samples"), Point("r_peaks")>>
    [] m = "pilot_camera"      -> <<Point("frame_index")>>
    [] m = "task_reference"    -> <<Point("commanded_path")>>

-----------------------------------------------------------------------------
(* Rows: [t, key, ...], [start, end, key, ...] of a fixation, [frame, key] of a child. *)

Positions(rows) == 1..Len(rows)
Inside(ns, window) == 0 <= ns /\ ns <= window
Unique(rows, K(_)) == \A i, j \in Positions(rows) : K(rows[i]) = K(rows[j]) => i = j
KeyOf(row) == row.key
ChildKey(row) == <<row.frame, row.key>>

\* Whether row b may follow row a: by mapped time, then by key.
Follows(a, b, clock) ==
  LET s == SessionNs(a.t, clock)
      e == SessionNs(b.t, clock)
  IN  s < e \/ (s = e /\ a.key < b.key)

PointProblem(rows, clock) ==
  CASE \E i \in Positions(rows) : ~InInt64(SessionNs(rows[i].t, clock)) -> "TIMESTAMP_OUT_OF_INT64_RANGE"
    [] \E i \in 2..Len(rows) : ~Follows(rows[i - 1], rows[i], clock)    -> "TEMPORAL_ORDER_INVALID"
    [] OTHER                                                            -> "none"

\* The metrics ask for unique keys, whatever the times.
MetricsProblem(rows) == IF Unique(rows, KeyOf) THEN "none" ELSE "TEMPORAL_ORDER_INVALID"

IntervalProblem(rows, clock) ==
  CASE ~Unique(rows, KeyOf) -> "TEMPORAL_ORDER_INVALID"
    [] \E i \in Positions(rows) : ~InInt64(SessionNs(rows[i].start, clock))
                               \/ ~InInt64(SessionNs(rows[i].end, clock)) -> "TIMESTAMP_OUT_OF_INT64_RANGE"
    [] \E i \in Positions(rows) : SessionNs(rows[i].end, clock) <= SessionNs(rows[i].start, clock)
                                                                          -> "TEMPORAL_ORDER_INVALID"
    [] OTHER                                                              -> "none"

InheritProblem(rows, parents) ==
  IF /\ Unique(rows, ChildKey) /\ Unique(parents, KeyOf)
     /\ \A i \in Positions(rows) : \E j \in Positions(parents) : parents[j].key = rows[i].frame
  THEN "none" ELSE "TEMPORAL_PARENT_KEY_INVALID"

PointRow(row, clock, window) ==
  LET ns == SessionNs(row.t, clock) IN row @@ [ns |-> ns, in |-> Inside(ns, window)]

IntervalRow(row, clock, window) ==
  LET s == SessionNs(row.start, clock)
      e == SessionNs(row.end, clock)
  IN  row @@ [from |-> s, to |-> e, overlaps |-> e >= 0 /\ s <= window, full |-> s >= 0 /\ e <= window]

InheritRow(row, parents) ==
  LET p == CHOOSE i \in Positions(parents) : parents[i].key = row.frame
  IN  row @@ [ns |-> parents[p].ns, in |-> parents[p].in]

BindingProblem(b, tables, clock) ==
  CASE b.mode = "point"    -> LET p == PointProblem(tables[b.role], clock)
                              IN  IF p # "none" THEN p ELSE MetricsProblem(tables[b.role])
    [] b.mode = "interval" -> IntervalProblem(tables[b.role], clock)
    [] b.mode = "inherit"  -> InheritProblem(tables[b.role], tables[b.parent])

\* The first problem ends the alignment of the stream.
StreamProblem(m, tables, clock) ==
  LET problems == SelectSeq([i \in Positions(Bindings(m)) |-> BindingProblem(Bindings(m)[i], tables, clock)],
                            LAMBDA p : p # "none")
  IN  IF problems = <<>> THEN "none" ELSE Head(problems)

PointRows(rows, clock, window) == [i \in Positions(rows) |-> PointRow(rows[i], clock, window)]

AlignedTable(b, tables, clock, window) ==
  CASE b.mode = "point"    -> PointRows(tables[b.role], clock, window)
    [] b.mode = "interval" -> [i \in Positions(tables[b.role]) |-> IntervalRow(tables[b.role][i], clock, window)]
    [] b.mode = "inherit"  -> LET parents == PointRows(tables[b.parent], clock, window)
                              IN  [i \in Positions(tables[b.role]) |-> InheritRow(tables[b.role][i], parents)]

BindingOf(m, role) == Bindings(m)[CHOOSE i \in Positions(Bindings(m)) : Bindings(m)[i].role = role]
RolesOf(m) == {b.role : b \in ToSet(Bindings(m))}

AlignedTables(m, tables, clock, window) ==
  [role \in RolesOf(m) |-> AlignedTable(BindingOf(m, role), tables, clock, window)]

-----------------------------------------------------------------------------
(* Metrics. *)

Where(rows, P(_)) == Quantify(Positions(rows), LAMBDA i : P(rows[i]))
Times(rows) == {rows[i].ns : i \in Positions(rows)}
Earliest(S) == IF S = {} THEN {} ELSE {Min(S)}
Latest(S) == IF S = {} THEN {} ELSE {Max(S)}

\* The times inside the session, in order; a child's rows are sorted by time first.
TimesInside(rows) ==
  SortSeq([i \in DOMAIN SelectSeq(rows, LAMBDA r : r.in) |-> SelectSeq(rows, LAMBDA r : r.in)[i].ns], LAMBDA a, b : a < b)

Periods(times) ==
  SortSeq(SelectSeq([i \in 1..(Len(times) - 1) |-> times[i + 1] - times[i]], LAMBDA p : p > 0), LAMBDA a, b : a < b)

\* Twice the exact median.
Median2(ps) == ps[(Len(ps) + 1) \div 2] + ps[(Len(ps) + 2) \div 2]

PointMetrics(rows, window) ==
  LET times   == TimesInside(rows)
      periods == Periods(times)
      gap     == RoundHalfEven(5 * Median2(periods), 2)
      same(i) == {j \in Positions(rows) : rows[j].ns = rows[i].ns}
      twice   == {i \in Positions(rows) : Cardinality(same(i)) > 1}
  IN  [total  |-> Len(rows),
       in     |-> Where(rows, LAMBDA r : r.in),
       before |-> Where(rows, LAMBDA r : r.ns < 0),
       after  |-> Where(rows, LAMBDA r : r.ns > window),
       first  |-> Earliest(Times(rows)), last |-> Latest(Times(rows)),
       start  |-> Earliest(ToSet(times)), end |-> Latest(ToSet(times)),
       groups |-> Cardinality({same(i) : i \in twice}), repeated |-> Cardinality(twice),
       gap    |-> IF periods = <<>> THEN {} ELSE {gap},
       gaps   |-> Quantify(DOMAIN periods, LAMBDA i : periods[i] > gap),
       widest |-> IF periods = <<>> THEN {} ELSE {periods[Len(periods)]}]

IntervalMetrics(rows, window) ==
  [total       |-> Len(rows),
   before      |-> Where(rows, LAMBDA r : r.to < 0),
   after       |-> Where(rows, LAMBDA r : r.from > window),
   overlapping |-> Where(rows, LAMBDA r : r.overlaps),
   full        |-> Where(rows, LAMBDA r : r.full),
   first       |-> Earliest({rows[i].from : i \in Positions(rows)}),
   last        |-> Latest({rows[i].to : i \in Positions(rows)})]

MetricsOf(m, aligned, window) ==
  [role \in RolesOf(m) |-> IF BindingOf(m, role).mode = "interval" THEN IntervalMetrics(aligned[role], window)
                                                                 ELSE PointMetrics(aligned[role], window)]

Ordered(low, high) == \A a \in low, b \in high : a <= b

\* What the contract of the report asks of metrics.
PointMetricsAccepted(x) ==
  /\ x.in + x.before + x.after = x.total
  /\ x.repeated <= x.total /\ x.repeated >= 2 * x.groups /\ (x.groups = 0 => x.repeated = 0)
  /\ (x.total = 0) = (x.first = {}) /\ Ordered(x.first, x.last)
  /\ (x.in = 0) = (x.start = {}) /\ Ordered(x.start, x.end)
  /\ x.gap = {} => x.gaps = 0 /\ x.widest = {}
  /\ x.gap # {} => x.widest # {}

IntervalMetricsAccepted(x) ==
  /\ x.before + x.after + x.overlapping = x.total /\ x.full <= x.overlapping
  /\ (x.total = 0) = (x.first = {}) /\ \A a \in x.first, b \in x.last : a < b

MetricsAccepted(m, metrics) ==
  \A role \in DOMAIN metrics : IF BindingOf(m, role).mode = "interval" THEN IntervalMetricsAccepted(metrics[role])
                                                                   ELSE PointMetricsAccepted(metrics[role])

-----------------------------------------------------------------------------
(* Gaze samples against the frames they name. *)

\* The frame that is presented when the session ends, if there is one, stays until the end.
Terminal(frames, window) == Latest({i \in Positions(frames) : frames[i].ns <= window})

\* A bug to detect: a frame is still shown when the next one is.
PresentsUntilTheNext(frames, i, ns, window) ==
  /\ frames[i].ns <= ns
  /\ \/ i \in Terminal(frames, window) /\ ns <= window
     \/ i \notin Terminal(frames, window) /\ i < Len(frames) /\ ns <= frames[i + 1].ns

Presents(frames, i, ns, window) ==
  /\ frames[i].ns <= ns
  /\ \/ i \in Terminal(frames, window) /\ ns <= window
     \/ i \notin Terminal(frames, window) /\ i < Len(frames) /\ ns < frames[i + 1].ns

Associated(frames, sample, window) ==
  \E i \in Positions(frames) : frames[i].key = sample.frame /\ Presents(frames, i, sample.ns, window)

SceneGaze(frames, samples, window) ==
  [evaluated |-> Where(samples, LAMBDA s : s.in),
   valid     |-> Where(samples, LAMBDA s : s.in /\ Associated(frames, s, window)),
   invalid   |-> Where(samples, LAMBDA s : s.in /\ ~Associated(frames, s, window))]

=============================================================================
