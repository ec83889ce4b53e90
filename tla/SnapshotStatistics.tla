--------------------------- MODULE SnapshotStatistics ---------------------------
(***************************************************************************)
(* The Python side (mprofile/__init__.py): snapshots, filters, grouped     *)
(* statistics and their differences.                                       *)
(*                                                                         *)
(* A frame is <<name, filename, lineno>>, all numbers, whose order is that *)
(* of the strings; firstlineno goes with the name.  A traceback of a trace *)
(* has the most recent frame first and is never empty: NewPyTraces puts an *)
(* <unknown> frame in one that is.                                         *)
(*                                                                         *)
(* The state is a pair of snapshots, an old and a new one.  What the       *)
(* methods return is given by operators, and the properties speak of all   *)
(* their arguments in every state.                                         *)
(***************************************************************************)
EXTENDS Integers, Sequences, FiniteSets, SequencesExt, FiniteSetsExt

CONSTANTS
  Tracebacks,         \* the tracebacks of traces
  Sizes,              \* the sizes of blocks
  Rates,              \* sample rates
  FilterLists,        \* the arguments of filter_traces
  MaxTraces,          \* bound: traces in a snapshot
  AnyLine,            \* a filter's lineno when it is None
  Scale(_, _, _)      \* 1 / (1 - exp(-(size / count) / rate)), as <<numerator, denominator>>

VARIABLES old, new

vars == <<old, new>>

Frame == Nat \X Nat \X Nat
Frames == UNION {{tb[i] : i \in DOMAIN tb} : tb \in Tracebacks}
Filename(frame) == frame[2]
Lineno(frame) == frame[3]

Trace == [size : Sizes, traceback : Tracebacks]
Snapshot == [traces : UNION {[1..n -> Trace] : n \in 0..MaxTraces}, sample_rate : Rates]

\* A filter's filename_pattern is the set of the filenames it matches.
Filter(f) ==
  /\ f.inclusive \in BOOLEAN /\ f.all_frames \in BOOLEAN
  /\ f.filenames \subseteq {Filename(fr) : fr \in Frames}
  /\ f.lineno \in {Lineno(fr) : fr \in Frames} \cup {AnyLine}

ASSUME StatisticsAssumption ==
  /\ Sizes \subseteq Nat /\ Rates \subseteq Nat
  /\ MaxTraces \in Nat
  /\ \A tb \in Tracebacks : tb \in Seq(Frame) /\ Len(tb) > 0
  /\ \A fs \in FilterLists : \A f \in fs : Filter(f)

TypeOK == old \in Snapshot /\ new \in Snapshot

-----------------------------------------------------------------------------
\* Filters.

MatchFrame(f, frame) ==
  /\ Filename(frame) \in f.filenames
  /\ f.lineno \in {AnyLine, Lineno(frame)}

\* Slip: an exclusive filter matches unless all frames match.
MatchTracebackAll(f, tb) ==
  IF f.all_frames THEN \E i \in DOMAIN tb : MatchFrame(f, tb[i]) <=> f.inclusive
                  ELSE MatchFrame(f, tb[1]) <=> f.inclusive

MatchTraceback(f, tb) ==
  IF f.all_frames THEN (\E i \in DOMAIN tb : MatchFrame(f, tb[i])) <=> f.inclusive
                  ELSE MatchFrame(f, tb[1]) <=> f.inclusive

FilterTrace(include, exclude, trace) ==
  /\ include # {} => \E f \in include : MatchTraceback(f, trace.traceback)
  /\ \A f \in exclude : MatchTraceback(f, trace.traceback)

FilterTraces(snap, filters) ==
  LET include == {f \in filters : f.inclusive}
      exclude == filters \ include
      kept[n \in 0..Len(snap.traces)] ==
        IF n = 0 THEN <<>>
        ELSE IF FilterTrace(include, exclude, snap.traces[n])
             THEN Append(kept[n-1], snap.traces[n]) ELSE kept[n-1]
  IN [snap EXCEPT !.traces = kept[Len(snap.traces)]]

-----------------------------------------------------------------------------
\* Statistics.

\* Traceback.__init__ reverses the frames.
Traceback(frames) == Reverse(frames)

\* Slip: grouped by the oldest frame.
GroupKeyOldest(key_type, frames) ==
  CASE key_type = "traceback" -> Traceback(frames)
    [] key_type = "lineno"    -> Traceback(<<frames[Len(frames)]>>)
    [] key_type = "filename"  -> Traceback(<< <<0, Filename(frames[Len(frames)]), 0>> >>)

\* What a trace is grouped under; filename has a synthetic frame.
GroupKey(key_type, frames) ==
  CASE key_type = "traceback" -> Traceback(frames)
    [] key_type = "lineno"    -> Traceback(<<frames[1]>>)
    [] key_type = "filename"  -> Traceback(<< <<0, Filename(frames[1]), 0>> >>)

\* The calls of _group_by that raise no ValueError.
GroupCalls == {<<"traceback", FALSE>>} \cup ({"lineno", "filename"} \X BOOLEAN)

NoStatistic == [size |-> 0, count |-> 0]
StatisticOf(stats, key) == IF key \in DOMAIN stats THEN stats[key] ELSE NoStatistic

AddToGroup(stats, item) ==
  LET stat == StatisticOf(stats, item.key)
  IN [key \in DOMAIN stats \cup {item.key} |->
        IF key = item.key THEN [size |-> stat.size + item.size, count |-> stat.count + 1]
        ELSE stats[key]]

\* One item a trace, or with cumulative one for each of its frames.
Items(trace, key_type, cumulative) ==
  LET tb == trace.traceback
      Item(frames) == [key |-> GroupKey(key_type, frames), size |-> trace.size]
  IN IF cumulative THEN [i \in 1..Len(tb) |-> Item(<<tb[i]>>)] ELSE <<Item(tb)>>

AddItems(stats, items) ==
  LET after[i \in 0..Len(items)] ==
        IF i = 0 THEN stats ELSE AddToGroup(after[i-1], items[i])
  IN after[Len(items)]

\* int(scale * n).
ScaleUp(n, size, count, rate) ==
  LET scale == Scale(size, count, rate) IN (n * scale[1]) \div scale[2]

\* Slip: the count is scaled by the average of the size that is scaled already.
ScaleHeapSampleTwice(stat, rate) ==
  IF stat.count = 0 \/ stat.size = 0 \/ rate <= 1 THEN stat
  ELSE LET size == ScaleUp(stat.size, stat.size, stat.count, rate)
       IN [size |-> size, count |-> ScaleUp(stat.count, size, stat.count, rate)]

ScaleHeapSample(stat, rate) ==
  IF stat.count = 0 \/ stat.size = 0 \/ rate <= 1 THEN stat
  ELSE [size |-> ScaleUp(stat.size, stat.size, stat.count, rate),
        count |-> ScaleUp(stat.count, stat.size, stat.count, rate)]

\* The groups before _scale_heap_samples.
RawGroups(traces, key_type, cumulative) ==
  LET after[n \in 0..Len(traces)] ==
        IF n = 0 THEN <<>>
        ELSE AddItems(after[n-1], Items(traces[n], key_type, cumulative))
  IN after[Len(traces)]

GroupBy(snap, key_type, cumulative) ==
  LET stats == RawGroups(snap.traces, key_type, cumulative)
  IN [tb \in DOMAIN stats |-> ScaleHeapSample(stats[tb], snap.sample_rate)]

\* Python's order of tuples, a traceback flattened into its numbers.
TupleLess(s, t) ==
  \E i \in 1..Len(t) :
    /\ \A j \in 1..i-1 : j <= Len(s) /\ s[j] = t[j]
    /\ i > Len(s) \/ s[i] < t[i]

\* list.sort(reverse=True): each element after those of a greater key, which no
\* two of the list share.
Sorted(S, key) ==
  [n \in 1..Cardinality(S) |->
     CHOOSE x \in S : Cardinality({y \in S : TupleLess(key[x], key[y])}) = n - 1]

Absolute(n) == IF n < 0 THEN -n ELSE n
StatisticKey(s) == <<s.size, s.count>> \o FlattenSeq(s.traceback)
StatisticDiffKey(d) ==
  <<Absolute(d.size_diff), d.size, Absolute(d.count_diff), d.count>> \o FlattenSeq(d.traceback)

Statistics(snap, key_type, cumulative) ==
  LET grouped == GroupBy(snap, key_type, cumulative)
      values == {[traceback |-> tb, size |-> grouped[tb].size, count |-> grouped[tb].count]
                   : tb \in DOMAIN grouped}
  IN Sorted(values, [s \in values |-> StatisticKey(s)])

Diff(tb, stat, previous) ==
  [traceback |-> tb, size |-> stat.size, size_diff |-> stat.size - previous.size,
   count |-> stat.count, count_diff |-> stat.count - previous.count]

\* Slip: previous groups are looked up, not popped.
CompareGroupedStatsNoPop(old_group, new_group) ==
  {Diff(tb, new_group[tb], StatisticOf(old_group, tb)) : tb \in DOMAIN new_group}
  \cup {Diff(tb, NoStatistic, old_group[tb]) : tb \in DOMAIN old_group}

\* The second loop sees what the first has not popped.
CompareGroupedStats(old_group, new_group) ==
  {Diff(tb, new_group[tb], StatisticOf(old_group, tb)) : tb \in DOMAIN new_group}
  \cup {Diff(tb, NoStatistic, old_group[tb]) : tb \in DOMAIN old_group \ DOMAIN new_group}

CompareTo(snap, old_snapshot, key_type, cumulative) ==
  LET diffs == CompareGroupedStats(GroupBy(old_snapshot, key_type, cumulative),
                                   GroupBy(snap, key_type, cumulative))
  IN Sorted(diffs, [d \in diffs |-> StatisticDiffKey(d)])

-----------------------------------------------------------------------------

Empty(snap) == snap.traces = <<>>

Init ==
  /\ old \in Snapshot /\ Empty(old)
  /\ new \in Snapshot /\ Empty(new)

\* take_snapshot().
TakeSnapshot ==
  /\ Empty(new)
  /\ new' \in Snapshot
  /\ UNCHANGED old

\* The program filters a snapshot, or keeps it to compare the next one with.
FilterNew ==
  /\ \E filters \in FilterLists : new' = FilterTraces(new, filters)
  /\ UNCHANGED old

KeepNew ==
  /\ old' = new
  /\ new' = [new EXCEPT !.traces = <<>>]

Next == TakeSnapshot \/ FilterNew \/ KeepNew

Spec == Init /\ [][Next]_vars

-----------------------------------------------------------------------------
\* Properties.

\* What a frame of a trace is grouped under, as the names of the key types say:
\* without cumulative only the frame of the allocation counts.
Places(traces, cumulative) ==
  UNION {{n} \X (1..IF cumulative THEN Len(traces[n].traceback) ELSE 1)
           : n \in DOMAIN traces}
Stands(key, key_type, tb, frame) ==
  CASE key_type = "traceback" -> Len(key) = Len(tb) /\ \A i \in DOMAIN tb : key[i] = tb[Len(tb) + 1 - i]
    [] key_type = "lineno"    -> key = <<frame>>
    [] key_type = "filename"  -> Len(key) = 1 /\ Filename(key[1]) = Filename(frame)

SumOver(v, S) == MapThenSumSet(LAMBDA x : v[x], S)

\* Without sampling statistics() adds up exactly the blocks of each group: no
\* block is lost, counted in two groups, or counted twice unless cumulative
\* finds it by two of its frames.
StatisticsAreSums == new.sample_rate <= 1 => \A call \in GroupCalls :
  LET stats == Statistics(new, call[1], call[2])
      In(p, s) == LET tb == new.traces[p[1]].traceback
                  IN Stands(s.traceback, call[1], tb, tb[p[2]])
      Of(s) == {p \in Places(new.traces, call[2]) : In(p, s)}
  IN /\ \A p \in Places(new.traces, call[2]) :
          Cardinality({i \in DOMAIN stats : In(p, stats[i])}) = 1
     /\ \A i \in DOMAIN stats :
          /\ stats[i].count = Cardinality(Of(stats[i])) /\ stats[i].count > 0
          /\ stats[i].size = SumOver([p \in Of(stats[i]) |-> new.traces[p[1]].size], Of(stats[i]))

\* Scaling a sampled group raises its size and its count by one factor: the
\* average size of its blocks stays what was sampled, up to the cut to ints.
ScalingKeepsAverage == \A call \in GroupCalls :
  LET sampled == GroupBy([new EXCEPT !.sample_rate = 0], call[1], call[2])
      scaled == GroupBy(new, call[1], call[2])
  IN \A tb \in DOMAIN sampled :
       LET s == sampled[tb]
           c == scaled[tb]
       IN /\ c.size >= s.size /\ c.count >= s.count
          /\ c.size * s.count - c.count * s.size \in -s.count..s.size

TotalSize(list) == SumOver([i \in DOMAIN list |-> list[i].size], DOMAIN list)
TotalCount(list) == SumOver([i \in DOMAIN list |-> list[i].count], DOMAIN list)
TotalSizeDiff(list) == SumOver([i \in DOMAIN list |-> list[i].size_diff], DOMAIN list)
TotalCountDiff(list) == SumOver([i \in DOMAIN list |-> list[i].count_diff], DOMAIN list)

\* compare_to() accounts for the whole change: each group of either snapshot
\* appears once, with its new size, and the differences add up to that of the
\* totals, each snapshot scaled by its own rate.
DiffsAddUp == \A call \in GroupCalls :
  LET diffs == CompareTo(new, old, call[1], call[2])
      news == Statistics(new, call[1], call[2])
      olds == Statistics(old, call[1], call[2])
  IN /\ Len(diffs) = Cardinality({d.traceback : d \in ToSet(diffs)})
     /\ {d.traceback : d \in ToSet(diffs)} = {s.traceback : s \in ToSet(news) \cup ToSet(olds)}
     /\ TotalSize(diffs) = TotalSize(news) /\ TotalCount(diffs) = TotalCount(news)
     /\ TotalSizeDiff(diffs) = TotalSize(news) - TotalSize(olds)
     /\ TotalCountDiff(diffs) = TotalCount(news) - TotalCount(olds)

\* Filtering and grouping by traceback commute: a filtered snapshot has the
\* statistics of the tracebacks some inclusive filter matches, if there are
\* any, and no exclusive one does.
FilterSelectsGroups == \A filters \in FilterLists :
  LET Matches(f, tb) ==
        \E i \in (IF f.all_frames THEN DOMAIN tb ELSE {Len(tb)}) : MatchFrame(f, tb[i])
      Passes(s) ==
        /\ \/ \A f \in filters : ~f.inclusive
           \/ \E f \in filters : f.inclusive /\ Matches(f, s.traceback)
        /\ ~\E f \in filters : ~f.inclusive /\ Matches(f, s.traceback)
  IN ToSet(Statistics(FilterTraces(new, filters), "traceback", FALSE))
       = {s \in ToSet(Statistics(new, "traceback", FALSE)) : Passes(s)}

\* The docstring of Traceback: from the most recent frame to the oldest.
TracebackMostRecentFirst == \A i \in DOMAIN new.traces :
  LET tb == new.traces[i].traceback IN Traceback(tb)[1] = tb[1]
=============================================================================
