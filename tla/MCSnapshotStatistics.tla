------------------------- MODULE MCSnapshotStatistics -------------------------
\* Two functions in two files, one of them calling itself.
EXTENDS SnapshotStatistics

Main == <<2, 1, 1>>
Helper == <<1, 2, 1>>
Recursion == <<1, 2, 2>>

\* The most recent frame first.
SomeTracebacks ==
  {<<Main>>, <<Helper, Main>>, <<Helper, Recursion, Main>>, <<Main, Helper>>}

SomeFilter(inclusive, filename, lineno, all_frames) ==
  [inclusive |-> inclusive, filenames |-> {filename}, lineno |-> lineno, all_frames |-> all_frames]
SomeFilterLists ==
  {{},
   {SomeFilter(TRUE, 2, AnyLine, FALSE)},
   {SomeFilter(TRUE, 2, AnyLine, TRUE), SomeFilter(FALSE, 1, 1, FALSE)},
   {SomeFilter(FALSE, 2, 2, TRUE), SomeFilter(FALSE, 1, AnyLine, FALSE)},
   {SomeFilter(TRUE, 1, 1, FALSE), SomeFilter(TRUE, 2, 2, TRUE)}}

\* 1 / (1 - exp(-x)) for x = size / (count * rate), by 1/x + 1/2 + x/12, which
\* is within one percent for x <= 3.
SeriesScale(size, count, rate) ==
  LET q == count * rate
  IN <<12*q*q + 6*q*size + size*size, 12*q*size>>
=============================================================================
