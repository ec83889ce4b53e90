--------------------------- MODULE HeapSnapshotProofs ---------------------------
(***************************************************************************)
(* Proofs about HeapSnapshot, for any number of blocks, stacks and sizes:  *)
(* what take_snapshot() and get_traced_memory() return, although blocks    *)
(* come and go, the traces are cleared, the profiler is stopped and memory *)
(* runs out while they read.                                               *)
(***************************************************************************)
EXTENDS HeapSnapshot, TLAPS

MemoryOK == current <= peak /\ (pc = "peak" => first <= peak)

\* Nothing is under construction outside take_snapshot().
IdleOK == pc \in {"idle", "traceback", "peak"} => DOMAIN rows = {}

\* The block whose row is being built is not to come again.
TodoOK == pc \in {"frames", "intern"} => ptr \in Ptrs /\ ptr \notin todo

\* What would make the read crash has been noted: the profiler is gone, or the
\* strings of the trace that the reader holds.
StoppedOK == Building /\ ~attached => culprit # "none"
ClearedOK == pc \in {"frames", "traceback"} /\ StringsGone => culprit # "none"
CrashOK == StoppedOK /\ ClearedOK /\ OnlyKnownCrashes

ReadInv == TypeOK /\ MemoryOK /\ IdleOK /\ TodoOK /\ EveryBlockOnce /\ CrashOK

\* A block of the snapshot that has not been untraced since is as it was, and
\* so is the trace the reader holds of it.
KeptOK == pc \in {"next", "frames", "intern"} =>
  /\ \A p \in DOMAIN at \ gone :
       blocks[p] # Untraced /\ at[p] = [size |-> blocks[p], stack |-> stack[p]]
  /\ pc # "next" /\ ptr \notin gone => trace.stack = stack[ptr]

-----------------------------------------------------------------------------
LEMMA ToIntType == ASSUME NEW n \in Int PROVE ToInt(n) \in (-IntMax - 1)..IntMax
<1>1. IntMax \in Nat
  BY SnapshotAssumption
<1>2. n % (2 * IntMax + 2) \in 0..2 * IntMax + 1
  BY <1>1
<1>3. QED
  BY <1>1, <1>2 DEF ToInt

\* A size that an int can hold goes through one unharmed.
LEMMA ToIntExact == ASSUME NEW n \in 0..IntMax PROVE ToInt(n) = n
<1>1. IntMax \in Nat
  BY SnapshotAssumption
<1>2. n % (2 * IntMax + 2) = n
  BY <1>1
<1>3. QED
  BY <1>1, <1>2 DEF ToInt

-----------------------------------------------------------------------------
LEMMA InitReadInv == Init => ReadInv
<1> SUFFICES ASSUME Init PROVE ReadInv
  OBVIOUS
<1>1. DOMAIN rows = {} /\ DOMAIN at = {}
  BY DEF Init
<1>2. TypeOK
  BY <1>1, SnapshotAssumption DEF Init, TInit, TypeOK, NoFrames
<1>3. MemoryOK /\ IdleOK /\ TodoOK /\ EveryBlockOnce /\ CrashOK
  BY <1>1 DEF Init, TInit, MemoryOK, IdleOK, TodoOK, EveryBlockOnce, CrashOK,
         StoppedOK, ClearedOK, StringsGone, OnlyKnownCrashes, NoFrames, Building
<1>4. QED
  BY <1>2, <1>3 DEF ReadInv

LEMMA NextReadInv == ReadInv /\ [Next]_vars => ReadInv'
<1> SUFFICES ASSUME ReadInv, [Next]_vars PROVE ReadInv'
  OBVIOUS
<1>0. TypeOK /\ MemoryOK /\ IdleOK /\ TodoOK /\ EveryBlockOnce /\ CrashOK
  BY DEF ReadInv
<1>z. Sizes \subseteq Nat /\ Untraced \notin Int /\ IntMax \in Nat /\ MaxClears \in Nat
  BY SnapshotAssumption
<1>b. \A p \in Ptrs : blocks[p] # Untraced => blocks[p] \in Nat
  BY <1>0, <1>z DEF TypeOK
<1>1. ASSUME NEW p \in Ptrs, NEW size \in Sizes, NEW s \in Stacks \cup {NoStack},
             RecordMalloc(p, size, s)
      PROVE  ReadInv'
  <2>0. /\ Trace(p, size) /\ stack' = [stack EXCEPT ![p] = s]
        /\ UNCHANGED <<attached, clears, reader, gone, culprit>>
    BY <1>1 DEF RecordMalloc
  <2>1. TypeOK'
    BY <1>0, <1>z, <2>0 DEF TypeOK, Trace, reader
  <2>2. MemoryOK'
    BY <1>0, <1>z, <2>0 DEF TypeOK, Trace, reader, MemoryOK
  <2>3. IdleOK' /\ TodoOK' /\ EveryBlockOnce' /\ CrashOK'
    BY <1>0, <1>z, <2>0 DEF reader, IdleOK, TodoOK, EveryBlockOnce, CrashOK,
         StoppedOK, ClearedOK, StringsGone, OnlyKnownCrashes, Building
  <2>4. QED
    BY <2>1, <2>2, <2>3 DEF ReadInv
<1>2. ASSUME NEW p \in Ptrs, HandleFree(p) PROVE ReadInv'
  <2>0. /\ Untrace(p) /\ stack' = [stack EXCEPT ![p] = NoStack]
        /\ UNCHANGED <<attached, clears, reader, culprit>>
    BY <1>2 DEF HandleFree
  <2>1. TypeOK'
    BY <1>0, <1>z, <2>0 DEF TypeOK, Untrace, reader
  <2>2. MemoryOK'
    <3>1. /\ current' = current - blocks[p] /\ peak' = peak /\ first' = first /\ pc' = pc
          /\ blocks[p] \in Nat
      BY <1>b, <2>0 DEF Untrace, reader
    <3>2. current \in Int /\ peak \in Int
      BY <1>0 DEF TypeOK
    <3>3. QED
      BY <1>0, <3>1, <3>2 DEF MemoryOK
  <2>3. IdleOK' /\ TodoOK' /\ EveryBlockOnce' /\ CrashOK'
    BY <1>0, <1>z, <2>0 DEF reader, IdleOK, TodoOK, EveryBlockOnce, CrashOK,
         StoppedOK, ClearedOK, StringsGone, OnlyKnownCrashes, Building
  <2>4. QED
    BY <2>1, <2>2, <2>3 DEF ReadInv
<1>3. CASE Reset \/ DetachHeapProfiler
  <2>0. PICK cause \in {"clear", "stop"} : Clear /\ Forget(cause)
    BY <1>3 DEF Reset, DetachHeapProfiler
  <2>a. attached' \in BOOLEAN
    BY <1>0, <1>3 DEF Reset, DetachHeapProfiler, TypeOK
  <2>p. pc \in {"idle", "next", "frames", "intern", "traceback"}
    BY <1>3 DEF Reset, DetachHeapProfiler, OthersRun, Building
  <2>1. TypeOK'
    <3>1. blocks' = [q \in Ptrs |-> Untraced] /\ stack' = [q \in Ptrs |-> NoStack]
      BY <2>0 DEF Clear, Forget
    <3>2. {current', peak', first'} \subseteq Int
      BY <1>0, <2>0 DEF Clear, Forget, reader, TypeOK
    <3>3. clears' \in 0..MaxClears
      BY <1>0, <1>z, <2>0 DEF Forget, TypeOK
    <3>4. attached' \in BOOLEAN /\ culprit' \in {"none", "clear", "stop", "memory"}
      BY <1>0, <2>0, <2>a DEF Forget, TypeOK
    <3>5. UNCHANGED <<pc, todo, ptr, trace, rows>>
      BY <2>0 DEF Forget, reader
    <3>6. QED
      BY <1>0, <3>1, <3>2, <3>3, <3>4, <3>5 DEF TypeOK
  <2>2. MemoryOK'
    BY <1>0, <1>z, <2>0, <2>p DEF Clear, Forget, reader, MemoryOK
  <2>3. IdleOK' /\ TodoOK' /\ EveryBlockOnce' /\ CrashOK'
    BY <1>0, <1>z, <2>0, <2>p DEF Forget, reader, IdleOK, TodoOK, EveryBlockOnce, CrashOK,
         StoppedOK, ClearedOK, StringsGone, OnlyKnownCrashes, Building
  <2>4. QED
    BY <2>1, <2>2, <2>3 DEF ReadInv
<1>4. CASE AttachHeapProfiler
  <2>1. TypeOK'
    BY <1>0, <1>z, <1>4 DEF AttachHeapProfiler, TypeOK, tvars, reader
  <2>2. MemoryOK' /\ IdleOK' /\ TodoOK' /\ EveryBlockOnce' /\ CrashOK'
    BY <1>0, <1>z, <1>4 DEF AttachHeapProfiler, tvars, reader, MemoryOK, IdleOK, TodoOK,
         EveryBlockOnce, CrashOK,
         StoppedOK, ClearedOK, StringsGone, OnlyKnownCrashes, Building
  <2>3. QED
    BY <2>1, <2>2 DEF ReadInv
<1>5. CASE GetSnapshot
  <2>1. TypeOK'
    BY <1>0, <1>z, <1>5 DEF GetSnapshot, TypeOK, profiler, Traced
  <2>2. MemoryOK' /\ IdleOK' /\ TodoOK' /\ CrashOK'
    BY <1>0, <1>z, <1>5 DEF GetSnapshot, profiler, MemoryOK, IdleOK, TodoOK, CrashOK,
         StoppedOK, ClearedOK, StringsGone, OnlyKnownCrashes, Building
  <2>3. EveryBlockOnce'
    <3>1. DOMAIN at' = todo' /\ DOMAIN rows' = {} /\ pc' = "next"
      BY <1>0, <1>z, <1>5 DEF GetSnapshot, Table, IdleOK
    <3>2. QED
      BY <3>1 DEF EveryBlockOnce
  <2>4. QED
    BY <2>1, <2>2, <2>3 DEF ReadInv
<1>6. CASE GetTrace
  <2>0. PICK p \in todo : ptr' = p /\ todo' = todo \ {p}
                          /\ trace' = IF p \in Traced THEN Borrowed(stack[p]) ELSE NoFrames
    BY <1>6 DEF GetTrace
  <2>1. trace'.stack \in Stacks \cup {NoStack} /\ trace'.clears \in 0..MaxClears
    BY <1>0, <1>z, <2>0 DEF TypeOK, Borrowed, NoFrames
  <2>g. ~StringsGone'
    BY <1>6, <2>0 DEF GetTrace, profiler, Borrowed, NoFrames, StringsGone
  <2>2. TypeOK'
    BY <1>0, <1>z, <1>6, <2>0, <2>1 DEF GetTrace, TypeOK, profiler
  <2>3. MemoryOK' /\ IdleOK' /\ TodoOK' /\ CrashOK'
    BY <1>0, <1>z, <1>6, <2>0, <2>g DEF GetTrace, TypeOK, profiler, MemoryOK, IdleOK, TodoOK,
         CrashOK, StoppedOK, ClearedOK, OnlyKnownCrashes, Building
  <2>4. EveryBlockOnce'
    BY <1>0, <1>z, <1>6, <2>0 DEF GetTrace, EveryBlockOnce
  <2>5. QED
    BY <2>2, <2>3, <2>4 DEF ReadInv
<1>7. CASE NewPyTrace \/ GetSizeOfNothing \/ TracebackCrashes
  <2>1. TypeOK'
    BY <1>0, <1>z, <1>7 DEF NewPyTrace, GetSizeOfNothing, TracebackCrashes, TypeOK, profiler
  <2>2. MemoryOK' /\ IdleOK' /\ TodoOK' /\ EveryBlockOnce' /\ CrashOK'
    BY <1>0, <1>z, <1>7 DEF NewPyTrace, GetSizeOfNothing, TracebackCrashes, profiler, MemoryOK,
         IdleOK, TodoOK,
         EveryBlockOnce, CrashOK,
         StoppedOK, ClearedOK, StringsGone, OnlyKnownCrashes, Building
  <2>3. QED
    BY <2>1, <2>2 DEF ReadInv
<1>8. CASE GetSize
  <2> DEFINE size == IF ptr \in Traced THEN ToInt(blocks[ptr]) ELSE 0
             row == [size |-> size,
                     traceback |-> IF trace.stack = NoStack THEN Unknown ELSE trace.stack]
  <2>0. /\ pc = "intern" /\ pc' = "next" /\ attached
        /\ rows' = [p \in DOMAIN rows \cup {ptr} |-> IF p # ptr THEN rows[p] ELSE row]
        /\ ptr' = NoPtr /\ trace' = NoFrames
        /\ UNCHANGED <<profiler, todo, first, at, gone, culprit>>
    BY <1>8 DEF GetSize, AddRow
  <2>1. ptr \in Ptrs /\ ptr \notin todo
    BY <1>0, <1>z, <2>0 DEF TodoOK
  <2>2. row \in Row
    <3>1. ptr \in Traced => blocks[ptr] \in Nat
      BY <1>b DEF Traced
    <3>2. size \in (-IntMax - 1)..IntMax
      BY <1>z, <3>1, ToIntType
    <3> HIDE DEF size
    <3>3. QED
      BY <1>0, <1>z, <3>2 DEF TypeOK, Row
  <2> HIDE DEF row
  <2>3. TypeOK'
    BY <1>0, <1>z, <2>0, <2>1, <2>2 DEF TypeOK, profiler, NoFrames
  <2>4. MemoryOK' /\ IdleOK' /\ TodoOK' /\ CrashOK'
    BY <1>0, <1>z, <2>0 DEF profiler, MemoryOK, IdleOK, TodoOK, CrashOK,
         StoppedOK, ClearedOK, StringsGone, OnlyKnownCrashes, Building
  <2>5. EveryBlockOnce'
    BY <1>0, <1>z, <2>0, <2>1 DEF EveryBlockOnce
  <2>6. QED
    BY <2>3, <2>4, <2>5 DEF ReadInv
<1>9. CASE SnapshotTaken \/ SnapshotFails \/ TracebackBuilt
  <2>0. Return
    BY <1>9 DEF SnapshotTaken, SnapshotFails, TracebackBuilt
  <2>1. DOMAIN rows' = {}
    BY <2>0 DEF Return
  <2>2. TypeOK'
    BY <1>0, <1>z, <2>0, <2>1 DEF Return, TypeOK, profiler, NoFrames
  <2>3. MemoryOK' /\ IdleOK' /\ TodoOK' /\ EveryBlockOnce' /\ CrashOK'
    BY <1>0, <1>z, <2>0, <2>1 DEF Return, profiler, MemoryOK, IdleOK, TodoOK, EveryBlockOnce,
         CrashOK,
         StoppedOK, ClearedOK, StringsGone, OnlyKnownCrashes, Building
  <2>4. QED
    BY <2>2, <2>3 DEF ReadInv
<1>10. CASE GetObjectTraceback
  <2>0. PICK p \in Ptrs : ptr' = p /\ trace' = IF p \in Traced THEN Borrowed(stack[p]) ELSE NoFrames
    BY <1>10 DEF GetObjectTraceback
  <2>1. trace'.stack \in Stacks \cup {NoStack} /\ trace'.clears \in 0..MaxClears
    BY <1>0, <1>z, <2>0 DEF TypeOK, Borrowed, NoFrames
  <2>g. ~StringsGone'
    BY <1>10, <2>0 DEF GetObjectTraceback, profiler, Borrowed, NoFrames, StringsGone
  <2>2. TypeOK'
    BY <1>0, <1>z, <1>10, <2>0, <2>1 DEF GetObjectTraceback, TypeOK, profiler
  <2>3. MemoryOK' /\ IdleOK' /\ TodoOK' /\ EveryBlockOnce' /\ CrashOK'
    BY <1>0, <1>z, <1>10, <2>g DEF GetObjectTraceback, profiler, MemoryOK, IdleOK, TodoOK, EveryBlockOnce,
         CrashOK,
         StoppedOK, ClearedOK, OnlyKnownCrashes, Building
  <2>4. QED
    BY <2>2, <2>3 DEF ReadInv
<1>11. CASE TotalMemoryTraced \/ PeakMemoryTraced
  <2>1. TypeOK'
    BY <1>0, <1>z, <1>11 DEF TotalMemoryTraced, PeakMemoryTraced, TypeOK, profiler
  <2>2. MemoryOK' /\ IdleOK' /\ TodoOK' /\ EveryBlockOnce' /\ CrashOK'
    BY <1>0, <1>z, <1>11 DEF TotalMemoryTraced, PeakMemoryTraced, profiler, MemoryOK, IdleOK, TodoOK,
         EveryBlockOnce, CrashOK,
         StoppedOK, ClearedOK, StringsGone, OnlyKnownCrashes, Building
  <2>3. QED
    BY <2>1, <2>2 DEF ReadInv
<1>12. CASE UNCHANGED vars
  <2>1. TypeOK'
    BY <1>0, <1>z, <1>12 DEF vars, TypeOK
  <2>2. MemoryOK' /\ IdleOK' /\ TodoOK' /\ EveryBlockOnce' /\ CrashOK'
    BY <1>0, <1>z, <1>12 DEF vars, MemoryOK, IdleOK, TodoOK, EveryBlockOnce, CrashOK,
         StoppedOK, ClearedOK, StringsGone, OnlyKnownCrashes, Building
  <2>3. QED
    BY <2>1, <2>2 DEF ReadInv
<1>13. QED
  BY <1>1, <1>2, <1>3, <1>4, <1>5, <1>6, <1>7, <1>8, <1>9, <1>10, <1>11, <1>12 DEF Next

THEOREM ReadInvAlways == Spec => []ReadInv
<1>1. QED
  BY InitReadInv, NextReadInv, PTL DEF Spec

\* The state of the reads is of its type.
THEOREM TypeCorrect == Spec => []TypeOK
<1>1. ReadInv => TypeOK
  BY DEF ReadInv
<1>2. QED
  BY ReadInvAlways, <1>1, PTL

(***************************************************************************)
(* take_snapshot() visits every block there was when GetSnapshot read the  *)
(* table, and each once, whoever frees and clears meanwhile.               *)
(***************************************************************************)
THEOREM SnapshotIsComplete == Spec => []EveryBlockOnce
<1>1. ReadInv => EveryBlockOnce
  BY DEF ReadInv
<1>2. QED
  BY ReadInvAlways, <1>1, PTL

(***************************************************************************)
(* A read crashes only if the traces are cleared or the profiler stopped   *)
(* while it builds, or if there is no memory for the frames of a trace.    *)
(* Freed blocks, and addresses that change hands, do not make it crash.    *)
(***************************************************************************)
THEOREM NoOtherCrashes == Spec => []OnlyKnownCrashes
<1>1. ReadInv => OnlyKnownCrashes
  BY DEF ReadInv, CrashOK
<1>2. QED
  BY ReadInvAlways, <1>1, PTL

(***************************************************************************)
(* get_traced_memory() reads its figures under two locks, and the peak is  *)
(* never the smaller one.                                                  *)
(***************************************************************************)
THEOREM PairIsInOrder == Spec => CurrentAtMostPeak
<1>1. ReadInv /\ [Next]_vars => [PeakMemoryTraced => first <= peak]_vars
  BY DEF ReadInv, MemoryOK, PeakMemoryTraced
<1>2. QED
  BY ReadInvAlways, <1>1, PTL DEF Spec, CurrentAtMostPeak

-----------------------------------------------------------------------------
\* What a row says of a block that is still there.
LEMMA SurvivorRow ==
  ASSUME ReadInv, KeptOK, SurvivorsExact, GetSize
  PROVE  SurvivorsExact'
<1> SUFFICES ASSUME NEW p \in DOMAIN rows' \ gone', at'[p].size <= IntMax
         PROVE  rows'[p] = RowOf(at'[p])
  BY DEF SurvivorsExact
<1>1. /\ pc = "intern" /\ gone' = gone /\ at' = at /\ DOMAIN rows' = DOMAIN rows \cup {ptr}
      /\ rows'[p] = IF p # ptr THEN rows[p]
           ELSE [size |-> IF ptr \in Traced THEN ToInt(blocks[ptr]) ELSE 0,
                 traceback |-> IF trace.stack = NoStack THEN Unknown ELSE trace.stack]
  BY DEF GetSize, AddRow
<1>2. CASE p # ptr
  BY <1>1, <1>2 DEF SurvivorsExact
<1>3. CASE p = ptr
  <2>1. ptr \in DOMAIN at \ gone /\ ptr \in Ptrs
    BY <1>1, <1>3 DEF ReadInv, EveryBlockOnce, TodoOK
  <2>2. /\ blocks[ptr] # Untraced /\ at[ptr] = [size |-> blocks[ptr], stack |-> stack[ptr]]
        /\ trace.stack = stack[ptr]
    BY <1>1, <2>1 DEF KeptOK
  <2>3. blocks[ptr] \in 0..IntMax /\ ptr \in Traced
    <3>1. blocks[ptr] \in Nat /\ IntMax \in Nat
      BY <2>1, <2>2, SnapshotAssumption DEF ReadInv, TypeOK
    <3>2. blocks[ptr] <= IntMax
      BY <1>1, <1>3, <2>2
    <3>3. QED
      BY <2>1, <2>2, <3>1, <3>2 DEF Traced
  <2>4. ToInt(blocks[ptr]) = blocks[ptr]
    BY <2>3, ToIntExact
  <2>5. QED
    BY <1>1, <1>3, <2>2, <2>3, <2>4 DEF RowOf
<1>4. QED
  BY <1>2, <1>3

LEMMA NextKept == ReadInv /\ KeptOK /\ SurvivorsExact /\ [Next]_vars => KeptOK' /\ SurvivorsExact'
<1> SUFFICES ASSUME ReadInv, KeptOK, SurvivorsExact, [Next]_vars PROVE KeptOK' /\ SurvivorsExact'
  OBVIOUS
<1>0. TypeOK /\ IdleOK /\ TodoOK /\ EveryBlockOnce
  BY DEF ReadInv
<1>k. pc \in {"next", "frames", "intern"} =>
        /\ DOMAIN at \subseteq Ptrs /\ \A p \in DOMAIN at \ gone : blocks[p] # Untraced
        /\ pc # "next" => ptr \in DOMAIN at /\ ptr \in Ptrs
  BY <1>0 DEF KeptOK, EveryBlockOnce, TypeOK, TodoOK
<1>1. ASSUME NEW p \in Ptrs, NEW size \in Sizes, NEW s \in Stacks \cup {NoStack},
             RecordMalloc(p, size, s)
      PROVE  KeptOK' /\ SurvivorsExact'
  <2>1. /\ blocks[p] = Untraced
        /\ \A q \in Ptrs : q # p => blocks'[q] = blocks[q] /\ stack'[q] = stack[q]
        /\ UNCHANGED <<pc, ptr, trace, rows, at, gone>>
    BY <1>0, <1>1 DEF RecordMalloc, Trace, reader, TypeOK
  <2>2. QED
    BY <1>k, <2>1 DEF KeptOK, SurvivorsExact
<1>2. ASSUME NEW p \in Ptrs, HandleFree(p) PROVE KeptOK' /\ SurvivorsExact'
  <2>1. /\ \A q \in Ptrs : q # p => blocks'[q] = blocks[q] /\ stack'[q] = stack[q]
        /\ UNCHANGED <<pc, ptr, trace, rows, at>>
        /\ gone' = IF Building THEN gone \cup {p} ELSE gone
    BY <1>0, <1>2 DEF HandleFree, Untrace, reader, TypeOK
  <2>2. QED
    BY <1>k, <2>1 DEF KeptOK, SurvivorsExact, Building
<1>3. CASE Reset \/ DetachHeapProfiler
  <2>1. /\ UNCHANGED <<pc, ptr, trace, rows, at>>
        /\ pc = "idle" \/ Building
        /\ gone' = IF Building THEN Ptrs ELSE gone
    BY <1>3 DEF Reset, DetachHeapProfiler, OthersRun, Forget, reader
  <2>2. CASE Building
    BY <1>k, <1>0, <2>1, <2>2 DEF KeptOK, SurvivorsExact, Building, IdleOK, TypeOK
  <2>3. CASE ~Building
    BY <1>0, <2>1, <2>3 DEF KeptOK, SurvivorsExact, IdleOK
  <2>4. QED
    BY <2>2, <2>3
<1>4. CASE AttachHeapProfiler
  BY <1>4 DEF AttachHeapProfiler, tvars, reader, KeptOK, SurvivorsExact
<1>5. CASE GetSnapshot
  <2>1. /\ pc' = "next" /\ at' = Table /\ blocks' = blocks /\ stack' = stack /\ DOMAIN rows' = {}
    BY <1>0, <1>5 DEF GetSnapshot, profiler, IdleOK
  <2>2. QED
    BY <2>1 DEF KeptOK, SurvivorsExact, Table, Traced
<1>6. CASE GetTrace
  <2>1. PICK p \in todo : ptr' = p /\ trace' = IF p \in Traced THEN Borrowed(stack[p]) ELSE NoFrames
    BY <1>6 DEF GetTrace
  <2>2. /\ pc = "next" /\ pc' \in {"frames", "crash"} /\ p \in DOMAIN at /\ p \in Ptrs
        /\ UNCHANGED <<blocks, stack, rows, at, gone>>
    BY <1>0, <1>6, <2>1 DEF GetTrace, profiler, EveryBlockOnce, TypeOK
  <2>3. p \notin gone => trace'.stack = stack[p]
    BY <1>k, <2>1, <2>2 DEF Traced, Borrowed
  <2>4. QED
    BY <2>1, <2>2, <2>3 DEF KeptOK, SurvivorsExact
<1>7. CASE NewPyTrace \/ GetSizeOfNothing \/ TracebackCrashes
  BY <1>7 DEF NewPyTrace, GetSizeOfNothing, TracebackCrashes, profiler, KeptOK, SurvivorsExact
<1>8. CASE GetSize
  <2>1. KeptOK'
    BY <1>8 DEF GetSize, AddRow, profiler, KeptOK
  <2>2. QED
    BY <1>8, <2>1, SurvivorRow
<1>9. CASE SnapshotTaken \/ SnapshotFails \/ TracebackBuilt
  <2>1. pc' = "idle" /\ DOMAIN rows' = {}
    BY <1>9 DEF SnapshotTaken, SnapshotFails, TracebackBuilt, Return
  <2>2. QED
    BY <2>1 DEF KeptOK, SurvivorsExact
<1>10. CASE GetObjectTraceback
  BY <1>10 DEF GetObjectTraceback, KeptOK, SurvivorsExact
<1>11. CASE TotalMemoryTraced \/ PeakMemoryTraced
  BY <1>11 DEF TotalMemoryTraced, PeakMemoryTraced, KeptOK, SurvivorsExact
<1>12. CASE UNCHANGED vars
  BY <1>12 DEF vars, KeptOK, SurvivorsExact
<1>13. QED
  BY <1>1, <1>2, <1>3, <1>4, <1>5, <1>6, <1>7, <1>8, <1>9, <1>10, <1>11, <1>12 DEF Next

(***************************************************************************)
(* The row of a block smaller than 2 GB that is there from the first lock  *)
(* to the last has its size and its traceback, whichever other blocks come *)
(* and go.                                                                 *)
(***************************************************************************)
THEOREM SurvivorsAreExact == Spec => []SurvivorsExact
<1>1. Init => KeptOK /\ SurvivorsExact
  BY DEF Init, KeptOK, SurvivorsExact
<1>2. ReadInv /\ KeptOK /\ SurvivorsExact /\ [Next]_vars => KeptOK' /\ SurvivorsExact'
  BY NextKept
<1>3. QED
  BY <1>1, <1>2, ReadInvAlways, PTL DEF Spec
=============================================================================
