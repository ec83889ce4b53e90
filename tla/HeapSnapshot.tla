------------------------------ MODULE HeapSnapshot ------------------------------
(***************************************************************************)
(* Reading the heap profiler: take_snapshot() and get_traced_memory() are  *)
(* several calls of the profiler, each under mu_ on its own, with Python   *)
(* objects built in between; get_object_traceback() is one such call.      *)
(*                                                                         *)
(* The tables are those of TracedMemory, which HeapProfiler implements,    *)
(* with the call stack of each block added.  A raw block can be freed at   *)
(* any moment, without the GIL.  The reader takes the GIL to begin, but    *)
(* does not keep it: the objects it builds are allocated through the       *)
(* wrappers, and recorded; each may start a garbage collection, whose      *)
(* finalizers are Python code, and may give up the GIL to any thread.  So  *)
(* blocks come and go while it builds, the traces are cleared, and the     *)
(* profiler is stopped and started.  Any allocation may fail.              *)
(***************************************************************************)
EXTENDS TracedMemory, FiniteSets

CONSTANTS
  Stacks,           \* call stacks, as long as they are interned
  NoStack,          \* of a block recorded in a thread without Python frames
  Unknown,          \* the "<unknown>" traceback
  NoPtr,
  IntMax,           \* the largest int
  MaxClears         \* bound: how often the traces are cleared, or dropped by a stop

ASSUME SnapshotAssumption ==
  /\ Sizes \subseteq Nat /\ IntMax \in Nat /\ MaxClears \in Nat
  /\ Untraced \notin Int
  /\ {NoStack, Unknown} \cap Stacks = {} /\ NoStack # Unknown
  /\ NoPtr \notin Ptrs

VARIABLES
  attached,    \* is g_profiler set?
  stack,       \* the call stack of each traced block
  clears,      \* how often the traces were cleared
  pc,          \* where the reader is
  todo,        \* the addresses of snap it has not come to
  ptr, trace,  \* the address it is at, and what GetTrace returned for it
  rows,        \* the (size, traceback) tuples built so far, by address
  first,       \* the figure get_traced_memory() has read already
  at, gone,    \* bookkeeping: the table when GetSnapshot read it, the
  culprit      \* addresses untraced since, and what may make this read crash

vars == <<blocks, current, peak, attached, stack, clears, pc, todo, ptr, trace,
          rows, first, at, gone, culprit>>
profiler == <<blocks, current, peak, attached, stack, clears>>
reader == <<pc, todo, ptr, trace, rows, first, at>>

Traced == {p \in Ptrs : blocks[p] # Untraced}
Table == [p \in Traced |-> [size |-> blocks[p], stack |-> stack[p]]]

\* FuncLocs hold bare pointers to strings that the last clear may have freed.
Borrowed(s) == [stack |-> s, clears |-> clears]
NoFrames == [stack |-> NoStack, clears |-> 0]

\* A size_t read as an int, by Py_BuildValue's "i".
ToInt(n) ==
  LET m == n % (2 * IntMax + 2) IN IF m > IntMax THEN m - (2 * IntMax + 2) ELSE m

Init ==
  /\ TInit
  /\ attached = TRUE /\ stack = [p \in Ptrs |-> NoStack] /\ clears = 0
  /\ pc = "idle" /\ todo = {} /\ ptr = NoPtr /\ trace = NoFrames
  /\ rows = << >> /\ first = 0
  /\ at = << >> /\ gone = {} /\ culprit = "none"

-----------------------------------------------------------------------------
\* The rest of the process.

\* Python objects are allocated at these labels, and in each a finalizer may run
\* and give up the GIL.
Building == pc \in {"next", "frames", "intern", "traceback"}
OthersRun == pc = "idle" \/ Building

\* An allocation of any thread, or one of the reader's own objects.
RecordMalloc(p, size, s) ==
  /\ attached /\ OthersRun
  /\ Trace(p, size)
  /\ stack' = [stack EXCEPT ![p] = s]
  /\ UNCHANGED <<attached, clears, reader, gone, culprit>>

HandleFree(p) ==
  /\ pc # "crash"
  /\ Untrace(p)
  /\ stack' = [stack EXCEPT ![p] = NoStack]
  /\ gone' = IF Building THEN gone \cup {p} ELSE gone
  /\ UNCHANGED <<attached, clears, reader, culprit>>

\* The tables lose every block, and the strings of the traces their references.
Forget(cause) ==
  /\ clears < MaxClears /\ clears' = clears + 1
  /\ stack' = [p \in Ptrs |-> NoStack]
  /\ gone' = IF Building THEN Ptrs ELSE gone
  /\ culprit' = IF Building THEN cause ELSE culprit
  /\ UNCHANGED reader

\* Slip: the total is left as it is.
ResetPeakOnly ==
  /\ attached /\ OthersRun
  /\ blocks' = [p \in Ptrs |-> Untraced] /\ peak' = 0
  /\ Forget("clear")
  /\ UNCHANGED <<current, attached>>

Reset ==
  /\ attached /\ OthersRun
  /\ Clear /\ Forget("clear")
  /\ UNCHANGED attached

\* stop() destroys the profiler, perhaps in the middle of a read.
DetachHeapProfiler ==
  /\ attached /\ OthersRun
  /\ attached' = FALSE
  /\ Clear /\ Forget("stop")

AttachHeapProfiler ==
  /\ ~attached /\ OthersRun
  /\ attached' = TRUE
  /\ UNCHANGED <<tvars, stack, clears, reader, gone, culprit>>

-----------------------------------------------------------------------------
\* take_snapshot().

GetSnapshot ==
  /\ pc = "idle" /\ attached
  /\ todo' = Traced
  /\ at' = Table /\ gone' = {}
  /\ pc' = "next"
  /\ UNCHANGED <<profiler, ptr, trace, rows, first, culprit>>

\* Slip: nothing is built for a block without a trace.
GetTraceSkips ==
  /\ pc = "next"
  /\ \E p \in todo :
       /\ ptr' = p
       /\ todo' = todo \ {p}
       /\ trace' = IF p \in Traced THEN Borrowed(stack[p]) ELSE NoFrames
       /\ pc' = IF p \in Traced /\ stack[p] # NoStack THEN "frames" ELSE "next"
  /\ UNCHANGED <<profiler, rows, first, at, gone, culprit>>

\* Slip: GetTrace uses what Find returns as it is.
GetTraceUnchecked ==
  /\ pc = "next"
  /\ \E p \in todo :
       /\ ptr' = p
       /\ todo' = todo \ {p}
       /\ trace' = IF p \in Traced THEN Borrowed(stack[p]) ELSE NoFrames
       /\ pc' = IF p \in Traced THEN "frames" ELSE "crash"
  /\ UNCHANGED <<profiler, rows, first, at, gone, culprit>>

\* Iterate's order is any order of the addresses.
GetTrace ==
  /\ pc = "next"
  /\ \E p \in todo :
       /\ ptr' = p
       /\ todo' = todo \ {p}
       /\ trace' = IF p \in Traced THEN Borrowed(stack[p]) ELSE NoFrames
  /\ pc' = IF attached THEN "frames" ELSE "crash"
  /\ UNCHANGED <<profiler, rows, first, at, gone, culprit>>

\* NewPyTrace allocates before it takes references to the strings: by then a
\* clear may have freed them, and going through them may crash, or go well.
StringsGone == trace.stack # NoStack /\ trace.clears # clears

\* After NewPyTrace the frames own their strings.  If it fails, its nullptr is
\* looked up in the dict of tracebacks.
NewPyTrace ==
  /\ pc = "frames"
  /\ \/ pc' = "intern" /\ UNCHANGED culprit
     \/ StringsGone /\ pc' = "crash" /\ UNCHANGED culprit
     \/ pc' = "crash" /\ culprit' = "memory"
  /\ UNCHANGED <<profiler, todo, ptr, trace, rows, first, at, gone>>

AddRow(size) ==
  /\ pc = "intern" /\ attached
  /\ rows' = [p \in DOMAIN rows \cup {ptr} |->
       IF p # ptr THEN rows[p]
       ELSE [size |-> size,
             traceback |-> IF trace.stack = NoStack THEN Unknown ELSE trace.stack]]
  /\ ptr' = NoPtr /\ trace' = NoFrames
  /\ pc' = "next"
  /\ UNCHANGED <<profiler, todo, first, at, gone, culprit>>

\* Slip: a block without a trace is taken to be gone.
GetSizeIfKnown == AddRow(IF ptr \in Traced /\ trace.stack # NoStack THEN ToInt(blocks[ptr]) ELSE 0)

\* The traceback is in the dict of tracebacks now; GetSize, and the tuple.
GetSize == AddRow(IF ptr \in Traced THEN ToInt(blocks[ptr]) ELSE 0)

GetSizeOfNothing ==
  /\ pc = "intern" /\ ~attached
  /\ pc' = "crash"
  /\ UNCHANGED <<profiler, todo, ptr, trace, rows, first, at, gone, culprit>>

\* The read is over, and what it has built goes to the program or is released.
Return ==
  /\ pc' = "idle"
  /\ todo' = {} /\ ptr' = NoPtr /\ trace' = NoFrames /\ rows' = << >>
  /\ at' = << >> /\ gone' = {} /\ culprit' = "none"
  /\ UNCHANGED <<profiler, first>>

SnapshotTaken == pc = "next" /\ todo = {} /\ Return

\* A MemoryError: no room for the tuple of rows, for a traceback or a row.
SnapshotFails ==
  /\ pc = "intern" \/ (pc = "next" /\ DOMAIN rows = {})
  /\ Return

-----------------------------------------------------------------------------
\* get_object_traceback(), of any address.
GetObjectTraceback ==
  /\ pc = "idle" /\ attached
  /\ \E p \in Ptrs :
       /\ ptr' = p
       /\ trace' = IF p \in Traced THEN Borrowed(stack[p]) ELSE NoFrames
  /\ pc' = "traceback"
  /\ UNCHANGED <<profiler, todo, rows, first, at, gone, culprit>>

\* NewPyTrace again, whose nullptr is what is returned.
TracebackBuilt == pc = "traceback" /\ Return

TracebackCrashes ==
  /\ pc = "traceback" /\ StringsGone
  /\ pc' = "crash"
  /\ UNCHANGED <<profiler, todo, ptr, trace, rows, first, at, gone, culprit>>

-----------------------------------------------------------------------------
\* get_traced_memory().

TotalMemoryTraced ==
  /\ pc = "idle"
  /\ first' = current
  /\ pc' = "peak"
  /\ UNCHANGED <<profiler, todo, ptr, trace, rows, at, gone, culprit>>

\* PeakMemoryTraced, and the pair <<first, peak>> is returned.
PeakMemoryTraced ==
  /\ pc = "peak"
  /\ first' = 0
  /\ pc' = "idle"
  /\ UNCHANGED <<profiler, todo, ptr, trace, rows, at, gone, culprit>>

Next ==
  \/ \E p \in Ptrs, size \in Sizes, s \in Stacks \cup {NoStack} : RecordMalloc(p, size, s)
  \/ \E p \in Ptrs : HandleFree(p)
  \/ Reset \/ DetachHeapProfiler \/ AttachHeapProfiler
  \/ GetSnapshot \/ GetTrace \/ NewPyTrace \/ GetSize \/ GetSizeOfNothing
  \/ SnapshotTaken \/ SnapshotFails \/ GetObjectTraceback \/ TracebackBuilt
  \/ TracebackCrashes \/ TotalMemoryTraced \/ PeakMemoryTraced

Spec == Init /\ [][Next]_vars

-----------------------------------------------------------------------------
\* Properties.

Row == [size : (-IntMax - 1)..IntMax, traceback : Stacks \cup {Unknown}]

TypeOK ==
  /\ blocks \in [Ptrs -> Sizes \cup {Untraced}] /\ stack \in [Ptrs -> Stacks \cup {NoStack}]
  /\ {current, peak, first} \subseteq Int
  /\ clears \in 0..MaxClears /\ attached \in BOOLEAN
  /\ pc \in {"idle", "next", "frames", "intern", "traceback", "peak", "crash"}
  /\ culprit \in {"none", "clear", "stop", "memory"}
  /\ todo \subseteq Ptrs /\ ptr \in Ptrs \cup {NoPtr}
  /\ trace.stack \in Stacks \cup {NoStack} /\ trace.clears \in 0..MaxClears
  /\ DOMAIN rows \subseteq Ptrs /\ \A p \in DOMAIN rows : rows[p] \in Row

RowOf(entry) ==
  [size |-> entry.size, traceback |-> IF entry.stack = NoStack THEN Unknown ELSE entry.stack]

\* take_snapshot() gives the size and traceback of every block there was when
\* it began ("the current snapshot of all profiled heap allocations").
RowsMatchSnapshot == \A p \in DOMAIN rows : rows[p] = RowOf(at[p])

\* A row is of one block ("Trace of a memory block"), or of one that is gone.
RowsAreOneBlock == \A p \in DOMAIN rows :
  rows[p] \in {RowOf(at[p]), [size |-> 0, traceback |-> Unknown]}

\* Whoever runs meanwhile: the row of a block that is still there when the
\* snapshot is done is right, although it was read in two pieces, if the size of
\* the block fits an int.
SurvivorsExact == \A p \in DOMAIN rows \ gone :
  at[p].size <= IntMax => rows[p] = RowOf(at[p])

\* Whoever runs meanwhile: no block is left out or comes twice, and none that
\* was allocated after GetSnapshot, by the reader itself say, is among them.
EveryBlockOnce == pc \in {"next", "frames", "intern"} =>
  /\ DOMAIN rows \cup todo \cup (IF pc = "next" THEN {} ELSE {ptr}) = DOMAIN at
  /\ DOMAIN rows \cap todo = {}

\* While NewPyTrace turns the strings of a trace into frames, they have not been
\* cleared: the GIL stands in for references to them.
BorrowedStringsLive == pc \in {"frames", "traceback"} => ~StringsGone

\* A read crashes only if, while it was building, the traces were cleared or the
\* profiler was stopped, or if there was no memory for the frames: a block that
\* is freed while its row is built, and whose address another may have taken by
\* then, does no harm (heap.cc:40, heap.cc:49).
OnlyKnownCrashes == pc = "crash" => culprit # "none"

\* get_traced_memory() reads its two figures at two moments, and still never
\* reports a peak below the current figure.
CurrentAtMostPeak == [][PeakMemoryTraced => first <= peak]_vars
=============================================================================
