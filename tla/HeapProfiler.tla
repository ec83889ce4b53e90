----------------------------- MODULE HeapProfiler -----------------------------
(***************************************************************************)
(* The heap profiler under the threads of a Python process: the wrapped    *)
(* allocator functions of malloc_patch.cc down to the tables of heap.cc,   *)
(* while a profiler is attached.                                           *)
(*                                                                         *)
(* A thread is idle (running the program) or inside one wrapped call, of   *)
(* which the model takes the outermost one only: that is the one that is   *)
(* traced.  Between any two labels the other threads may run.  Two locks   *)
(* order them: the GIL, which the raw allocator may be called without, and *)
(* the profiler's spin lock mu_, taken as an abstract lock here and shown  *)
(* to be one in SpinLock.                                                  *)
(*                                                                         *)
(* The base allocator is external: it hands out any free address, fails    *)
(* when it likes, and reuses an address as soon as it has it back.         *)
(***************************************************************************)
EXTENDS Integers, FiniteSets, FiniteSetsExt

CONSTANTS
  Threads, Ptrs,
  Sizes,            \* the sizes the program asks for
  Counts,           \* the element counts it calls calloc with
  MaxSize,          \* the largest value of size_t
  Traces,           \* the call stacks there are, once interned
  NoThread, nullptr, NoTrace, NoBlock, NoEntry,
  RawReallocNoGil,  \* may the program call raw realloc without the GIL?
  ReallocMayFail,   \* may the base realloc return nullptr?
  StringsMayDie     \* may string_table_ hold the last reference to a string?

VARIABLES
  gil,                \* who holds the GIL
  mu_,                \* who holds the profiler's lock
  live_set_,          \* address -> trace handle and size, or NoEntry
  total_mem_traced_,
  peak_mem_traced_,
  traces_,            \* the call stacks interned
  heap,               \* the base allocator's blocks, by address
  pc,                 \* where each thread is
  frame               \* the arguments and locals of its wrapped call

vars == <<gil, mu_, live_set_, total_mem_traced_, peak_mem_traced_, traces_,
          heap, pc, frame>>
counters == <<total_mem_traced_, peak_mem_traced_>>
tables == <<live_set_, counters, traces_>>

size_t == 0..MaxSize

(***************************************************************************)
(* A block remembers its size and domain.  "recorded" is bookkeeping of    *)
(* the model: the profiler has recorded this very block, and it was        *)
(* neither freed nor cleared since.                                        *)
(***************************************************************************)
Block == [size : size_t, is_raw : BOOLEAN, recorded : BOOLEAN]
NewBlock(s, raw) == [size |-> s, is_raw |-> raw, recorded |-> FALSE]

TraceHandle == Traces \cup {NoTrace}
LivePointer == [trace_handle : TraceHandle, size : size_t]

ASSUME HeapAssumption ==
  /\ NoThread \notin Threads /\ nullptr \notin Ptrs /\ NoTrace \notin Traces
  /\ NoBlock \notin Block /\ NoEntry \notin LivePointer \cup size_t
  /\ MaxSize \in Nat /\ Sizes \subseteq size_t /\ Counts \subseteq size_t
  /\ {RawReallocNoGil, ReallocMayFail, StringsMayDie} \subseteq BOOLEAN

(***************************************************************************)
(* The arguments and locals of a wrapped call: the address it was given,   *)
(* the one the base allocator returned, whether PyGILState_Ensure took the *)
(* GIL, the handle Intern returned, the size FindAndRemove returned.       *)
(***************************************************************************)
Ops == {"none", "malloc", "realloc", "free", "clear", "decref"}
Frame == [op : Ops, old : Ptrs \cup {nullptr}, ptr : Ptrs \cup {nullptr},
          size : size_t, is_raw : BOOLEAN, gil_state : BOOLEAN,
          trace_handle : TraceHandle, removed : size_t]
NoCall == [op |-> "none", old |-> nullptr, ptr |-> nullptr, size |-> 0,
           is_raw |-> FALSE, gil_state |-> FALSE, trace_handle |-> NoTrace,
           removed |-> 0]

LockLabels   == {"lock_insert", "lock_remove", "lock_reset"}
LockedLabels == {"insert", "add_total", "remove", "sub_total", "reset", "reset_traces"}
RecordLabels == {"intern", "lock_insert", "insert", "add_total"}
ResetLabels  == {"lock_reset", "reset", "reset_traces"}
\* "finalizer" is a label of ProfiledProcess.
Labels == {"idle", "handle_malloc", "ensure_gil", "finalizer", "release_gil", "base_free"}
            \cup RecordLabels \cup ResetLabels \cup LockLabels \cup LockedLabels

TypeOK ==
  /\ gil \in Threads \cup {NoThread}
  /\ mu_ \in Threads \cup {NoThread}
  /\ live_set_ \in [Ptrs -> LivePointer \cup {NoEntry}]
  /\ total_mem_traced_ \in Int /\ peak_mem_traced_ \in Int
  /\ traces_ \subseteq Traces
  /\ heap \in [Ptrs -> Block \cup {NoBlock}]
  /\ pc \in [Threads -> Labels]
  /\ frame \in [Threads -> Frame]

\* The profiler has just been attached: its tables are empty, the base
\* allocator's blocks are whatever the program allocated before.
Init ==
  /\ gil = NoThread /\ mu_ = NoThread
  /\ live_set_ = [p \in Ptrs |-> NoEntry]
  /\ total_mem_traced_ = 0 /\ peak_mem_traced_ = 0
  /\ traces_ = {}
  /\ heap \in [Ptrs -> {NewBlock(s, raw) : s \in Sizes, raw \in BOOLEAN}
                          \cup {NoBlock}]
  /\ pc = [t \in Threads |-> "idle"]
  /\ frame = [t \in Threads |-> NoCall]

-----------------------------------------------------------------------------
Goto(t, label) == pc' = [pc EXCEPT ![t] = label]

\* The wrapped call returns to the program.
Return(t) ==
  /\ Goto(t, "idle")
  /\ frame' = [frame EXCEPT ![t] = NoCall]

\* Thread t's call is working on the block at p: the program can not use it.
Holds(t, p) ==
  \/ frame[t].ptr = p
  \/ frame[t].old = p /\ frame[t].op \in {"free", "decref"}
  \/ frame[t].old = p /\ frame[t].op = "realloc" /\ frame[t].ptr = nullptr

\* The program owns the block at p and may pass it to free or realloc.
Owned(p) == heap[p] # NoBlock /\ \A t \in Threads : ~Holds(t, p)

FreePtrs == {p \in Ptrs : heap[p] = NoBlock}

\* Only the raw allocator may be called without the GIL.
MayCall(t, raw) == pc[t] = "idle" /\ (raw \/ gil = t)

(***************************************************************************)
(* The interpreter: a thread running Python code takes the GIL and drops   *)
(* it at points of its own choosing, never inside a wrapped call.          *)
(***************************************************************************)
AcquireGIL(t) ==
  /\ pc[t] = "idle" /\ gil = NoThread
  /\ gil' = t
  /\ UNCHANGED <<mu_, tables, heap, pc, frame>>

ReleaseGIL(t) ==
  /\ pc[t] = "idle" /\ gil = t
  /\ gil' = NoThread
  /\ UNCHANGED <<mu_, tables, heap, pc, frame>>

-----------------------------------------------------------------------------
(***************************************************************************)
(* Allocation: the base allocator first, then HandleMalloc.                *)
(***************************************************************************)
BaseAlloc(t, op, p, s, raw) ==
  /\ heap' = IF p = nullptr THEN heap ELSE [heap EXCEPT ![p] = NewBlock(s, raw)]
  /\ frame' = [frame EXCEPT ![t] = [NoCall EXCEPT !.op = op, !.ptr = p, !.size = s,
                                                  !.is_raw = raw]]
  /\ Goto(t, "handle_malloc")
  /\ UNCHANGED <<gil, mu_, tables>>

WrappedMalloc(t, s, raw) ==
  /\ MayCall(t, raw)
  /\ \E p \in FreePtrs \cup {nullptr} : BaseAlloc(t, "malloc", p, s, raw)

\* nelem * elsize wraps around in the wrapper; the base calloc checks and fails.
WrappedCalloc(t, nelem, elsize, raw) ==
  /\ MayCall(t, raw)
  /\ \E p \in FreePtrs \cup {nullptr} :
       /\ nelem * elsize > MaxSize => p = nullptr
       /\ BaseAlloc(t, "malloc", p, (nelem * elsize) % (MaxSize + 1), raw)

\* realloc(nullptr, s) allocates, and HandleRealloc has nothing to free.
WrappedReallocNull(t, s, raw) ==
  /\ MayCall(t, raw)
  /\ \E p \in FreePtrs \cup {nullptr} :
       /\ p = nullptr => ReallocMayFail
       /\ BaseAlloc(t, "realloc", p, s, raw)

\* Slip: a raw allocation is recorded without PyGILState_Ensure.
HandleMallocNoGIL(t) ==
  /\ pc[t] = "handle_malloc"
  /\ \/ Return(t)
     \/ /\ frame[t].size > 0 /\ frame[t].ptr # nullptr
        /\ Goto(t, "intern")
        /\ UNCHANGED frame
  /\ UNCHANGED <<gil, mu_, tables, heap>>

\* HandleMalloc up to RecordMalloc.  Whether the sampler takes an allocation is
\* a choice here, but it never takes one of no bytes.
HandleMalloc(t) ==
  /\ pc[t] = "handle_malloc"
  /\ \/ Return(t)
     \/ /\ frame[t].size > 0 /\ frame[t].ptr # nullptr
        /\ Goto(t, IF frame[t].is_raw /\ gil # t THEN "ensure_gil" ELSE "intern")
        /\ UNCHANGED frame
  /\ UNCHANGED <<gil, mu_, tables, heap>>

\* PyGILState_Ensure in a thread that does not hold the GIL.
EnsureGIL(t) ==
  /\ pc[t] = "ensure_gil" /\ gil = NoThread
  /\ gil' = t
  /\ frame' = [frame EXCEPT ![t].gil_state = TRUE]
  /\ Goto(t, "intern")
  /\ UNCHANGED <<mu_, tables, heap>>

\* RecordMalloc before it locks: the thread's call stack is interned.  A stack
\* with no frame to keep interns to the null handle.
Intern(t) ==
  /\ pc[t] = "intern"
  /\ \E h \in TraceHandle :
       /\ traces_' = traces_ \cup ({h} \ {NoTrace})
       /\ frame' = [frame EXCEPT ![t].trace_handle = h]
  /\ Goto(t, "lock_insert")
  /\ UNCHANGED <<gil, mu_, live_set_, counters, heap>>

\* std::lock_guard<SpinLock> lock(mu_), wherever it is.
LockMu(t) ==
  /\ pc[t] \in LockLabels /\ mu_ = NoThread
  /\ mu_' = t
  /\ Goto(t, CASE pc[t] = "lock_insert" -> "insert"
               [] pc[t] = "lock_remove" -> "remove"
               [] pc[t] = "lock_reset"  -> "reset")
  /\ UNCHANGED <<gil, tables, heap, frame>>

\* live_set_.Insert: any old value of the key is forgotten.
Insert(t) ==
  /\ pc[t] = "insert"
  /\ LET p == frame[t].ptr IN
       /\ live_set_' = [live_set_ EXCEPT
            ![p] = [trace_handle |-> frame[t].trace_handle, size |-> frame[t].size]]
       /\ heap' = [heap EXCEPT ![p].recorded = TRUE]
  /\ Goto(t, "add_total")
  /\ UNCHANGED <<gil, mu_, counters, traces_, frame>>

\* Slip: the peak is not kept.
AddTotalNoPeak(t) ==
  /\ pc[t] = "add_total"
  /\ total_mem_traced_' = total_mem_traced_ + frame[t].size
  /\ mu_' = NoThread
  /\ IF frame[t].gil_state THEN Goto(t, "release_gil") /\ UNCHANGED frame
     ELSE Return(t)
  /\ UNCHANGED <<gil, live_set_, peak_mem_traced_, traces_, heap>>

\* The counters, then the end of the lock_guard's scope.
AddTotal(t) ==
  /\ pc[t] = "add_total"
  /\ LET total == total_mem_traced_ + frame[t].size IN
       /\ total_mem_traced_' = total
       /\ peak_mem_traced_' = IF total > peak_mem_traced_ THEN total
                              ELSE peak_mem_traced_
  /\ mu_' = NoThread
  /\ IF frame[t].gil_state THEN Goto(t, "release_gil") /\ UNCHANGED frame
     ELSE Return(t)
  /\ UNCHANGED <<gil, live_set_, traces_, heap>>

ReleaseGILState(t) ==
  /\ pc[t] = "release_gil"
  /\ gil' = NoThread
  /\ Return(t)
  /\ UNCHANGED <<mu_, tables, heap>>

-----------------------------------------------------------------------------
(***************************************************************************)
(* Free: HandleFree first, then the base allocator.  Realloc: the base     *)
(* allocator first, then HandleFree of the old address and HandleMalloc.   *)
(***************************************************************************)
WrappedFree(t, p) ==
  /\ Owned(p) /\ MayCall(t, heap[p].is_raw)
  /\ frame' = [frame EXCEPT ![t] = [NoCall EXCEPT !.op = "free", !.old = p]]
  /\ Goto(t, "lock_remove")
  /\ UNCHANGED <<gil, mu_, tables, heap>>

\* Slip: a block that did not move is not untraced before it is traced again.
ReallocInPlaceKeeps(t, p, s) ==
  LET raw == heap[p].is_raw
      Call(q) == [NoCall EXCEPT !.op = "realloc", !.old = p, !.ptr = q,
                                !.size = s, !.is_raw = raw]
  IN /\ Owned(p) /\ MayCall(t, raw)
     /\ gil = t \/ RawReallocNoGil
     /\ \E q \in FreePtrs \cup {p} :
          /\ heap' = [heap EXCEPT ![p] = NoBlock, ![q] = NewBlock(s, raw)]
          /\ frame' = [frame EXCEPT ![t] = Call(q)]
          /\ Goto(t, IF q = p THEN "handle_malloc" ELSE "lock_remove")
     /\ UNCHANGED <<gil, mu_, tables>>

\* The base realloc resizes in place, moves the block, or fails and leaves it.
WrappedRealloc(t, p, s) ==
  LET raw == heap[p].is_raw
      Call(q) == [NoCall EXCEPT !.op = "realloc", !.old = p, !.ptr = q,
                                !.size = s, !.is_raw = raw]
  IN /\ Owned(p) /\ MayCall(t, raw)
     /\ gil = t \/ RawReallocNoGil
     /\ \/ \E q \in FreePtrs \cup {p} :
             /\ heap' = [heap EXCEPT ![p] = NoBlock, ![q] = NewBlock(s, raw)]
             /\ frame' = [frame EXCEPT ![t] = Call(q)]
        \/ /\ ReallocMayFail
           /\ frame' = [frame EXCEPT ![t] = Call(nullptr)]
           /\ UNCHANGED heap
     /\ Goto(t, "lock_remove")
     /\ UNCHANGED <<gil, mu_, tables>>

AfterFree(t) == IF frame[t].op = "realloc" THEN "handle_malloc" ELSE "base_free"

\* Slip: the lock is kept when the address is not in the table.
FindNothingKeepsLock(t) ==
  /\ pc[t] = "remove"
  /\ LET p == frame[t].old
         found == live_set_[p] # NoEntry
     IN /\ live_set_' = [live_set_ EXCEPT ![p] = NoEntry]
        /\ frame' = IF found THEN [frame EXCEPT ![t].removed = live_set_[p].size]
                    ELSE frame
        /\ Goto(t, IF found THEN "sub_total" ELSE AfterFree(t))
        /\ heap' = IF frame[t].op = "realloc" THEN heap
                   ELSE [heap EXCEPT ![p].recorded = FALSE]
  /\ UNCHANGED <<gil, mu_, counters, traces_>>

\* HandleFree: an address that is not in the table is none of its business.
FindAndRemove(t) ==
  /\ pc[t] = "remove"
  /\ LET p == frame[t].old
         found == live_set_[p] # NoEntry
     IN /\ live_set_' = [live_set_ EXCEPT ![p] = NoEntry]
        /\ frame' = IF found THEN [frame EXCEPT ![t].removed = live_set_[p].size]
                    ELSE frame
        /\ mu_' = IF found THEN mu_ ELSE NoThread
        /\ Goto(t, IF found THEN "sub_total" ELSE AfterFree(t))
        /\ heap' = IF frame[t].op = "realloc" THEN heap
                   ELSE [heap EXCEPT ![p].recorded = FALSE]
  /\ UNCHANGED <<gil, counters, traces_>>

\* Slip: the size of the call is subtracted, not the size of the entry.
SubTotalOfCall(t) ==
  /\ pc[t] = "sub_total"
  /\ total_mem_traced_' = total_mem_traced_ - frame[t].size
  /\ mu_' = NoThread
  /\ Goto(t, AfterFree(t))
  /\ UNCHANGED <<gil, live_set_, peak_mem_traced_, traces_, heap, frame>>

SubTotal(t) ==
  /\ pc[t] = "sub_total"
  /\ total_mem_traced_' = total_mem_traced_ - frame[t].removed
  /\ mu_' = NoThread
  /\ Goto(t, AfterFree(t))
  /\ UNCHANGED <<gil, live_set_, peak_mem_traced_, traces_, heap, frame>>

\* The base allocator takes the block back.
BaseFree(t) ==
  /\ pc[t] = "base_free"
  /\ heap' = [heap EXCEPT ![frame[t].old] = NoBlock]
  /\ Return(t)
  /\ UNCHANGED <<gil, mu_, tables>>

-----------------------------------------------------------------------------
\* Slip: the GIL is dropped around the clear, as around a blocking call.
ClearTracesNoGIL(t) ==
  /\ pc[t] = "idle"
  /\ frame' = [frame EXCEPT ![t] = [NoCall EXCEPT !.op = "clear"]]
  /\ Goto(t, "lock_reset")
  /\ UNCHANGED <<gil, mu_, tables, heap>>

(***************************************************************************)
(* clear_traces(): HeapProfiler::Reset under the GIL and mu_.              *)
(***************************************************************************)
ClearTraces(t) ==
  /\ pc[t] = "idle" /\ gil = t
  /\ frame' = [frame EXCEPT ![t] = [NoCall EXCEPT !.op = "clear"]]
  /\ Goto(t, "lock_reset")
  /\ UNCHANGED <<gil, mu_, tables, heap>>

\* HeapProfiler::Reset up to the call stacks.
Reset(t) ==
  /\ pc[t] = "reset"
  /\ live_set_' = [p \in Ptrs |-> NoEntry]
  /\ total_mem_traced_' = 0 /\ peak_mem_traced_' = 0
  /\ heap' = [p \in Ptrs |-> IF heap[p] = NoBlock THEN NoBlock
                             ELSE [heap[p] EXCEPT !.recorded = FALSE]]
  /\ Goto(t, "reset_traces")
  /\ UNCHANGED <<gil, mu_, traces_, frame>>

\* CallTraceSet::Reset when every string is still referenced elsewhere, and
\* the end of the lock_guard's scope.
ResetTraces(t) ==
  /\ pc[t] = "reset_traces"
  /\ traces_' = {}
  /\ mu_' = NoThread
  /\ Return(t)
  /\ UNCHANGED <<gil, live_set_, counters, heap>>

\* Py_DECREF of a string nobody else references: its memory goes back through
\* the wrapped free, with mu_ held.
DecrefLastString(t, p) ==
  /\ StringsMayDie
  /\ pc[t] = "reset_traces" /\ traces_ # {}
  /\ Owned(p) /\ ~heap[p].is_raw
  /\ frame' = [frame EXCEPT ![t] = [NoCall EXCEPT !.op = "decref", !.old = p]]
  /\ Goto(t, "lock_remove")
  /\ UNCHANGED <<gil, mu_, tables, heap>>

-----------------------------------------------------------------------------
\* What the program asks for.
Call(t) ==
  \/ \E s \in Sizes, raw \in BOOLEAN :
       WrappedMalloc(t, s, raw) \/ WrappedReallocNull(t, s, raw)
  \/ \E n \in Counts, s \in Sizes, raw \in BOOLEAN : WrappedCalloc(t, n, s, raw)
  \/ \E p \in Ptrs, s \in Sizes : WrappedRealloc(t, p, s)
  \/ \E p \in Ptrs : WrappedFree(t, p)
  \/ ClearTraces(t)

\* What a thread inside a wrapped call does without waiting for anybody.
Step(t) ==
  \/ HandleMalloc(t) \/ Intern(t) \/ Insert(t) \/ AddTotal(t) \/ ReleaseGILState(t)
  \/ FindAndRemove(t) \/ SubTotal(t) \/ BaseFree(t)
  \/ Reset(t) \/ ResetTraces(t) \/ \E p \in Ptrs : DecrefLastString(t, p)

Next ==
  \E t \in Threads :
    \/ AcquireGIL(t) \/ ReleaseGIL(t) \/ EnsureGIL(t) \/ LockMu(t)
    \/ Call(t) \/ Step(t)

Spec == Init /\ [][Next]_vars

(***************************************************************************)
(* The scheduler runs a thread that waits for nothing; a thread spinning   *)
(* on a lock that stays free gets it; a thread running Python code drops   *)
(* the GIL in the end, and CPython hands it to a thread that asked for it. *)
(* Nothing makes the spin lock fair, nor the program call anything.        *)
(***************************************************************************)
Fairness ==
  \A t \in Threads :
    /\ WF_vars(Step(t)) /\ WF_vars(LockMu(t))
    /\ WF_vars(ReleaseGIL(t)) /\ SF_vars(EnsureGIL(t))

FairSpec == Spec /\ Fairness
-----------------------------------------------------------------------------
(***************************************************************************)
(* heap.h says which state which lock protects: live_set_ and the counters *)
(* are only touched with mu_ held (line 60), and traces_ with the GIL held *)
(* (line 66), also by threads that called the raw allocator without it.    *)
(***************************************************************************)
LockDiscipline ==
  \A t \in Threads :
    /\ pc[t] \in LockedLabels => mu_ = t
    /\ mu_ = t => pc[t] \in LockedLabels \/ frame[t].op = "decref"
    /\ pc[t] \in RecordLabels \cup ResetLabels \cup {"release_gil"} => gil = t

\* Thread t's realloc has released or resized the block at p, and HandleFree
\* has yet to take p out of the table.
Window(t, p) ==
  frame[t].op = "realloc" /\ frame[t].old = p /\ pc[t] \in {"lock_remove", "remove"}

EntryOf(p, b) == live_set_[p] # NoEntry /\ live_set_[p].size = b.size

(***************************************************************************)
(* RecordMalloc never overwrites an entry: Insert forgets the old value    *)
(* while the total keeps its size, so one overwrite and the total is wrong *)
(* until the next clear.                                                   *)
(***************************************************************************)
NoOverwrite ==
  \A t \in Threads : pc[t] = "insert" => live_set_[frame[t].ptr] = NoEntry

(***************************************************************************)
(* A block the profiler recorded stays in the table, with its own size,    *)
(* until it is freed or cleared: no other thread's free, realloc or        *)
(* allocation at a reused address takes it out (malloc_patch.cc:92).       *)
(***************************************************************************)
RecordedBlockHasEntry ==
  \A p \in Ptrs :
    heap[p] # NoBlock /\ heap[p].recorded => EntryOf(p, heap[p])

(***************************************************************************)
(* No stale entries: an entry is that of the very block at its address,    *)
(* never of an earlier block there, save in the window of a realloc.       *)
(***************************************************************************)
EntryHasRecordedBlock ==
  \A p \in Ptrs : live_set_[p] # NoEntry =>
    \/ heap[p] # NoBlock /\ heap[p].recorded /\ EntryOf(p, heap[p])
    \/ \E t \in Threads : Window(t, p)

(***************************************************************************)
(* A trace handle is a pointer into traces_: none, in the table or on its  *)
(* way there from Intern, outlives the Reset that frees what it points to. *)
(***************************************************************************)
HandlesInterned ==
  /\ \A p \in Ptrs : live_set_[p] # NoEntry =>
       live_set_[p].trace_handle \in traces_ \cup {NoTrace}
  /\ \A t \in Threads : pc[t] \in {"lock_insert", "insert"} =>
       frame[t].trace_handle \in traces_ \cup {NoTrace}

\* What the holder of mu_ has done to the table and not yet to the counters.
Pending ==
  IF mu_ = NoThread THEN 0
  ELSE IF pc[mu_] = "add_total" THEN frame[mu_].size
  ELSE IF pc[mu_] = "sub_total" THEN -frame[mu_].removed
  ELSE 0

SumOfSizes ==
  MapThenSumSet(LAMBDA p : live_set_[p].size, {p \in Ptrs : live_set_[p] # NoEntry})

(***************************************************************************)
(* get_traced_memory() is right: whenever mu_ can be taken, the total is   *)
(* the sum of the sizes in the table, and the peak is no lower.            *)
(***************************************************************************)
TotalIsSum ==
  mu_ = NoThread =>
    /\ total_mem_traced_ = SumOfSizes
    /\ total_mem_traced_ <= peak_mem_traced_

(***************************************************************************)
(* The profiler implements TracedMemory: an Insert is where a block gets   *)
(* traced, a FindAndRemove where it is untraced, and the counters follow.  *)
(***************************************************************************)
TracedBlocks == [p \in Ptrs |-> IF live_set_[p] = NoEntry THEN NoEntry
                                ELSE live_set_[p].size]
TracedCurrent == total_mem_traced_ + Pending
TracedPeak == IF TracedCurrent > peak_mem_traced_ THEN TracedCurrent
              ELSE peak_mem_traced_

Traced == INSTANCE TracedMemory WITH
            Sizes <- size_t, Untraced <- NoEntry,
            blocks <- TracedBlocks, current <- TracedCurrent, peak <- TracedPeak

ImplementsTracedMemory == Traced!TSpec

\* A clear that has the lock empties the tables and returns (malloc_patch.h:33).
ClearReturns == \A t \in Threads : pc[t] = "reset" ~> pc[t] = "idle"

(***************************************************************************)
(* HandleMalloc and HandleRealloc are entered with a block: "These each    *)
(* require that ptr (newptr) not be nullptr" (heap.h:30), which            *)
(* HandleRealloc asserts (heap.h:102).                                     *)
(***************************************************************************)
ReallocNewptrNotNull ==
  \A t \in Threads :
    frame[t].op = "realloc" => frame[t].ptr # nullptr
=============================================================================
