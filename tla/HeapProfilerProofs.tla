-------------------------- MODULE HeapProfilerProofs --------------------------
(***************************************************************************)
(* Proofs about HeapProfiler, for every value of its constants, and, in    *)
(* the last sections, about ProfiledProcess and about SpinLock, which is   *)
(* the class of mu_.                                                       *)
(*                                                                         *)
(* Inv holds whatever the callers do.  It says what a thread's frame holds *)
(* at each label, that a block in a call is allocated and in no other call,*)
(* and which locks the labels imply; the properties that need no more are  *)
(* proved from it.                                                         *)
(***************************************************************************)
EXTENDS ProfiledProcess, SpinLock, DataInduction, TLAPS

FreeLabels == {"lock_remove", "remove", "sub_total", "base_free"}
MallocLabels == {"handle_malloc", "ensure_gil", "finalizer", "release_gil"} \cup RecordLabels

\* What the frame of thread t may be at its label.
FrameOK(t) ==
  /\ pc[t] = "idle" => frame[t] = NoCall
  /\ pc[t] \in FreeLabels =>
       frame[t].op \in {"free", "realloc", "decref"} /\ frame[t].old \in Ptrs
  /\ pc[t] = "base_free" => frame[t].op = "free"
  /\ pc[t] \in MallocLabels => frame[t].op \in {"malloc", "realloc"}
  /\ pc[t] \in MallocLabels \ {"handle_malloc"} => frame[t].ptr \in Ptrs
  /\ pc[t] \in ResetLabels => frame[t] = [NoCall EXCEPT !.op = "clear"]
  /\ frame[t].op = "free" => frame[t].ptr = nullptr

FramesOK == \A t \in Threads : FrameOK(t)

\* A block a call works on is allocated, and in no other thread's call.
HoldOK ==
  /\ \A t \in Threads, p \in Ptrs : Holds(t, p) => heap[p] # NoBlock
  /\ \A t, u \in Threads, p \in Ptrs : Holds(t, p) /\ Holds(u, p) => t = u

\* A call of the mem or obj allocator has the GIL, unless a finalizer in it has
\* given it up.
DomainOK ==
  \A t \in Threads :
    frame[t].op \in {"malloc", "realloc"} /\ ~frame[t].is_raw =>
      gil = t \/ pc[t] = "finalizer"

\* A string dying in Reset leaves its thread waiting for the lock it holds.
DecrefOK ==
  \A t \in Threads : frame[t].op = "decref" =>
    pc[t] = "lock_remove" /\ mu_ = t /\ gil = t

\* Reset empties live_set_ before traces_, and keeps mu_ in between.
ResetOK ==
  \A t \in Threads : pc[t] = "reset_traces" => live_set_ = [p \in Ptrs |-> NoEntry]

Inv ==
  /\ TypeOK /\ FramesOK /\ HoldOK /\ DomainOK /\ DecrefOK
  /\ LockDiscipline /\ ResetOK /\ HandlesInterned

\* nelem * elsize of size_t is a size_t again.
-----------------------------------------------------------------------------
(***************************************************************************)
(* BenignInv holds of programs that call raw realloc with the GIL only and *)
(* of a base realloc that does not fail: the proof that entries and        *)
(* recorded blocks are the same.                                           *)
(***************************************************************************)
Benign == ~RawReallocNoGil /\ ~ReallocMayFail

\* A realloc that has to call HandleFree holds the GIL and has a new block.
ReallocOK ==
  \A t \in Threads :
    frame[t].op = "realloc" /\ pc[t] \in FreeLabels =>
      gil = t /\ frame[t].ptr \in Ptrs

\* The block RecordMalloc is about to record was not recorded before.
Unrecorded(p) == heap[p] # NoBlock => ~heap[p].recorded

FreshOK ==
  \A t \in Threads :
    /\ /\ frame[t].ptr \in Ptrs
       /\ pc[t] \in FreeLabels \cup (MallocLabels \ {"add_total", "release_gil"})
       => Unrecorded(frame[t].ptr) /\ heap[frame[t].ptr].size = frame[t].size
    /\ pc[t] \in {"sub_total", "base_free"} /\ frame[t].op = "free"
       => Unrecorded(frame[t].old)

\* In a realloc's window the old address holds nothing recorded: recording
\* needs the GIL, and the realloc has it.
WindowOK == \A t \in Threads, p \in Ptrs : Window(t, p) => Unrecorded(p)

BenignInv ==
  /\ Inv /\ ReallocOK /\ FreshOK /\ WindowOK
  /\ RecordedBlockHasEntry /\ EntryHasRecordedBlock
  /\ total_mem_traced_ <= peak_mem_traced_

-----------------------------------------------------------------------------
LEMMA CallocSize ==
  ASSUME NEW n \in size_t, NEW s \in size_t
  PROVE  (n * s) % (MaxSize + 1) \in size_t
<1>1. n * s \in Nat
  BY HeapAssumption, SMT DEF size_t
<1>2. ASSUME NEW k \in Nat PROVE k % (MaxSize + 1) \in size_t
  BY HeapAssumption DEF size_t
<1> QED BY <1>1, <1>2

LEMMA NewBlockType ==
  ASSUME NEW s \in size_t, NEW raw \in BOOLEAN
  PROVE  NewBlock(s, raw) \in Block
BY DEF NewBlock, Block

\* Marking a block recorded or not leaves it a block.
LEMMA BlockMarked ==
  ASSUME NEW b \in Block, NEW r \in BOOLEAN
  PROVE  [b EXCEPT !.recorded = r] \in Block \ {NoBlock}
BY HeapAssumption DEF Block

\* Frames the actions build.
LEMMA Defaults == NoTrace \in TraceHandle /\ 0 \in size_t
BY HeapAssumption DEF TraceHandle, size_t

LEMMA FrameForms ==
  /\ NoCall \in Frame
  /\ [NoCall EXCEPT !.op = "clear"] \in Frame
BY Defaults DEF NoCall, Frame, Ops

\* When only the label of one thread moves, the frames of the others are as before.
LEMMA LabelMoves ==
  ASSUME FramesOK, UNCHANGED frame, NEW t \in Threads, FrameOK(t)',
         \A u \in Threads \ {t} : pc'[u] = pc[u]
  PROVE  FramesOK'
<1>1. ASSUME NEW u \in Threads \ {t} PROVE FrameOK(u)'
  BY <1>1 DEF FramesOK, FrameOK
<1> QED BY <1>1 DEF FramesOK

\* Where wrapped malloc, calloc and realloc of nullptr leave the base allocator.
LEMMA CallForms ==
  ASSUME NEW t \in Threads, Call(t)
  PROVE  \/ \E op \in {"malloc", "realloc"}, p \in FreePtrs \cup {nullptr},
               s \in size_t, raw \in BOOLEAN :
              MayCall(t, raw) /\ BaseAlloc(t, op, p, s, raw)
         \/ \E p \in Ptrs, s \in size_t : WrappedRealloc(t, p, s)
         \/ \E p \in Ptrs : WrappedFree(t, p)
         \/ ClearTraces(t)
<1>0. Sizes \subseteq size_t /\ Counts \subseteq size_t
  BY HeapAssumption
<1>1. ASSUME NEW s \in Sizes, NEW raw \in BOOLEAN, WrappedMalloc(t, s, raw)
      PROVE  \E p \in FreePtrs \cup {nullptr} :
               MayCall(t, raw) /\ BaseAlloc(t, "malloc", p, s, raw)
  BY <1>1 DEF WrappedMalloc
<1>2. ASSUME NEW s \in Sizes, NEW raw \in BOOLEAN, WrappedReallocNull(t, s, raw)
      PROVE  \E p \in FreePtrs \cup {nullptr} :
               MayCall(t, raw) /\ BaseAlloc(t, "realloc", p, s, raw)
  BY <1>2 DEF WrappedReallocNull
<1>3. ASSUME NEW n \in Counts, NEW s \in Sizes, NEW raw \in BOOLEAN,
             WrappedCalloc(t, n, s, raw)
      PROVE  \E p \in FreePtrs \cup {nullptr} :
               MayCall(t, raw) /\ BaseAlloc(t, "malloc", p, (n * s) % (MaxSize + 1), raw)
  BY <1>3 DEF WrappedCalloc
<1>4. \A n \in Counts, s \in Sizes : (n * s) % (MaxSize + 1) \in size_t
  BY <1>0, CallocSize
<1> QED
  BY <1>0, <1>1, <1>2, <1>3, <1>4, Zenon DEF Call
LEMMA FrameOps ==
  ASSUME NEW p \in Ptrs
  PROVE  /\ [NoCall EXCEPT !.op = "free", !.old = p] \in Frame
         /\ [NoCall EXCEPT !.op = "decref", !.old = p] \in Frame
BY Defaults DEF NoCall, Frame, Ops

-----------------------------------------------------------------------------
LEMMA InitInv == Init => Inv
<1> SUFFICES ASSUME Init PROVE Inv
  OBVIOUS
<1>1. NoCall \in Frame
  BY HeapAssumption DEF NoCall, Frame, Ops, TraceHandle, size_t
<1>2. \A s \in Sizes, raw \in BOOLEAN : NewBlock(s, raw) \in Block
  BY NewBlockType, HeapAssumption
<1>3. TypeOK
  BY <1>1, <1>2 DEF Init, TypeOK, Labels
<1>4. FramesOK /\ HoldOK /\ DomainOK /\ DecrefOK
  BY HeapAssumption DEF Init, FramesOK, FrameOK, HoldOK, DomainOK, DecrefOK, Holds, NoCall,
     FreeLabels, MallocLabels, RecordLabels, ResetLabels
<1>5. LockDiscipline /\ ResetOK /\ HandlesInterned
  BY HeapAssumption DEF Init, LockDiscipline, ResetOK, HandlesInterned, NoCall,
     LockedLabels, RecordLabels, ResetLabels
<1> QED BY <1>3, <1>4, <1>5 DEF Inv

LEMMA NextInv == Inv /\ [Next]_vars => Inv'
<1> SUFFICES ASSUME Inv, [Next]_vars PROVE Inv'
  OBVIOUS
<1> USE HeapAssumption DEF Inv, Goto, Return, tables, counters,
        Labels, RecordLabels, ResetLabels, LockLabels, LockedLabels,
        MallocLabels, FreeLabels
<1>1. ASSUME NEW t \in Threads, AcquireGIL(t) PROVE Inv'
  <2>1. TypeOK'
    BY <1>1 DEF AcquireGIL, TypeOK, LivePointer, FramesOK, FrameOK, HoldOK, Holds
  <2>2. FramesOK'
    BY <1>1 DEF AcquireGIL, TypeOK, FramesOK, FrameOK, NoCall, DecrefOK, LockDiscipline
  <2>3. HoldOK'
    BY <1>1 DEF AcquireGIL, TypeOK, FramesOK, FrameOK, NoCall, HoldOK, Holds, DecrefOK
  <2>4. DomainOK' /\ DecrefOK' /\ LockDiscipline' /\ ResetOK'
    BY <1>1 DEF AcquireGIL, TypeOK, FramesOK, FrameOK, NoCall, DomainOK, DecrefOK, LockDiscipline, ResetOK
  <2>5. HandlesInterned'
    BY <1>1 DEF AcquireGIL, TypeOK, FramesOK, FrameOK, NoCall, LockDiscipline, ResetOK, HandlesInterned, LivePointer, DecrefOK
  <2> QED BY <2>1, <2>2, <2>3, <2>4, <2>5
<1>2. ASSUME NEW t \in Threads, ReleaseGIL(t) PROVE Inv'
  <2>1. TypeOK'
    BY <1>2 DEF ReleaseGIL, TypeOK, LivePointer, FramesOK, FrameOK, HoldOK, Holds
  <2>2. FramesOK'
    BY <1>2 DEF ReleaseGIL, TypeOK, FramesOK, FrameOK, NoCall, DecrefOK, LockDiscipline
  <2>3. HoldOK'
    BY <1>2 DEF ReleaseGIL, TypeOK, FramesOK, FrameOK, NoCall, HoldOK, Holds, DecrefOK
  <2>4. DomainOK' /\ DecrefOK' /\ LockDiscipline' /\ ResetOK'
    BY <1>2 DEF ReleaseGIL, TypeOK, FramesOK, FrameOK, NoCall, DomainOK, DecrefOK, LockDiscipline, ResetOK
  <2>5. HandlesInterned'
    BY <1>2 DEF ReleaseGIL, TypeOK, FramesOK, FrameOK, NoCall, LockDiscipline, ResetOK, HandlesInterned, LivePointer, DecrefOK
  <2> QED BY <2>1, <2>2, <2>3, <2>4, <2>5
<1>3. ASSUME NEW t \in Threads, EnsureGIL(t) PROVE Inv'
  <2>1. TypeOK'
    <3>1. [frame[t] EXCEPT !.gil_state = TRUE] \in Frame
      BY DEF TypeOK, Frame
    <3> QED BY <1>3, <3>1 DEF EnsureGIL, TypeOK
  <2>2. FramesOK'
    BY <1>3 DEF EnsureGIL, TypeOK, FramesOK, FrameOK, NoCall, DecrefOK, LockDiscipline
  <2>3. HoldOK'
    BY <1>3 DEF EnsureGIL, TypeOK, FramesOK, FrameOK, NoCall, HoldOK, Holds, DecrefOK
  <2>4. DomainOK' /\ DecrefOK' /\ LockDiscipline' /\ ResetOK'
    BY <1>3 DEF EnsureGIL, TypeOK, FramesOK, FrameOK, NoCall, DomainOK, DecrefOK, LockDiscipline, ResetOK
  <2>5. HandlesInterned'
    BY <1>3 DEF EnsureGIL, TypeOK, FramesOK, FrameOK, NoCall, LockDiscipline, ResetOK, HandlesInterned, LivePointer, DecrefOK
  <2> QED BY <2>1, <2>2, <2>3, <2>4, <2>5
<1>4. ASSUME NEW t \in Threads, LockMu(t) PROVE Inv'
  <2>a. \E l \in {"insert", "remove", "reset"} :
          /\ pc' = [pc EXCEPT ![t] = l]
          /\ l = "insert" <=> pc[t] = "lock_insert"
          /\ l = "remove" <=> pc[t] = "lock_remove"
    BY <1>4 DEF LockMu
  <2>b. UNCHANGED <<gil, live_set_, total_mem_traced_, peak_mem_traced_, traces_, heap, frame>>
        /\ mu_ = NoThread /\ mu_' = t /\ pc[t] \in LockLabels
    BY <1>4 DEF LockMu
  <2>1. TypeOK'
    BY <2>a, <2>b DEF TypeOK, LivePointer, FramesOK, FrameOK, HoldOK, Holds
  <2>2. FramesOK'
    <3>1. ASSUME NEW u \in Threads, u # t PROVE FrameOK(u)'
      BY <2>a, <2>b, <3>1 DEF DecrefOK, TypeOK, FramesOK, FrameOK
    <3>2. FrameOK(t)'
      BY <2>a, <2>b DEF DecrefOK, TypeOK, FramesOK, FrameOK, NoCall
    <3> QED BY <3>1, <3>2 DEF FramesOK
  <2>3. HoldOK'
    BY <2>a, <2>b DEF TypeOK, FramesOK, FrameOK, NoCall, HoldOK, Holds, DecrefOK
  <2>4. DomainOK' /\ DecrefOK' /\ LockDiscipline' /\ ResetOK'
    BY <2>a, <2>b DEF TypeOK, FramesOK, FrameOK, NoCall, DomainOK, DecrefOK, LockDiscipline, ResetOK
  <2>5. HandlesInterned'
    BY <2>a, <2>b DEF TypeOK, FramesOK, FrameOK, NoCall, LockDiscipline, ResetOK, HandlesInterned, LivePointer, DecrefOK
  <2> QED BY <2>1, <2>2, <2>3, <2>4, <2>5
<1>5. ASSUME NEW t \in Threads, HandleMalloc(t) PROVE Inv'
  <2>1. CASE Return(t)
    <3>1. TypeOK'
      BY <1>5, <2>1, FrameForms DEF HandleMalloc, TypeOK
    <3>2. FramesOK'
      <4>1. ASSUME NEW u \in Threads, u # t PROVE FrameOK(u)'
        BY <1>5, <2>1, <4>1 DEF HandleMalloc, TypeOK, FramesOK, FrameOK
      <4>2. FrameOK(t)'
        BY <1>5, <2>1 DEF HandleMalloc, TypeOK, FramesOK, FrameOK, NoCall
      <4> QED BY <4>1, <4>2 DEF FramesOK
    <3>3. HoldOK'
      BY <1>5, <2>1 DEF HandleMalloc, TypeOK, FramesOK, FrameOK, NoCall, HoldOK, Holds, DecrefOK
    <3>4. DomainOK' /\ DecrefOK' /\ LockDiscipline' /\ ResetOK'
      BY <1>5, <2>1 DEF HandleMalloc, TypeOK, FramesOK, FrameOK, NoCall, DomainOK, DecrefOK, LockDiscipline, ResetOK
    <3>5. HandlesInterned'
      BY <1>5, <2>1 DEF HandleMalloc, TypeOK, FramesOK, FrameOK, NoCall, LockDiscipline, ResetOK, HandlesInterned, LivePointer, DecrefOK
    <3> QED BY <3>1, <3>2, <3>3, <3>4, <3>5
  <2>2. CASE pc' = [pc EXCEPT ![t] = "ensure_gil"] /\ frame[t].ptr # nullptr /\ UNCHANGED frame
    <3>1. TypeOK'
      BY <1>5, <2>2 DEF HandleMalloc, TypeOK, LivePointer, FramesOK, FrameOK, HoldOK, Holds
    <3>2. FramesOK'
      <4>1. ASSUME NEW u \in Threads, u # t PROVE FrameOK(u)'
        BY <1>5, <2>2, <4>1 DEF HandleMalloc, TypeOK, FramesOK, FrameOK
      <4>2. FrameOK(t)'
        BY <1>5, <2>2 DEF HandleMalloc, TypeOK, Frame, FramesOK, FrameOK
      <4> QED BY <4>1, <4>2 DEF FramesOK
    <3>3. HoldOK'
      BY <1>5, <2>2 DEF HandleMalloc, TypeOK, FramesOK, FrameOK, NoCall, HoldOK, Holds, DecrefOK
    <3>4. DomainOK' /\ DecrefOK' /\ LockDiscipline' /\ ResetOK'
      BY <1>5, <2>2 DEF HandleMalloc, TypeOK, FramesOK, FrameOK, NoCall, DomainOK, DecrefOK, LockDiscipline, ResetOK
    <3>5. HandlesInterned'
      BY <1>5, <2>2 DEF HandleMalloc, TypeOK, FramesOK, FrameOK, NoCall, LockDiscipline, ResetOK, HandlesInterned, LivePointer, DecrefOK
    <3> QED BY <3>1, <3>2, <3>3, <3>4, <3>5
  <2>3. CASE pc' = [pc EXCEPT ![t] = "intern"] /\ gil = t /\ frame[t].ptr # nullptr /\ UNCHANGED frame
    <3>1. TypeOK'
      BY <1>5, <2>3 DEF HandleMalloc, TypeOK, LivePointer, FramesOK, FrameOK, HoldOK, Holds
    <3>2. FramesOK'
      <4>1. ASSUME NEW u \in Threads, u # t PROVE FrameOK(u)'
        BY <1>5, <2>3, <4>1 DEF HandleMalloc, TypeOK, FramesOK, FrameOK
      <4>2. FrameOK(t)'
        BY <1>5, <2>3 DEF HandleMalloc, TypeOK, Frame, FramesOK, FrameOK
      <4> QED BY <4>1, <4>2 DEF FramesOK
    <3>3. HoldOK'
      BY <1>5, <2>3 DEF HandleMalloc, TypeOK, FramesOK, FrameOK, NoCall, HoldOK, Holds, DecrefOK
    <3>4. DomainOK' /\ DecrefOK' /\ LockDiscipline' /\ ResetOK'
      BY <1>5, <2>3 DEF HandleMalloc, TypeOK, FramesOK, FrameOK, NoCall, DomainOK, DecrefOK, LockDiscipline, ResetOK
    <3>5. HandlesInterned'
      BY <1>5, <2>3 DEF HandleMalloc, TypeOK, FramesOK, FrameOK, NoCall, LockDiscipline, ResetOK, HandlesInterned, LivePointer, DecrefOK
    <3> QED BY <3>1, <3>2, <3>3, <3>4, <3>5
  <2>4. \/ Return(t)
        \/ /\ frame[t].ptr # nullptr /\ UNCHANGED frame
           /\ \/ pc' = [pc EXCEPT ![t] = "ensure_gil"]
              \/ pc' = [pc EXCEPT ![t] = "intern"] /\ gil = t
    BY <1>5 DEF HandleMalloc, DomainOK, FramesOK, FrameOK
  <2> QED BY <2>1, <2>2, <2>3, <2>4
<1>6. ASSUME NEW t \in Threads, Intern(t) PROVE Inv'
  <2>1. TypeOK'
    <3>1. \A h \in TraceHandle : [frame[t] EXCEPT !.trace_handle = h] \in Frame
      BY DEF TypeOK, Frame
    <3>2. frame' \in [Threads -> Frame] /\ traces_' \subseteq Traces
      BY <1>6, <3>1 DEF Intern, TypeOK, TraceHandle
    <3> QED BY <1>6, <3>2 DEF Intern, TypeOK
  <2>2. FramesOK'
    BY <1>6 DEF Intern, TypeOK, FramesOK, FrameOK, NoCall, DecrefOK, LockDiscipline
  <2>3. HoldOK'
    BY <1>6 DEF Intern, TypeOK, FramesOK, FrameOK, NoCall, HoldOK, Holds, DecrefOK
  <2>4. DomainOK' /\ DecrefOK' /\ LockDiscipline' /\ ResetOK'
    BY <1>6 DEF Intern, TypeOK, FramesOK, FrameOK, NoCall, DomainOK, DecrefOK, LockDiscipline, ResetOK
  <2>5. HandlesInterned'
    BY <1>6 DEF Intern, TypeOK, FramesOK, FrameOK, NoCall, LockDiscipline, ResetOK, HandlesInterned, LivePointer, DecrefOK
  <2> QED BY <2>1, <2>2, <2>3, <2>4, <2>5
<1>7. ASSUME NEW t \in Threads, Insert(t) PROVE Inv'
  <2>a. frame[t].ptr \in Ptrs /\ heap[frame[t].ptr] \in Block
    BY <1>7 DEF Insert, TypeOK, FramesOK, FrameOK, HoldOK, Holds
  <2>b. [heap[frame[t].ptr] EXCEPT !.recorded = TRUE] \in Block \ {NoBlock}
    BY <2>a, BlockMarked
  <2>1. TypeOK'
    BY <1>7, <2>a, <2>b DEF Insert, TypeOK, LivePointer, Frame
  <2>2. FramesOK'
    BY <1>7, <2>a, <2>b DEF Insert, TypeOK, FramesOK, FrameOK, NoCall, DecrefOK, LockDiscipline
  <2>3. HoldOK'
    BY <1>7, <2>a, <2>b DEF Insert, TypeOK, FramesOK, FrameOK, NoCall, HoldOK, Holds, DecrefOK
  <2>4. DomainOK' /\ DecrefOK' /\ LockDiscipline' /\ ResetOK'
    BY <1>7, <2>a, <2>b DEF Insert, TypeOK, FramesOK, FrameOK, NoCall, DomainOK, DecrefOK, LockDiscipline, ResetOK
  <2>5. HandlesInterned'
    BY <1>7, <2>a, <2>b DEF Insert, TypeOK, FramesOK, FrameOK, NoCall, LockDiscipline, ResetOK, HandlesInterned, LivePointer, DecrefOK
  <2> QED BY <2>1, <2>2, <2>3, <2>4, <2>5
<1>8. ASSUME NEW t \in Threads, AddTotal(t) PROVE Inv'
  <2>a. total_mem_traced_' \in Int /\ peak_mem_traced_' \in Int
    BY <1>8 DEF AddTotal, TypeOK, Frame, size_t
  <2>1. CASE Return(t)
    <3>1. TypeOK'
      BY <1>8, <2>1, <2>a, FrameForms DEF AddTotal, TypeOK
    <3>2. FramesOK'
      BY <1>8, <2>1 DEF AddTotal, TypeOK, FramesOK, FrameOK, NoCall, DecrefOK, LockDiscipline
    <3>3. HoldOK'
      BY <1>8, <2>1 DEF AddTotal, TypeOK, FramesOK, FrameOK, NoCall, HoldOK, Holds, DecrefOK
    <3>4. DomainOK' /\ DecrefOK' /\ LockDiscipline' /\ ResetOK'
      BY <1>8, <2>1 DEF AddTotal, TypeOK, FramesOK, FrameOK, NoCall, DomainOK, DecrefOK, LockDiscipline, ResetOK
    <3>5. HandlesInterned'
      BY <1>8, <2>1 DEF AddTotal, TypeOK, FramesOK, FrameOK, NoCall, LockDiscipline, ResetOK, HandlesInterned, LivePointer, DecrefOK
    <3> QED BY <3>1, <3>2, <3>3, <3>4, <3>5
  <2>2. CASE pc' = [pc EXCEPT ![t] = "release_gil"] /\ UNCHANGED frame
    <3>1. TypeOK'
      BY <1>8, <2>2, <2>a DEF AddTotal, TypeOK
    <3>2. FramesOK'
      BY <1>8, <2>2 DEF AddTotal, TypeOK, FramesOK, FrameOK, NoCall, DecrefOK, LockDiscipline
    <3>3. HoldOK'
      BY <1>8, <2>2 DEF AddTotal, TypeOK, FramesOK, FrameOK, NoCall, HoldOK, Holds, DecrefOK
    <3>4. DomainOK' /\ DecrefOK' /\ LockDiscipline' /\ ResetOK'
      BY <1>8, <2>2 DEF AddTotal, TypeOK, FramesOK, FrameOK, NoCall, DomainOK, DecrefOK, LockDiscipline, ResetOK
    <3>5. HandlesInterned'
      BY <1>8, <2>2 DEF AddTotal, TypeOK, FramesOK, FrameOK, NoCall, LockDiscipline, ResetOK, HandlesInterned, LivePointer, DecrefOK
    <3> QED BY <3>1, <3>2, <3>3, <3>4, <3>5
  <2> QED BY <1>8, <2>1, <2>2 DEF AddTotal
<1>9. ASSUME NEW t \in Threads, ReleaseGILState(t) PROVE Inv'
  <2>1. TypeOK'
    BY <1>9, FrameForms DEF ReleaseGILState, TypeOK
  <2>2. FramesOK'
    BY <1>9 DEF ReleaseGILState, TypeOK, FramesOK, FrameOK, NoCall, DecrefOK, LockDiscipline
  <2>3. HoldOK'
    BY <1>9 DEF ReleaseGILState, TypeOK, FramesOK, FrameOK, NoCall, HoldOK, Holds, DecrefOK
  <2>4. DomainOK' /\ DecrefOK' /\ LockDiscipline' /\ ResetOK'
    BY <1>9 DEF ReleaseGILState, TypeOK, FramesOK, FrameOK, NoCall, DomainOK, DecrefOK, LockDiscipline, ResetOK
  <2>5. HandlesInterned'
    BY <1>9 DEF ReleaseGILState, TypeOK, FramesOK, FrameOK, NoCall, LockDiscipline, ResetOK, HandlesInterned, LivePointer, DecrefOK
  <2> QED BY <2>1, <2>2, <2>3, <2>4, <2>5
<1>10. ASSUME NEW t \in Threads, FindAndRemove(t) PROVE Inv'
  <2>a. /\ frame[t].old \in Ptrs /\ frame[t].op \in {"free", "realloc"}
        /\ mu_ = t
    BY <1>10 DEF FindAndRemove, TypeOK, FramesOK, FrameOK, DecrefOK, LockDiscipline
  <2>b. /\ gil' = gil /\ traces_' = traces_ /\ counters' = counters
        /\ live_set_' = [live_set_ EXCEPT ![frame[t].old] = NoEntry]
        /\ \/ /\ frame' = [frame EXCEPT ![t].removed = live_set_[frame[t].old].size]
              /\ live_set_[frame[t].old] # NoEntry
              /\ mu_' = mu_ /\ pc' = [pc EXCEPT ![t] = "sub_total"]
           \/ /\ frame' = frame /\ mu_' = NoThread
              /\ pc' = [pc EXCEPT ![t] = AfterFree(t)]
    BY <1>10 DEF FindAndRemove
  <2>c. AfterFree(t) = IF frame[t].op = "realloc" THEN "handle_malloc" ELSE "base_free"
    BY DEF AfterFree
  <2>d. /\ heap' \in [Ptrs -> Block \cup {NoBlock}]
        /\ \A p \in Ptrs : heap'[p] = NoBlock <=> heap[p] = NoBlock
    <3>1. CASE frame[t].op = "realloc"
      BY <1>10, <3>1 DEF FindAndRemove, TypeOK
    <3>2. CASE frame[t].op # "realloc"
      <4>1. heap[frame[t].old] \in Block
        BY <2>a, <3>2 DEF TypeOK, HoldOK, Holds
      <4>2. [heap[frame[t].old] EXCEPT !.recorded = FALSE] \in Block \ {NoBlock}
        BY <4>1, BlockMarked
      <4> QED BY <1>10, <2>a, <3>2, <4>1, <4>2 DEF FindAndRemove, TypeOK
    <3> QED BY <3>1, <3>2
  <2>e. /\ frame' \in [Threads -> Frame]
        /\ \A u \in Threads :
             /\ frame'[u].op = frame[u].op /\ frame'[u].old = frame[u].old
             /\ frame'[u].ptr = frame[u].ptr
             /\ frame'[u].trace_handle = frame[u].trace_handle
             /\ u # t => frame'[u] = frame[u]
    <3>1. CASE frame' = frame
      BY <3>1 DEF TypeOK
    <3>2. ASSUME frame' # frame PROVE live_set_[frame[t].old].size \in size_t
      BY <2>a, <2>b, <3>2 DEF TypeOK, LivePointer
    <3>3. CASE frame' # frame
      BY <2>b, <3>2, <3>3 DEF TypeOK, Frame
    <3> QED BY <3>1, <3>3
  <2>1. TypeOK'
    <3>1. AfterFree(t) \in Labels
      BY <2>c
    <3> QED BY <2>a, <2>b, <2>d, <2>e, <3>1 DEF TypeOK
  <2>2. FramesOK'
    BY <1>10, <2>a, <2>b, <2>c, <2>e DEF FindAndRemove, TypeOK, FramesOK, FrameOK, LockDiscipline
  <2>3. HoldOK'
    BY <2>a, <2>d, <2>e DEF TypeOK, HoldOK, Holds
  <2>4. DomainOK' /\ DecrefOK' /\ LockDiscipline' /\ ResetOK'
    BY <1>10, <2>a, <2>b, <2>c, <2>e DEF FindAndRemove, TypeOK, DomainOK, DecrefOK, LockDiscipline, ResetOK
  <2>5. HandlesInterned'
    BY <1>10, <2>a, <2>b, <2>c, <2>e DEF FindAndRemove, TypeOK, HandlesInterned
  <2> QED BY <2>1, <2>2, <2>3, <2>4, <2>5
<1>11. ASSUME NEW t \in Threads, SubTotal(t) PROVE Inv'
  <2>1. TypeOK'
    BY <1>11 DEF SubTotal, AfterFree, TypeOK, Frame, size_t
  <2>2. FramesOK'
    <3>1. /\ UNCHANGED frame /\ pc[t] = "sub_total" /\ pc'[t] = AfterFree(t)
          /\ \A u \in Threads \ {t} : pc'[u] = pc[u]
      BY <1>11 DEF SubTotal, TypeOK
    <3>2. frame[t].op \in {"free", "realloc"} /\ frame[t].old \in Ptrs
      BY <3>1 DEF FramesOK, FrameOK, DecrefOK
    <3>3. FrameOK(t)'
      BY <3>1, <3>2 DEF FramesOK, FrameOK, AfterFree
    <3> QED BY <3>1, <3>3, LabelMoves
  <2>3. HoldOK'
    BY <1>11 DEF SubTotal, AfterFree, TypeOK, FramesOK, FrameOK, NoCall, HoldOK, Holds, DecrefOK
  <2>4. DomainOK' /\ DecrefOK' /\ LockDiscipline' /\ ResetOK'
    BY <1>11 DEF SubTotal, AfterFree, TypeOK, FramesOK, FrameOK, NoCall, DomainOK, DecrefOK, LockDiscipline, ResetOK
  <2>5. HandlesInterned'
    BY <1>11 DEF SubTotal, AfterFree, TypeOK, FramesOK, FrameOK, NoCall, LockDiscipline, ResetOK, HandlesInterned, LivePointer, DecrefOK
  <2> QED BY <2>1, <2>2, <2>3, <2>4, <2>5
<1>12. ASSUME NEW t \in Threads, BaseFree(t) PROVE Inv'
  <2>1. TypeOK'
    BY <1>12, FrameForms DEF BaseFree, TypeOK, FramesOK, FrameOK
  <2>2. FramesOK'
    BY <1>12 DEF BaseFree, TypeOK, FramesOK, FrameOK, NoCall, DecrefOK, LockDiscipline
  <2>3. HoldOK'
    BY <1>12 DEF BaseFree, TypeOK, FramesOK, FrameOK, NoCall, HoldOK, Holds, DecrefOK
  <2>4. DomainOK' /\ DecrefOK' /\ LockDiscipline' /\ ResetOK'
    BY <1>12 DEF BaseFree, TypeOK, FramesOK, FrameOK, NoCall, DomainOK, DecrefOK, LockDiscipline, ResetOK
  <2>5. HandlesInterned'
    BY <1>12 DEF BaseFree, TypeOK, FramesOK, FrameOK, NoCall, LockDiscipline, ResetOK, HandlesInterned, LivePointer, DecrefOK
  <2> QED BY <2>1, <2>2, <2>3, <2>4, <2>5
<1>13. ASSUME NEW t \in Threads, Reset(t) PROVE Inv'
  <2>a. /\ heap' \in [Ptrs -> Block \cup {NoBlock}]
        /\ \A p \in Ptrs : heap'[p] = NoBlock <=> heap[p] = NoBlock
    BY <1>13, BlockMarked DEF Reset, TypeOK
  <2>1. TypeOK'
    BY <1>13, <2>a DEF Reset, TypeOK, LivePointer, FramesOK, FrameOK, HoldOK, Holds
  <2>2. FramesOK'
    <3>1. /\ UNCHANGED frame /\ pc[t] = "reset" /\ pc'[t] = "reset_traces"
          /\ \A u \in Threads \ {t} : pc'[u] = pc[u]
      BY <1>13 DEF Reset, TypeOK
    <3>2. FrameOK(t)'
      BY <3>1 DEF FramesOK, FrameOK
    <3> QED BY <3>1, <3>2, LabelMoves
  <2>3. HoldOK'
    BY <1>13, <2>a DEF Reset, TypeOK, FramesOK, FrameOK, NoCall, HoldOK, Holds, DecrefOK
  <2>4. DomainOK' /\ DecrefOK' /\ LockDiscipline' /\ ResetOK'
    BY <1>13, <2>a DEF Reset, TypeOK, FramesOK, FrameOK, NoCall, DomainOK, DecrefOK, LockDiscipline, ResetOK
  <2>5. HandlesInterned'
    BY <1>13, <2>a DEF Reset, TypeOK, FramesOK, FrameOK, NoCall, LockDiscipline, ResetOK, HandlesInterned, LivePointer, DecrefOK
  <2> QED BY <2>1, <2>2, <2>3, <2>4, <2>5
<1>14. ASSUME NEW t \in Threads, ResetTraces(t) PROVE Inv'
  <2>1. TypeOK'
    BY <1>14, FrameForms DEF ResetTraces, TypeOK
  <2>2. FramesOK'
    BY <1>14 DEF ResetTraces, TypeOK, FramesOK, FrameOK, NoCall, DecrefOK, LockDiscipline
  <2>3. HoldOK'
    BY <1>14 DEF ResetTraces, TypeOK, FramesOK, FrameOK, NoCall, HoldOK, Holds, DecrefOK
  <2>4. DomainOK' /\ DecrefOK' /\ LockDiscipline' /\ ResetOK'
    BY <1>14 DEF ResetTraces, TypeOK, FramesOK, FrameOK, NoCall, DomainOK, DecrefOK, LockDiscipline, ResetOK
  <2>5. HandlesInterned'
    BY <1>14 DEF ResetTraces, TypeOK, FramesOK, FrameOK, NoCall, LockDiscipline, ResetOK, HandlesInterned, LivePointer, DecrefOK
  <2> QED BY <2>1, <2>2, <2>3, <2>4, <2>5
<1>15. ASSUME NEW t \in Threads, NEW p \in Ptrs, DecrefLastString(t, p) PROVE Inv'
  <2>1. TypeOK'
    BY <1>15, FrameOps DEF DecrefLastString, TypeOK
  <2>2. FramesOK'
    BY <1>15 DEF DecrefLastString, Ops, Owned, size_t, TypeOK, FramesOK, FrameOK, NoCall, DecrefOK, LockDiscipline
  <2>3. HoldOK'
    BY <1>15 DEF DecrefLastString, Ops, Owned, size_t, TypeOK, FramesOK, FrameOK, NoCall, HoldOK, Holds, DecrefOK
  <2>4. DomainOK' /\ DecrefOK' /\ LockDiscipline' /\ ResetOK'
    BY <1>15 DEF DecrefLastString, Ops, Owned, size_t, TypeOK, FramesOK, FrameOK, NoCall, DomainOK, DecrefOK, LockDiscipline, ResetOK
  <2>5. HandlesInterned'
    BY <1>15 DEF DecrefLastString, Ops, Owned, size_t, TypeOK, FramesOK, FrameOK, NoCall, LockDiscipline, ResetOK, HandlesInterned, LivePointer, DecrefOK
  <2> QED BY <2>1, <2>2, <2>3, <2>4, <2>5
<1>16. ASSUME NEW t \in Threads, NEW op \in {"malloc", "realloc"}, NEW p \in FreePtrs \cup {nullptr},
             NEW s \in size_t, NEW raw \in BOOLEAN,
             MayCall(t, raw), BaseAlloc(t, op, p, s, raw)
      PROVE  Inv'
  <2>a. [NoCall EXCEPT !.op = op, !.ptr = p, !.size = s, !.is_raw = raw] \in Frame
    BY Defaults DEF NoCall, Frame, Ops, FreePtrs
  <2>1. TypeOK'
    BY <1>16, <2>a, NewBlockType DEF BaseAlloc, MayCall, FreePtrs, TypeOK
  <2>2. FramesOK'
    <3>1. ASSUME NEW u \in Threads, u # t PROVE FrameOK(u)'
      BY <1>16, <3>1 DEF BaseAlloc, MayCall, TypeOK, FramesOK, FrameOK
    <3>2. FrameOK(t)'
      BY <1>16 DEF BaseAlloc, MayCall, TypeOK, FramesOK, FrameOK, NoCall
    <3> QED BY <3>1, <3>2 DEF FramesOK
  <2>3. HoldOK'
    BY <1>16, NewBlockType DEF BaseAlloc, MayCall, Ops, FreePtrs, size_t, TypeOK, FramesOK, FrameOK, NoCall, HoldOK, Holds, DecrefOK
  <2>4. DomainOK' /\ DecrefOK' /\ LockDiscipline' /\ ResetOK'
    BY <1>16 DEF BaseAlloc, MayCall, Ops, FreePtrs, size_t, TypeOK, FramesOK, FrameOK, NoCall, DomainOK, DecrefOK, LockDiscipline, ResetOK
  <2>5. HandlesInterned'
    BY <1>16 DEF BaseAlloc, MayCall, Ops, FreePtrs, size_t, TypeOK, FramesOK, FrameOK, NoCall, LockDiscipline, ResetOK, HandlesInterned, LivePointer, DecrefOK
  <2> QED BY <2>1, <2>2, <2>3, <2>4, <2>5
<1>17. ASSUME NEW t \in Threads, NEW p \in Ptrs, NEW s \in size_t,
             WrappedRealloc(t, p, s)
      PROVE  Inv'
  <2>a. pc[t] = "idle" /\ Owned(p) /\ heap[p].is_raw \in BOOLEAN /\ heap[p] # NoBlock
        /\ (heap[p].is_raw \/ gil = t)
    BY <1>17 DEF WrappedRealloc, MayCall, Owned, TypeOK, Block
  <2>b. PICK q \in FreePtrs \cup {p, nullptr} :
          /\ q # nullptr =>
               heap' = [heap EXCEPT ![p] = NoBlock, ![q] = NewBlock(s, heap[p].is_raw)]
          /\ q = nullptr => heap' = heap
          /\ frame' = [frame EXCEPT ![t] =
               [NoCall EXCEPT !.op = "realloc", !.old = p, !.ptr = q,
                              !.size = s, !.is_raw = heap[p].is_raw]]
    BY <1>17 DEF WrappedRealloc, FreePtrs
  <2>c. /\ pc' = [pc EXCEPT ![t] = "lock_remove"]
        /\ UNCHANGED <<gil, mu_, live_set_, total_mem_traced_, peak_mem_traced_, traces_>>
    BY <1>17 DEF WrappedRealloc
  <2>d. NewBlock(s, heap[p].is_raw) \in Block
    BY <2>a, NewBlockType
  <2>1. TypeOK'
    <3>1. [NoCall EXCEPT !.op = "realloc", !.old = p, !.ptr = q, !.size = s,
                         !.is_raw = heap[p].is_raw] \in Frame
      BY <2>a, Defaults DEF NoCall, Frame, Ops, FreePtrs
    <3>2. heap' \in [Ptrs -> Block \cup {NoBlock}]
      BY <2>b, <2>d DEF TypeOK, FreePtrs
    <3>3. /\ frame' \in [Threads -> Frame]
          /\ pc' \in [Threads -> Labels]
      BY <2>b, <2>c, <3>1 DEF TypeOK
    <3> QED BY <2>c, <3>2, <3>3 DEF TypeOK
  <2>2. FramesOK'
    <3>1. ASSUME NEW u \in Threads, u # t PROVE FrameOK(u)'
      BY <2>b, <2>c, <3>1 DEF FreePtrs, TypeOK, FramesOK, FrameOK
    <3>2. FrameOK(t)'
      BY <2>b, <2>c DEF FreePtrs, TypeOK, FramesOK, FrameOK, NoCall
    <3> QED BY <3>1, <3>2 DEF FramesOK
  <2>3. HoldOK'
    BY <2>a, <2>b, <2>c, <2>d DEF Owned, FreePtrs, Ops, TypeOK, FramesOK, FrameOK, NoCall, HoldOK, Holds, DecrefOK
  <2>4. DomainOK' /\ DecrefOK' /\ LockDiscipline' /\ ResetOK'
    BY <2>a, <2>b, <2>c, <2>d DEF Owned, FreePtrs, Ops, TypeOK, FramesOK, FrameOK, NoCall, DomainOK, DecrefOK, LockDiscipline, ResetOK
  <2>5. HandlesInterned'
    BY <2>a, <2>b, <2>c, <2>d DEF Owned, FreePtrs, Ops, TypeOK, FramesOK, FrameOK, NoCall, LockDiscipline, ResetOK, HandlesInterned, LivePointer, DecrefOK
  <2> QED BY <2>1, <2>2, <2>3, <2>4, <2>5
<1>18. ASSUME NEW t \in Threads, NEW p \in Ptrs, WrappedFree(t, p) PROVE Inv'
  <2>1. TypeOK'
    BY <1>18, FrameOps DEF WrappedFree, TypeOK
  <2>2. FramesOK'
    <3>1. ASSUME NEW u \in Threads, u # t PROVE FrameOK(u)'
      BY <1>18, <3>1 DEF WrappedFree, TypeOK, FramesOK, FrameOK
    <3>2. FrameOK(t)'
      BY <1>18 DEF WrappedFree, TypeOK, FramesOK, FrameOK, NoCall
    <3> QED BY <3>1, <3>2 DEF FramesOK
  <2>3. HoldOK'
    BY <1>18 DEF WrappedFree, MayCall, Owned, Ops, size_t, TypeOK, FramesOK, FrameOK, NoCall, HoldOK, Holds, DecrefOK
  <2>4. DomainOK' /\ DecrefOK' /\ LockDiscipline' /\ ResetOK'
    BY <1>18 DEF WrappedFree, MayCall, Owned, Ops, size_t, TypeOK, FramesOK, FrameOK, NoCall, DomainOK, DecrefOK, LockDiscipline, ResetOK
  <2>5. HandlesInterned'
    BY <1>18 DEF WrappedFree, MayCall, Owned, Ops, size_t, TypeOK, FramesOK, FrameOK, NoCall, LockDiscipline, ResetOK, HandlesInterned, LivePointer, DecrefOK
  <2> QED BY <2>1, <2>2, <2>3, <2>4, <2>5
<1>19. ASSUME NEW t \in Threads, ClearTraces(t) PROVE Inv'
  <2>1. TypeOK'
    BY <1>19, FrameForms DEF ClearTraces, TypeOK
  <2>2. FramesOK'
    BY <1>19 DEF ClearTraces, Ops, size_t, TypeOK, FramesOK, FrameOK, NoCall, DecrefOK, LockDiscipline
  <2>3. HoldOK'
    BY <1>19 DEF ClearTraces, Ops, size_t, TypeOK, FramesOK, FrameOK, NoCall, HoldOK, Holds, DecrefOK
  <2>4. DomainOK' /\ DecrefOK' /\ LockDiscipline' /\ ResetOK'
    BY <1>19 DEF ClearTraces, Ops, size_t, TypeOK, FramesOK, FrameOK, NoCall, DomainOK, DecrefOK, LockDiscipline, ResetOK
  <2>5. HandlesInterned'
    BY <1>19 DEF ClearTraces, Ops, size_t, TypeOK, FramesOK, FrameOK, NoCall, LockDiscipline, ResetOK, HandlesInterned, LivePointer, DecrefOK
  <2> QED BY <2>1, <2>2, <2>3, <2>4, <2>5
<1>20. CASE UNCHANGED vars
  BY <1>20 DEF vars, TypeOK, FramesOK, FrameOK, HoldOK, Holds, DomainOK, DecrefOK,
     LockDiscipline, ResetOK, HandlesInterned
<1>21. ASSUME NEW t \in Threads, Call(t) PROVE Inv'
  BY <1>16, <1>17, <1>18, <1>19, <1>21, CallForms
<1>22. ASSUME NEW t \in Threads, Step(t) PROVE Inv'
  BY <1>5, <1>6, <1>7, <1>8, <1>9, <1>10, <1>11, <1>12, <1>13, <1>14, <1>15, <1>22
     DEF Step
<1> QED
  BY <1>1, <1>2, <1>3, <1>4, <1>20, <1>21, <1>22 DEF Next
-----------------------------------------------------------------------------
\* Inv is an invariant, so what it says holds in every reachable state.
LEMMA InvHolds == Spec => []Inv
<1>1. Init => Inv
  BY InitInv
<1>2. Inv /\ [Next]_vars => Inv'
  BY NextInv
<1> QED BY <1>1, <1>2, PTL DEF Spec

\* The variables keep their types, in particular every frame, entry and size.
THEOREM HeapProfilerTypeCorrect == Spec => []TypeOK
<1>1. Inv => TypeOK
  BY DEF Inv
<1> QED BY InvHolds, <1>1, PTL

\* live_set_ and the counters are touched with mu_ held and traces_ with the
\* GIL, whatever the callers of the raw allocator hold.
THEOREM LocksProtectTables == Spec => []LockDiscipline
<1>1. Inv => LockDiscipline
  BY DEF Inv
<1> QED BY InvHolds, <1>1, PTL

\* No handle outlives the call stacks that clear_traces() frees.
THEOREM NoDanglingHandles == Spec => []HandlesInterned
<1>1. Inv => HandlesInterned
  BY DEF Inv
<1> QED BY InvHolds, <1>1, PTL

-----------------------------------------------------------------------------
LEMMA InitBenign == Init => BenignInv
<1> SUFFICES ASSUME Init PROVE BenignInv
  OBVIOUS
<1>1. Inv
  BY InitInv
<1>2. \A p \in Ptrs : heap[p] # NoBlock => ~heap[p].recorded
  BY DEF Init, NewBlock
<1> QED
  BY <1>1, <1>2 DEF Init, BenignInv, ReallocOK, FreshOK, WindowOK, Window, NoCall,
     RecordedBlockHasEntry, EntryHasRecordedBlock, FreeLabels, MallocLabels,
     RecordLabels

LEMMA NextBenign == Benign /\ BenignInv /\ [Next]_vars => BenignInv'
<1> SUFFICES ASSUME Benign, BenignInv, [Next]_vars PROVE BenignInv'
  OBVIOUS
<1> USE HeapAssumption DEF Goto, Return, tables, counters, Labels, RecordLabels,
        ResetLabels, LockLabels, LockedLabels, MallocLabels, FreeLabels
<1>i. Inv /\ Inv'
  BY NextInv DEF BenignInv
<1> DEFINE
  Owns == ReallocOK' /\ WindowOK'
  Entries == RecordedBlockHasEntry' /\ EntryHasRecordedBlock'
  Peak == total_mem_traced_' <= peak_mem_traced_'
<1>1. ASSUME NEW t \in Threads, AcquireGIL(t) PROVE BenignInv'
  <2>1. Owns
    BY <1>1 DEF AcquireGIL, BenignInv, Inv, TypeOK, FramesOK, FrameOK, NoCall, ReallocOK, WindowOK, Window, Unrecorded, LockDiscipline, HoldOK, Holds
  <2>2. FreshOK'
    BY <1>1 DEF AcquireGIL, BenignInv, Inv, TypeOK, FramesOK, FrameOK, NoCall, FreshOK, Unrecorded, HoldOK, Holds
  <2>3. Entries
    BY <1>1 DEF AcquireGIL, BenignInv, Inv, TypeOK, FramesOK, FrameOK, NoCall, RecordedBlockHasEntry, EntryHasRecordedBlock, EntryOf, Window
  <2>4. Peak
    BY <1>1 DEF AcquireGIL, BenignInv, Inv, TypeOK, Frame, LivePointer, size_t
  <2> QED BY <1>i, <2>1, <2>2, <2>3, <2>4 DEF BenignInv
<1>2. ASSUME NEW t \in Threads, ReleaseGIL(t) PROVE BenignInv'
  <2>1. Owns
    BY <1>2 DEF ReleaseGIL, BenignInv, Inv, TypeOK, FramesOK, FrameOK, NoCall, ReallocOK, WindowOK, Window, Unrecorded, LockDiscipline, HoldOK, Holds
  <2>2. FreshOK'
    BY <1>2 DEF ReleaseGIL, BenignInv, Inv, TypeOK, FramesOK, FrameOK, NoCall, FreshOK, Unrecorded, HoldOK, Holds
  <2>3. Entries
    BY <1>2 DEF ReleaseGIL, BenignInv, Inv, TypeOK, FramesOK, FrameOK, NoCall, RecordedBlockHasEntry, EntryHasRecordedBlock, EntryOf, Window
  <2>4. Peak
    BY <1>2 DEF ReleaseGIL, BenignInv, Inv, TypeOK, Frame, LivePointer, size_t
  <2> QED BY <1>i, <2>1, <2>2, <2>3, <2>4 DEF BenignInv
<1>3. ASSUME NEW t \in Threads, EnsureGIL(t) PROVE BenignInv'
  <2>1. Owns
    BY <1>3 DEF EnsureGIL, BenignInv, Inv, TypeOK, FramesOK, FrameOK, NoCall, ReallocOK, WindowOK, Window, Unrecorded, LockDiscipline, HoldOK, Holds
  <2>2. FreshOK'
    BY <1>3 DEF EnsureGIL, BenignInv, Inv, TypeOK, FramesOK, FrameOK, NoCall, FreshOK, Unrecorded, HoldOK, Holds
  <2>3. Entries
    BY <1>3 DEF EnsureGIL, BenignInv, Inv, TypeOK, FramesOK, FrameOK, NoCall, RecordedBlockHasEntry, EntryHasRecordedBlock, EntryOf, Window
  <2>4. Peak
    BY <1>3 DEF EnsureGIL, BenignInv, Inv, TypeOK, Frame, LivePointer, size_t
  <2> QED BY <1>i, <2>1, <2>2, <2>3, <2>4 DEF BenignInv
<1>4. ASSUME NEW t \in Threads, LockMu(t) PROVE BenignInv'
  <2>1. Owns
    BY <1>4 DEF LockMu, BenignInv, Inv, TypeOK, FramesOK, FrameOK, NoCall, ReallocOK, WindowOK, Window, Unrecorded, LockDiscipline, HoldOK, Holds
  <2>2. FreshOK'
    BY <1>4 DEF LockMu, BenignInv, Inv, TypeOK, FramesOK, FrameOK, NoCall, FreshOK, Unrecorded, HoldOK, Holds
  <2>3. Entries
    BY <1>4 DEF LockMu, BenignInv, Inv, TypeOK, FramesOK, FrameOK, NoCall, RecordedBlockHasEntry, EntryHasRecordedBlock, EntryOf, Window
  <2>4. Peak
    BY <1>4 DEF LockMu, BenignInv, Inv, TypeOK, Frame, LivePointer, size_t
  <2> QED BY <1>i, <2>1, <2>2, <2>3, <2>4 DEF BenignInv
<1>5. ASSUME NEW t \in Threads, HandleMalloc(t) PROVE BenignInv'
  <2>1. Owns
    BY <1>5 DEF HandleMalloc, BenignInv, Inv, TypeOK, FramesOK, FrameOK, NoCall, ReallocOK, WindowOK, Window, Unrecorded, LockDiscipline, HoldOK, Holds
  <2>2. FreshOK'
    BY <1>5 DEF HandleMalloc, BenignInv, Inv, TypeOK, FramesOK, FrameOK, NoCall, FreshOK, Unrecorded, HoldOK, Holds
  <2>3. Entries
    BY <1>5 DEF HandleMalloc, BenignInv, Inv, TypeOK, FramesOK, FrameOK, NoCall, RecordedBlockHasEntry, EntryHasRecordedBlock, EntryOf, Window
  <2>4. Peak
    BY <1>5 DEF HandleMalloc, BenignInv, Inv, TypeOK, Frame, LivePointer, size_t
  <2> QED BY <1>i, <2>1, <2>2, <2>3, <2>4 DEF BenignInv
<1>6. ASSUME NEW t \in Threads, Intern(t) PROVE BenignInv'
  <2>1. Owns
    BY <1>6 DEF Intern, BenignInv, Inv, TypeOK, FramesOK, FrameOK, NoCall, ReallocOK, WindowOK, Window, Unrecorded, LockDiscipline, HoldOK, Holds
  <2>2. FreshOK'
    BY <1>6 DEF Intern, BenignInv, Inv, TypeOK, FramesOK, FrameOK, NoCall, FreshOK, Unrecorded, HoldOK, Holds
  <2>3. Entries
    BY <1>6 DEF Intern, BenignInv, Inv, TypeOK, FramesOK, FrameOK, NoCall, RecordedBlockHasEntry, EntryHasRecordedBlock, EntryOf, Window
  <2>4. Peak
    BY <1>6 DEF Intern, BenignInv, Inv, TypeOK, Frame, LivePointer, size_t
  <2> QED BY <1>i, <2>1, <2>2, <2>3, <2>4 DEF BenignInv
<1>7. ASSUME NEW t \in Threads, Insert(t) PROVE BenignInv'
  <2>1. Owns
    BY <1>7 DEF Insert, BenignInv, Inv, TypeOK, FramesOK, FrameOK, NoCall, ReallocOK, WindowOK, Window, Unrecorded, LockDiscipline, HoldOK, Holds
  <2>2. FreshOK'
    BY <1>7 DEF Insert, BenignInv, Inv, TypeOK, FramesOK, FrameOK, NoCall, FreshOK, Unrecorded, HoldOK, Holds
  <2>3. Entries
    <3> DEFINE p == frame[t].ptr
    <3>1. /\ p \in Ptrs /\ heap[p] \in Block
          /\ heap[p].size = frame[t].size
      BY <1>7 DEF Insert, BenignInv, Inv, TypeOK, FramesOK, FrameOK, HoldOK, Holds, FreshOK
    <3>2. /\ live_set_'[p].size = heap[p].size /\ live_set_'[p] # NoEntry
          /\ heap'[p].size = heap[p].size /\ heap'[p].recorded /\ heap'[p] # NoBlock
      <4>1. [heap[p] EXCEPT !.recorded = TRUE] \in Block \ {NoBlock}
        BY <3>1, BlockMarked
      <4>2. [trace_handle |-> frame[t].trace_handle, size |-> frame[t].size] \in LivePointer
        BY DEF BenignInv, Inv, TypeOK, Frame, LivePointer
      <4> QED BY <1>7, <3>1, <4>1, <4>2 DEF Insert, BenignInv, Inv, TypeOK, Block
    <3>3. \A r \in Ptrs : r # p => live_set_'[r] = live_set_[r] /\ heap'[r] = heap[r]
      BY <1>7, <3>1 DEF Insert, BenignInv, Inv, TypeOK
    <3>4. \A u \in Threads, r \in Ptrs : Window(u, r) => Window(u, r)'
      BY <1>7 DEF Insert, Window, BenignInv, Inv, TypeOK
    <3> QED
      BY <3>1, <3>2, <3>3, <3>4 DEF BenignInv, RecordedBlockHasEntry, EntryHasRecordedBlock, EntryOf
  <2>4. Peak
    BY <1>7 DEF Insert, BenignInv, Inv, TypeOK, Frame, LivePointer, size_t
  <2> QED BY <1>i, <2>1, <2>2, <2>3, <2>4 DEF BenignInv
<1>8. ASSUME NEW t \in Threads, AddTotal(t) PROVE BenignInv'
  <2>1. Owns
    BY <1>8 DEF AddTotal, BenignInv, Inv, TypeOK, FramesOK, FrameOK, NoCall, ReallocOK, WindowOK, Window, Unrecorded, LockDiscipline, HoldOK, Holds
  <2>2. FreshOK'
    BY <1>8 DEF AddTotal, BenignInv, Inv, TypeOK, FramesOK, FrameOK, NoCall, FreshOK, Unrecorded, HoldOK, Holds
  <2>3. Entries
    BY <1>8 DEF AddTotal, BenignInv, Inv, TypeOK, FramesOK, FrameOK, NoCall, RecordedBlockHasEntry, EntryHasRecordedBlock, EntryOf, Window
  <2>4. Peak
    BY <1>8 DEF AddTotal, BenignInv, Inv, TypeOK, Frame, LivePointer, size_t
  <2> QED BY <1>i, <2>1, <2>2, <2>3, <2>4 DEF BenignInv
<1>9. ASSUME NEW t \in Threads, ReleaseGILState(t) PROVE BenignInv'
  <2>1. Owns
    BY <1>9 DEF ReleaseGILState, BenignInv, Inv, TypeOK, FramesOK, FrameOK, NoCall, ReallocOK, WindowOK, Window, Unrecorded, LockDiscipline, HoldOK, Holds
  <2>2. FreshOK'
    BY <1>9 DEF ReleaseGILState, BenignInv, Inv, TypeOK, FramesOK, FrameOK, NoCall, FreshOK, Unrecorded, HoldOK, Holds
  <2>3. Entries
    BY <1>9 DEF ReleaseGILState, BenignInv, Inv, TypeOK, FramesOK, FrameOK, NoCall, RecordedBlockHasEntry, EntryHasRecordedBlock, EntryOf, Window
  <2>4. Peak
    BY <1>9 DEF ReleaseGILState, BenignInv, Inv, TypeOK, Frame, LivePointer, size_t
  <2> QED BY <1>i, <2>1, <2>2, <2>3, <2>4 DEF BenignInv
<1>10. ASSUME NEW t \in Threads, FindAndRemove(t) PROVE BenignInv'
  <2>1. Owns
    BY <1>10 DEF FindAndRemove, AfterFree, BenignInv, Inv, TypeOK, FramesOK, FrameOK, NoCall, ReallocOK, WindowOK, Window, Unrecorded, LockDiscipline, HoldOK, Holds
  <2>2. FreshOK'
    BY <1>10 DEF FindAndRemove, AfterFree, BenignInv, Inv, TypeOK, FramesOK, FrameOK, NoCall, FreshOK, Unrecorded, HoldOK, Holds
  <2>3. Entries
    <3>0. PICK p \in Ptrs : p = frame[t].old
      BY <1>10 DEF FindAndRemove, BenignInv, Inv, TypeOK, FramesOK, FrameOK
    <3>1. p = frame[t].old /\ (frame[t].op = "realloc" => Unrecorded(p))
      BY <1>10, <3>0 DEF FindAndRemove, BenignInv, WindowOK, Window
    <3>2. live_set_'[p] = NoEntry /\ Unrecorded(p)'
      <4>1. CASE frame[t].op = "realloc"
        BY <1>10, <3>1, <4>1 DEF FindAndRemove, Unrecorded, BenignInv, Inv, TypeOK
      <4>2. CASE frame[t].op # "realloc"
        <5>1. heap[p] \in Block
          BY <1>10, <3>1, <4>2 DEF FindAndRemove, BenignInv, Inv, TypeOK, FramesOK,
             FrameOK, HoldOK, Holds
        <5> QED
          BY <1>10, <3>1, <4>2, <5>1 DEF FindAndRemove, Unrecorded, BenignInv, Inv,
             TypeOK, Block
      <4> QED BY <4>1, <4>2
    <3>3. \A r \in Ptrs : r # p => live_set_'[r] = live_set_[r] /\ heap'[r] = heap[r]
      BY <1>10, <3>1 DEF FindAndRemove, BenignInv, Inv, TypeOK
    <3>4. \A u \in Threads, r \in Ptrs : r # p /\ Window(u, r) => Window(u, r)'
      BY <1>10, <3>1 DEF FindAndRemove, Window, BenignInv, Inv, TypeOK
    <3> QED
      BY <3>1, <3>2, <3>3, <3>4 DEF BenignInv, RecordedBlockHasEntry,
         EntryHasRecordedBlock, EntryOf, Unrecorded
  <2>4. Peak
    BY <1>10 DEF FindAndRemove, AfterFree, BenignInv, Inv, TypeOK, Frame, LivePointer, size_t
  <2> QED BY <1>i, <2>1, <2>2, <2>3, <2>4 DEF BenignInv
<1>11. ASSUME NEW t \in Threads, SubTotal(t) PROVE BenignInv'
  <2>1. Owns
    BY <1>11 DEF SubTotal, AfterFree, BenignInv, Inv, TypeOK, FramesOK, FrameOK, NoCall, ReallocOK, WindowOK, Window, Unrecorded, LockDiscipline, HoldOK, Holds
  <2>2. FreshOK'
    BY <1>11 DEF SubTotal, AfterFree, BenignInv, Inv, TypeOK, FramesOK, FrameOK, NoCall, FreshOK, Unrecorded, HoldOK, Holds
  <2>3. Entries
    BY <1>11 DEF SubTotal, AfterFree, BenignInv, Inv, TypeOK, FramesOK, FrameOK, NoCall, RecordedBlockHasEntry, EntryHasRecordedBlock, EntryOf, Window
  <2>4. Peak
    BY <1>11 DEF SubTotal, AfterFree, BenignInv, Inv, TypeOK, Frame, LivePointer, size_t
  <2> QED BY <1>i, <2>1, <2>2, <2>3, <2>4 DEF BenignInv
<1>12. ASSUME NEW t \in Threads, BaseFree(t) PROVE BenignInv'
  <2>1. Owns
    BY <1>12 DEF BaseFree, BenignInv, Inv, TypeOK, FramesOK, FrameOK, NoCall, ReallocOK, WindowOK, Window, Unrecorded, LockDiscipline, HoldOK, Holds
  <2>2. FreshOK'
    BY <1>12 DEF BaseFree, BenignInv, Inv, TypeOK, FramesOK, FrameOK, NoCall, FreshOK, Unrecorded, HoldOK, Holds
  <2>3. Entries
    <3> DEFINE p == frame[t].old
    <3>1. p \in Ptrs /\ Unrecorded(p)
      BY <1>12 DEF BaseFree, BenignInv, Inv, TypeOK, FramesOK, FrameOK, FreshOK
    <3>2. heap'[p] = NoBlock /\ live_set_' = live_set_
      BY <1>12, <3>1 DEF BaseFree, BenignInv, Inv, TypeOK
    <3>3. \A r \in Ptrs : r # p => heap'[r] = heap[r]
      BY <1>12, <3>1 DEF BaseFree, BenignInv, Inv, TypeOK
    <3>4. \A u \in Threads, r \in Ptrs : Window(u, r) => Window(u, r)'
      BY <1>12 DEF BaseFree, Window, BenignInv, Inv, TypeOK
    <3> QED
      BY <3>1, <3>2, <3>3, <3>4 DEF BenignInv, RecordedBlockHasEntry,
         EntryHasRecordedBlock, EntryOf, Unrecorded
  <2>4. Peak
    BY <1>12 DEF BaseFree, BenignInv, Inv, TypeOK, Frame, LivePointer, size_t
  <2> QED BY <1>i, <2>1, <2>2, <2>3, <2>4 DEF BenignInv
<1>13. ASSUME NEW t \in Threads, Reset(t) PROVE BenignInv'
  <2>1. Owns
    BY <1>13 DEF Reset, BenignInv, Inv, TypeOK, FramesOK, FrameOK, NoCall, ReallocOK, WindowOK, Window, Unrecorded, LockDiscipline, HoldOK, Holds
  <2>2. FreshOK'
    BY <1>13 DEF Reset, BenignInv, Inv, TypeOK, FramesOK, FrameOK, NoCall, FreshOK, Unrecorded, HoldOK, Holds
  <2>3. Entries
    BY <1>13 DEF Reset, BenignInv, Inv, TypeOK, FramesOK, FrameOK, NoCall, RecordedBlockHasEntry, EntryHasRecordedBlock, EntryOf, Window
  <2>4. Peak
    BY <1>13 DEF Reset, BenignInv, Inv, TypeOK, Frame, LivePointer, size_t
  <2> QED BY <1>i, <2>1, <2>2, <2>3, <2>4 DEF BenignInv
<1>14. ASSUME NEW t \in Threads, ResetTraces(t) PROVE BenignInv'
  <2>1. Owns
    BY <1>14 DEF ResetTraces, BenignInv, Inv, TypeOK, FramesOK, FrameOK, NoCall, ReallocOK, WindowOK, Window, Unrecorded, LockDiscipline, HoldOK, Holds
  <2>2. FreshOK'
    BY <1>14 DEF ResetTraces, BenignInv, Inv, TypeOK, FramesOK, FrameOK, NoCall, FreshOK, Unrecorded, HoldOK, Holds
  <2>3. Entries
    BY <1>14 DEF ResetTraces, BenignInv, Inv, TypeOK, FramesOK, FrameOK, NoCall, RecordedBlockHasEntry, EntryHasRecordedBlock, EntryOf, Window
  <2>4. Peak
    BY <1>14 DEF ResetTraces, BenignInv, Inv, TypeOK, Frame, LivePointer, size_t
  <2> QED BY <1>i, <2>1, <2>2, <2>3, <2>4 DEF BenignInv
<1>15. ASSUME NEW t \in Threads, NEW p \in Ptrs, DecrefLastString(t, p) PROVE BenignInv'
  <2>1. Owns
    BY <1>15 DEF DecrefLastString, Owned, BenignInv, Inv, TypeOK, FramesOK, FrameOK, NoCall, ReallocOK, WindowOK, Window, Unrecorded, LockDiscipline, HoldOK, Holds
  <2>2. FreshOK'
    BY <1>15 DEF DecrefLastString, Owned, BenignInv, Inv, TypeOK, FramesOK, FrameOK, NoCall, FreshOK, Unrecorded, HoldOK, Holds
  <2>3. Entries
    BY <1>15 DEF DecrefLastString, BenignInv, Inv, TypeOK, FramesOK, FrameOK, NoCall, RecordedBlockHasEntry, EntryHasRecordedBlock, EntryOf, Window
  <2>4. Peak
    BY <1>15 DEF DecrefLastString, BenignInv, Inv, TypeOK, Frame, LivePointer, size_t
  <2> QED BY <1>i, <2>1, <2>2, <2>3, <2>4 DEF BenignInv
<1>16. ASSUME NEW t \in Threads, NEW op \in {"malloc", "realloc"}, NEW p \in FreePtrs \cup {nullptr},
             NEW s \in size_t, NEW raw \in BOOLEAN,
             MayCall(t, raw), BaseAlloc(t, op, p, s, raw)
      PROVE  BenignInv'
  <2>1. Owns
    BY <1>16 DEF BaseAlloc, MayCall, FreePtrs, NewBlock, BenignInv, Inv, TypeOK, FramesOK, FrameOK, NoCall, ReallocOK, WindowOK, Window, Unrecorded, LockDiscipline, HoldOK, Holds
  <2>2. FreshOK'
    BY <1>16 DEF BaseAlloc, MayCall, FreePtrs, NewBlock, BenignInv, Inv, TypeOK, FramesOK, FrameOK, NoCall, FreshOK, Unrecorded, HoldOK, Holds
  <2>3. Entries
    BY <1>16 DEF BaseAlloc, MayCall, FreePtrs, NewBlock, BenignInv, Inv, TypeOK, FramesOK, FrameOK, NoCall, RecordedBlockHasEntry, EntryHasRecordedBlock, EntryOf, Window
  <2>4. Peak
    BY <1>16 DEF BaseAlloc, MayCall, FreePtrs, NewBlock, BenignInv, Inv, TypeOK, Frame, LivePointer, size_t
  <2> QED BY <1>i, <2>1, <2>2, <2>3, <2>4 DEF BenignInv
<1>17. ASSUME NEW t \in Threads, NEW p \in Ptrs, NEW s \in size_t,
             WrappedRealloc(t, p, s)
      PROVE  BenignInv'
  <2>a. pc[t] = "idle" /\ Owned(p) /\ gil = t
    BY <1>17 DEF WrappedRealloc, MayCall, Benign
  <2>b. PICK q \in FreePtrs \cup {p} :
          /\ heap' = [heap EXCEPT ![p] = NoBlock, ![q] = NewBlock(s, heap[p].is_raw)]
          /\ frame' = [frame EXCEPT ![t] =
               [NoCall EXCEPT !.op = "realloc", !.old = p, !.ptr = q,
                              !.size = s, !.is_raw = heap[p].is_raw]]
    BY <1>17 DEF WrappedRealloc, Benign
  <2>c. /\ pc' = [pc EXCEPT ![t] = "lock_remove"]
        /\ UNCHANGED <<gil, mu_, live_set_, total_mem_traced_, peak_mem_traced_, traces_>>
    BY <1>17 DEF WrappedRealloc
  <2>d. /\ q \in Ptrs /\ (q # p => heap[q] = NoBlock) /\ (p # q => heap'[p] = NoBlock)
        /\ heap'[q].size = s /\ ~heap'[q].recorded
        /\ \A r \in Ptrs : r # p /\ r # q => heap'[r] = heap[r]
    BY <2>b DEF FreePtrs, NewBlock, BenignInv, Inv, TypeOK
  <2>e. /\ frame'[t].op = "realloc" /\ frame'[t].old = p /\ frame'[t].ptr = q
        /\ frame'[t].size = s /\ pc'[t] = "lock_remove"
        /\ \A u \in Threads : u # t => frame'[u] = frame[u] /\ pc'[u] = pc[u]
    BY <2>b, <2>c DEF NoCall, BenignInv, Inv, TypeOK
  <2>f. \A u \in Threads, r \in Ptrs : Window(u, r)' <=> Window(u, r) \/ (u = t /\ r = p)
    BY <2>a, <2>e DEF Window
  <2>1. Owns
    BY <2>a, <2>c, <2>d, <2>e, <2>f DEF BenignInv, ReallocOK, WindowOK, Unrecorded
  <2>2. FreshOK'
    BY <2>a, <2>d, <2>e DEF Owned, BenignInv, Inv, FramesOK, FrameOK, FreshOK, Unrecorded, HoldOK, Holds
  <2>3. Entries
    BY <2>c, <2>d, <2>f DEF BenignInv, RecordedBlockHasEntry, EntryHasRecordedBlock, EntryOf
  <2>4. Peak
    BY <2>c DEF BenignInv
  <2> QED BY <1>i, <2>1, <2>2, <2>3, <2>4 DEF BenignInv
<1>18. ASSUME NEW t \in Threads, NEW p \in Ptrs, WrappedFree(t, p) PROVE BenignInv'
  <2>1. Owns
    BY <1>18 DEF WrappedFree, MayCall, Owned, BenignInv, Inv, TypeOK, FramesOK, FrameOK, NoCall, ReallocOK, WindowOK, Window, Unrecorded, LockDiscipline, HoldOK, Holds
  <2>2. FreshOK'
    BY <1>18 DEF WrappedFree, MayCall, Owned, BenignInv, Inv, TypeOK, FramesOK, FrameOK, NoCall, FreshOK, Unrecorded, HoldOK, Holds
  <2>3. Entries
    BY <1>18 DEF WrappedFree, MayCall, Owned, BenignInv, Inv, TypeOK, FramesOK, FrameOK, NoCall, RecordedBlockHasEntry, EntryHasRecordedBlock, EntryOf, Window
  <2>4. Peak
    BY <1>18 DEF WrappedFree, MayCall, Owned, BenignInv, Inv, TypeOK, Frame, LivePointer, size_t
  <2> QED BY <1>i, <2>1, <2>2, <2>3, <2>4 DEF BenignInv
<1>19. ASSUME NEW t \in Threads, ClearTraces(t) PROVE BenignInv'
  <2>1. Owns
    BY <1>19 DEF ClearTraces, BenignInv, Inv, TypeOK, FramesOK, FrameOK, NoCall, ReallocOK, WindowOK, Window, Unrecorded, LockDiscipline, HoldOK, Holds
  <2>2. FreshOK'
    BY <1>19 DEF ClearTraces, BenignInv, Inv, TypeOK, FramesOK, FrameOK, NoCall, FreshOK, Unrecorded, HoldOK, Holds
  <2>3. Entries
    BY <1>19 DEF ClearTraces, BenignInv, Inv, TypeOK, FramesOK, FrameOK, NoCall, RecordedBlockHasEntry, EntryHasRecordedBlock, EntryOf, Window
  <2>4. Peak
    BY <1>19 DEF ClearTraces, BenignInv, Inv, TypeOK, Frame, LivePointer, size_t
  <2> QED BY <1>i, <2>1, <2>2, <2>3, <2>4 DEF BenignInv
<1>20. CASE UNCHANGED vars
  BY <1>i, <1>20 DEF vars, BenignInv, ReallocOK, FreshOK, WindowOK, Window, Unrecorded,
     RecordedBlockHasEntry, EntryHasRecordedBlock, EntryOf
<1>21. ASSUME NEW t \in Threads, Call(t) PROVE BenignInv'
  BY <1>16, <1>17, <1>18, <1>19, <1>21, CallForms
<1>22. ASSUME NEW t \in Threads, Step(t) PROVE BenignInv'
  BY <1>5, <1>6, <1>7, <1>8, <1>9, <1>10, <1>11, <1>12, <1>13, <1>14, <1>15, <1>22
     DEF Step
<1> QED
  BY <1>1, <1>2, <1>3, <1>4, <1>20, <1>21, <1>22 DEF Next
LEMMA BenignHolds ==
  ASSUME Benign
  PROVE  Spec => []BenignInv
<1>1. Init => BenignInv
  BY InitBenign
<1>2. BenignInv /\ [Next]_vars => BenignInv'
  BY Benign, NextBenign
<1> QED BY <1>1, <1>2, PTL DEF Spec

\* A recorded block keeps its entry, and its size in it, until it is freed.
THEOREM RecordedBlocksStay ==
  ASSUME Benign
  PROVE  Spec => []RecordedBlockHasEntry
<1>1. BenignInv => RecordedBlockHasEntry
  BY DEF BenignInv
<1> QED BY BenignHolds, <1>1, PTL

\* An entry is that of the block at its address, but in a realloc's window.
THEOREM NoStaleEntries ==
  ASSUME Benign
  PROVE  Spec => []EntryHasRecordedBlock
<1>1. BenignInv => EntryHasRecordedBlock
  BY DEF BenignInv
<1> QED BY BenignHolds, <1>1, PTL

\* A thread about to insert holds the GIL, so no other thread is in a realloc's
\* window, and its block is not recorded: there is nothing to overwrite.
LEMMA NothingToOverwrite == BenignInv => NoOverwrite
<1> SUFFICES ASSUME BenignInv, NEW t \in Threads, pc[t] = "insert"
             PROVE  live_set_[frame[t].ptr] = NoEntry
  BY DEF NoOverwrite
<1>1. PICK p \in Ptrs : p = frame[t].ptr
  BY DEF BenignInv, Inv, FramesOK, FrameOK, MallocLabels, RecordLabels
<1>2. Unrecorded(p)
  BY <1>1 DEF BenignInv, FreshOK, MallocLabels, RecordLabels
<1>3. \A u \in Threads : ~Window(u, p)
  BY DEF BenignInv, Inv, ReallocOK, LockDiscipline, Window, FreeLabels, RecordLabels
<1> QED
  BY <1>1, <1>2, <1>3 DEF BenignInv, EntryHasRecordedBlock, Unrecorded

\* RecordMalloc never overwrites an entry, so no size is counted twice.
THEOREM NothingOverwritten ==
  ASSUME Benign
  PROVE  Spec => []NoOverwrite
BY BenignHolds, NothingToOverwrite, PTL

-----------------------------------------------------------------------------
(***************************************************************************)
(* The refinement.  A step either is silent for TracedMemory, or is the    *)
(* Insert, FindAndRemove or Reset that it sees as Trace, Untrace or Clear. *)
(***************************************************************************)
TracedVars == <<TracedBlocks, TracedCurrent, TracedPeak>>

\* Steps that leave the tables alone and start or end no update of them.
LEMMA QuietStep ==
  ASSUME NEW t \in Threads,
         UNCHANGED <<live_set_, counters>>,
         pc[t] \notin {"add_total", "sub_total"}, pc'[t] \notin {"add_total", "sub_total"},
         \A u \in Threads \ {t} : pc'[u] = pc[u] /\ frame'[u] = frame[u],
         mu_ \in Threads \cup {NoThread},
         mu_' = mu_ \/ {mu_, mu_'} \subseteq {t, NoThread}
  PROVE  UNCHANGED TracedVars
<1>1. Pending' = Pending
  BY HeapAssumption DEF Pending
<1> QED
  BY <1>1 DEF TracedVars, TracedBlocks, TracedCurrent, TracedPeak, counters

LEMMA TracedInit == Init => Traced!TInit
<1> SUFFICES ASSUME Init PROVE Traced!TInit
  OBVIOUS
<1>1. TracedBlocks = [p \in Ptrs |-> NoEntry]
  BY DEF Init, TracedBlocks
<1>2. TracedCurrent = 0 /\ TracedPeak = 0
  BY DEF Init, TracedCurrent, TracedPeak, Pending
<1> QED BY <1>1, <1>2 DEF Traced!TInit

LEMMA TracedNext == BenignInv /\ NoOverwrite /\ [Next]_vars => [Traced!TNext]_TracedVars
<1> SUFFICES ASSUME BenignInv, NoOverwrite, [Next]_vars
             PROVE  [Traced!TNext]_TracedVars
  OBVIOUS
<1> USE HeapAssumption
<1>t. TypeOK /\ LockDiscipline /\ FramesOK
  BY DEF BenignInv, Inv
<1>1. ASSUME NEW t \in Threads, Insert(t) PROVE Traced!TNext
  <2>1. PICK p \in Ptrs : p = frame[t].ptr
    BY <1>1, <1>t DEF Insert, FramesOK, FrameOK, MallocLabels, RecordLabels
  <2>2. PICK s \in size_t : s = frame[t].size
    BY <1>t DEF TypeOK, Frame
  <2>3. mu_ = t /\ mu_' = t /\ pc'[t] = "add_total" /\ frame' = frame
    BY <1>1, <1>t DEF Insert, Goto, LockDiscipline, LockedLabels, TypeOK
  <2>4. TracedBlocks[p] = NoEntry
    BY <1>1, <2>1 DEF TracedBlocks, NoOverwrite, Insert
  <2>5. TracedBlocks' = [TracedBlocks EXCEPT ![p] = s]
    <3>1. [trace_handle |-> frame[t].trace_handle, size |-> s] \in LivePointer
      BY <1>t DEF TypeOK, Frame, LivePointer
    <3>2. live_set_' = [live_set_ EXCEPT
             ![p] = [trace_handle |-> frame[t].trace_handle, size |-> s]]
      BY <1>1, <2>1, <2>2 DEF Insert
    <3> QED BY <1>t, <3>1, <3>2 DEF TracedBlocks, TypeOK
  <2>6. TracedCurrent = total_mem_traced_ /\ TracedCurrent' = total_mem_traced_ + s
    BY <1>1, <1>t, <2>2, <2>3 DEF TracedCurrent, Pending, Insert, counters, TypeOK
  <2>7. TracedPeak = peak_mem_traced_ /\ peak_mem_traced_' = peak_mem_traced_
    BY <1>1, <1>t, <2>6 DEF TracedPeak, Insert, counters, TypeOK, BenignInv
  <2>8. TracedPeak' = IF TracedCurrent + s > TracedPeak THEN TracedCurrent + s
                      ELSE TracedPeak
    BY <2>6, <2>7 DEF TracedPeak
  <2>9. TracedCurrent' = TracedCurrent + s
    BY <2>6
  <2> QED
    BY <2>4, <2>5, <2>8, <2>9 DEF Traced!TNext, Traced!Trace
<1>2. ASSUME NEW t \in Threads, FindAndRemove(t) PROVE [Traced!TNext]_TracedVars
  <2>1. PICK p \in Ptrs : p = frame[t].old
    BY <1>2, <1>t DEF FindAndRemove, FramesOK, FrameOK, FreeLabels
  <2>2. mu_ = t /\ counters' = counters
    BY <1>2, <1>t DEF FindAndRemove, LockDiscipline, LockedLabels
  <2>3. TracedCurrent = total_mem_traced_
    BY <1>2, <1>t, <2>2 DEF TracedCurrent, Pending, FindAndRemove, TypeOK
  <2>4. CASE live_set_[p] = NoEntry
    <3>1. live_set_' = live_set_
      BY <1>2, <1>t, <2>1, <2>4 DEF FindAndRemove, TypeOK
    <3>2. TracedCurrent' = total_mem_traced_
      BY <1>2, <1>t, <2>1, <2>2, <2>4 DEF TracedCurrent, Pending, FindAndRemove, TypeOK,
         counters
    <3> QED
      BY <2>2, <2>3, <3>1, <3>2 DEF TracedVars, TracedBlocks, TracedPeak, counters
  <2>5. CASE live_set_[p] # NoEntry
    <3>1. /\ live_set_[p] \in LivePointer /\ live_set_[p].size \in size_t
          /\ TracedBlocks[p] = live_set_[p].size
      BY <1>t, <2>5 DEF TypeOK, LivePointer, TracedBlocks
    <3>2. TracedBlocks[p] # NoEntry
      BY <3>1
    <3>3. TracedBlocks' = [TracedBlocks EXCEPT ![p] = NoEntry]
      BY <1>2, <1>t, <2>1 DEF FindAndRemove, TracedBlocks, TypeOK
    <3>4. mu_' = t /\ pc'[t] = "sub_total" /\ frame'[t].removed = live_set_[p].size
      BY <1>2, <1>t, <2>1, <2>2, <2>5 DEF FindAndRemove, Goto, TypeOK, Frame
    <3>5. TracedCurrent' = TracedCurrent - TracedBlocks[p]
      BY <1>t, <2>2, <2>3, <3>1, <3>4 DEF TracedCurrent, Pending, counters, TypeOK, size_t
    <3>6. TracedPeak' = TracedPeak
      BY <1>t, <2>2, <2>3, <3>1, <3>5 DEF TracedPeak, counters, TypeOK, size_t, BenignInv
    <3> QED
      BY <3>2, <3>3, <3>5, <3>6 DEF Traced!TNext, Traced!Untrace
  <2> QED BY <2>4, <2>5
<1>3. ASSUME NEW t \in Threads, Reset(t) PROVE Traced!TNext
  <2>1. mu_ = t /\ mu_' = t /\ pc'[t] = "reset_traces"
    BY <1>3, <1>t DEF Reset, Goto, LockDiscipline, LockedLabels, TypeOK
  <2>2. TracedBlocks' = [p \in Ptrs |-> NoEntry]
    BY <1>3 DEF Reset, TracedBlocks
  <2>3. TracedCurrent' = 0 /\ TracedPeak' = 0
    BY <1>3, <2>1 DEF Reset, TracedCurrent, TracedPeak, Pending
  <2> QED BY <2>2, <2>3 DEF Traced!TNext, Traced!Clear
<1>4. ASSUME NEW t \in Threads, AddTotal(t) PROVE UNCHANGED TracedVars
  <2>1. mu_ = t /\ mu_' = NoThread /\ live_set_' = live_set_
    BY <1>4, <1>t DEF AddTotal, LockDiscipline, LockedLabels
  <2>2. TracedCurrent = total_mem_traced_' /\ TracedCurrent' = total_mem_traced_'
    BY <1>4, <1>t, <2>1 DEF AddTotal, TracedCurrent, Pending, TypeOK, Frame, size_t
  <2>3. TracedPeak' = TracedPeak
    BY <1>4, <1>t, <2>2 DEF AddTotal, TracedPeak, TypeOK, Frame, size_t
  <2> QED BY <2>1, <2>2, <2>3 DEF TracedVars, TracedBlocks
<1>5. ASSUME NEW t \in Threads, SubTotal(t) PROVE UNCHANGED TracedVars
  <2>1. /\ mu_ = t /\ mu_' = NoThread /\ live_set_' = live_set_
        /\ peak_mem_traced_' = peak_mem_traced_
    BY <1>5, <1>t DEF SubTotal, LockDiscipline, LockedLabels
  <2>2. TracedCurrent = total_mem_traced_' /\ TracedCurrent' = total_mem_traced_'
    BY <1>5, <1>t, <2>1 DEF SubTotal, TracedCurrent, Pending, TypeOK, Frame, size_t
  <2> QED BY <2>1, <2>2 DEF TracedVars, TracedBlocks, TracedPeak
<1>6. ASSUME NEW t \in Threads, LockMu(t) PROVE UNCHANGED TracedVars
  <2>1. /\ UNCHANGED <<live_set_, counters>> /\ frame' = frame
        /\ mu_ = NoThread /\ mu_' = t
        /\ pc[t] \notin {"add_total", "sub_total"}
    BY <1>6 DEF LockMu, LockLabels, tables
  <2>2. /\ pc'[t] \notin {"add_total", "sub_total"}
        /\ \A u \in Threads \ {t} : pc'[u] = pc[u]
    BY <1>6, <1>t DEF LockMu, LockLabels, Goto, TypeOK
  <2> QED BY <2>1, <2>2, QuietStep
<1>7. ASSUME NEW t \in Threads, AcquireGIL(t) PROVE UNCHANGED TracedVars
  BY <1>7, <1>t, QuietStep DEF AcquireGIL, Goto, Return, tables, TypeOK
<1>8. ASSUME NEW t \in Threads, ReleaseGIL(t) PROVE UNCHANGED TracedVars
  BY <1>8, <1>t, QuietStep DEF ReleaseGIL, Goto, Return, tables, TypeOK
<1>9. ASSUME NEW t \in Threads, EnsureGIL(t) PROVE UNCHANGED TracedVars
  BY <1>9, <1>t, QuietStep DEF EnsureGIL, Goto, Return, tables, TypeOK
<1>10. ASSUME NEW t \in Threads, HandleMalloc(t) PROVE UNCHANGED TracedVars
  BY <1>10, <1>t, QuietStep DEF HandleMalloc, Goto, Return, tables, TypeOK
<1>11. ASSUME NEW t \in Threads, Intern(t) PROVE UNCHANGED TracedVars
  BY <1>11, <1>t, QuietStep DEF Intern, Goto, Return, tables, TypeOK
<1>12. ASSUME NEW t \in Threads, ReleaseGILState(t) PROVE UNCHANGED TracedVars
  BY <1>12, <1>t, QuietStep DEF ReleaseGILState, Goto, Return, tables, TypeOK
<1>13. ASSUME NEW t \in Threads, BaseFree(t) PROVE UNCHANGED TracedVars
  BY <1>13, <1>t, QuietStep DEF BaseFree, Goto, Return, tables, TypeOK
<1>14. ASSUME NEW t \in Threads, ResetTraces(t) PROVE UNCHANGED TracedVars
  BY <1>14, <1>t, QuietStep DEF ResetTraces, Goto, Return, tables, TypeOK, LockDiscipline, LockedLabels
<1>15. ASSUME NEW t \in Threads, ClearTraces(t) PROVE UNCHANGED TracedVars
  BY <1>15, <1>t, QuietStep DEF ClearTraces, Goto, Return, tables, TypeOK
<1>16. ASSUME NEW t \in Threads, NEW p \in Ptrs, WrappedFree(t, p)
      PROVE  UNCHANGED TracedVars
  BY <1>16, <1>t, QuietStep DEF WrappedFree, MayCall, Goto, tables, TypeOK
<1>17. ASSUME NEW t \in Threads, NEW p \in Ptrs, NEW s \in size_t, WrappedRealloc(t, p, s)
      PROVE  UNCHANGED TracedVars
  BY <1>17, <1>t, QuietStep DEF WrappedRealloc, MayCall, Goto, tables, TypeOK
<1>18. ASSUME NEW t \in Threads, NEW op \in {"malloc", "realloc"}, NEW p \in FreePtrs \cup {nullptr},
             NEW s \in size_t, NEW raw \in BOOLEAN,
             MayCall(t, raw), BaseAlloc(t, op, p, s, raw)
      PROVE  UNCHANGED TracedVars
  BY <1>18, <1>t, QuietStep DEF BaseAlloc, MayCall, Goto, tables, TypeOK
<1>19. ASSUME NEW t \in Threads, NEW p \in Ptrs, DecrefLastString(t, p)
      PROVE  UNCHANGED TracedVars
  BY <1>19, <1>t, QuietStep DEF DecrefLastString, Goto, tables, TypeOK
<1>20. CASE UNCHANGED vars
  BY <1>20 DEF vars, counters, TracedVars, TracedBlocks, TracedCurrent, TracedPeak, Pending
<1>21. ASSUME NEW t \in Threads, Call(t) PROVE UNCHANGED TracedVars
  BY <1>15, <1>16, <1>17, <1>18, <1>21, CallForms
<1>22. ASSUME NEW t \in Threads, Step(t) PROVE [Traced!TNext]_TracedVars
  BY <1>1, <1>2, <1>3, <1>4, <1>5, <1>10, <1>11, <1>12, <1>13, <1>14, <1>19, <1>22
     DEF Step
<1> QED
  BY <1>6, <1>7, <1>8, <1>9, <1>20, <1>21, <1>22 DEF Next

\* Tracing through the wrapped allocators implements TracedMemory, whatever the
\* threads, addresses, sizes and call stacks.
THEOREM HeapProfilerImplementsTracedMemory ==
  ASSUME Benign
  PROVE  Spec => ImplementsTracedMemory
<1>1. Init => Traced!TInit
  BY TracedInit
<1>2. BenignInv /\ NoOverwrite /\ [Next]_vars => [Traced!TNext]_(Traced!tvars)
  BY TracedNext DEF TracedVars, Traced!tvars
<1> QED
  BY BenignHolds, NothingToOverwrite, <1>1, <1>2, PTL
     DEF Spec, ImplementsTracedMemory, Traced!TSpec

-----------------------------------------------------------------------------
(***************************************************************************)
(* The total.  What the refinement says of single steps adds up: the       *)
(* current figure is the sum of the sizes in the table at every step.      *)
(***************************************************************************)
Sized(b) == {p \in Ptrs : b[p] # NoEntry}

CurrentIsSum ==
  /\ IsFiniteSet(Sized(TracedBlocks))
  /\ TracedCurrent = SumOf(TracedBlocks, Sized(TracedBlocks))

\* A size that comes into a map of sizes, and one that leaves it, is added to
\* and taken from the sum.
LEMMA SumMoves ==
  ASSUME NEW b \in [Ptrs -> size_t \cup {NoEntry}], IsFiniteSet(Sized(b)),
         NEW p \in Ptrs, NEW s \in size_t, b[p] = NoEntry
  PROVE  LET c == [b EXCEPT ![p] = s]
         IN  /\ IsFiniteSet(Sized(c)) /\ SumOf(b, Sized(b)) \in Int
             /\ SumOf(c, Sized(c)) = SumOf(b, Sized(b)) + s
<1> DEFINE c == [b EXCEPT ![p] = s]
<1>1. c[p] = s /\ \A q \in Sized(b) : q # p /\ c[q] = b[q] /\ c[q] \in Int
  BY DEF Sized, size_t
<1>2. Sized(c) = Sized(b) \cup {p} /\ p \notin Sized(b)
  BY HeapAssumption DEF Sized
<1>3. s \in Int
  BY HeapAssumption DEF size_t
<1> HIDE DEF c
<1>4. IsFiniteSet(Sized(c))
  BY <1>2, FS_AddElement
<1>5. SumOf(c, Sized(b)) \in Int /\ SumOf(c, Sized(c)) = SumOf(c, Sized(b)) + s
  BY <1>1, <1>2, <1>3, SumAdd
<1>6. SumOf(c, Sized(b)) = SumOf(b, Sized(b))
  BY <1>1, SumSame
<1> QED BY <1>4, <1>5, <1>6 DEF c

LEMMA BlocksType == TypeOK => TracedBlocks \in [Ptrs -> size_t \cup {NoEntry}]
  BY DEF TypeOK, TracedBlocks, LivePointer

LEMMA NothingSized == Sized([p \in Ptrs |-> NoEntry]) = {}
  BY DEF Sized

LEMMA InitSum == Init => CurrentIsSum
<1> SUFFICES ASSUME Init PROVE CurrentIsSum
  OBVIOUS
<1>1. TracedBlocks = [p \in Ptrs |-> NoEntry] /\ TracedCurrent = 0
  BY TracedInit DEF Traced!TInit
<1>2. Sized(TracedBlocks) = {}
  BY <1>1, NothingSized
<1> QED BY <1>1, <1>2, FS_EmptySet, SumEmpty DEF CurrentIsSum

LEMMA NextSum ==
  TypeOK /\ TypeOK' /\ CurrentIsSum /\ [Traced!TNext]_TracedVars => CurrentIsSum'
<1> SUFFICES ASSUME TypeOK, TypeOK', CurrentIsSum, [Traced!TNext]_TracedVars
             PROVE  CurrentIsSum'
  OBVIOUS
<1> DEFINE b == TracedBlocks
           c == TracedBlocks'
           now == TracedCurrent
           then == TracedCurrent'
           Sums == IsFiniteSet(Sized(c)) /\ then = SumOf(c, Sized(c))
<1>t. /\ b \in [Ptrs -> size_t \cup {NoEntry}] /\ c \in [Ptrs -> size_t \cup {NoEntry}]
      /\ IsFiniteSet(Sized(b)) /\ now = SumOf(b, Sized(b))
  <2>1. b \in [Ptrs -> size_t \cup {NoEntry}]
    BY BlocksType
  <2>2. c \in [Ptrs -> size_t \cup {NoEntry}]
    BY DEF TypeOK, TracedBlocks, LivePointer, size_t
  <2> QED BY <2>1, <2>2 DEF CurrentIsSum
<1>1. ASSUME NEW p \in Ptrs, NEW s \in size_t, Traced!Trace(p, s) PROVE Sums
  <2>1. b[p] = NoEntry /\ c = [b EXCEPT ![p] = s] /\ then = now + s
    BY <1>1 DEF Traced!Trace
  <2> HIDE DEF b, c, now, then
  <2> QED BY <1>t, <2>1, SumMoves
<1>2. ASSUME NEW p \in Ptrs, Traced!Untrace(p) PROVE Sums
  <2>1. b[p] # NoEntry /\ c = [b EXCEPT ![p] = NoEntry] /\ then = now - b[p]
    BY <1>2 DEF Traced!Untrace
  <2> HIDE DEF b, c, now, then
  <2>2. PICK s \in size_t : s = b[p]
    BY <1>t, <2>1
  <2>3. c[p] = NoEntry /\ b = [c EXCEPT ![p] = s]
    BY <1>t, <2>1, <2>2
  <2>4. Sized(c) \in SUBSET Sized(b)
    BY <1>t, <2>1 DEF Sized
  <2>5. IsFiniteSet(Sized(c))
    BY <1>t, <2>4, FS_Subset
  <2>6. SumOf(c, Sized(c)) \in Int /\ SumOf(b, Sized(b)) = SumOf(c, Sized(c)) + s
    BY <1>t, <2>3, <2>5, SumMoves
  <2>7. s \in Int
    BY HeapAssumption DEF size_t
  <2>8. then = SumOf(c, Sized(c))
    BY <1>t, <2>1, <2>2, <2>6, <2>7
  <2> QED BY <2>5, <2>8
<1>3. CASE Traced!Clear
  <2>1. c = [p \in Ptrs |-> NoEntry] /\ then = 0
    BY <1>3 DEF Traced!Clear
  <2> HIDE DEF c, then
  <2>2. Sized(c) = {}
    BY <2>1, NothingSized
  <2>3. Sums
    BY <2>1, <2>2, FS_EmptySet, SumEmpty
  <2> QED BY <2>3 DEF CurrentIsSum, Sized, c, then
<1>4. CASE UNCHANGED TracedVars
  <2>1. c = b /\ then = now
    BY <1>4 DEF TracedVars
  <2> HIDE DEF b, c, now, then
  <2>2. Sums
    BY <1>t, <2>1
  <2> QED BY <2>2 DEF CurrentIsSum, Sized, c, then
<1>5. Sums => CurrentIsSum'
  BY DEF CurrentIsSum, Sized
<1> QED BY <1>1, <1>2, <1>3, <1>4, <1>5 DEF Traced!TNext

\* The sum of TotalIsSum is the one of CurrentIsSum.
LEMMA TotalOfSizes ==
  ASSUME TypeOK, CurrentIsSum
  PROVE  TracedCurrent = SumOfSizes
<1> DEFINE S == {p \in Ptrs : live_set_[p] # NoEntry}
           sizes == [p \in S |-> live_set_[p].size]
           g == CHOOSE iter : iter = [s \in SUBSET S |->
                  IF s = {} THEN 0
                  ELSE live_set_[CHOOSE x \in s : TRUE].size
                         + iter[s \ {CHOOSE x \in s : TRUE}]]
<1>1. S = Sized(TracedBlocks)
  BY HeapAssumption DEF Sized, TracedBlocks, TypeOK, LivePointer
<1>2. \A p \in S : sizes[p] = TracedBlocks[p]
  BY DEF TracedBlocks
<1>3. IsSum(g, sizes, S)
  <2>1. PICK h : IsSum(h, sizes, S)
    BY <1>1, SumExists DEF CurrentIsSum
  <2>2. h = [s \in SUBSET S |->
               IF s = {} THEN 0
               ELSE live_set_[CHOOSE x \in s : TRUE].size + h[s \ {CHOOSE x \in s : TRUE}]]
    BY <2>1, SomeMember DEF IsSum, Some
  <2>3. g = [s \in SUBSET S |->
               IF s = {} THEN 0
               ELSE live_set_[CHOOSE x \in s : TRUE].size + g[s \ {CHOOSE x \in s : TRUE}]]
    BY <2>2
  <2> QED BY <2>3, SomeMember DEF IsSum, Some
<1>4. SumOfSizes = g[S]
  BY DEF SumOfSizes, MapThenSumSet, MapThenFoldSet
<1> HIDE DEF S, sizes, g
<1>5. g[S] = SumOf(TracedBlocks, S)
  BY <1>1, <1>2, <1>3, SumIs DEF CurrentIsSum
<1> QED BY <1>1, <1>4, <1>5 DEF CurrentIsSum

\* get_traced_memory() is right whenever it can read: the total is the sum of
\* the sizes in the table, and the peak no lower.
THEOREM TotalsAreRight ==
  ASSUME Benign
  PROVE  Spec => []TotalIsSum
<1>1. Init => CurrentIsSum
  BY InitSum
<1>2. BenignInv => TypeOK /\ NoOverwrite
  BY NothingToOverwrite DEF BenignInv, Inv
<1>3. BenignInv /\ BenignInv' /\ CurrentIsSum /\ [Next]_vars => CurrentIsSum'
  <2>1. BenignInv' => TypeOK'
    BY DEF BenignInv, Inv
  <2> QED BY <1>2, <2>1, TracedNext, NextSum
<1>4. BenignInv /\ CurrentIsSum => TotalIsSum
  <2> SUFFICES ASSUME BenignInv, CurrentIsSum, mu_ = NoThread PROVE TotalIsSum
    BY DEF TotalIsSum
  <2>1. TracedCurrent = total_mem_traced_ + 0
    BY DEF TracedCurrent, Pending
  <2>2. total_mem_traced_ \in Int /\ total_mem_traced_ <= peak_mem_traced_
    BY <1>2 DEF TypeOK, BenignInv
  <2>3. TracedCurrent = total_mem_traced_
    BY <2>1, <2>2
  <2> QED BY <1>2, <2>2, <2>3, TotalOfSizes DEF TotalIsSum
<1> QED BY <1>1, <1>3, <1>4, BenignHolds, PTL DEF Spec

-----------------------------------------------------------------------------
(***************************************************************************)
(* The process, for any threads, finalizers and forks.  The invariant of   *)
(* HeapProfiler is one of the process too: its steps are steps of          *)
(* HeapProfiler or keep what Inv relates.  OrphanOK adds what the threads  *)
(* left behind by a fork can have been doing with mu_.                     *)
(***************************************************************************)
\* Who is in the process, and what a lock left behind was taken for.
OrphanOK ==
  /\ alive \subseteq Threads
  /\ Orphaned => pc[mu_] \in {"remove", "sub_total"}

PInv == Inv /\ OrphanOK

LEMMA ProcessInitInv == PInit => PInv
<1> SUFFICES ASSUME PInit PROVE PInv
  OBVIOUS
<1>1. Inv
  BY InitInv DEF PInit
<1> QED BY <1>1 DEF PInit, PInv, OrphanOK, Orphaned, Init

-----------------------------------------------------------------------------
\* A step of the profiler in thread t moves no other thread, and takes mu_ when
\* it is free or lets its own go.
LEMMA OwnStep ==
  ASSUME Inv, NEW t \in Threads,
         \/ AcquireGIL(t) \/ ReleaseGIL(t) \/ EnsureGIL(t) \/ LockMu(t)
         \/ Call(t) \/ Step(t)
  PROVE  /\ \A u \in Threads \ {t} : pc'[u] = pc[u]
         /\ mu_' = mu_ \/ {mu_, mu_'} \subseteq {t, NoThread}
<1> USE HeapAssumption DEF Goto, Return, tables, counters
<1>t. pc \in [Threads -> Labels] /\ LockDiscipline
  BY DEF Inv, TypeOK
<1>1. CASE AcquireGIL(t) \/ ReleaseGIL(t) \/ EnsureGIL(t)
  BY <1>t, <1>1 DEF AcquireGIL, ReleaseGIL, EnsureGIL
<1>2. CASE LockMu(t)
  BY <1>t, <1>2 DEF LockMu
<1>3. CASE Call(t)
  BY <1>t, <1>3 DEF Call, WrappedMalloc, WrappedReallocNull, WrappedCalloc, BaseAlloc,
     WrappedRealloc, WrappedFree, ClearTraces
<1>4. CASE Step(t)
  <2>1. CASE HandleMalloc(t) \/ Intern(t) \/ Insert(t) \/ ReleaseGILState(t)
    BY <1>t, <2>1 DEF HandleMalloc, Intern, Insert, ReleaseGILState
  <2>2. CASE AddTotal(t) \/ SubTotal(t) \/ ResetTraces(t)
    BY <1>t, <2>2 DEF AddTotal, SubTotal, ResetTraces, LockDiscipline, LockedLabels
  <2>3. CASE FindAndRemove(t)
    BY <1>t, <2>3 DEF FindAndRemove, LockDiscipline, LockedLabels
  <2>4. CASE BaseFree(t) \/ Reset(t) \/ \E p \in Ptrs : DecrefLastString(t, p)
    BY <1>t, <2>4 DEF BaseFree, Reset, DecrefLastString
  <2> QED BY <1>4, <2>1, <2>2, <2>3, <2>4 DEF Step
<1> QED BY <1>1, <1>2, <1>3, <1>4

\* What a thread of the process does as the profiler says.
LEMMA ProfilerStep ==
  ASSUME PInv, NEW t \in alive,
         \/ AcquireGIL(t) \/ ReleaseGIL(t) \/ EnsureGIL(t) \/ LockMu(t)
         \/ Call(t) \/ Step(t),
         UNCHANGED process
  PROVE  PInv'
<1>1. t \in Threads /\ Inv /\ alive \subseteq Threads /\ alive' = alive
  BY DEF PInv, OrphanOK, process
<1>2. Inv'
  BY <1>1, NextInv DEF Next
<1>3. /\ \A u \in Threads \ {t} : pc'[u] = pc[u]
      /\ mu_' = mu_ \/ {mu_, mu_'} \subseteq {t, NoThread}
  BY <1>1, OwnStep
<1>4. mu_ \in Threads \cup {NoThread}
  BY <1>1 DEF Inv, TypeOK
<1> QED
  BY <1>1, <1>2, <1>3, <1>4, HeapAssumption DEF PInv, OrphanOK, Orphaned

\* The walk is a place of an allocation that has the GIL and not mu_.
LEMMA WalkingThread ==
  ASSUME Inv, NEW t \in Threads, Walking(t)
  PROVE  gil = t /\ mu_ # t /\ frame[t].op \in {"malloc", "realloc"}
BY DEF Inv, Walking, LockDiscipline, FramesOK, FrameOK, RecordLabels, LockedLabels,
   MallocLabels

LEMMA ProcessNextInv == PInv /\ [PNext]_pvars => PInv'
<1> SUFFICES ASSUME PInv, [PNext]_pvars PROVE PInv'
  OBVIOUS
<1> USE HeapAssumption DEF Goto, tables, counters
<1>i. Inv /\ alive \subseteq Threads
  BY DEF PInv, OrphanOK
<1>1. ASSUME NEW t \in alive, NEW p \in Ptrs, FinalizerFrees(t, p) PROVE PInv'
  <2>1. TypeOK' /\ HoldOK'
    BY <1>i, <1>1 DEF FinalizerFrees, Owned, Inv, TypeOK, HoldOK, Holds
  <2>2. FramesOK' /\ DomainOK' /\ DecrefOK' /\ LockDiscipline' /\ ResetOK' /\ HandlesInterned'
    BY <1>i, <1>1 DEF FinalizerFrees, Inv, FramesOK, FrameOK, DomainOK, DecrefOK,
       LockDiscipline, ResetOK, HandlesInterned
  <2> QED BY <1>1, <2>1, <2>2 DEF FinalizerFrees, PInv, Inv, OrphanOK, Orphaned
<1>2. ASSUME NEW t \in alive, NEW p \in Ptrs, NEW s \in Sizes, FinalizerAllocates(t, p, s)
      PROVE  PInv'
  <2>1. NewBlock(s, FALSE) \in Block \ {NoBlock}
    BY NewBlockType
  <2>2. TypeOK' /\ HoldOK'
    BY <1>i, <1>2, <2>1 DEF FinalizerAllocates, FreePtrs, Inv, TypeOK, HoldOK, Holds
  <2>3. FramesOK' /\ DomainOK' /\ DecrefOK' /\ LockDiscipline' /\ ResetOK' /\ HandlesInterned'
    BY <1>i, <1>2 DEF FinalizerAllocates, Inv, FramesOK, FrameOK, DomainOK, DecrefOK,
       LockDiscipline, ResetOK, HandlesInterned
  <2> QED BY <1>2, <2>2, <2>3 DEF FinalizerAllocates, PInv, Inv, OrphanOK, Orphaned
<1>3. ASSUME NEW t \in alive, FinalizerDropsGIL(t) PROVE PInv'
  <2>1. gil = t /\ mu_ # t /\ t \in Threads /\ pc[t] = "intern"
    BY <1>i, <1>3, WalkingThread DEF FinalizerDropsGIL, Walking
  <2>2. TypeOK' /\ HoldOK' /\ DecrefOK'
    BY <1>i, <1>3, <2>1 DEF FinalizerDropsGIL, Away, Inv, TypeOK, Labels, HoldOK, Holds, DecrefOK
  <2>3. FramesOK' /\ DomainOK'
    BY <1>i, <1>3, <2>1 DEF FinalizerDropsGIL, Away, Inv, TypeOK, FramesOK, FrameOK, DomainOK,
       FreeLabels, MallocLabels, RecordLabels, ResetLabels
  <2>4. LockDiscipline' /\ ResetOK' /\ HandlesInterned'
    BY <1>i, <1>3, <2>1 DEF FinalizerDropsGIL, Away, Inv, TypeOK, LockDiscipline, ResetOK,
       HandlesInterned, LockedLabels, RecordLabels, ResetLabels
  <2>5. OrphanOK'
    BY <1>i, <1>3, <2>1 DEF FinalizerDropsGIL, PInv, Inv, TypeOK, OrphanOK, Orphaned
  <2> QED BY <2>2, <2>3, <2>4, <2>5 DEF PInv, Inv
<1>4. ASSUME NEW t \in alive, FinalizerRetakesGIL(t) PROVE PInv'
  <2>1. pc[t] = "finalizer" /\ t \in Threads /\ mu_ # t /\ gil = NoThread
    BY <1>i, <1>4 DEF FinalizerRetakesGIL, Away, Inv, LockDiscipline, LockedLabels, DecrefOK
  <2>2. TypeOK' /\ HoldOK' /\ DecrefOK'
    BY <1>i, <1>4, <2>1 DEF FinalizerRetakesGIL, Inv, TypeOK, Labels, RecordLabels, HoldOK, Holds, DecrefOK
  <2>3. FramesOK' /\ DomainOK'
    BY <1>i, <1>4, <2>1 DEF FinalizerRetakesGIL, Inv, TypeOK, FramesOK, FrameOK, DomainOK,
       FreeLabels, MallocLabels, RecordLabels, ResetLabels
  <2>4. LockDiscipline' /\ ResetOK' /\ HandlesInterned'
    BY <1>i, <1>4, <2>1 DEF FinalizerRetakesGIL, Inv, TypeOK, LockDiscipline, ResetOK,
       HandlesInterned, LockedLabels, RecordLabels, ResetLabels
  <2>5. OrphanOK'
    BY <1>i, <1>4, <2>1 DEF FinalizerRetakesGIL, process, PInv, Inv, TypeOK, OrphanOK, Orphaned
  <2> QED BY <2>2, <2>3, <2>4, <2>5 DEF PInv, Inv
<1>5. ASSUME NEW t \in alive, Fork(t) PROVE PInv'
  <2>1. /\ pc[t] = "idle" /\ gil = t /\ alive' = {t} /\ t \in Threads
        /\ UNCHANGED vars
    BY <1>i, <1>5 DEF Fork
  <2>2. Inv'
    BY <1>i, <2>1, NextInv
  <2>3. ASSUME NEW u \in Threads, mu_ = u, u # t PROVE pc[u] \in {"remove", "sub_total"}
    <3>1. gil # u
      BY <2>1, <2>3
    <3> QED
      BY <1>i, <2>3, <3>1 DEF Inv, LockDiscipline, DecrefOK, LockedLabels, RecordLabels,
         ResetLabels
  <2>4. OrphanOK'
    BY <1>i, <2>1, <2>3 DEF vars, OrphanOK, Orphaned, Inv, TypeOK
  <2> QED BY <2>2, <2>4 DEF PInv
<1>6. CASE UNCHANGED pvars
  BY <1>i, <1>6, NextInv DEF pvars, process, vars, PInv, OrphanOK, Orphaned
<1> QED
  BY <1>1, <1>2, <1>3, <1>4, <1>5, <1>6, ProfilerStep DEF PNext, PStep, GetGIL

LEMMA ProcessInvAlways == PSpec => []PInv
BY ProcessInitInv, ProcessNextInv, PTL DEF PSpec

-----------------------------------------------------------------------------
\* Finalizers that run in the stack walk and let others have the GIL, and forks,
\* leave the tables under their locks (heap.h:60, heap.h:66).
THEOREM LocksProtectTablesThroughout == PSpec => []LockDiscipline
<1>1. PInv => LockDiscipline
  BY DEF PInv, Inv
<1> QED BY ProcessInvAlways, <1>1, PTL

\* No handle dangles, though finalizers free, allocate and let other threads clear
\* while the stack is walked (heap.h:66).
THEOREM NoDanglingHandlesThroughout == PSpec => []HandlesInterned
<1>1. PInv => HandlesInterned
  BY DEF PInv, Inv
<1> QED BY ProcessInvAlways, <1>1, PTL

\* A lock a fork leaves behind was held by a free: the child's table lacks no
\* block's entry and has none half made (heap.h:57).
THEOREM ForksInterruptOnlyFrees == PSpec => []ForkInterruptsOnlyFrees
<1>1. PInv => ForkInterruptsOnlyFrees
  BY DEF PInv, OrphanOK, ForkInterruptsOnlyFrees
<1> QED BY ProcessInvAlways, <1>1, PTL

-----------------------------------------------------------------------------
\* The spin lock: mutual exclusion for any set of threads, and that it
\* implements the lock that the actions LockMu and the others take mu_ for.

\* The flag and the control states keep their types.
LEMMA SpinTypeCorrect == SSpec => []STypeOK
<1>1. SInit => STypeOK
  BY DEF SInit, STypeOK, SpinLabels
<1>2. STypeOK /\ [SNext]_svars => STypeOK'
  BY DEF STypeOK, SpinLabels, SNext, svars, Lock, Exchange, Load, Unlock
<1>. QED  BY <1>1, <1>2, PTL DEF SSpec

\* Mutual exclusion is inductive given the types.
LEMMA SpinMutexStep == STypeOK /\ MutualExclusion /\ [SNext]_svars => MutualExclusion'
<1> SUFFICES ASSUME STypeOK, MutualExclusion, [SNext]_svars
             PROVE  MutualExclusion'
  OBVIOUS
<1> USE DEF STypeOK, MutualExclusion, InCritical
<1>1. ASSUME NEW t \in Callers, Lock(t) PROVE MutualExclusion'
  BY <1>1 DEF Lock
<1>2. ASSUME NEW t \in Callers, Exchange(t) PROVE MutualExclusion'
  <2>1. CASE flag_
    BY <1>2, <2>1 DEF Exchange
  <2>2. CASE ~flag_
    BY <1>2, <2>2 DEF Exchange
  <2>. QED  BY <2>1, <2>2
<1>3. ASSUME NEW t \in Callers, Load(t) PROVE MutualExclusion'
  BY <1>3 DEF Load
<1>4. ASSUME NEW t \in Callers, Unlock(t) PROVE MutualExclusion'
  BY <1>4 DEF Unlock
<1>5. CASE UNCHANGED svars
  BY <1>5 DEF svars
<1>. QED  BY <1>1, <1>2, <1>3, <1>4, <1>5 DEF SNext

\* No two threads are ever in the critical section, and the flag is set
\* exactly while one is: SpinLock::lock / unlock for every number of threads.
THEOREM SpinLockMutualExclusion == SSpec => []MutualExclusion
<1>1. SInit => MutualExclusion
  BY DEF SInit, MutualExclusion, InCritical
<1>. QED  BY <1>1, SpinMutexStep, SpinTypeCorrect, PTL DEF SSpec

-----------------------------------------------------------------------------
\* The holder of the refinement mapping.
SpinHolder == IF InCritical = {} THEN NoCaller
              ELSE CHOOSE t \in Callers : at[t] = "critical"

\* When a thread is in the critical section, the mapping names that thread.
LEMMA SpinHolderIs ==
  ASSUME MutualExclusion, NEW t \in Callers, at[t] = "critical"
  PROVE  SpinHolder = t
BY DEF SpinHolder, MutualExclusion, InCritical

\* The same in the next state.
LEMMA SpinHolderIsNext ==
  ASSUME MutualExclusion', NEW t \in Callers, at'[t] = "critical"
  PROVE  SpinHolder' = t
BY DEF SpinHolder, MutualExclusion, InCritical

\* A step that puts nobody in or out of the critical section keeps the holder.
LEMMA SpinHolderKept ==
  ASSUME MutualExclusion, MutualExclusion', InCritical' = InCritical
  PROVE  SpinHolder' = SpinHolder
<1>1. CASE InCritical = {}
  BY <1>1 DEF SpinHolder
<1>2. CASE InCritical # {}
  <2>1. PICK u \in Callers : u \in InCritical
    BY <1>2 DEF InCritical
  <2>2. at[u] = "critical" /\ at'[u] = "critical"
    BY <2>1 DEF InCritical
  <2>. QED  BY <2>2, SpinHolderIs, SpinHolderIsNext
<1>. QED  BY <1>1, <1>2

\* The spin lock implements the abstract lock: every step of lock() and
\* unlock() asks, enters, leaves, or is invisible.
THEOREM SpinLockImplementsMutex == SSpec => ImplementsMutex
<1>1. SInit => M!MInit
  BY DEF SInit, M!MInit, InCritical, Trying
<1>2. ASSUME STypeOK, MutualExclusion, MutualExclusion', [SNext]_svars
      PROVE  [M!MNext]_(M!mvars)
  <2> USE <1>2 DEF STypeOK
  <2>1. ASSUME NEW t \in Callers, Lock(t) PROVE [M!MNext]_(M!mvars)
    <3>1. SpinHolder' = SpinHolder
      BY <2>1, SpinHolderKept DEF Lock, InCritical
    <3>2. t \notin Trying /\ Trying' = Trying \cup {t}
      BY <2>1 DEF Lock, Trying
    <3>3. SpinHolder # t
      <4>1. CASE InCritical = {}
        BY <4>1, SpinThreadAssumption DEF SpinHolder
      <4>2. CASE InCritical # {}
        <5>1. PICK u \in Callers : at[u] = "critical"
          BY <4>2 DEF InCritical
        <5>2. SpinHolder = u
          BY <5>1, SpinHolderIs
        <5>. QED  BY <2>1, <5>1, <5>2 DEF Lock
      <4>. QED  BY <4>1, <4>2
    <3>4. M!Ask(t)
      BY <3>1, <3>2, <3>3 DEF M!Ask, SpinHolder
    <3>. QED  BY <3>4 DEF M!MNext
  <2>2. ASSUME NEW t \in Callers, Exchange(t) PROVE [M!MNext]_(M!mvars)
    <3>1. CASE flag_
      <4>1. SpinHolder' = SpinHolder /\ Trying' = Trying
        BY <2>2, <3>1, SpinHolderKept DEF Exchange, InCritical, Trying
      <4>. QED  BY <4>1 DEF M!mvars, SpinHolder
    <3>2. CASE ~flag_
      <4>1. t \in Trying /\ Trying' = Trying \ {t}
        BY <2>2, <3>2 DEF Exchange, Trying
      <4>2. SpinHolder = NoCaller
        BY <3>2 DEF SpinHolder, MutualExclusion
      <4>3. SpinHolder' = t
        BY <2>2, <3>2, SpinHolderIsNext DEF Exchange
      <4>4. M!Enter(t)
        BY <4>1, <4>2, <4>3 DEF M!Enter, SpinHolder
      <4>. QED  BY <4>4 DEF M!MNext
    <3>. QED  BY <3>1, <3>2
  <2>3. ASSUME NEW t \in Callers, Load(t) PROVE [M!MNext]_(M!mvars)
    <3>1. SpinHolder' = SpinHolder /\ Trying' = Trying
      BY <2>3, SpinHolderKept DEF Load, InCritical, Trying
    <3>. QED  BY <3>1 DEF M!mvars, SpinHolder
  <2>4. ASSUME NEW t \in Callers, Unlock(t) PROVE [M!MNext]_(M!mvars)
    <3>1. SpinHolder = t
      BY <2>4, SpinHolderIs DEF Unlock
    <3>2. SpinHolder' = NoCaller
      BY <2>4 DEF Unlock, SpinHolder, MutualExclusion
    <3>3. Trying' = Trying
      BY <2>4 DEF Unlock, Trying
    <3>4. M!Leave(t)
      BY <3>1, <3>2, <3>3 DEF M!Leave, SpinHolder
    <3>. QED  BY <3>4 DEF M!MNext
  <2>5. CASE UNCHANGED svars
    BY <2>5 DEF svars, M!mvars, InCritical, Trying
  <2>. QED  BY <2>1, <2>2, <2>3, <2>4, <2>5 DEF SNext
<1>. QED
  BY <1>1, <1>2, SpinTypeCorrect, SpinLockMutualExclusion, PTL
     DEF SSpec, ImplementsMutex, M!MSpec
===============================================================================
