# A verification development for mprofile

mprofile is a sampling memory profiler for CPython. It puts wrappers around the
three Python allocators, records the call stack of the allocations it samples,
and reports on the blocks that are still live. This directory holds TLA+ models
of its parts, TLC runs that check them on small instances, and TLAPS proofs of
their main properties for all instances.

All paths below are relative to the repository. `addressmap.h` and `sampler.*`
are under `third_party/google/tcmalloc/`, the rest of the C++ under `src/`.

## 1. The system

| component | code | state | operations |
|---|---|---|---|
| allocator hooks | `malloc_patch.cc` | `g_profiler`, `g_base_allocators`, the thread-local `is_active_` | attach, detach, `WrappedMalloc/Calloc/Realloc/Free`, clear, snapshot |
| heap profiler | `heap.h`, `heap.cc` | `live_set_`, `total_mem_traced_`, `peak_mem_traced_`, `traces_`, `mu_` | `HandleMalloc/Realloc/Free`, `RecordMalloc`, `Reset`, readers |
| spin lock | `spinlock.h` | one atomic flag | `lock`, `unlock` |
| address map | `addressmap.h` | hash table of clusters of blocks of entries, free list | `Insert`, `FindAndRemove`, `Find`, `FindInside`, `Iterate`, `Reset` |
| call stacks | `stacktraces.h`, `stacktraces.cc` | `string_table_`, `trace_leaves_` | `GetCurrentCallTrace`, `Intern`, `GetTrace`, `Reset` |
| sampler | `sampler.h`, `sampler.cc` | the static period; per thread, a countdown and whether it has begun | `RecordAllocation`, `SetSamplePeriod` |
| extension module | `_profiler.cc` | whether the exit handler is registered, in CPython | import with the environment variables, `start`, `stop`, `clear_traces`, the queries, the exit handler |
| Python API | `mprofile/__init__.py` | immutable snapshots | grouping, comparing, filtering, scaling |

How they interact. CPython calls a wrapped function from any thread. The `mem`
and `obj` domains are called with the GIL held, the `raw` domain with or
without. The wrapper calls the base allocator and the heap profiler, in an order
that differs between allocation (base first), free (profiler first) and realloc
(base first, then free and allocation). `HandleMalloc` asks the thread's sampler;
for a sampled block it takes the GIL if the domain is raw, walks and interns the
stack under it, then takes `mu_` and writes the table and the counters.
`HandleFree` takes `mu_` only, never the GIL. A clear takes `mu_` with the GIL
held and resets everything, dropping references to Python strings, which may
free them, which is a wrapped free again. Walking the stack, and building the
Python objects of a snapshot, may start a garbage collection: finalizers are
Python code that runs in the middle of these, and may allocate, free, let other
threads have the GIL, or call the module. A fork copies the locks as they are.

What is hard here: two locks in two orders, one of them a spin lock taken by
threads that may hold the GIL; addresses that are reused the moment they are
free; call stacks that keep bare pointers to reference-counted strings; a table
of hand-linked lists; per-thread sampler state that outlives the profiler;
callbacks from CPython in the middle of an allocation.

What makes each component correct:

- *heap profiler and hooks*: an entry is that of the live block at its address;
  the total is the sum of the entries; the peak is the highest total; every
  access is under the right lock; every call returns.
- *spin lock*: mutual exclusion, and the lock is never lost.
- *address map*: it is a partial map, loses no entry, iterates over each key once.
- *call stacks*: a handle means one call stack until the next clear, a call stack
  has one handle, no string is used after it is freed or kept after a clear.
- *sampler*: the allocation with the marked byte is the sampled one.
- *extension module*: a call that raises has no effect; a snapshot is of one
  session; no profiler is left when the interpreter is gone.
- *Python API*: sums and counts of the groups are those of the traces.

The hazards, each at its line, are listed in `PROJECT.json` with the properties
that would catch them, or why none does yet.

## 2. Modules

| module | models | instance |
|---|---|---|
| `DataInduction` | lemmas for the proofs: induction on numbers, sums over sets | |
| `Mutex` | a lock, abstractly | |
| `SpinLock` | `spinlock.h`, instruction by instruction; refines `Mutex` | `MCSpinLock` |
| `TracedMemory` | what `get_traced_memory()` promises, abstractly | |
| `HeapProfiler` | the hooks and the heap profiler under threads, GIL and `mu_`; refines `TracedMemory` | `MCHeapProfiler` |
| `HeapProfilerProofs` | its invariants, the refinement and the total; then those of `ProfiledProcess`, and of `SpinLock` | |
| `ProfiledProcess` | `HeapProfiler` with finalizers in the stack walk, and fork | `MCProfiledProcess` |
| `PartialMap` | a map, abstractly | |
| `AddressMap` | `addressmap.h` down to the next pointers; refines `PartialMap` | `MCAddressMap` |
| `AddressMapProofs` | its lists, the refinement, `Iterate` and `FindInside` | |
| `MallocPatch` | the hooks' life, from `start()` to `stop()`, and nested calls | `MCMallocPatch` |
| `MallocPatchProofs` | its hooks, nesting and use of the GIL, and which calls a stop can harm | |
| `HeapSnapshot` | reading the profiler piece by piece; extends `TracedMemory` | `MCHeapSnapshot` |
| `HeapSnapshotProofs` | what a snapshot contains, and what can make it crash | |
| `SnapshotStatistics` | the Python API: grouping, scaling, comparing, filtering | `MCSnapshotStatistics` |
| `SnapshotStatisticsProofs` | that it adds up: the loops, the sort, the sums | |
| `CallTraceSet` | stack walking and interning, over the life of the strings | `MCCallTraceSet` |
| `CallTraceSetProofs` | its reference counts, its tree of frames, what `Intern` returns | |
| `Sampler` | the samplers of the threads | |
| `ExtensionModule` | import, start, stop, queries and exit; extends `Sampler` | `MCExtensionModule` |
| `ExtensionModuleProofs` | sessions, failures and samples there | |

The modules compose by abstraction: `HeapProfiler` takes `mu_` as the lock
`Mutex` describes, which `SpinLock` implements; `live_set_` as the function
`PartialMap` describes, which `AddressMap` implements; `traces_` as a set of
stacks, which `CallTraceSet` shows to be one (one handle a stack, its meaning
kept); and the sampler as a choice, which is every behaviour of `Sampler`.

Definitions whose comment begins with "Slip" are the code with a plausible
mistake in it. No specification uses them; putting one in the place of the
definition that follows it must make a run fail, which is how the properties
themselves are tested.

### HeapProfiler

A thread is idle, running the program, or inside one wrapped call, and `pc` says
where. Each label is a point where another thread can get in: before a lock is
taken, and between the writes under it. `frame` holds the call's arguments and
locals. Only the outermost wrapped call of a thread is modelled: `ReentrantScope`
makes nested ones plain base allocator calls. `WrappedFree(nullptr)` is left out:
`live_set_` never holds that key, so it changes nothing.

| code | actions |
|---|---|
| `WrappedMalloc`, `WrappedCalloc` | `WrappedMalloc`, `WrappedCalloc`, then `HandleMalloc` |
| `HandleMalloc` | `HandleMalloc`, `EnsureGIL`, ..., `ReleaseGILState` |
| `RecordMalloc` | `Intern`, `LockMu`, `Insert`, `AddTotal` |
| `WrappedFree` | `WrappedFree`, `LockMu`, `FindAndRemove`, `SubTotal`, `BaseFree` |
| `WrappedRealloc` | `WrappedRealloc` or `WrappedReallocNull`, then as free without `BaseFree`, then as malloc |
| `ResetHeapProfiler` | `ClearTraces`, `LockMu`, `Reset`, `DecrefLastString`, `ResetTraces` |

The base allocator is external. It returns any free address or nullptr, and has
an address back at once. Each block carries a bookkeeping bit, `recorded`: the
profiler recorded this block, and it was not freed or cleared since. It is what
lets an invariant compare the table with the truth.

Three constants say what callers do, and split the results in two:

- `RawReallocNoGil`: raw realloc is called without the GIL. CPython does this in
  `PyOS_StdioReadline`.
- `ReallocMayFail`: the base realloc may return nullptr.
- `StringsMayDie`: `string_table_` may hold the last reference to a string. It
  does after the code object it came from is gone, for instance of exec'd code.

`StringsMayDie` costs only liveness (a clear that waits for itself); each of the
other two breaks a safety property. Section 4 says which.

### ProfiledProcess

A thread that walks its stack is at label `intern` of `HeapProfiler`, between
taking the GIL and interning. There a finalizer may free or allocate a block of
the mem or obj domain, which `ReentrantScope` hides from the profiler, or give up
the GIL, which moves the thread to the label `finalizer`. `Fork` leaves one thread
`alive`: the others keep their label and never move again, and `mu_` stays as it
was. CPython gives the child a GIL of its own. Only the child is followed, as the
behaviours without `Fork` are the parent's. A finalizer that clears the traces is
left to `HeapSnapshot`, where it matters: here the walk has nothing interned yet.

### MallocPatch

`hook` is CPython's function and context for each domain, `g_base_allocators`
what attach has saved, `g_profiler` a number that tells profilers apart. `pc` is a
thread's place in `start()` or `stop()`, one label before each assignment that
another thread can see. `calls` is its stack of allocator calls: a call reads the
hook's function and context in two reads, enters the system's allocator or a
wrapper, and there runs the base allocator and reports to the profiler in the
order of its kind. A call may make one nested call where CPython does: pymalloc
hands a large block to the raw domain, `PyGILState_Ensure` allocates a thread
state, walking the stack may create objects. The destructor of the profiler
frees strings, which are calls of the stopping thread.

A sampled allocation reads the call stack at the label `walk`, with the GIL. There
a finalizer may run (`RunFinalizer`): Python code, which may call the allocators,
start or stop the profiler, or give the GIL to a thread that does. So a start or
stop may overlap the calls of any other thread. What the code does then with a
profiler that is gone is undefined; the model lets the call go on, or end in
`crash`, as it does when it finds `g_profiler` null or is handed a null context.
After a crash nothing happens. `exposed` is bookkeeping: the thread was without the
GIL when the call began, or has run a finalizer in it.

Bounds: at each label a call makes one nested call or runs one finalizer, and calls
nest up to `MaxDepth`. A finalizer that has given up the GIL makes no call before
it has it back; these would be nested raw calls, which reach the base allocator
only. `RawNoGil` says whether raw calls are made without the GIL. CPython makes
them; `FALSE` is for section 4, to tell which failure needs them.

### HeapSnapshot

The tables move by the actions of `TracedMemory`, which `HeapProfiler` is proved
to implement. The reader's labels are `next` (before `GetTrace`), `frames` (in
`NewPyTrace`, with borrowed strings), `intern` (before `GetSize`), `traceback`
(in `get_object_traceback()`), `peak` (between the two figures of
`get_traced_memory()`) and `crash`. At the first four it builds Python objects.
Their blocks may be recorded, at any free address; each allocation may fail; and
each may run a finalizer, which can do anything or give up the GIL to threads that
do. So in all four blocks are recorded and freed, the traces are cleared, and the
profiler is stopped and started again. A raw block can be freed without the GIL at
any label.

There are three ways to `crash`. `g_profiler` is looked at before the first call
only, so that the next one after a stop goes through a null pointer. A traceback
that could not be built is a null pointer too. And `NewPyTrace` holds bare pointers
to strings, which a clear or a stop may have freed (`StringsGone`): going through
them is undefined, and in the model it crashes or goes well. If it goes well the row
says what the trace said, which no property relies on: the address is in `gone`.

`at`, `gone` and `culprit` are bookkeeping: the table at `GetSnapshot`, what was
untraced since, and what may make the read crash. One reader is modelled; a second
`take_snapshot()` in a finalizer changes nothing of the first one's.

### SnapshotStatistics

Frames are triples of numbers in the order of the strings, `firstlineno` going
with the name; a pattern is the set of filenames it matches. The dict that
`_group_by` fills is a function, to which each trace, and each of its frames, adds;
the caches of `Traceback` objects in it are left out. The loops are recursive
functions over the list they go through. A sorted list has each element after
those of a greater key (`Sorted`), which no two groups share, since a key ends in
the traceback. `_scale_heap_sample`'s exponential is the constant `Scale`, a
fraction, and `ScaleUp` the product cut to an int. The instance has a series that is
within one percent. The state is an old and a new snapshot; the methods are
operators, and the properties compare them with what they mean, for all arguments.
`format()`, which only lays text out, is left out.

### AddressMap

Objects from `New` are elements of two sequences, pointers are indexes, 0 is
nullptr. `Insert` and `FindAndRemove` do what the code does to `next`, `blocks`,
`hashtable_` and `free_`. The hash function is a constant: the code's multiplies
modulo 2^32, and nothing depends on which function it is. A call is one step
because its callers hold `mu_`. Block, cluster, table and batch size are
constants; the code has 128 bytes, 8192 blocks, 4096 chains and 64 entries.

The loops over a list come in two kinds. `List` is what a loop visits that goes
through to the end; `First(objects, head, hits)` is where a loop stops that returns
at the first object with some property, `hits` being the objects that have it. Both
follow the `next` pointers and give up after as many hops as there are objects, so
that a list with a cycle shows as one that repeats instead of a loop that never ends.

### CallTraceSet

A string is an address with a content and a reference count, freed at zero and
reused. A frame's location is its filename alone: the name is handled by the same
calls, line numbers are plain integers. One step is one loop iteration of
`GetCurrentCallTrace` (`WalkFrame`) or of `Intern`, so that its two loops can be
read off the actions `FindFrame` and `InternFrame`. phmap's lookup hashes the
string's address and compares by content: `Lookup` finds an equal frame with the
same string object for sure, and one with another object only perhaps. `frames`
is the real stack, whose code objects are the program's; the walk reads it and the
properties compare it with what the handle says. Strings exist, by reference
count, before and after: the program makes and drops them when nobody records.

### Sampler and ExtensionModule

`Sampler` has one counter for each thread and one static period. A `sample_rate`
becomes an `int` (`ToInt`), so a large one may turn negative, which switches
sampling off. The generator is a choice of an interval between 0 and `MaxMeans`
periods (about 18 in the code). `drawn`, `drawnAt`, `passed` and `last` are
bookkeeping: the interval a counter was last set to, at which period, what was
allocated since, and the last call.

`ExtensionModule` is the process around it. `Import` reads the two environment
variables, registers the exit handler and may start the profiler; it can abort
the process, raise, or raise after starting. `start()`, `stop()` and the queries
are one step each, with the errors in the order the code checks them.
`take_snapshot()` is the four calls that `__init__.py` makes, with everything else
in between. `Exit` calls the handlers, and `Finalize` ends the interpreter.
Threads allocate between any two of these. `early`, `registered` and the fields
`of` and `restarted` of `snapshot` are bookkeeping.

## 3. Passing runs

| run | shows | bounds |
|---|---|---|
| `spin_lock` | `ImplementsMutex`, `SomeoneEnters` | four threads: a holder, a winner of the race and two that lose it |
| `heap_profiler` | `RecordedBlockHasEntry`, `EntryHasRecordedBlock`, `TotalIsSum`, `ImplementsTracedMemory`, also if strings die in a clear | two threads, two addresses, sizes 1 and 2, calloc that overflows `MaxSize` = 3, one stack; any blocks allocated before the start |
| `profiled_process` | `LockDiscipline`, `HandlesInterned`, `ForkInterruptsOnlyFrees`, `SomeCallReturns`, whatever finalizers, forks, failing reallocs and dying strings do | two threads, one of which may fork, two addresses, one size, one thing done by a finalizer |
| `malloc_patch` | `HooksHaveProfiler`, `HooksFollowProfiler`, `OnlyOutermostTraced`, `WalksHaveGIL`, `OnlyExposedCallsLost`, `CallsReturn`, with raw calls without the GIL and finalizers in the stack walk | two threads, two profilers one after the other, calls two deep |
| `extension_module` | `NoneLeftAtExit`, `SnapshotOfOneSession`, `FailedCallsChangeNothing`, `SampledIffMarked`, `FreshRateZeroSamplesAll`, `KeepsSampling` | one thread, ints up to 3, sizes 0, 1 and 3, rates 0, 1, 2 and one that is negative as an int, at most two frames and arguments below and above, environment values that are unset, garbage, negative, too large and cut off, two exit handlers |
| `heap_snapshot` | `SurvivorsExact`, `EveryBlockOnce`, `OnlyKnownCrashes`, `CurrentAtMostPeak`, whatever other threads and finalizers record, free, clear, stop and start, and with failing allocations | two addresses, a size that fits an int and one that does not, two stacks, two clears or stops |
| `snapshot_statistics` | `StatisticsAreSums`, `ScalingKeepsAverage`, `DiffsAddUp`, `FilterSelectsGroups` | pairs of snapshots of up to two traces, four tracebacks, one of them recursive in one function, sizes 0 and 3, a rate that scales and one that does not, five lists of filters |
| `address_map` | `EntriesAccountedFor`, `IterateVisitsEach`, `FindInsideFindsRange`, `ImplementsMap` | keys 0, 1 and 10: one shared block, two clusters in one chain, an unused cluster between them, two batches of two entries; range sizes 0 and 5 |
| `call_trace_set` | `NoDanglingString`, `RefcountsExact`, `InternedOnce`, `InternReturnsTrace`, `HandlesKeepTheirTrace` | three string objects, two contents and one that is skipped, stacks of up to three frames, a limit of two |

Why these bounds are enough. A conflict in the heap profiler is between two calls
over one address, and what an address was before matters only through its entry
and its block; two addresses are needed so that a realloc can move. `MaxSize` is
3 so that the one calloc that overflows does. A fork needs one thread that forks
and one that it leaves behind, and a second finalizer step only repeats the first.
In the address map the cases are a block with one or two entries, a chain with one
or two clusters and a free list that is empty or not. For the call stacks, two
objects of one content and one more to reuse an address. In a snapshot one address
changes hands and one stays, and a stop is followed by a start and a clear. A stop
meets a call that nests another at most, and a second profiler tells a new one from
the one that is gone. A group of statistics has no block, one or two; that
is where an element can be lost, doubled or mixed up. For the samplers, intervals
that are shorter than, equal to and longer than an allocation; one thread, since
a sampler is `thread_local` and a second one shares only the period, which starts
and stops change as well.

No run lists a `TypeOK`. Each holds in its run's instance and is there to read the
variables by; those of `SpinLock`, `HeapProfiler` (also in `ProfiledProcess`),
`MallocPatch`, `HeapSnapshot`, `CallTraceSet`, `ExtensionModule`, `AddressMap` and
`SnapshotStatistics` are proved.

Symmetry is used over threads, addresses, strings and stacks in safety runs only, where
no definition tells them apart. Deadlock is not checked where the modelled process
does come to an end or stop: a clear waits for itself (`heap_profiler`,
`profiled_process`), a fork leaves `mu_` locked (`profiled_process`), the
interpreter is gone (`extension_module`), a read or a call has crashed
(`heap_snapshot`, `malloc_patch`).
That the first two are the only ways for `GIL` and `mu_` to stop a process is what
`SomeCallReturns` says.

### Fairness

`HeapProfiler!Fairness`: a thread that waits for nothing takes its next step
(`Step`, weak); a thread waiting for `mu_` gets it if it stays free (`LockMu`,
weak); a thread running Python drops the GIL in the end (`ReleaseGIL`, weak),
since the evaluation loop honours a request to drop it; and a thread in
`PyGILState_Ensure` is not passed over for ever (`EnsureGIL`, strong), since
CPython makes a thread that was asked to drop the GIL wait until another has it.
`ProfiledProcess!PFairness` is the same for the threads that are alive, with
`GetGIL` for a finalizer that wants the GIL back. Nothing is assumed of the
program, and nothing that would make the spin lock fair: a thread may lose every
race for `mu_`. So `SomeCallReturns` says that some call returns, not that a given
one does, and it names the two cases in which the process does stop: `Orphaned`
and `StringDies`.

`SpinLock` assumes only that a running thread executes its instructions. In
`MallocPatch`, where `CallsReturn` is about every call, `ReleaseGIL` is strong: a
request to drop the GIL stays set until the evaluation loop honours it, however
many calls come first. `GoesOn` is strong as well: who waits for the GIL in
`PyGILState_Ensure` or at the end of a finalizer is not passed over for ever, a
finalizer ends, and a destructor drops finitely many references. None of it is
asked once a call has crashed, and `CallsReturn` is about the calls of a process
that has not. `KeepsSampling` assumes no fairness: what it needs of the program
is its premise.

## 4. What does not hold

Three runs end in a counterexample:

| run | property | finding |
|---|---|---|
| `raw_realloc_race` | `RecordedBlockHasEntry` | `WrappedRealloc` lets the old address go before untracing it; `malloc_patch.cc:92` says why free does not |
| `clear_deadlock` | `ClearReturns` | a clear that frees a string waits for the `mu_` it holds |
| `detach_race` | `ProfilerOutlivesCalls` | `stop()` destroys the profiler under a call that is in it (`malloc_patch.cc:224`); the run finds a raw call without the GIL |

TLC finds the following as well, when the cfg named checks the property and is
changed as said. The properties stay in their modules for that; no standing run
checks them there.

| cfg | change | property that fails | what the code does |
|---|---|---|---|
| `MCHeapProfiler` | `ReallocMayFail = TRUE` | `ReallocNewptrNotNull` | `HandleRealloc` is called with nullptr, against `heap.h:30` and its own assertion |
| `MCProfiledProcess` | `Forkers = {}`, `StringsMayDie` and `ReallocMayFail` `FALSE` | `EntryHasRecordedBlock` | a finalizer's free during the stack walk is nested and not reported, so that its entry stays, against `heap.h:59` ("Map of live pointer") |
| `MCDetachRace` | `RawNoGil = FALSE` | `ProfilerOutlivesCalls` | a finalizer in the stack walk of any call stops the profiler the call is in, or lets a thread in that does (`stacktraces.cc:76`) |
| `MCDetachRace` | none | `WrapperGetsItsAllocator` | a raw call without the GIL reads a hook that is half written, and may go through a null context (`malloc_patch.cc:209`); with `RawNoGil = FALSE` the property holds |
| `MCExtensionModule` | none | `ImportIsWhole` | an import that could not register the exit handler starts the profiler and then raises: the program has no module to stop it with (`_profiler.cc:185`) |
| `MCExtensionModule` | none | `SnapshotScaledByItsRate` | a `stop()` and `start()` between the four calls of `take_snapshot()` give old traces the new rate (`__init__.py:546`) |
| `MCExtensionModule` | none | `RateZeroSamplesAll` | after a session with a sample rate, a plain `start()` misses allocations |
| `MCHeapSnapshot` | none | `RowsAreOneBlock` | a row's traceback and size are read apart and may not belong together (`__init__.py:296`) |
| `MCHeapSnapshot` | none | `BorrowedStringsLive` | a clear frees the strings that `NewPyTrace` has bare pointers to (`malloc_patch.cc:110`), though `heap.h:65` has the GIL protect them: the reader allocates before it takes references |
| `MCHeapSnapshot` | none | `RowsMatchSnapshot` | a size of 2 GiB or more goes through an `int` (`malloc_patch.cc:177`) |
| `MCSnapshotStatistics` | none | `TracebackMostRecentFirst` | `Traceback` has the oldest frame first, its docstring says the most recent (`__init__.py:220`) |

With sizes of at most `IntMax`, `RowsMatchSnapshot` and `RowsAreOneBlock` fail as
well: a block that is freed meanwhile has a row without a size, or one whose
traceback is of the block before it.

`OnlyKnownCrashes`, which holds, names the three ways a read can crash: while the
rows are built the profiler is stopped (`malloc_patch.cc:146`), the strings of a
trace are cleared away (`malloc_patch.cc:110`), or `NewPyTrace` returns a nullptr
that goes on unchecked (`malloc_patch.cc:158`). In the same way
`OnlyExposedCallsLost` names the calls that a start or stop can make crash: those of
a thread without the GIL, and those in which a finalizer ran.
`_get_object_traceback()` raises `RuntimeError` without a profiler
(`_profiler.cc:117`), where the docstring of `get_object_traceback()` promises
`None` (`__init__.py:279`); the model (`NeedsProfiler`) has what the code does.

## 5. Proofs

The proof modules are checked by TLAPS from the constants' named assumptions only,
for any number of threads, addresses, sizes, stacks, starts and nested calls.
Where a theorem assumes more, its statement says so.

*SpinLock*, in the last section of `HeapProfilerProofs`. `MutualExclusion` with
`STypeOK` is inductive. The refinement follows step by step: the exchange that finds the flag clear is the abstract acquire.

*HeapProfiler* has two inductive invariants.

- `Inv` holds whatever the callers do. Its parts: the type invariant; what a
  frame contains at each label; which lock is held where (`LockDiscipline`); that
  an address a call works on is held by that call alone; that the call stacks are
  cleared only after the table; and `HandlesInterned`. The last one needs the lock
  part: a handle between `Intern` and `Insert` is safe because its thread has
  the GIL and a clear needs the GIL too.
- `BenignInv` holds when raw realloc has the GIL and no realloc fails (`Benign`).
  It adds that a realloc in flight has the GIL, that a block that is not recorded
  has no entry unless it is in a realloc's window, and the two directions of
  "entry equals recorded block". `RecordedBlockHasEntry` alone is not inductive:
  that the address of a fresh block has no entry follows from
  `EntryHasRecordedBlock`, and this in turn holds only if a window never overlaps
  another call on that address.

From them: `LocksProtectTables`, `NoDanglingHandles`, `HeapProfilerTypeCorrect`
without conditions, and under `Benign` `RecordedBlocksStay`, `NoStaleEntries`,
`NothingOverwritten` (of which `ImplementsTracedMemory` is the checked form) and
the refinement `HeapProfilerImplementsTracedMemory`, where `Insert` maps to
`Trace`, `FindAndRemove` to `Untrace`, `Reset` to `Clear` and every other step to
a stutter.

*ProfiledProcess.* `Inv` is an invariant of this too. The steps of a thread that is
alive are steps of `HeapProfiler`, for which it is already proved; a finalizer's
free and allocation touch no block in a call, and while a finalizer is without the
GIL nothing is interned yet. `OrphanOK` is added for the fork: who forks has the
GIL, so a thread left with `mu_` cannot be at a label that needs the GIL, and only
`remove` and `sub_total` do not. It never moves again, and nobody else takes `mu_`
(`OwnStep`). From it: `LocksProtectTablesThroughout`,
`NoDanglingHandlesThroughout`, `ForksInterruptOnlyFrees`.

*MallocPatch.* Nothing is assumed of who overlaps with a start or stop. `PatchInv`
joins the types, the stages of the hooks (`Stage`, `AtRest`), who has the GIL
(`GilInv`), and what the calls hold (`CallsOK`). `Stage` says for each label which
domains have their wrapper, whether there is a profiler, and that the base
allocators are saved; `AtRest` says that otherwise all is hooked or nothing. That
only one thread can be at a stage needs `ApiHasGIL`: who starts or stops keeps the
GIL. And this needs to know who gives a GIL back, which is `GilInv`: the GIL that a
raw call gives up in `PyGILState_Release` was given to that call, and at most one
call of a thread, an outermost scope, is recording (`OneRecords`). The types themselves depend on the stages: `stop()`
installs what `g_base_allocators` holds, which is an allocator only because it was
saved. From `PatchInv`: `MallocPatchTypeCorrect`, `HooksAlwaysHaveProfiler`,
`HooksAgreeWithProfiler`, `CallStackIsReadWithGIL`.
`OutermostScopeIsTheOnlyOne` follows from a part of it on a thread's calls and its
flag, `ReentryInv`, which a call pushed, a scope entered and a call popped each
preserve; lemmas about sequences say so.

`CallsThatKeepTheGILAreSafe` is from `CallsOK`: what a call that is not exposed has
read of its hook, and the profiler it is in, are still the ones in place. By
`GilOK` such a call is one of the thread that has the GIL. A step of `start()` or
`stop()` is made by the thread with the GIL, at Python code: all calls of the other
threads are exposed, and its own, if it has any, wait for the finalizer it is in
and are exposed too (`AllExposed`).

*CallTraceSet.* A count is positive because the string table or a trace has its
reference (`RefcountsExact`), and what they refer to is alive because of that
(`CountedAlive`, `NoDanglingString`): the three are inductive together. The lemmas
about `Occurrences` say what a frame added to a trace does to a count.
From it `RefcountsComeOutEven` and `NoFrameOutlivesItsStrings`.

The frames form a tree, and what a handle stands for is a recursion over its
parents. `Tree` is the invariant of it: a parent was there before its frame, and two
frames with one parent have strings of different content. The first makes the walk
of `GetTrace` end and lets a frame be added without changing what another handle
stands for; `TreeSteps` shows that every step of the program empties the tree or
adds one frame at most and leaves what its strings say. From it, by induction over
the tree, `HandlesAreStable`, and, with the second, `StacksAreInternedOnce`.
`InternReturnsTheStack` needs `Recording` besides: while the stack is walked the
frames kept so far are at their ranks (`Kept` counts them), and while it is interned
the handle reached tells the rest of the trace, from the outermost frame inwards.

*AddressMap.* A linked list is a sequence of distinct objects, each of which points
to the next (`Linked`); it is no longer than there are objects, hence `List` and
`First` come to what they should (`ListIs`, `LookIs`, two inductions over hops).
Above these lemmas only the set of a list's objects matters (`IsListOf`). The
invariant `TableInv` says that every cluster is on the chain of its hash and no two
have one id; that the free list is a list; and that every other entry is on the
list of the block of its key, for which there is a cluster, and no two have one key.
One lemma for each thing that is done to the lists keeps it: a cluster or an entry
that is pushed, a batch, a value that is set, an entry removed from the head or from
inside. Each also says how it changes which keys and values are in use (`Changes`),
and from this follows that `Find` reads what `PartialMap` says: `TableImplementsMap`.
`IterateVisits` concatenates disjoint lists block by block, cluster by cluster, hash
by hash, from which `IterateIsExact`, and with the free list `NoEntryIsLost`. For
`FindInsideIsRight` the loop of `FindInside` goes back over blocks with the invariant
that no later block has an entry at or before the address; `BackIs` is the step over
a block or a cluster there is none of, which is division by their sizes.
`TableTyped` says that no pointer dangles.

*ExtensionModule.* `ExitOK` says which profilers have been started before the exit
and have a handler still to come; `SnapshotOK` what each call of `take_snapshot()`
has seen unless `start()` came in between; `CounterOK` that a sampler's counter is
its interval less what was allocated since. From these `ProfilerStopsAtExit`,
`SnapshotIsOfOneSession`, `FailuresHaveNoEffect`, `OnlyMarkedBytesAreSampled` and
`RateZeroSamplesEverything`, for any arguments, environment and number of threads.

*HeapSnapshot.* `TodoOK` and `EveryBlockOnce` account for each address of the
snapshot as still to come, being read or having its row; `StoppedOK` and
`ClearedOK` say that if the profiler is missing during a read, or the strings of
the trace it holds, then a stop or a clear came while it was building. From
`ReadInv`: `TypeCorrect`, `SnapshotIsComplete`, `NoOtherCrashes`, `PairIsInOrder`;
with `KeptOK`, by which a block not in `gone` is in the tables as it was, also
`SurvivorsAreExact`.

*Data.* `HeapProfiler`'s total is a sum over a set, defined by the community modules
with a recursive function, and so are the walks over lists and trees. A recursive
function is a `CHOOSE` of one that satisfies its equation, so that each proof first
shows that there is one, and then uses nothing but the equation. The provers cannot
instantiate an induction theorem that takes an operator; `DataInduction` has
induction for a set of numbers instead, derived from the well-foundedness of finite
subsets, and what a sum is (`SumOf`), whichever element `CHOOSE` takes first.
`TotalsAreRight` follows: the refinement says how each step moves the current figure
and one size in the table, and `CurrentIsSum` that they always agree.

*SnapshotStatistics.* `SnapshotsTyped`, then the four properties, for any tracebacks,
sizes, filters and number of traces.

A *place* is a frame of a trace that the loop of `_group_by` adds: the first one, or
with `cumulative` each. `GroupsAccount`, by induction over traces and over the frames
of one, says what the dict is at the end: its keys are those of the places, and each
group has the number of its places and the sum of their sizes (`Accounts`). `KeyIs`
and `StandsIff` say which places share a key, namely those that look the same by the
key type. `SortedLists` needs the order of the sort to be total and the keys to
differ; the latter because a traceback can be read off its numbers
(`FlattenInjective`). With both, `StatisticsAddUp`.

`DifferencesAddUp`: the two loops of `_compare_grouped_stats` make one difference for
each traceback of either snapshot (`DifferencesAre`), and one that has no such group
counts 0 there. The totals are sums over the list, which are sums over those
tracebacks (`SumRenamed`, `SumZeros`, `SumMinus`).

`FilteringSelectsGroups`: the traces that are kept are in one-to-one correspondence
with those that pass (`FilterSelects`). Whether a trace passes can be told from its
key, the frames the other way round (`PassesReversed`), so that a group is kept
whole or not at all.

`ScalingKeepsAverages`, and these last two because of the scaled figures in them,
assume `ScaleIsFactor`: the scale is a fraction of natural numbers and at least 1,
for a group with a size and a count of at least 1. 1 / (1 - exp(-x)) is above 1 for
any x above 0. The fraction of the instance is one too, as 12qq - 6qs + ss is
positive. What this leaves out are doubles: Python also rounds the scale and the
product before the cut, and for an average size some 2^-53 of the rate the
difference in the divisor would be 0.

Only model-checked: liveness and everything about fairness, which is out of this
prover's reach. Each invariant of a passing run is proved, under the conditions that
its theorem states.

## 6. Not modelled

- `total_mem_traced_` modulo 2^64: the sizes of live blocks do not add up to it.
- `TryRecordAllocationFast`: nothing calls it. Nothing calls `FindInside` either,
  which is modelled as a part of the map it comes with.
- `get_tracemalloc_memory()`, a constant 0; `format()` of the statistics, layout.
- `log.*` (output), `scoped_object.h` (an alias), phmap (third party, taken as a
  set with hash lookup), tests, benchmarks, build files.
- What is in the plan below.

## 7. Plan

Done: all parts of the system as models; proofs of every safety property that a
run checks.

Left, in this order:

1. Theorems that carry a property from one module to another, where the text of
   section 2 still says that they fit: that `HeapSnapshot`'s tables move as those of
   `HeapProfiler` do, and that the sampler's choice in `HeapProfiler` is `Sampler`.
2. Two finalizer steps and three threads in `ProfiledProcess`, outside the
   standing runs.
