------------------------------ MODULE MallocPatch ------------------------------
(***************************************************************************)
(* The life of g_profiler and of the hooks (malloc_patch.cc): start() and  *)
(* stop() while threads allocate and free.                                 *)
(*                                                                         *)
(* Here a wrapped call is followed through the hook it was called by, the  *)
(* base allocator, which calls other domains in turn, and the profiler it  *)
(* reports to; what the profiler does with the report is HeapProfiler.     *)
(* malloc, calloc and realloc call the base allocator first and the        *)
(* profiler then: they are one operation, "alloc".  "free" has the order   *)
(* reversed.                                                               *)
(*                                                                         *)
(* The mem and obj domains are called with the GIL held, the raw domain    *)
(* with or without.  Reading the call stack may run finalizers, which are  *)
(* Python code of their thread: they call the allocators, start and stop,  *)
(* and let other threads have the GIL.                                     *)
(***************************************************************************)
EXTENDS Naturals, Sequences, FiniteSets

CONSTANTS
  Threads, NoThread,
  MaxStarts,    \* bound: how often a profiler is attached
  MaxDepth,     \* bound: calls inside one another
  RawNoGil      \* are calls of the raw domain made without the GIL?

ASSUME PatchAssumption ==
  /\ NoThread \notin Threads
  /\ MaxStarts \in Nat
  /\ MaxDepth \in Nat \ {0}
  /\ RawNoGil \in BOOLEAN

VARIABLES
  gil,                \* who holds the GIL
  g_profiler,         \* which profiler is attached, 0 for nullptr
  started,            \* how many there were
  g_base_allocators,  \* what is saved for each domain
  hook,               \* CPython's allocator of each domain
  is_active_,         \* of each thread
  calls,              \* its allocator calls, the innermost first
  pc                  \* where it is in start() or stop()

vars == <<gil, g_profiler, started, g_base_allocators, hook, is_active_, calls, pc>>
patch == <<g_profiler, started, g_base_allocators, hook>>

Domains == {"raw", "mem", "obj"}

\* A PyMemAllocatorEx is a function and the context it is called with.  The
\* context of a wrapper is the base allocator of a domain.
Unset == [fn |-> "nullptr", ctx |-> "nullptr"]
System == [fn |-> "system", ctx |-> "nullptr"]
Wrapper(d) == [fn |-> "wrapped", ctx |-> d]
Allocator == {System} \cup {Wrapper(d) : d \in Domains}

(***************************************************************************)
(* A call of domain dom.  It reads the function and the context from the   *)
(* hook, in any order; then it is "in" the function, has its base          *)
(* allocator at work ("base"), is in a member function of profiler         *)
(* ("handle"), waits there for the GIL ("ensure"), reads and records the   *)
(* call stack ("walk"), is interrupted in this by a finalizer, or has      *)
(* followed a pointer that leads nowhere ("crash").  Its nested says that  *)
(* it has made a call, or run a finalizer, where it is.                    *)
(* Bookkeeping: since it began, its thread was without the GIL or ran a    *)
(* finalizer (exposed).                                                    *)
(***************************************************************************)
Call == [dom : Domains, op : {"alloc", "free"},
         fn : {"unread", "system", "wrapped"},
         ctx : Domains \cup {"unread", "nullptr"},
         at : {"call", "base", "handle", "ensure", "walk", "finalizer", "crash", "return"},
         is_outer_scope_ : BOOLEAN, profiler : 0..MaxStarts,
         ensured : BOOLEAN, nested : BOOLEAN, exposed : BOOLEAN]

NewCall(d, op, hasGIL) ==
  [dom |-> d, op |-> op, fn |-> "unread", ctx |-> "unread",
   at |-> "call", is_outer_scope_ |-> FALSE, profiler |-> 0,
   ensured |-> FALSE, nested |-> FALSE, exposed |-> ~hasGIL]

InCall(t) == calls[t] # <<>>
Top(t) == Head(calls[t])
SetTop(t, c) == calls' = [calls EXCEPT ![t] = <<c>> \o Tail(@)]
Labels == {"run", "attach", "save", "hook raw", "hook mem", "hook obj",
           "unhook raw", "unhook mem", "unhook obj", "reset", "destructor"}
Goto(t, label) == pc' = [pc EXCEPT ![t] = label]

InApi(t) == pc[t] # "run"
HasGIL(t) == gil = t

\* A thread is at Python code that can do anything, not inside an allocator.
RunsPython(t) == InCall(t) => Top(t).at = "finalizer"

\* The process is gone.
Crashed == \E t \in Threads : InCall(t) /\ Top(t).at = "crash"

Init ==
  /\ gil = NoThread /\ g_profiler = 0 /\ started = 0
  /\ g_base_allocators = [d \in Domains |-> Unset]
  /\ hook = [d \in Domains |-> System]
  /\ is_active_ = [t \in Threads |-> FALSE]
  /\ calls = [t \in Threads |-> <<>>]
  /\ pc = [t \in Threads |-> "run"]

-----------------------------------------------------------------------------
\* Start and stop, which have the GIL throughout.

\* Slip: no error when the profiler is already running.
StartProfilerUnchecked(t) ==
  /\ HasGIL(t) /\ RunsPython(t) /\ ~InApi(t)
  /\ started < MaxStarts
  /\ Goto(t, "attach")
  /\ UNCHANGED <<gil, patch, is_active_, calls>>

StartProfiler(t) ==
  /\ HasGIL(t) /\ RunsPython(t) /\ ~InApi(t)
  /\ g_profiler = 0
  /\ started < MaxStarts
  /\ Goto(t, "attach")
  /\ UNCHANGED <<gil, patch, is_active_, calls>>

PublishProfiler(t) ==
  /\ pc[t] = "attach"
  /\ started' = started + 1
  /\ g_profiler' = started'
  /\ Goto(t, "save")
  /\ UNCHANGED <<gil, g_base_allocators, hook, is_active_, calls>>

\* The three reads are one step: only the holder of the GIL writes a hook, and
\* no wrapper is in place that would use what is saved.
SaveBaseAllocators(t) ==
  /\ pc[t] = "save"
  /\ g_base_allocators' = hook
  /\ Goto(t, "hook raw")
  /\ UNCHANGED <<gil, g_profiler, started, hook, is_active_, calls>>

SetAllocator(t, d, alloc, at, next) ==
  /\ pc[t] = at
  /\ hook' = [hook EXCEPT ![d] = alloc]
  /\ Goto(t, next)
  /\ UNCHANGED <<gil, g_profiler, started, g_base_allocators, is_active_, calls>>

HookDomain(t) ==
  \/ SetAllocator(t, "raw", Wrapper("raw"), "hook raw", "hook mem")
  \/ SetAllocator(t, "mem", Wrapper("mem"), "hook mem", "hook obj")
  \/ SetAllocator(t, "obj", Wrapper("obj"), "hook obj", "run")

\* Slip: lets the other threads run meanwhile.
StopProfilerNoGIL(t) ==
  /\ HasGIL(t) /\ RunsPython(t) /\ ~InApi(t)
  /\ g_profiler # 0
  /\ gil' = NoThread
  /\ Goto(t, "unhook raw")
  /\ UNCHANGED <<patch, is_active_, calls>>

StopProfiler(t) ==
  /\ HasGIL(t) /\ RunsPython(t) /\ ~InApi(t)
  /\ g_profiler # 0
  /\ Goto(t, "unhook raw")
  /\ UNCHANGED <<gil, patch, is_active_, calls>>

\* Slip: the mem domain is forgotten.
UnhookDomainNotMem(t) ==
  \/ SetAllocator(t, "raw", g_base_allocators["raw"], "unhook raw", "unhook obj")
  \/ SetAllocator(t, "obj", g_base_allocators["obj"], "unhook obj", "reset")

UnhookDomain(t) ==
  \/ SetAllocator(t, "raw", g_base_allocators["raw"], "unhook raw", "unhook mem")
  \/ SetAllocator(t, "mem", g_base_allocators["mem"], "unhook mem", "unhook obj")
  \/ SetAllocator(t, "obj", g_base_allocators["obj"], "unhook obj", "reset")

\* unique_ptr clears the pointer, then runs the destructor, which drops the
\* references of string_table_ and may so free strings.
ResetProfiler(t) ==
  /\ pc[t] = "reset"
  /\ g_profiler' = 0
  /\ Goto(t, "destructor")
  /\ UNCHANGED <<gil, started, g_base_allocators, hook, is_active_, calls>>

DecrefString(t) ==
  /\ pc[t] = "destructor" /\ RunsPython(t) /\ Len(calls[t]) < MaxDepth
  /\ calls' = [calls EXCEPT ![t] = <<NewCall("obj", "free", HasGIL(t))>> \o @]
  /\ UNCHANGED <<gil, patch, is_active_, pc>>

Destroyed(t) ==
  /\ pc[t] = "destructor" /\ RunsPython(t)
  /\ Goto(t, "run")
  /\ UNCHANGED <<gil, patch, is_active_, calls>>

-----------------------------------------------------------------------------
\* Allocator calls.

\* A finalizer that gave the GIL up waits for it: raw calls it could make
\* meanwhile are left out (they are nested, and so go to the base allocator only).
CallAllocator(t, d, op) ==
  /\ RunsPython(t) /\ ~InApi(t) /\ Len(calls[t]) < MaxDepth
  /\ HasGIL(t) \/ (d = "raw" /\ RawNoGil /\ ~InCall(t))
  /\ calls' = [calls EXCEPT ![t] = <<NewCall(d, op, HasGIL(t))>> \o @]
  /\ UNCHANGED <<gil, patch, is_active_, pc>>

\* CPython calls hook.fn(hook.ctx, ...): two reads, nothing orders them with a
\* PyMem_SetAllocator in another thread.
ReadFn(t) ==
  /\ InCall(t) /\ Top(t).at = "call" /\ Top(t).fn = "unread"
  /\ SetTop(t, [Top(t) EXCEPT !.fn = hook[Top(t).dom].fn])
  /\ UNCHANGED <<gil, patch, is_active_, pc>>

ReadCtx(t) ==
  /\ InCall(t) /\ Top(t).at = "call" /\ Top(t).ctx = "unread"
  /\ SetTop(t, [Top(t) EXCEPT !.ctx = hook[Top(t).dom].ctx])
  /\ UNCHANGED <<gil, patch, is_active_, pc>>

\* The allocator that was there before: its whole work is one step here,
\* except that mem and obj turn to raw for a large block (Delegate).
EnterSystem(t) ==
  /\ InCall(t) /\ Top(t).at = "call" /\ Top(t).fn = "system" /\ Top(t).ctx # "unread"
  /\ SetTop(t, [Top(t) EXCEPT !.at = "base"])
  /\ UNCHANGED <<gil, patch, is_active_, pc>>

\* WrappedMalloc and the others: the ReentrantScope, then the base allocator,
\* or, for a free in the outermost call, the profiler.
EnterWrapper(t) ==
  /\ InCall(t) /\ Top(t).at = "call" /\ Top(t).fn = "wrapped" /\ Top(t).ctx # "unread"
  /\ LET outer == ~is_active_[t]
         reports == Top(t).op = "free" /\ outer
         lost == \/ Top(t).ctx = "nullptr"
                 \/ reports /\ g_profiler = 0
     IN /\ is_active_' = [is_active_ EXCEPT ![t] = TRUE]
        /\ SetTop(t, [Top(t) EXCEPT
             !.is_outer_scope_ = outer,
             !.at = IF lost THEN "crash" ELSE IF reports THEN "handle" ELSE "base",
             !.profiler = IF reports /\ ~lost THEN g_profiler ELSE 0])
  /\ UNCHANGED <<gil, patch, pc>>

\* pymalloc passes a large block on to the raw domain; PyGILState_Ensure
\* allocates a thread state there; and reading the call stack may allocate
\* objects.
Delegate(t, d, op) ==
  /\ InCall(t) /\ ~Top(t).nested /\ Len(calls[t]) < MaxDepth
  /\ \/ Top(t).at = "base" /\ Top(t).dom # "raw"
        /\ d = "raw" /\ op = Top(t).op
     \/ Top(t).at = "ensure" /\ d = "raw" /\ op = "alloc"
     \/ Top(t).at = "walk" /\ d = "obj"
  /\ calls' = [calls EXCEPT ![t] =
       <<NewCall(d, op, HasGIL(t)), [Top(t) EXCEPT !.nested = TRUE]>> \o Tail(@)]
  /\ UNCHANGED <<gil, patch, is_active_, pc>>

\* alloc->malloc(alloc->ctx, ...) is done; HooksHaveProfiler says that it is not
\* a wrapper, which would call itself for ever.  For an allocation the
\* outermost wrapper goes on into HandleMalloc, which returns for a block that is
\* not sampled, and otherwise records it, in the raw domain under the GIL.
AfterBase(t, isRaw) ==
  /\ InCall(t) /\ Top(t).at = "base"
  /\ IF Top(t).op = "alloc" /\ Top(t).is_outer_scope_
     THEN \E next \in IF g_profiler = 0 THEN {"crash"}
                      ELSE {"handle", IF isRaw THEN "ensure" ELSE "walk"} :
            SetTop(t, [Top(t) EXCEPT !.at = next, !.nested = FALSE, !.profiler = g_profiler])
     ELSE SetTop(t, [Top(t) EXCEPT !.at = "return"])
  /\ UNCHANGED <<gil, patch, is_active_, pc>>

\* Slip: is_raw is not passed on.
BaseReturnsNotRaw(t) == AfterBase(t, FALSE)
BaseReturns(t) == AfterBase(t, Top(t).ctx = "raw")

\* Slip: takes the GIL although the thread may have it.
EnsureGILAgain(t) ==
  /\ InCall(t) /\ Top(t).at = "ensure"
  /\ gil = NoThread
  /\ gil' = t
  /\ SetTop(t, [Top(t) EXCEPT !.at = "walk", !.nested = FALSE, !.ensured = TRUE])
  /\ UNCHANGED <<patch, is_active_, pc>>

\* PyGILState_Ensure.
EnsureGIL(t) ==
  /\ InCall(t) /\ Top(t).at = "ensure"
  /\ gil \in {t, NoThread}
  /\ gil' = t
  /\ SetTop(t, [Top(t) EXCEPT !.at = "walk", !.nested = FALSE, !.ensured = (gil # t)])
  /\ UNCHANGED <<patch, is_active_, pc>>

\* Reading the call stack creates objects, which may start a garbage collection.
RunFinalizer(t) ==
  /\ InCall(t) /\ Top(t).at = "walk" /\ ~Top(t).nested
  /\ calls' = [calls EXCEPT ![t] = [i \in DOMAIN @ |->
       [calls[t][i] EXCEPT !.exposed = TRUE, !.nested = TRUE,
                           !.at = IF i = 1 THEN "finalizer" ELSE @]]]
  /\ UNCHANGED <<gil, patch, is_active_, pc>>

\* It ends with the GIL, which it waits for if it gave it up.
FinalizerEnds(t) ==
  /\ InCall(t) /\ Top(t).at = "finalizer" /\ ~InApi(t)
  /\ gil \in {t, NoThread}
  /\ gil' = t
  /\ SetTop(t, [Top(t) EXCEPT !.at = "walk"])
  /\ UNCHANGED <<patch, is_active_, pc>>

\* HandleMalloc or HandleFree returns; PyGILState_Release.  A free goes on to
\* the base allocator.  In a profiler that was destroyed meanwhile it may not
\* come to that.
HandleReturns(t) ==
  /\ InCall(t) /\ Top(t).at \in {"handle", "walk"}
  /\ gil' = IF Top(t).ensured THEN NoThread ELSE gil
  /\ \E next \in (IF Top(t).profiler = g_profiler THEN {} ELSE {"crash"})
                    \cup {IF Top(t).op = "free" THEN "base" ELSE "return"} :
       SetTop(t, [Top(t) EXCEPT !.at = next,
                    !.profiler = 0, !.nested = FALSE, !.ensured = FALSE])
  /\ UNCHANGED <<patch, is_active_, pc>>

\* Slip: ~ReentrantScope clears the flag for nested scopes too.
ReturnClearsAlways(t) ==
  /\ InCall(t) /\ Top(t).at = "return"
  /\ is_active_' = [is_active_ EXCEPT ![t] = IF Top(t).fn = "wrapped" THEN FALSE ELSE @]
  /\ calls' = [calls EXCEPT ![t] = Tail(@)]
  /\ UNCHANGED <<gil, patch, pc>>

\* ~ReentrantScope.
Return(t) ==
  /\ InCall(t) /\ Top(t).at = "return"
  /\ is_active_' = [is_active_ EXCEPT ![t] = @ /\ ~Top(t).is_outer_scope_]
  /\ calls' = [calls EXCEPT ![t] = Tail(@)]
  /\ UNCHANGED <<gil, patch, pc>>

-----------------------------------------------------------------------------
\* The interpreter hands the GIL on between allocator calls.

AcquireGIL(t) ==
  /\ gil = NoThread /\ RunsPython(t) /\ ~InApi(t)
  /\ gil' = t
  /\ UNCHANGED <<patch, is_active_, calls, pc>>

ReleaseGIL(t) ==
  /\ HasGIL(t) /\ RunsPython(t) /\ ~InApi(t)
  /\ gil' = NoThread
  /\ UNCHANGED <<patch, is_active_, calls, pc>>

ApiStep(t) ==
  \/ PublishProfiler(t) \/ SaveBaseAllocators(t) \/ HookDomain(t)
  \/ UnhookDomain(t) \/ ResetProfiler(t) \/ Destroyed(t)

CallStep(t) ==
  \/ ReadFn(t) \/ ReadCtx(t) \/ EnterSystem(t) \/ EnterWrapper(t)
  \/ BaseReturns(t) \/ HandleReturns(t) \/ Return(t)

Next == ~Crashed /\ \E t \in Threads :
  \/ StartProfiler(t) \/ StopProfiler(t) \/ ApiStep(t) \/ DecrefString(t)
  \/ \E d \in Domains, op \in {"alloc", "free"} : CallAllocator(t, d, op) \/ Delegate(t, d, op)
  \/ CallStep(t) \/ EnsureGIL(t) \/ RunFinalizer(t) \/ FinalizerEnds(t)
  \/ AcquireGIL(t) \/ ReleaseGIL(t)

\* At most one of these is enabled: a thread does not stay where it waits for the
\* GIL, in a finalizer or in a destructor.
GoesOn(t) == EnsureGIL(t) \/ FinalizerEnds(t) \/ Destroyed(t)

\* As in HeapProfiler: threads run, and who waits for the GIL is not passed over
\* for ever.  A request to drop the GIL stays set until the evaluation loop
\* honours it, however many allocator calls come first.  Finalizers come to an
\* end, and so do the references a destructor drops.
Fairness == \A t \in Threads :
  /\ WF_vars(~Crashed /\ (ApiStep(t) \/ CallStep(t)))
  /\ SF_vars(~Crashed /\ ReleaseGIL(t)) /\ SF_vars(~Crashed /\ GoesOn(t))

Spec == Init /\ [][Next]_vars
FairSpec == Spec /\ Fairness

-----------------------------------------------------------------------------
\* Properties.

TypeOK ==
  /\ gil \in Threads \cup {NoThread}
  /\ g_profiler \in 0..MaxStarts /\ started \in 0..MaxStarts
  /\ g_base_allocators \in [Domains -> Allocator \cup {Unset}]
  /\ hook \in [Domains -> Allocator]
  /\ is_active_ \in [Threads -> BOOLEAN]
  /\ calls \in [Threads -> Seq(Call)]
  /\ \A t \in Threads : Len(calls[t]) <= MaxDepth
  /\ pc \in [Threads -> Labels]

\* Whatever overlaps: while a wrapper is in place there is a profiler for it to
\* report to, its context is its own domain's base allocator, and that is not a
\* wrapper (or every call would call itself).
HooksHaveProfiler == \A d \in Domains : hook[d] # System =>
  /\ hook[d] = Wrapper(d)
  /\ g_profiler # 0
  /\ g_base_allocators[d] = System

\* Whatever overlaps: outside start and stop the three domains are hooked
\* together, exactly while is_tracing() is true.
HooksFollowProfiler ==
  (\A t \in Threads : ~InApi(t) \/ pc[t] = "destructor")
    => \A d \in Domains : (hook[d] # System) <=> (g_profiler # 0)

\* Whatever overlaps: is_active_ is set exactly while the thread is inside a
\* wrapper, and of the wrappers it is inside only the outermost reports to the
\* profiler.
Wrappers(t) == {i \in 1..Len(calls[t]) : calls[t][i].fn = "wrapped" /\ calls[t][i].at # "call"}
OnlyOutermostTraced == \A t \in Threads :
  /\ is_active_[t] <=> Wrappers(t) # {}
  /\ \A i \in Wrappers(t) :
       calls[t][i].is_outer_scope_ <=> \A j \in Wrappers(t) : j <= i

\* The call stack is read with the GIL held (heap.cc:4, heap.h:65), by a call of
\* whichever domain, whatever calls and finalizers came in between.
WalksHaveGIL == \A t \in Threads : \A i \in 1..Len(calls[t]) :
  calls[t][i].at = "walk" => HasGIL(t)

\* A call is in a profiler that was destroyed, went through a null pointer, or
\* was handed the base allocator of another domain.
InDestroyed(c) == c.profiler \notin {0, g_profiler}
Mismatched(c) == c.fn = "wrapped" /\ c.at # "call" /\ c.ctx # c.dom

\* The start or stop of another thread, or of a finalizer, can do that to no call
\* but one whose thread was without the GIL or ran a finalizer in it.
OnlyExposedCallsLost == \A t \in Threads : \A i \in 1..Len(calls[t]) :
  LET c == calls[t][i] IN c.at = "crash" \/ InDestroyed(c) \/ Mismatched(c) => c.exposed

\* What a stop() should see to: while a call is in a member function of a
\* profiler, or about to be, that profiler is not destroyed, and no call finds
\* g_profiler null.
ProfilerOutlivesCalls == \A t \in Threads : \A i \in 1..Len(calls[t]) :
  /\ calls[t][i].at = "crash" => calls[t][i].ctx = "nullptr"
  /\ ~InDestroyed(calls[t][i])

\* What a start() or stop() should see to: a wrapper is handed the base allocator
\* of the domain it was called for.
WrapperGetsItsAllocator == \A t \in Threads : \A i \in 1..Len(calls[t]) :
  ~Mismatched(calls[t][i])

\* Every allocator call returns, whoever holds the GIL when it needs it, unless
\* one crashes.
CallsReturn == \A t \in Threads : InCall(t) ~> ~InCall(t) \/ Crashed
=============================================================================
