---------------------------- MODULE ProfiledProcess ----------------------------
(***************************************************************************)
(* The heap profiler in a process that does two things the profiler does   *)
(* not see coming.                                                         *)
(*                                                                         *)
(* GetCurrentCallTrace asks the interpreter for frame objects, and from    *)
(* Python 3.11 on making one may start a garbage collection.  Its          *)
(* finalizers run inside the wrapped call, where the ReentrantScope hides  *)
(* what they allocate and free, and they may give up the GIL.              *)
(*                                                                         *)
(* fork() copies the process with one thread: the locks stay as they are,  *)
(* the threads that would have released them are gone.  CPython makes the  *)
(* GIL anew for the child; nobody does so for mu_.  The model follows the  *)
(* child, as the behaviours without Fork are those of the parent.          *)
(***************************************************************************)
EXTENDS HeapProfiler

CONSTANTS
  Forkers,      \* the threads that may call os.fork()
  MaxCollected  \* bound: how many things the finalizers do

ASSUME ProcessAssumption == Forkers \subseteq Threads /\ MaxCollected \in Nat

VARIABLES
  alive,      \* the threads of the process
  collected   \* how many things the finalizers did

process == <<alive, collected>>
pvars == <<vars, process>>

\* A thread that walks the stack, while a finalizer has given up the GIL.
Away == "finalizer"

PTypeOK ==
  /\ alive \in SUBSET Threads \ {{}} /\ collected \in 0..MaxCollected
  /\ TypeOK

PInit == Init /\ alive = Threads /\ collected = 0

-----------------------------------------------------------------------------
\* Thread t walks its stack, from where it has the GIL to the call of Intern.
Walking(t) == pc[t] = "intern" /\ collected < MaxCollected

\* A wrapped free in a nested scope: the base allocator gets the block back,
\* and the profiler is not told.
FinalizerFrees(t, p) ==
  /\ Walking(t) /\ Owned(p)
  /\ heap' = [heap EXCEPT ![p] = NoBlock]
  /\ collected' = collected + 1
  /\ UNCHANGED <<gil, mu_, tables, pc, frame, alive>>

FinalizerAllocates(t, p, s) ==
  /\ Walking(t) /\ p \in FreePtrs
  /\ heap' = [heap EXCEPT ![p] = NewBlock(s, FALSE)]
  /\ collected' = collected + 1
  /\ UNCHANGED <<gil, mu_, tables, pc, frame, alive>>

FinalizerDropsGIL(t) ==
  /\ Walking(t)
  /\ gil' = NoThread
  /\ Goto(t, Away)
  /\ collected' = collected + 1
  /\ UNCHANGED <<mu_, tables, heap, frame, alive>>

FinalizerRetakesGIL(t) ==
  /\ pc[t] = Away /\ gil = NoThread
  /\ gil' = t
  /\ Goto(t, "intern")
  /\ UNCHANGED <<mu_, tables, heap, frame, process>>

\* os.fork() in Python code.  The child's only thread has the GIL; the others'
\* labels and frames stay as a record of where they were.
Fork(t) ==
  /\ t \in Forkers /\ pc[t] = "idle" /\ gil = t
  /\ alive # {t} /\ alive' = {t}
  /\ UNCHANGED <<vars, collected>>

-----------------------------------------------------------------------------
PStep(t) == Step(t) /\ UNCHANGED process

\* A thread inside a wrapped call asks for the GIL, and gets it.
GetGIL(t) == (EnsureGIL(t) /\ UNCHANGED process) \/ FinalizerRetakesGIL(t)

PNext ==
  \E t \in alive :
    \/ PStep(t) \/ GetGIL(t)
    \/ /\ AcquireGIL(t) \/ ReleaseGIL(t) \/ LockMu(t) \/ Call(t)
       /\ UNCHANGED process
    \/ \E p \in Ptrs : FinalizerFrees(t, p)
    \/ \E p \in Ptrs, s \in Sizes : FinalizerAllocates(t, p, s)
    \/ FinalizerDropsGIL(t) \/ Fork(t)

PSpec == PInit /\ [][PNext]_pvars

\* As in HeapProfiler, for the threads there are; a finalizer ends, and gets
\* the GIL back like anybody who waits for it.
PFairness ==
  \A t \in Threads :
    /\ WF_pvars(t \in alive /\ PStep(t))
    /\ WF_pvars(t \in alive /\ LockMu(t) /\ UNCHANGED process)
    /\ WF_pvars(t \in alive /\ ReleaseGIL(t) /\ UNCHANGED process)
    /\ SF_pvars(t \in alive /\ GetGIL(t))

FairPSpec == PSpec /\ PFairness

-----------------------------------------------------------------------------
\* mu_ was held by a thread that a fork left behind (heap.h:57).
Orphaned == mu_ \notin alive \cup {NoThread}

\* A clear waits for the lock it has, to free a string (heap.cc:62).
StringDies == \E t \in alive : mu_ = t /\ pc[t] = "lock_remove"

(***************************************************************************)
(* Nobody records without the GIL, and who forks has it: what a fork can   *)
(* interrupt is a HandleFree, never a block half put in the table          *)
(* (heap.h:114, heap.cc:17-22).                                            *)
(***************************************************************************)
ForkInterruptsOnlyFrees == Orphaned => pc[mu_] \in {"remove", "sub_total"}

(***************************************************************************)
(* The wrapped calls make progress: unless every thread is back in the     *)
(* program for good, calls keep returning.  GIL and mu_ never wait for     *)
(* each other (heap.h:114), whatever finalizers do in between.  The two    *)
(* exceptions do stop the process.                                         *)
(***************************************************************************)
SomeCallReturns ==
  \/ <>(Orphaned \/ StringDies)
  \/ <>[](\A t \in alive : pc[t] = "idle")
  \/ []<><<\E t \in alive : pc[t] # "idle" /\ pc'[t] = "idle">>_pvars
=============================================================================
