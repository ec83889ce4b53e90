--------------------------- MODULE ExtensionModule ---------------------------
(***************************************************************************)
(* _profiler.cc from import to exit, and take_snapshot() of __init__.py,   *)
(* which calls it four times: what the program can do to the profiler, and *)
(* in what order, composed with the samplers of its threads (Sampler).     *)
(*                                                                         *)
(* A function of _profiler.cc runs under the GIL and is one step; how      *)
(* start() and stop() look to raw calls without it is MallocPatch, what    *)
(* the tables hold is HeapProfiler.  Between two functions any thread may  *)
(* run.  Arguments are the integers the program writes: "L" reads them     *)
(* into 64 bits, strtol and SetSamplePeriod cut them down to an int.       *)
(***************************************************************************)
EXTENDS Sampler

CONSTANTS
  Frames, Rates,         \* the arguments of start()
  EnvFrames, EnvRates,   \* the values of MPROFILEFRAMES and MPROFILERATE
  Unset, Garbage,        \* no value, and one that is not a number
  kMaxFramesToCapture,
  MaxHandlers            \* bound: exit handlers registered by imports

ASSUME ExtensionAssumption ==
  /\ Frames \cup Rates \subseteq Int
  /\ (EnvFrames \cup EnvRates) \ {Unset, Garbage} \subseteq Int
  /\ Unset # Garbage
  /\ {kMaxFramesToCapture, MaxHandlers} \subseteq Nat
  /\ kMaxFramesToCapture <= IntMax

VARIABLES
  phase,        \* of the process
  imported,     \* has the program got the module?
  handlers,     \* how often _atexit is registered and not yet called
  attached,     \* is g_profiler set?
  max_frames_,  \* of g_profiler
  raised,       \* the exception that ended the last call
  snapshot,     \* the take_snapshot() under way, or what the last returned
  early,        \* bookkeeping: did start() come before the exit began?
  registered    \* bookkeeping: did an import get to register before that?

session == <<attached, max_frames_, early>>
atexit == <<handlers, registered>>
vars == <<svars, session, phase, imported, atexit, raised, snapshot>>

\* The parameters traces are recorded with.
Parameters == [rate : Int32, limit : 0..kMaxFramesToCapture]
NoParameters == [rate |-> 0, limit |-> 0]
Current == [rate |-> sampling_rate_, limit |-> max_frames_]

\* "at" is the call take_snapshot() makes next; "of" the parameters of its
\* traces, if it has any; "restarted" says that start() was called since.
Snapshots == [at : {"none", "traces", "limit", "rate", "returned"},
              traces : BOOLEAN, of : Parameters,
              limit : 0..kMaxFramesToCapture \cup {1}, rate : Int32, restarted : BOOLEAN]
NoSnapshot == [at |-> "none", traces |-> FALSE, of |-> NoParameters,
               limit |-> 0, rate |-> 0, restarted |-> FALSE]

TypeOK ==
  /\ STypeOK
  /\ phase \in {"running", "exiting", "finalized", "aborted"}
  /\ imported \in BOOLEAN /\ attached \in BOOLEAN
  /\ early \in BOOLEAN /\ registered \in BOOLEAN
  /\ handlers \in 0..MaxHandlers
  /\ max_frames_ \in 0..kMaxFramesToCapture
  /\ raised \in {"none", "RuntimeError", "ValueError", "SystemError"}
  /\ snapshot \in Snapshots

Init ==
  /\ SInit
  /\ phase = "running" /\ imported = FALSE /\ handlers = 0 /\ registered = FALSE
  /\ attached = FALSE /\ max_frames_ = 0 /\ early = FALSE
  /\ raised = "none" /\ snapshot = NoSnapshot

-----------------------------------------------------------------------------
Alive == phase \in {"running", "exiting"}
Raise(e) == raised' = e
NoAllocationNow == last' = NoAllocation /\ UNCHANGED sampler

\* Why StartProfilerWithParams refuses; a negative number of frames is a huge
\* one in 64 bits.
StartError(max_frames) ==
  IF attached THEN "RuntimeError"
  ELSE IF max_frames \notin 0..kMaxFramesToCapture THEN "ValueError"
  ELSE "none"

\* Slip: the period is set before the number of frames is looked at.
StartSetsPeriodFirst(max_frames, sample_rate) ==
  IF attached THEN UNCHANGED <<session, sampling_rate_, snapshot>>
  ELSE /\ SetSamplePeriod(sample_rate)
       /\ IF StartError(max_frames) # "none" THEN UNCHANGED <<session, snapshot>>
          ELSE /\ attached' = TRUE /\ max_frames_' = max_frames
               /\ early' = (phase = "running")
               /\ snapshot' = [snapshot EXCEPT !.restarted = snapshot.traces]

StartProfilerWithParams(max_frames, sample_rate) ==
  IF StartError(max_frames) # "none"
  THEN UNCHANGED <<session, sampling_rate_, snapshot>>
  ELSE /\ SetSamplePeriod(sample_rate)
       /\ attached' = TRUE /\ max_frames_' = max_frames
       /\ early' = (phase = "running")
       /\ snapshot' = [snapshot EXCEPT !.restarted = snapshot.traces]

DetachHeapProfiler ==
  /\ attached' = FALSE /\ max_frames_' = 0 /\ early' = FALSE
  /\ UNCHANGED sampling_rate_

-----------------------------------------------------------------------------
(***************************************************************************)
(* import, as often as it takes.  What registering the exit handler comes  *)
(* to: done; no atexit module, a warning; or an exception, which           *)
(* MProfileInit logs and leaves set, unless logging has cleared it.  Exit  *)
(* handlers registered by an exit handler are not called.                  *)
(***************************************************************************)
Registrations == {"done", "no atexit", "fails", "fails, pending"}

CanRegister(outcome) == outcome = "done" /\ phase = "running"

\* Slip: only an import that starts the profiler registers the exit handler.
RegisterIfStarting(outcome, env_rate) ==
  /\ handlers' = IF CanRegister(outcome) /\ env_rate # Unset THEN handlers + 1 ELSE handlers
  /\ registered' = (registered \/ CanRegister(outcome))

MProfileAtexitRegister(outcome, env_rate) ==
  /\ handlers' = IF CanRegister(outcome) THEN handlers + 1 ELSE handlers
  /\ registered' = (registered \/ CanRegister(outcome))

\* What strtol and the checks after it let through.
Valid(value) == value \notin {Unset, Garbage} /\ ToInt(value) >= 0

GetEnvFrames(value) == IF value = Unset THEN kMaxFramesToCapture ELSE ToInt(value)

Import(env_rate, env_frames, outcome) ==
  LET starts == env_rate # Unset
      error == IF starts THEN StartError(GetEnvFrames(env_frames)) ELSE "none"
  IN /\ Alive /\ ~imported /\ handlers < MaxHandlers
     /\ MProfileAtexitRegister(outcome, env_rate)
     /\ starts => Valid(env_rate) /\ (Valid(env_frames) \/ env_frames = Unset)
     /\ IF starts
        THEN StartProfilerWithParams(GetEnvFrames(env_frames), ToInt(env_rate))
        ELSE UNCHANGED <<session, sampling_rate_, snapshot>>
     /\ Raise(IF error = "none" /\ outcome = "fails, pending" THEN "SystemError" ELSE error)
     /\ imported' = (raised' = "none")
     /\ NoAllocationNow
     /\ UNCHANGED phase

\* Py_FatalError.
ImportAborts(env_rate, env_frames) ==
  /\ Alive /\ ~imported
  /\ env_rate # Unset
  /\ Valid(env_rate) => env_frames # Unset /\ ~Valid(env_frames)
  /\ phase' = "aborted"
  /\ UNCHANGED <<svars, session, imported, atexit, raised, snapshot>>

-----------------------------------------------------------------------------
\* The functions of the module.

MayCall == Alive /\ imported

StartProfiler(max_frames, sample_rate) ==
  /\ MayCall
  /\ StartProfilerWithParams(max_frames, sample_rate)
  /\ Raise(StartError(max_frames))
  /\ NoAllocationNow
  /\ UNCHANGED <<phase, imported, atexit>>

StopProfiler ==
  /\ MayCall
  /\ DetachHeapProfiler
  /\ Raise("none")
  /\ NoAllocationNow
  /\ UNCHANGED <<phase, imported, atexit, snapshot>>

\* clear_traces(), _get_object_traceback() and get_sample_rate() on its own.
NeedsProfiler ==
  /\ MayCall
  /\ Raise(IF attached THEN "none" ELSE "RuntimeError")
  /\ NoAllocationNow
  /\ UNCHANGED <<session, sampling_rate_, phase, imported, atexit, snapshot>>

\* take_snapshot(), one call after the other.
SnapshotStep(error, next) ==
  /\ Raise(error)
  /\ snapshot' = next
  /\ NoAllocationNow
  /\ UNCHANGED <<session, sampling_rate_, phase, imported, atexit>>

IsTracing ==
  /\ MayCall /\ snapshot.at \in {"none", "returned"}
  /\ IF attached THEN SnapshotStep("none", [NoSnapshot EXCEPT !.at = "traces"])
     ELSE SnapshotStep("RuntimeError", NoSnapshot)

\* _get_traces(): no traces without a profiler.
TakeSnapshot ==
  /\ MayCall /\ snapshot.at = "traces"
  /\ SnapshotStep("none", IF attached
       THEN [NoSnapshot EXCEPT !.at = "limit", !.traces = TRUE, !.of = Current]
       ELSE [NoSnapshot EXCEPT !.at = "limit"])

GetTracebackLimit ==
  /\ MayCall /\ snapshot.at = "limit"
  /\ SnapshotStep("none", [snapshot EXCEPT !.at = "rate",
                                           !.limit = IF attached THEN max_frames_ ELSE 1])

\* Slip: the last period is given out when the profiler is gone.
GetSampleRateAnyway ==
  /\ MayCall /\ snapshot.at = "rate"
  /\ SnapshotStep("none", [snapshot EXCEPT !.at = "returned", !.rate = sampling_rate_])

GetSampleRate ==
  /\ MayCall /\ snapshot.at = "rate"
  /\ IF attached
     THEN SnapshotStep("none", [snapshot EXCEPT !.at = "returned", !.rate = sampling_rate_])
     ELSE SnapshotStep("RuntimeError", NoSnapshot)

-----------------------------------------------------------------------------
\* The interpreter.

\* WrappedMalloc, or any other wrapper that allocates, in thread t.
HandleMalloc(t, size) ==
  /\ phase # "aborted" /\ attached
  /\ RecordAllocation(t, size)
  /\ Raise("none")
  /\ UNCHANGED <<session, phase, imported, atexit, snapshot>>

StartThread(t) ==
  /\ Alive
  /\ NewThread(t)
  /\ Raise("none")
  /\ UNCHANGED <<session, phase, imported, atexit, snapshot>>

\* Py_FinalizeEx: the exit handlers, then the end of the interpreter.
Exit ==
  /\ phase = "running"
  /\ phase' = "exiting"
  /\ UNCHANGED <<svars, session, imported, atexit, raised, snapshot>>

MProfileAtexit ==
  /\ phase = "exiting" /\ handlers > 0
  /\ handlers' = handlers - 1
  /\ DetachHeapProfiler
  /\ Raise("none")
  /\ NoAllocationNow
  /\ UNCHANGED <<phase, imported, registered, snapshot>>

Finalize ==
  /\ phase = "exiting" /\ handlers = 0
  /\ phase' = "finalized"
  /\ UNCHANGED <<svars, session, imported, atexit, raised, snapshot>>

Next ==
  \/ \E r \in EnvRates, f \in EnvFrames :
       ImportAborts(r, f) \/ \E outcome \in Registrations : Import(r, f, outcome)
  \/ \E f \in Frames, r \in Rates : StartProfiler(f, r)
  \/ StopProfiler \/ NeedsProfiler
  \/ IsTracing \/ TakeSnapshot \/ GetTracebackLimit \/ GetSampleRate
  \/ \E t \in Threads : StartThread(t) \/ \E k \in Sizes : HandleMalloc(t, k)
  \/ Exit \/ MProfileAtexit \/ Finalize

Spec == Init /\ [][Next]_vars

-----------------------------------------------------------------------------
(***************************************************************************)
(* A call that ends in an exception has changed nothing: neither the       *)
(* profiler nor the period that the samplers go on with, be it a second    *)
(* start(), one with too many frames, or an import whose environment asks  *)
(* for that (_profiler.cc:16).  An import that has registered no exit      *)
(* handler may fail after it has started the profiler.                     *)
(***************************************************************************)
FailedCallsChangeNothing ==
  [][raised' \in {"RuntimeError", "ValueError"} =>
       UNCHANGED <<attached, max_frames_, sampling_rate_>>]_vars

(***************************************************************************)
(* No profiler is left for the static destructors, which run without an    *)
(* interpreter, unless it was started by an exit handler or no import has  *)
(* got an exit handler registered (_profiler.cc:146).                      *)
(***************************************************************************)
NoneLeftAtExit == phase = "finalized" /\ attached => ~(early /\ registered)

(***************************************************************************)
(* The samples of a snapshot are scaled with the rate they were taken at,  *)
(* and its limit is theirs: take_snapshot() puts together four calls, and  *)
(* a stop() between them must not go unnoticed.  Only another start() does *)
(* (__init__.py:546).                                                      *)
(***************************************************************************)
SnapshotOfOneSession ==
  snapshot.at = "returned" /\ snapshot.traces /\ ~snapshot.restarted =>
    [rate |-> snapshot.rate, limit |-> snapshot.limit] = snapshot.of

(***************************************************************************)
(* Whoever starts and stops meanwhile, the traces and the sample rate of a *)
(* snapshot belong together.                                               *)
(***************************************************************************)
SnapshotScaledByItsRate ==
  snapshot.at = "returned" /\ snapshot.traces => snapshot.rate = snapshot.of.rate

(***************************************************************************)
(* An import that fails has not started the profiler: the program has no   *)
(* module to stop it with, and every further import fails.                 *)
(***************************************************************************)
ImportIsWhole == attached => imported
=============================================================================
