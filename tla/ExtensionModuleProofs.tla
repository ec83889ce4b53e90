------------------------- MODULE ExtensionModuleProofs -------------------------
(***************************************************************************)
(* Proofs about ExtensionModule, for any number of threads, any arguments  *)
(* and environment and any width of an int: which allocations are sampled, *)
(* that a call which fails has no effect, that a snapshot is of one        *)
(* session, and that no profiler is left at exit.                          *)
(***************************************************************************)
EXTENDS ExtensionModule, TLAPS

\* The counter of a Sampler is what is left of its interval; an interval drawn
\* without a period is empty.
CounterOK ==
  \A t \in Threads :
    /\ bytes_until_sample_[t] = drawn[t] - passed[t]
    /\ drawnAt[t] = 0 => drawn[t] = 0

\* A profiler that was started before the exit has the handler that stops it
\* ahead of it.
ExitOK ==
  /\ phase = "running" /\ registered => handlers > 0
  /\ phase = "exiting" /\ attached /\ early /\ registered => handlers > 0

\* As long as the profiler of a snapshot's traces is attached, its parameters
\* are theirs.
SnapshotOK ==
  /\ snapshot.at \in {"none", "traces"} => ~snapshot.traces
  /\ snapshot.at \in {"limit", "rate"} /\ snapshot.traces /\ ~snapshot.restarted /\ attached =>
       /\ Current = snapshot.of
       /\ snapshot.at = "rate" => snapshot.limit = snapshot.of.limit

Inv == TypeOK /\ CounterOK /\ ExitOK /\ NoneLeftAtExit /\ SnapshotOK /\ SnapshotOfOneSession

-----------------------------------------------------------------------------
\* What goes through an int is one.
LEMMA ToIntType == ASSUME NEW n \in Int PROVE ToInt(n) \in Int32
<1>1. IntMax \in Nat
  BY SamplerAssumption
<1>2. n % (2 * IntMax + 2) \in 0..2 * IntMax + 1
  BY <1>1
<1>3. QED
  BY <1>1, <1>2 DEF ToInt, Int32

\* An interval is a number of bytes, none without a period.
LEMMA IntervalType ==
  ASSUME STypeOK, NEW i \in PickNextSamplingPoint
  PROVE  i \in Nat /\ (sampling_rate_ = 0 => i = 0)
<1>1. IntMax \in Nat /\ NeverInterval \in Nat /\ MaxMeans \in Nat /\ sampling_rate_ \in Int
  BY SamplerAssumption DEF STypeOK, Int32
<1>2. MaxMeans * sampling_rate_ \in Int
  BY <1>1
<1>3. QED
  BY <1>1, <1>2 DEF PickNextSamplingPoint

-----------------------------------------------------------------------------
\* The samplers, whoever calls them.
SOK == STypeOK /\ CounterOK

LEMMA RecordAllocationInv ==
  ASSUME SOK, NEW t \in Threads, NEW k \in Sizes, RecordAllocation(t, k)
  PROVE  SOK' /\ sampling_rate_' = sampling_rate_
<1>0. k \in Nat /\ STypeOK /\ CounterOK
  BY SamplerAssumption DEF SOK
<1>r. sampling_rate_' = sampling_rate_
  BY DEF RecordAllocation
<1>1. CASE bytes_until_sample_[t] >= k
  <2>1. /\ bytes_until_sample_' = [bytes_until_sample_ EXCEPT ![t] = @ - k]
        /\ passed' = [passed EXCEPT ![t] = @ + k]
        /\ drawn' = drawn /\ drawnAt' = drawnAt /\ initialized_' = initialized_
        /\ last' = [thread |-> t, size |-> k, sampled |-> FALSE]
    BY <1>0, <1>1 DEF RecordAllocation, Allocated, STypeOK
  <2>2. STypeOK'
    BY <1>0, <1>r, <1>1, <2>1 DEF STypeOK, Int32
  <2>3. CounterOK'
    BY <1>0, <2>1 DEF STypeOK, CounterOK
  <2>4. QED
    BY <1>r, <2>2, <2>3 DEF SOK
<1>2. CASE bytes_until_sample_[t] < k
  <2>1. RecordAllocationSlow(t, k)
    BY <1>2 DEF RecordAllocation
  <2>2. PICK i \in PickNextSamplingPoint, gone \in {0, k}, b \in BOOLEAN :
          i >= gone /\ Count(t, i, gone) /\ Allocated(t, k, b)
    <3>1. \A i \in PickNextSamplingPoint : i >= 0
      BY <1>0, IntervalType
    <3>2. (sampling_rate_ >= 0) \in BOOLEAN
      OBVIOUS
    <3>3. QED
      BY <2>1, <3>1, <3>2 DEF RecordAllocationSlow
  <2>3. /\ bytes_until_sample_' = [bytes_until_sample_ EXCEPT ![t] = i - gone]
        /\ passed' = [passed EXCEPT ![t] = gone] /\ drawn' = [drawn EXCEPT ![t] = i]
        /\ drawnAt' = [drawnAt EXCEPT ![t] = sampling_rate_]
        /\ initialized_' = [initialized_ EXCEPT ![t] = TRUE]
        /\ last' = [thread |-> t, size |-> k, sampled |-> b]
    BY <2>1, <2>2 DEF RecordAllocationSlow, Count, Allocated
  <2>4. i \in Nat /\ (sampling_rate_ = 0 => i = 0) /\ i - gone \in Nat /\ gone \in Nat
    BY <1>0, <2>2, IntervalType
  <2>5. STypeOK'
    BY <1>0, <1>r, <2>3, <2>4 DEF STypeOK, Int32
  <2>6. CounterOK'
    BY <1>0, <2>3, <2>4 DEF STypeOK, CounterOK
  <2>7. QED
    BY <1>r, <2>5, <2>6 DEF SOK
<1>3. QED
  BY <1>0, <1>1, <1>2 DEF STypeOK

LEMMA NewThreadInv ==
  ASSUME SOK, NEW t \in Threads, NewThread(t)
  PROVE  SOK' /\ sampling_rate_' = sampling_rate_
<1>0. IntMax \in Nat /\ STypeOK /\ CounterOK
  BY SamplerAssumption DEF SOK
<1>1. STypeOK'
  BY <1>0 DEF NewThread, STypeOK, NoAllocation, Int32
<1>2. CounterOK'
  BY <1>0 DEF NewThread, STypeOK, CounterOK
<1>3. QED
  BY <1>1, <1>2 DEF SOK, NewThread

\* Steps that do not allocate and leave the period an int.
LEMMA NoAllocationInv ==
  ASSUME SOK, NoAllocationNow, sampling_rate_' \in Int32 PROVE SOK'
<1>1. STypeOK'
  BY DEF SOK, NoAllocationNow, sampler, STypeOK, NoAllocation
<1>2. CounterOK'
  BY DEF SOK, NoAllocationNow, sampler, CounterOK
<1>3. QED
  BY <1>1, <1>2 DEF SOK

-----------------------------------------------------------------------------
\* What a start() does, whoever asks for it.
LEMMA StartEffect ==
  ASSUME TypeOK, NEW f \in Int, NEW r \in Int, StartProfilerWithParams(f, r)
  PROVE  \/ /\ StartError(f) = "none"
            /\ sampling_rate_' \in Int32
            /\ attached' = TRUE /\ max_frames_' \in 0..kMaxFramesToCapture
            /\ early' = (phase = "running")
            /\ snapshot' = [snapshot EXCEPT !.restarted = snapshot.traces]
         \/ /\ StartError(f) # "none"
            /\ sampling_rate_' = sampling_rate_ /\ snapshot' = snapshot
            /\ attached' = attached /\ max_frames_' = max_frames_ /\ early' = early
<1>1. CASE StartError(f) # "none"
  BY <1>1 DEF StartProfilerWithParams, session
<1>2. CASE StartError(f) = "none"
  <2>1. f \in 0..kMaxFramesToCapture
    BY <1>2 DEF StartError
  <2>2. sampling_rate_' \in Int32
    BY <1>2, ToIntType DEF StartProfilerWithParams, SetSamplePeriod
  <2>3. QED
    BY <1>2, <2>1, <2>2 DEF StartProfilerWithParams
<1>3. QED
  BY <1>1, <1>2

\* It keeps the invariant, if the caller keeps the rest of the state in order.
LEMMA StartInv ==
  ASSUME Inv, Alive, NEW f \in Int, NEW r \in Int, StartProfilerWithParams(f, r),
         NoAllocationNow, phase' = phase,
         imported' \in BOOLEAN, handlers' \in 0..MaxHandlers, registered' \in BOOLEAN,
         raised' \in {"none", "RuntimeError", "ValueError", "SystemError"},
         handlers' >= handlers,
         phase = "running" /\ registered' => registered \/ handlers' > 0,
         phase = "exiting" => registered' = registered
  PROVE  Inv'
<1>0. TypeOK /\ CounterOK /\ ExitOK /\ NoneLeftAtExit /\ SnapshotOK /\ SnapshotOfOneSession
  BY DEF Inv
<1>1. \/ /\ StartError(f) = "none"
         /\ sampling_rate_' \in Int32
         /\ attached' = TRUE /\ max_frames_' \in 0..kMaxFramesToCapture
         /\ early' = (phase = "running")
         /\ snapshot' = [snapshot EXCEPT !.restarted = snapshot.traces]
      \/ /\ StartError(f) # "none"
         /\ sampling_rate_' = sampling_rate_ /\ snapshot' = snapshot
         /\ attached' = attached /\ max_frames_' = max_frames_ /\ early' = early
  BY <1>0, StartEffect
<1>2. STypeOK' /\ CounterOK'
  <2>1. sampling_rate_' \in Int32
    BY <1>0, <1>1 DEF TypeOK, STypeOK
  <2>2. QED
    BY <1>0, <2>1, NoAllocationInv DEF TypeOK, SOK
<1>3. TypeOK'
  <2>1. snapshot' \in Snapshots
    BY <1>0, <1>1 DEF TypeOK, Snapshots
  <2>2. QED
    BY <1>0, <1>1, <1>2, <2>1 DEF TypeOK
<1>4. ExitOK' /\ NoneLeftAtExit'
  BY <1>0, <1>1 DEF TypeOK, Alive, ExitOK, NoneLeftAtExit
<1>5. SnapshotOK' /\ SnapshotOfOneSession'
  BY <1>0, <1>1 DEF TypeOK, Snapshots, SnapshotOK, SnapshotOfOneSession, Current
<1>6. QED
  BY <1>2, <1>3, <1>4, <1>5 DEF Inv

\* So does a stop().
LEMMA DetachInv ==
  ASSUME Inv, Alive, DetachHeapProfiler, NoAllocationNow, phase' = phase,
         imported' = imported, handlers' \in 0..MaxHandlers, registered' = registered,
         raised' = "none", snapshot' = snapshot,
         phase = "running" => handlers' = handlers
  PROVE  Inv'
<1>0. /\ TypeOK /\ CounterOK /\ ExitOK /\ NoneLeftAtExit /\ SnapshotOK /\ SnapshotOfOneSession
      /\ kMaxFramesToCapture \in Nat
  BY ExtensionAssumption DEF Inv
<1>1. /\ attached' = FALSE /\ max_frames_' = 0 /\ early' = FALSE
      /\ sampling_rate_' = sampling_rate_
  BY DEF DetachHeapProfiler
<1>2. STypeOK' /\ CounterOK'
  BY <1>0, <1>1, NoAllocationInv DEF TypeOK, STypeOK, SOK
<1>3. TypeOK'
  <2>1. 0 \in 0..kMaxFramesToCapture
    BY <1>0
  <2>2. max_frames_' \in 0..kMaxFramesToCapture /\ attached' \in BOOLEAN /\ early' \in BOOLEAN
    BY <1>1, <2>1
  <2>3. QED
    BY <1>0, <1>2, <2>2 DEF TypeOK
<1>4. ExitOK' /\ NoneLeftAtExit'
  BY <1>0, <1>1 DEF ExitOK, NoneLeftAtExit
<1>5. SnapshotOK' /\ SnapshotOfOneSession'
  BY <1>0, <1>1 DEF TypeOK, SnapshotOK, SnapshotOfOneSession
<1>6. QED
  BY <1>2, <1>3, <1>4, <1>5 DEF Inv

\* A step that leaves the profiler, the process and its handlers alone.
LEMMA SnapshotInv ==
  ASSUME Inv, STypeOK', CounterOK',
         UNCHANGED <<session, sampling_rate_, phase, imported, atexit>>,
         raised' \in {"none", "RuntimeError", "ValueError", "SystemError"},
         snapshot' \in Snapshots,
         SnapshotOK', SnapshotOfOneSession'
  PROVE  Inv'
<1>0. TypeOK /\ ExitOK /\ NoneLeftAtExit
  BY DEF Inv
<1>1. TypeOK'
  BY <1>0 DEF TypeOK, session, atexit
<1>2. ExitOK' /\ NoneLeftAtExit'
  BY <1>0 DEF ExitOK, NoneLeftAtExit, session, atexit
<1>3. QED
  BY <1>1, <1>2 DEF Inv

-----------------------------------------------------------------------------
LEMMA NoSnapshotType ==
  NoSnapshot \in Snapshots /\ [NoSnapshot EXCEPT !.at = "traces"] \in Snapshots
<1>1. 0 \in 0..kMaxFramesToCapture /\ 0 \in Int32
  BY SamplerAssumption, ExtensionAssumption DEF Int32
<1>2. NoParameters \in Parameters
  BY <1>1 DEF NoParameters, Parameters
<1>3. QED
  BY <1>1, <1>2 DEF NoSnapshot, Snapshots

LEMMA InitInv == Init => Inv
<1> SUFFICES ASSUME Init PROVE Inv
  OBVIOUS
<1>0. IntMax \in Nat /\ kMaxFramesToCapture \in Nat /\ MaxHandlers \in Nat
  BY SamplerAssumption, ExtensionAssumption
<1>1. STypeOK /\ CounterOK
  BY <1>0 DEF Init, SInit, STypeOK, CounterOK, NoAllocation, Int32
<1>2. TypeOK
  <2>1. 0 \in 0..kMaxFramesToCapture /\ 0 \in 0..MaxHandlers
    BY <1>0
  <2>2. QED
    BY <1>1, <2>1, NoSnapshotType DEF Init, TypeOK
<1>3. ExitOK /\ NoneLeftAtExit /\ SnapshotOK /\ SnapshotOfOneSession
  BY DEF Init, ExitOK, NoneLeftAtExit, SnapshotOK, SnapshotOfOneSession, NoSnapshot
<1>4. QED
  BY <1>1, <1>2, <1>3 DEF Inv

LEMMA NextInv == Inv /\ [Next]_vars => Inv'
<1> SUFFICES ASSUME Inv, [Next]_vars PROVE Inv'
  OBVIOUS
<1>0. /\ TypeOK /\ CounterOK /\ ExitOK /\ NoneLeftAtExit /\ SnapshotOK /\ SnapshotOfOneSession
      /\ IntMax \in Nat /\ kMaxFramesToCapture \in Nat /\ MaxHandlers \in Nat
  BY SamplerAssumption, ExtensionAssumption DEF Inv
<1>s. SOK /\ sampling_rate_ \in Int32
  BY <1>0 DEF SOK, TypeOK, STypeOK
<1>1. ASSUME NEW r \in EnvRates, NEW f \in EnvFrames, ImportAborts(r, f) PROVE Inv'
  <2>1. /\ phase' = "aborted"
        /\ UNCHANGED <<svars, session, imported, atexit, raised, snapshot>>
    BY <1>1 DEF ImportAborts
  <2>2. STypeOK' /\ CounterOK'
    BY <1>0, <2>1 DEF TypeOK, STypeOK, CounterOK, svars, sampler
  <2>3. TypeOK'
    BY <1>0, <2>1, <2>2 DEF TypeOK, session, atexit
  <2>4. ExitOK' /\ NoneLeftAtExit' /\ SnapshotOK' /\ SnapshotOfOneSession'
    BY <1>0, <2>1 DEF ExitOK, NoneLeftAtExit, SnapshotOK, SnapshotOfOneSession, svars, session,
         Current
  <2>5. QED
    BY <2>2, <2>3, <2>4 DEF Inv
<1>2. ASSUME NEW r \in EnvRates, NEW f \in EnvFrames, NEW outcome \in Registrations,
             Import(r, f, outcome)
      PROVE  Inv'
  <2>1. /\ Alive /\ handlers < MaxHandlers /\ NoAllocationNow /\ phase' = phase
        /\ MProfileAtexitRegister(outcome, r)
        /\ imported' \in BOOLEAN
        /\ r # Unset => Valid(r) /\ (Valid(f) \/ f = Unset)
        /\ IF r # Unset THEN StartProfilerWithParams(GetEnvFrames(f), ToInt(r))
           ELSE UNCHANGED <<session, sampling_rate_, snapshot>>
        /\ raised' \in {"none", "RuntimeError", "ValueError", "SystemError"}
    BY <1>2 DEF Import, Raise, StartError
  <2>2. /\ handlers' \in 0..MaxHandlers /\ handlers' >= handlers /\ registered' \in BOOLEAN
        /\ phase = "running" /\ registered' => registered \/ handlers' > 0
        /\ phase = "exiting" => registered' = registered /\ handlers' = handlers
    BY <1>0, <2>1 DEF MProfileAtexitRegister, CanRegister, TypeOK
  <2>3. CASE r # Unset
    <3>1. GetEnvFrames(f) \in Int /\ ToInt(r) \in Int
      BY <1>0, <2>1, <2>3, ToIntType, ExtensionAssumption DEF Valid, GetEnvFrames, Int32
    <3>2. QED
      BY <2>1, <2>2, <2>3, <3>1, StartInv
  <2>4. CASE r = Unset
    <3>1. UNCHANGED <<session, sampling_rate_, snapshot>>
      BY <2>1, <2>4
    <3>2. STypeOK' /\ CounterOK'
      BY <1>s, <2>1, <3>1, NoAllocationInv DEF SOK
    <3>3. TypeOK'
      BY <1>0, <2>1, <2>2, <3>1, <3>2 DEF TypeOK, session
    <3>4. ExitOK' /\ NoneLeftAtExit'
      BY <1>0, <2>1, <2>2, <3>1 DEF TypeOK, Alive, ExitOK, NoneLeftAtExit, session
    <3>5. SnapshotOK' /\ SnapshotOfOneSession'
      BY <1>0, <3>1 DEF SnapshotOK, SnapshotOfOneSession, session, Current
    <3>6. QED
      BY <3>2, <3>3, <3>4, <3>5 DEF Inv
  <2>5. QED
    BY <2>3, <2>4
<1>3. ASSUME NEW f \in Frames, NEW r \in Rates, StartProfiler(f, r) PROVE Inv'
  <2>1. f \in Int /\ r \in Int
    BY ExtensionAssumption
  <2>2. /\ Alive /\ StartProfilerWithParams(f, r) /\ NoAllocationNow /\ phase' = phase
        /\ imported' = imported /\ handlers' = handlers /\ registered' = registered
        /\ raised' \in {"none", "RuntimeError", "ValueError", "SystemError"}
    BY <1>3 DEF StartProfiler, MayCall, Raise, StartError, atexit
  <2>3. /\ imported' \in BOOLEAN /\ handlers' \in 0..MaxHandlers /\ registered' \in BOOLEAN
        /\ handlers' >= handlers
    BY <1>0, <2>2 DEF TypeOK
  <2>4. QED
    BY <2>1, <2>2, <2>3, StartInv
<1>4. CASE StopProfiler
  <2>1. /\ Alive /\ DetachHeapProfiler /\ NoAllocationNow /\ phase' = phase
        /\ imported' = imported /\ handlers' = handlers /\ registered' = registered
        /\ raised' = "none" /\ snapshot' = snapshot
    BY <1>4 DEF StopProfiler, MayCall, Raise, atexit
  <2>2. QED
    BY <1>0, <2>1, DetachInv DEF TypeOK
<1>5. CASE NeedsProfiler
  <2>1. /\ NoAllocationNow /\ raised' \in {"none", "RuntimeError"} /\ snapshot' = snapshot
        /\ UNCHANGED <<session, sampling_rate_, phase, imported, atexit>>
    BY <1>5 DEF NeedsProfiler, Raise
  <2>2. STypeOK' /\ CounterOK'
    BY <1>s, <2>1, NoAllocationInv DEF SOK
  <2>3. SnapshotOK' /\ SnapshotOfOneSession'
    BY <1>0, <2>1 DEF SnapshotOK, SnapshotOfOneSession, session, Current
  <2>4. QED
    BY <1>0, <2>1, <2>2, <2>3, SnapshotInv DEF TypeOK
<1>6. ASSUME NEW error \in {"none", "RuntimeError"},
             NEW next \in Snapshots,
             SnapshotStep(error, next), SnapshotOK', SnapshotOfOneSession'
      PROVE  Inv'
  <2>1. /\ NoAllocationNow /\ raised' \in {"none", "RuntimeError"} /\ snapshot' = next
        /\ UNCHANGED <<session, sampling_rate_, phase, imported, atexit>>
    BY <1>6 DEF SnapshotStep, Raise
  <2>2. STypeOK' /\ CounterOK'
    BY <1>s, <2>1, NoAllocationInv DEF SOK
  <2>3. QED
    BY <1>6, <2>1, <2>2, SnapshotInv
<1>7. CASE IsTracing
  <2>1. NoSnapshot \in Snapshots /\ [NoSnapshot EXCEPT !.at = "traces"] \in Snapshots
    BY NoSnapshotType
  <2>2. PICK error \in {"none", "RuntimeError"},
             next \in {NoSnapshot, [NoSnapshot EXCEPT !.at = "traces"]} :
          SnapshotStep(error, next)
    BY <1>7 DEF IsTracing
  <2>3. snapshot'.at \in {"none", "traces"} /\ ~snapshot'.traces
    BY <2>2 DEF SnapshotStep, NoSnapshot
  <2>4. SnapshotOK' /\ SnapshotOfOneSession'
    BY <2>3 DEF SnapshotOK, SnapshotOfOneSession
  <2>5. QED
    BY <1>6, <2>1, <2>2, <2>4
<1>8. CASE TakeSnapshot
  <2> DEFINE next == IF attached
                     THEN [NoSnapshot EXCEPT !.at = "limit", !.traces = TRUE, !.of = Current]
                     ELSE [NoSnapshot EXCEPT !.at = "limit"]
  <2>1. SnapshotStep("none", next)
    BY <1>8 DEF TakeSnapshot
  <2>2. Current \in Parameters
    BY <1>0, <1>s DEF TypeOK, Current, Parameters
  <2>3. NoSnapshot \in Snapshots
    BY NoSnapshotType
  <2>4. next \in Snapshots
    BY <2>2, <2>3 DEF Snapshots, NoSnapshot
  <2>5. /\ snapshot'.at = "limit" /\ attached' = attached /\ Current' = Current
        /\ snapshot'.traces => snapshot'.of = Current
    BY <2>1 DEF SnapshotStep, session, NoSnapshot, Current
  <2>6. SnapshotOK' /\ SnapshotOfOneSession'
    BY <2>5 DEF SnapshotOK, SnapshotOfOneSession
  <2> HIDE DEF next
  <2>7. QED
    BY <1>6, <2>1, <2>4, <2>6
<1>9. CASE GetTracebackLimit
  <2> DEFINE limit == IF attached THEN max_frames_ ELSE 1
             next == [snapshot EXCEPT !.at = "rate", !.limit = limit]
  <2>1. SnapshotStep("none", next) /\ snapshot.at = "limit"
    BY <1>9 DEF GetTracebackLimit
  <2>2. limit \in 0..kMaxFramesToCapture \cup {1} /\ snapshot \in Snapshots
    BY <1>0 DEF TypeOK
  <2>3. next \in Snapshots
    BY <2>2 DEF Snapshots
  <2>4. /\ snapshot'.at = "rate" /\ attached' = attached /\ Current' = Current
        /\ snapshot'.traces = snapshot.traces /\ snapshot'.restarted = snapshot.restarted
        /\ snapshot'.of = snapshot.of /\ snapshot'.limit = limit
    BY <2>1, <2>2 DEF SnapshotStep, session, Snapshots, Current
  <2>5. SnapshotOK' /\ SnapshotOfOneSession'
    BY <1>0, <2>1, <2>4 DEF SnapshotOK, SnapshotOfOneSession, Current
  <2> HIDE DEF next
  <2>6. QED
    BY <1>6, <2>1, <2>3, <2>5
<1>10. CASE GetSampleRate
  <2> DEFINE next == [snapshot EXCEPT !.at = "returned", !.rate = sampling_rate_]
  <2>1. CASE attached
    <3>1. SnapshotStep("none", next) /\ snapshot.at = "rate"
      BY <1>10, <2>1 DEF GetSampleRate
    <3>2. snapshot \in Snapshots
      BY <1>0 DEF TypeOK
    <3>3. next \in Snapshots
      BY <1>s, <3>2 DEF Snapshots
    <3>4. /\ snapshot'.at = "returned" /\ snapshot'.rate = sampling_rate_
          /\ snapshot'.traces = snapshot.traces /\ snapshot'.restarted = snapshot.restarted
          /\ snapshot'.of = snapshot.of /\ snapshot'.limit = snapshot.limit
      BY <3>1, <3>2 DEF SnapshotStep, Snapshots
    <3>5. SnapshotOK'
      BY <3>4 DEF SnapshotOK
    <3>6. SnapshotOfOneSession'
      <4> SUFFICES ASSUME snapshot'.traces, ~snapshot'.restarted
                   PROVE  [rate |-> snapshot'.rate, limit |-> snapshot'.limit] = snapshot'.of
        BY DEF SnapshotOfOneSession
      <4>1. /\ [rate |-> sampling_rate_, limit |-> max_frames_] = snapshot.of
            /\ snapshot.limit = snapshot.of.limit
        BY <1>0, <2>1, <3>1, <3>4 DEF SnapshotOK, Current
      <4>2. snapshot.limit = max_frames_
        BY <4>1
      <4>3. QED
        BY <3>4, <4>1, <4>2
    <3> HIDE DEF next
    <3>7. QED
      BY <1>6, <3>1, <3>3, <3>5, <3>6
  <2>2. CASE ~attached
    <3>1. SnapshotStep("RuntimeError", NoSnapshot) /\ NoSnapshot \in Snapshots
      BY <1>10, <2>2, NoSnapshotType DEF GetSampleRate
    <3>2. SnapshotOK' /\ SnapshotOfOneSession'
      BY <3>1 DEF SnapshotStep, SnapshotOK, SnapshotOfOneSession, NoSnapshot
    <3>3. QED
      BY <1>6, <3>1, <3>2
  <2>3. QED
    BY <2>1, <2>2
<1>11. ASSUME NEW t \in Threads, StartThread(t) \/ \E k \in Sizes : HandleMalloc(t, k)
       PROVE  Inv'
  <2>1. /\ UNCHANGED <<session, phase, imported, atexit, snapshot>> /\ raised' = "none"
        /\ NewThread(t) \/ \E k \in Sizes : RecordAllocation(t, k)
    BY <1>11 DEF StartThread, HandleMalloc, Raise
  <2>2. SOK' /\ sampling_rate_' = sampling_rate_
    BY <1>s, <2>1, NewThreadInv, RecordAllocationInv
  <2>3. SnapshotOK' /\ SnapshotOfOneSession'
    BY <1>0, <2>1, <2>2 DEF SnapshotOK, SnapshotOfOneSession, session, Current
  <2>4. QED
    BY <1>0, <2>1, <2>2, <2>3, SnapshotInv DEF SOK, TypeOK
<1>12. CASE MProfileAtexit
  <2>1. /\ Alive /\ DetachHeapProfiler /\ NoAllocationNow /\ phase' = phase
        /\ imported' = imported /\ registered' = registered /\ raised' = "none"
        /\ snapshot' = snapshot
        /\ phase = "exiting" /\ handlers > 0 /\ handlers' = handlers - 1
    BY <1>12 DEF MProfileAtexit, Alive, Raise
  <2>2. handlers' \in 0..MaxHandlers
    BY <1>0, <2>1 DEF TypeOK
  <2>3. QED
    BY <2>1, <2>2, DetachInv
<1>13. CASE Exit \/ Finalize
  <2>1. /\ UNCHANGED <<svars, session, imported, atexit, raised, snapshot>>
        /\ \/ phase = "running" /\ phase' = "exiting"
           \/ phase = "exiting" /\ phase' = "finalized" /\ handlers = 0
    BY <1>13 DEF Exit, Finalize
  <2>2. STypeOK' /\ CounterOK'
    BY <1>0, <2>1 DEF TypeOK, STypeOK, CounterOK, svars, sampler
  <2>3. TypeOK'
    BY <1>0, <2>1, <2>2 DEF TypeOK, session, atexit
  <2>4. ExitOK' /\ NoneLeftAtExit'
    BY <1>0, <2>1 DEF ExitOK, NoneLeftAtExit, session, atexit
  <2>5. SnapshotOK' /\ SnapshotOfOneSession'
    BY <1>0, <2>1 DEF SnapshotOK, SnapshotOfOneSession, svars, session, Current
  <2>6. QED
    BY <2>2, <2>3, <2>4, <2>5 DEF Inv
<1>14. CASE UNCHANGED vars
  <2>1. STypeOK' /\ CounterOK'
    BY <1>0, <1>14 DEF vars, TypeOK, STypeOK, CounterOK, svars, sampler
  <2>2. TypeOK'
    BY <1>0, <1>14, <2>1 DEF vars, TypeOK, session, atexit
  <2>3. ExitOK' /\ NoneLeftAtExit'
    BY <1>0, <1>14 DEF vars, ExitOK, NoneLeftAtExit, session, atexit
  <2>4. SnapshotOK' /\ SnapshotOfOneSession'
    BY <1>0, <1>14 DEF vars, SnapshotOK, SnapshotOfOneSession, svars, session, Current
  <2>5. QED
    BY <2>1, <2>2, <2>3, <2>4 DEF Inv
<1>15. QED
  BY <1>1, <1>2, <1>3, <1>4, <1>5, <1>7, <1>8, <1>9, <1>10, <1>11, <1>12, <1>13, <1>14
     DEF Next

-----------------------------------------------------------------------------
THEOREM InvAlways == Spec => []Inv
<1>1. QED
  BY InitInv, NextInv, PTL DEF Spec

(***************************************************************************)
(* No profiler that was started before the exit began is left attached     *)
(* when the interpreter is gone, if an import could register the handler.  *)
(***************************************************************************)
THEOREM ProfilerStopsAtExit == Spec => []NoneLeftAtExit
<1>1. Inv => NoneLeftAtExit
  BY DEF Inv
<1>2. QED
  BY InvAlways, <1>1, PTL

(***************************************************************************)
(* A snapshot that take_snapshot() returns has the sample rate and the     *)
(* limit its traces were recorded with, unless start() came between.       *)
(***************************************************************************)
THEOREM SnapshotIsOfOneSession == Spec => []SnapshotOfOneSession
<1>1. Inv => SnapshotOfOneSession
  BY DEF Inv
<1>2. QED
  BY InvAlways, <1>1, PTL

(***************************************************************************)
(* start(), stop(), import and the queries: one that raises RuntimeError   *)
(* or ValueError leaves the profiler and the sample period as they were.   *)
(***************************************************************************)
THEOREM FailuresHaveNoEffect == Spec => FailedCallsChangeNothing
<1> DEFINE failed == raised' \in {"RuntimeError", "ValueError"}
           same == UNCHANGED <<attached, max_frames_, sampling_rate_>>
<1>1. ASSUME [Next]_vars PROVE [failed => same]_vars
  <2> SUFFICES ASSUME Next, failed PROVE same
    BY <1>1
  <2>1. ASSUME NEW f, NEW r, StartProfilerWithParams(f, r), StartError(f) # "none" PROVE same
    BY <2>1 DEF StartProfilerWithParams, session
  <2>2. ASSUME NEW r \in EnvRates, NEW f \in EnvFrames, NEW outcome \in Registrations,
               Import(r, f, outcome)
        PROVE  same
    <3>1. CASE r = Unset
      BY <2>2, <3>1 DEF Import, session
    <3>2. CASE r # Unset
      <4>1. /\ StartError(GetEnvFrames(f)) # "none"
            /\ StartProfilerWithParams(GetEnvFrames(f), ToInt(r))
        BY <2>2, <3>2 DEF Import, Raise
      <4>2. QED
        BY <2>1, <4>1
    <3>3. QED
      BY <3>1, <3>2
  <2>3. ASSUME NEW f \in Frames, NEW r \in Rates, StartProfiler(f, r) PROVE same
    BY <2>1, <2>3 DEF StartProfiler, Raise
  <2>4. ASSUME NEW r, NEW f, ImportAborts(r, f) PROVE same
    BY <2>4 DEF ImportAborts, session, svars
  <2>5. CASE NeedsProfiler \/ IsTracing \/ TakeSnapshot \/ GetTracebackLimit \/ GetSampleRate
    BY <2>5 DEF NeedsProfiler, IsTracing, TakeSnapshot, GetTracebackLimit, GetSampleRate,
         SnapshotStep, session
  <2>6. CASE StopProfiler \/ MProfileAtexit
    BY <2>6 DEF StopProfiler, MProfileAtexit, Raise
  <2>7. ASSUME NEW t, StartThread(t) \/ \E k \in Sizes : HandleMalloc(t, k) PROVE same
    BY <2>7 DEF StartThread, HandleMalloc, Raise
  <2>8. CASE Exit \/ Finalize
    BY <2>8 DEF Exit, Finalize, session, svars
  <2>9. QED
    BY <2>2, <2>3, <2>4, <2>5, <2>6, <2>7, <2>8 DEF Next
<1>2. QED
  BY <1>1, PTL DEF Spec, FailedCallsChangeNothing

-----------------------------------------------------------------------------
\* A step of the samplers on which t is seen to allocate is its allocation.
LEMMA AllocatingStep ==
  ASSUME Next, svars' # svars, NEW t \in Threads, Allocates(t)
  PROVE  \E k \in Sizes : k > 0 /\ RecordAllocation(t, k) /\ last'.thread = t /\ last'.size = k
<1>0. NoThread \notin Threads
  BY SamplerAssumption
<1>1. last' # NoAllocation
  BY <1>0 DEF Allocates, NoAllocation
<1>2. ASSUME NEW u \in Threads, NEW k \in Sizes, HandleMalloc(u, k)
      PROVE  k > 0 /\ RecordAllocation(t, k) /\ last'.thread = t /\ last'.size = k
  <2>1. RecordAllocation(u, k)
    BY <1>2 DEF HandleMalloc
  <2>2. last'.thread = u /\ last'.size = k
    BY <2>1 DEF RecordAllocation, RecordAllocationSlow, Allocated
  <2>3. QED
    BY <2>1, <2>2 DEF Allocates
<1>3. ASSUME NEW u \in Threads, StartThread(u) PROVE FALSE
  BY <1>1, <1>3 DEF StartThread, NewThread
<1>4. ASSUME NEW r, NEW f, ImportAborts(r, f) \/ \E o \in Registrations : Import(r, f, o)
      PROVE  FALSE
  BY <1>1, <1>4 DEF ImportAborts, Import, NoAllocationNow
<1>5. ASSUME NEW r, NEW f, StartProfiler(f, r) PROVE FALSE
  BY <1>1, <1>5 DEF StartProfiler, NoAllocationNow
<1>6. ASSUME \/ StopProfiler \/ NeedsProfiler \/ MProfileAtexit
             \/ IsTracing \/ TakeSnapshot \/ GetTracebackLimit \/ GetSampleRate
      PROVE  FALSE
  BY <1>1, <1>6 DEF StopProfiler, NeedsProfiler, MProfileAtexit, IsTracing, TakeSnapshot,
       GetTracebackLimit, GetSampleRate, SnapshotStep, NoAllocationNow
<1>7. ASSUME Exit \/ Finalize PROVE FALSE
  BY <1>7 DEF Exit, Finalize
<1>8. QED
  BY <1>2, <1>3, <1>4, <1>5, <1>6, <1>7 DEF Next

(***************************************************************************)
(* An allocation is sampled exactly if it contains the byte its thread's   *)
(* interval marks, whatever sessions came in between, and none is sampled  *)
(* at a negative rate.                                                     *)
(***************************************************************************)
THEOREM OnlyMarkedBytesAreSampled == Spec => SampledIffMarked
<1> DEFINE marked == \A t \in Threads : Allocates(t) =>
             IF sampling_rate_ < 0 THEN ~last'.sampled
             ELSE initialized_[t] =>
                    (last'.sampled <=> passed[t] + last'.size > drawn[t])
<1>1. ASSUME Inv, [Next]_vars PROVE [marked]_svars
  <2> SUFFICES ASSUME svars' # svars, NEW t \in Threads, Allocates(t)
               PROVE  IF sampling_rate_ < 0 THEN ~last'.sampled
                      ELSE initialized_[t] =>
                             (last'.sampled <=> passed[t] + last'.size > drawn[t])
    OBVIOUS
  <2>1. Next
    BY <1>1 DEF vars
  <2>2. PICK k \in Sizes : k > 0 /\ RecordAllocation(t, k) /\ last'.size = k
    BY <2>1, AllocatingStep
  <2>3. /\ k \in Nat /\ sampling_rate_ \in Int
        /\ bytes_until_sample_[t] \in Nat /\ drawn[t] \in Nat /\ passed[t] \in Nat
        /\ bytes_until_sample_[t] = drawn[t] - passed[t]
    BY <1>1, SamplerAssumption DEF Inv, TypeOK, STypeOK, CounterOK, Int32
  <2>4. CASE bytes_until_sample_[t] >= k
    <3>1. last'.sampled = FALSE
      BY <2>2, <2>3, <2>4 DEF RecordAllocation, Allocated
    <3>2. passed[t] + k <= drawn[t]
      BY <2>3, <2>4
    <3>3. QED
      BY <2>2, <2>3, <3>1, <3>2
  <2>5. CASE bytes_until_sample_[t] < k
    <3>1. passed[t] + k > drawn[t]
      BY <2>3, <2>5
    <3>2. RecordAllocationSlow(t, k)
      BY <2>2, <2>5 DEF RecordAllocation
    <3>3. last'.sampled = FALSE \/ last'.sampled = (sampling_rate_ >= 0)
      BY <3>2 DEF RecordAllocationSlow, Allocated
    <3>4. initialized_[t] => last'.sampled = (sampling_rate_ >= 0)
      BY <3>2 DEF RecordAllocationSlow, Allocated
    <3>5. CASE sampling_rate_ < 0
      <4>1. (sampling_rate_ >= 0) = FALSE
        BY <2>3, <3>5
      <4>2. QED
        BY <3>3, <3>5, <4>1
    <3>6. CASE ~(sampling_rate_ < 0)
      <4>1. (sampling_rate_ >= 0) = TRUE
        BY <2>3, <3>6
      <4>2. QED
        BY <2>2, <3>1, <3>4, <3>6, <4>1
    <3>7. QED
      BY <3>5, <3>6
  <2>6. QED
    BY <2>3, <2>4, <2>5
<1>2. QED
  BY <1>1, InvAlways, PTL DEF Spec, SampledIffMarked

(***************************************************************************)
(* Without a sample_rate, a thread that has no interval left from another  *)
(* session has every allocation recorded, the first one included.          *)
(***************************************************************************)
THEOREM RateZeroSamplesEverything == Spec => FreshRateZeroSamplesAll
<1> DEFINE sampled == \A t \in Threads :
             Allocates(t) /\ sampling_rate_ = 0 /\ drawnAt[t] = 0 => last'.sampled
<1>1. ASSUME Inv, [Next]_vars PROVE [sampled]_svars
  <2> SUFFICES ASSUME svars' # svars, NEW t \in Threads, Allocates(t),
                      sampling_rate_ = 0, drawnAt[t] = 0
               PROVE  last'.sampled
    OBVIOUS
  <2>1. Next
    BY <1>1 DEF vars
  <2>2. PICK k \in Sizes : k > 0 /\ RecordAllocation(t, k)
    BY <2>1, AllocatingStep
  <2>3. bytes_until_sample_[t] = 0
    BY <1>1 DEF Inv, TypeOK, STypeOK, CounterOK
  <2>4. RecordAllocationSlow(t, k) /\ k \in Nat
    BY <2>2, <2>3, SamplerAssumption DEF RecordAllocation
  <2>5. ~\E i \in PickNextSamplingPoint : i >= k
    BY <1>1, <2>2, <2>4, IntervalType DEF Inv, TypeOK
  <2>6. last'.sampled = (sampling_rate_ >= 0)
    BY <2>4, <2>5 DEF RecordAllocationSlow, Allocated
  <2>7. (sampling_rate_ >= 0) = TRUE
    OBVIOUS
  <2>8. QED
    BY <2>6, <2>7
<1>2. QED
  BY <1>1, InvAlways, PTL DEF Spec, FreshRateZeroSamplesAll
=============================================================================
