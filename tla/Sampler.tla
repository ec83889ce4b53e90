------------------------------- MODULE Sampler -------------------------------
(***************************************************************************)
(* sampler.cc: which allocations HandleMalloc records.  The period is one  *)
(* static variable that start() sets; each thread counts down to the next  *)
(* byte to sample in a thread_local Sampler that outlives the profiler:    *)
(* neither stop() nor start() touches it.  Who starts and stops, and when  *)
(* a thread's allocations get here, is ExtensionModule.                    *)
(*                                                                         *)
(* The random number generator is abstracted to a choice among the         *)
(* intervals it can give.                                                  *)
(***************************************************************************)
EXTENDS Integers

CONSTANTS
  Threads, NoThread,
  Sizes,          \* the sizes that are allocated
  IntMax,         \* the largest int
  NeverInterval,  \* the interval when sampling is off, 16 << 20
  MaxMeans        \* the longest interval, in sample periods

ASSUME SamplerAssumption ==
  /\ Sizes \subseteq Nat /\ NoThread \notin Threads
  /\ {IntMax, NeverInterval, MaxMeans} \subseteq Nat

VARIABLES
  sampling_rate_,
  bytes_until_sample_, initialized_,   \* each thread's Sampler
  drawn,     \* bookkeeping: the interval a thread's counter was last set to
  drawnAt,   \* ... at which sampling_rate_
  passed,    \* ... and the bytes it has allocated unsampled since
  last       \* the last call: an allocation, or none

sampler == <<bytes_until_sample_, initialized_, drawn, drawnAt, passed>>
svars == <<sampling_rate_, sampler, last>>

Int32 == -IntMax-1..IntMax
NoAllocation == [thread |-> NoThread, size |-> 0, sampled |-> FALSE]

STypeOK ==
  /\ sampling_rate_ \in Int32
  /\ bytes_until_sample_ \in [Threads -> Nat]
  /\ initialized_ \in [Threads -> BOOLEAN]
  /\ drawn \in [Threads -> Nat] /\ passed \in [Threads -> Nat]
  /\ drawnAt \in [Threads -> Int32]
  /\ last \in [thread : Threads \cup {NoThread}, size : Sizes \cup {0}, sampled : BOOLEAN]

SInit ==
  /\ sampling_rate_ = 0
  /\ bytes_until_sample_ = [t \in Threads |-> 0]
  /\ initialized_ = [t \in Threads |-> FALSE]
  /\ drawn = [t \in Threads |-> 0] /\ drawnAt = [t \in Threads |-> 0]
  /\ passed = [t \in Threads |-> 0]
  /\ last = NoAllocation

-----------------------------------------------------------------------------
\* An argument read into 64 bits and passed on as an int.
ToInt(n) ==
  LET m == n % (2 * IntMax + 2) IN IF m > IntMax THEN m - (2 * IntMax + 2) ELSE m

SetSamplePeriod(rate) == sampling_rate_' = ToInt(rate)

\* A thread ends, and the next one begins with a Sampler of its own.
NewThread(t) ==
  /\ initialized_' = [initialized_ EXCEPT ![t] = FALSE]
  /\ bytes_until_sample_' = [bytes_until_sample_ EXCEPT ![t] = 0]
  /\ drawn' = [drawn EXCEPT ![t] = 0] /\ drawnAt' = [drawnAt EXCEPT ![t] = 0]
  /\ passed' = [passed EXCEPT ![t] = 0]
  /\ last' = NoAllocation
  /\ UNCHANGED sampling_rate_

\* Slip: no period at all is taken for sampling switched off.
PickZeroIsOff ==
  IF sampling_rate_ <= 0 THEN {NeverInterval} ELSE 0..MaxMeans * sampling_rate_

PickNextSamplingPoint ==
  IF sampling_rate_ < 0 THEN {NeverInterval}
  ELSE IF sampling_rate_ = 0 THEN {0}
  ELSE 0..MaxMeans * sampling_rate_

\* Thread t's counter goes to what is left of an interval.
Count(t, interval, gone) ==
  /\ bytes_until_sample_' = [bytes_until_sample_ EXCEPT ![t] = interval - gone]
  /\ drawn' = [drawn EXCEPT ![t] = interval]
  /\ passed' = [passed EXCEPT ![t] = gone]

Allocated(t, k, sampled) == last' = [thread |-> t, size |-> k, sampled |-> sampled]

\* Slip: an allocation that ends an interval may be covered by the next one.
SlowRedraws(t, k) ==
  /\ drawnAt' = [drawnAt EXCEPT ![t] = sampling_rate_]
  /\ initialized_' = [initialized_ EXCEPT ![t] = TRUE]
  /\ \E next \in PickNextSamplingPoint :
       IF next >= k THEN Count(t, next, k) /\ Allocated(t, k, FALSE)
       ELSE Count(t, next, 0) /\ Allocated(t, k, sampling_rate_ >= 0)

\* A Sampler's first allocation draws its first interval; one that the interval
\* does not cover is sampled, unless sampling is off, and the next is drawn.
RecordAllocationSlow(t, k) ==
  /\ drawnAt' = [drawnAt EXCEPT ![t] = sampling_rate_]
  /\ initialized_' = [initialized_ EXCEPT ![t] = TRUE]
  /\ \/ /\ ~initialized_[t]
        /\ \E first \in PickNextSamplingPoint :
             /\ first >= k
             /\ Count(t, first, k)
             /\ Allocated(t, k, FALSE)
     \/ /\ initialized_[t] \/ \E first \in PickNextSamplingPoint : first < k
        /\ \E next \in PickNextSamplingPoint : Count(t, next, 0)
        /\ Allocated(t, k, sampling_rate_ >= 0)

\* Slip: what is tested is whether the interval is over already.
RecordAllocationLate(t, k) ==
  /\ IF bytes_until_sample_[t] <= 0
     THEN RecordAllocationSlow(t, k)
     ELSE /\ bytes_until_sample_' = [bytes_until_sample_ EXCEPT ![t] = @ - k]
          /\ passed' = [passed EXCEPT ![t] = @ + k]
          /\ Allocated(t, k, FALSE)
          /\ UNCHANGED <<initialized_, drawn, drawnAt>>
  /\ UNCHANGED sampling_rate_

RecordAllocation(t, k) ==
  /\ IF bytes_until_sample_[t] < k
     THEN RecordAllocationSlow(t, k)
     ELSE /\ bytes_until_sample_' = [bytes_until_sample_ EXCEPT ![t] = @ - k]
          /\ passed' = [passed EXCEPT ![t] = @ + k]
          /\ Allocated(t, k, FALSE)
          /\ UNCHANGED <<initialized_, drawn, drawnAt>>
  /\ UNCHANGED sampling_rate_

-----------------------------------------------------------------------------
\* This step is an allocation of some bytes by t.
Allocates(t) == last'.thread = t /\ last'.size > 0

(***************************************************************************)
(* The bytes a thread allocates, end to end, form a line on which each     *)
(* interval marks a byte, and the allocation that contains the marked byte *)
(* is the one that is sampled (sampler.h:85), also across sessions; no     *)
(* allocation is while the rate is negative.                               *)
(***************************************************************************)
SampledIffMarked ==
  [][\A t \in Threads : Allocates(t) =>
       IF sampling_rate_ < 0 THEN ~last'.sampled
       ELSE initialized_[t] =>
              (last'.sampled <=> passed[t] + last'.size > drawn[t])]_svars

(***************************************************************************)
(* Without a sample_rate every allocation is recorded, at least by a       *)
(* thread whose Sampler has no interval left from a session with one.      *)
(***************************************************************************)
FreshRateZeroSamplesAll ==
  [][\A t \in Threads : Allocates(t) /\ sampling_rate_ = 0 /\ drawnAt[t] = 0 =>
       last'.sampled]_svars

(***************************************************************************)
(* Without a sample_rate every allocation is recorded: after a plain       *)
(* start() the tests count on a trace for each object they make            *)
(* (test_mprofile.py:22).                                                  *)
(***************************************************************************)
RateZeroSamplesAll ==
  [][\A t \in Threads : Allocates(t) /\ sampling_rate_ = 0 => last'.sampled]_svars

(***************************************************************************)
(* Whatever interval is left from before, a thread that goes on allocating *)
(* in sessions with a sample rate is sampled again and again, however      *)
(* often they are stopped and started (sampler.cc:74).                     *)
(***************************************************************************)
KeepsSampling ==
  \A t \in Threads :
    <>[](sampling_rate_ > 0 /\ initialized_[t]) /\ []<><<Allocates(t)>>_svars =>
      []<><<Allocates(t) /\ last'.sampled>>_svars
=============================================================================
