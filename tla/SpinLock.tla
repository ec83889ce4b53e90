------------------------------- MODULE SpinLock -------------------------------
(***************************************************************************)
(* spinlock.h: a test-and-test-and-set lock on one atomic flag.  lock()    *)
(* tries an atomic exchange; when that finds the flag set it spins on      *)
(* plain loads until a load sees it clear, and only then tries the         *)
(* exchange again, which another thread may win in between.                *)
(*                                                                         *)
(* acquire/release on exchange and store make the critical sections of     *)
(* successive holders ordered, so the interleaving semantics is exact.     *)
(***************************************************************************)
EXTENDS FiniteSets

CONSTANTS Callers, NoCaller

ASSUME SpinThreadAssumption == NoCaller \notin Callers

VARIABLES
  flag_,   \* the std::atomic<bool>
  at       \* where each thread is in lock() / unlock()

svars == <<flag_, at>>

SpinLabels == {"outside", "exchange", "load", "critical"}

STypeOK ==
  /\ flag_ \in BOOLEAN
  /\ at \in [Callers -> SpinLabels]

SInit ==
  /\ flag_ = FALSE
  /\ at = [t \in Callers |-> "outside"]

\* A thread enters lock() and is about to try the exchange.
Lock(t) ==
  /\ at[t] = "outside"
  /\ at' = [at EXCEPT ![t] = "exchange"]
  /\ UNCHANGED flag_

\* Slip: the value the exchange returns is not looked at.
ExchangeUnchecked(t) ==
  /\ at[t] = "exchange"
  /\ flag_' = TRUE
  /\ at' = [at EXCEPT ![t] = "critical"]

\* flag_.exchange(true): sets the flag and branches on what it held before.
Exchange(t) ==
  /\ at[t] = "exchange"
  /\ flag_' = TRUE
  /\ at' = [at EXCEPT ![t] = IF flag_ THEN "load" ELSE "critical"]

\* Slip: the load that sees the flag clear sets it with a store of its own.
LoadThenStore(t) ==
  /\ at[t] = "load"
  /\ ~flag_
  /\ flag_' = TRUE
  /\ at' = [at EXCEPT ![t] = "exchange"]

\* The inner loop: a load that reads TRUE changes nothing, so only the load
\* that reads FALSE is a step.
Load(t) ==
  /\ at[t] = "load"
  /\ ~flag_
  /\ at' = [at EXCEPT ![t] = "exchange"]
  /\ UNCHANGED flag_

\* unlock(), from the lock_guard's destructor.
Unlock(t) ==
  /\ at[t] = "critical"
  /\ flag_' = FALSE
  /\ at' = [at EXCEPT ![t] = "outside"]

SNext == \E t \in Callers : Lock(t) \/ Exchange(t) \/ Load(t) \/ Unlock(t)

(***************************************************************************)
(* A running thread keeps executing its own instructions, so each of them  *)
(* is weakly fair.  Nothing makes a thread call lock() in the first place. *)
(***************************************************************************)
SFairness ==
  \A t \in Callers : WF_svars(Exchange(t)) /\ WF_svars(Load(t)) /\ WF_svars(Unlock(t))

SSpec == SInit /\ [][SNext]_svars /\ SFairness

-----------------------------------------------------------------------------
InCritical == {t \in Callers : at[t] = "critical"}

Trying == {t \in Callers : at[t] \in {"exchange", "load"}}

\* At most one thread is between lock() and unlock(), however the exchanges,
\* loads and stores of the contenders interleave, and the flag is never left
\* clear behind a holder's back nor set with nobody inside.
MutualExclusion ==
  /\ \A t, u \in InCritical : t = u
  /\ flag_ <=> InCritical # {}

\* The lock is never lost: while some thread is trying, again and again one
\* gets in.  (Which one is up to the scheduler: the code has no queue.)
SomeoneEnters == Trying # {} ~> InCritical # {}

\* The flag protocol implements the abstract lock: the holder is the thread in
\* its critical section, the waiting ones are those trying.
M == INSTANCE Mutex WITH
       Threads <- Callers, NoThread <- NoCaller,
       holder  <- IF InCritical = {} THEN NoCaller
                  ELSE CHOOSE t \in Callers : at[t] = "critical",
       waiting <- Trying

ImplementsMutex == M!MSpec
=============================================================================
