-------------------------------- MODULE Mutex --------------------------------
(***************************************************************************)
(* What std::lock_guard<SpinLock> promises its users: a thread asks for    *)
(* the lock, is at some later point its only holder, and gives it back.    *)
(***************************************************************************)
CONSTANTS Threads, NoThread

VARIABLES
  holder,   \* the thread that holds the lock, or NoThread
  waiting   \* the threads that have asked for it and do not have it yet

mvars == <<holder, waiting>>

MInit == holder = NoThread /\ waiting = {}

Ask(t) ==
  /\ t \notin waiting /\ holder # t
  /\ waiting' = waiting \cup {t}
  /\ UNCHANGED holder

Enter(t) ==
  /\ t \in waiting /\ holder = NoThread
  /\ holder' = t
  /\ waiting' = waiting \ {t}

Leave(t) ==
  /\ holder = t
  /\ holder' = NoThread
  /\ UNCHANGED waiting

MNext == \E t \in Threads : Ask(t) \/ Enter(t) \/ Leave(t)

MSpec == MInit /\ [][MNext]_mvars
=============================================================================
