--------------------------- MODULE MallocPatchProofs ---------------------------
(***************************************************************************)
(* What holds of the hooks, of the reentrancy flag and of the calls        *)
(* themselves whatever overlaps with a start or stop: for any threads, any *)
(* number of starts and any depth of nested calls, and whether or not raw  *)
(* calls are made without the GIL.                                         *)
(***************************************************************************)
EXTENDS MallocPatch, SequenceTheorems, TLAPS

\* The ways a call stack is rewritten: another top, one more on top, and both.
LEMMA NewTop ==
  ASSUME NEW S, NEW s \in Seq(S), s # <<>>, NEW c \in S
  PROVE  /\ <<c>> \o Tail(s) \in Seq(S)
         /\ Len(<<c>> \o Tail(s)) = Len(s)
         /\ Head(<<c>> \o Tail(s)) = c
         /\ (<<c>> \o Tail(s))[1] = c
         /\ \A i \in 2..Len(s) : (<<c>> \o Tail(s))[i] = s[i]
         /\ <<c>> \o Tail(s) # <<>>
<1>1. /\ Tail(s) \in Seq(S) /\ Len(Tail(s)) = Len(s) - 1 /\ Len(s) \in Nat \ {0}
      /\ \A i \in 1..Len(Tail(s)) : Tail(s)[i] = s[i + 1]
  BY HeadTailProperties, LenProperties, EmptySeq
<1>2. <<c>> \in Seq(S) /\ Len(<<c>>) = 1 /\ <<c>>[1] = c
  OBVIOUS
<1>3. /\ <<c>> \o Tail(s) \in Seq(S)
      /\ Len(<<c>> \o Tail(s)) = 1 + Len(Tail(s))
      /\ \A i \in 1..(1 + Len(Tail(s))) : (<<c>> \o Tail(s))[i] =
           IF i <= 1 THEN <<c>>[i] ELSE Tail(s)[i - 1]
  BY <1>1, <1>2, ConcatProperties
<1>4. (<<c>> \o Tail(s))[1] = c
  BY <1>1, <1>2, <1>3
<1>5. ASSUME NEW i \in 2..Len(s) PROVE (<<c>> \o Tail(s))[i] = s[i]
  <2>1. i - 1 \in 1..Len(Tail(s)) /\ (i - 1) + 1 = i
    BY <1>1
  <2>. QED  BY <1>1, <1>3, <2>1
<1>. QED  BY <1>1, <1>3, <1>4, <1>5, EmptySeq

LEMMA OneMore ==
  ASSUME NEW S, NEW s \in Seq(S), NEW c \in S
  PROVE  /\ <<c>> \o s \in Seq(S)
         /\ Len(<<c>> \o s) = Len(s) + 1
         /\ (<<c>> \o s)[1] = c
         /\ \A i \in 1..Len(s) : (<<c>> \o s)[i + 1] = s[i]
<1>1. <<c>> \in Seq(S) /\ Len(<<c>>) = 1 /\ <<c>>[1] = c /\ Len(s) \in Nat
  BY LenProperties
<1>2. /\ <<c>> \o s \in Seq(S)
      /\ Len(<<c>> \o s) = 1 + Len(s)
      /\ \A i \in 1..(1 + Len(s)) : (<<c>> \o s)[i] = IF i <= 1 THEN <<c>>[i] ELSE s[i - 1]
  BY <1>1, ConcatProperties
<1>3. ASSUME NEW i \in 1..Len(s) PROVE (<<c>> \o s)[i + 1] = s[i]
  <2>1. i + 1 \in 1..(1 + Len(s)) /\ ~(i + 1 <= 1) /\ (i + 1) - 1 = i
    BY <1>1
  <2>. QED  BY <1>2, <2>1
<1>. QED  BY <1>1, <1>2, <1>3

LEMMA Pushed ==
  ASSUME NEW S, NEW s \in Seq(S), s # <<>>, NEW c \in S, NEW d \in S
  PROVE  /\ <<c, d>> \o Tail(s) \in Seq(S)
         /\ Len(<<c, d>> \o Tail(s)) = Len(s) + 1
         /\ (<<c, d>> \o Tail(s))[1] = c
         /\ (<<c, d>> \o Tail(s))[2] = d
         /\ \A i \in 3..(Len(s) + 1) : (<<c, d>> \o Tail(s))[i] = s[i - 1]
<1>1. /\ Tail(s) \in Seq(S) /\ Len(Tail(s)) = Len(s) - 1 /\ Len(s) \in Nat \ {0}
      /\ \A i \in 1..Len(Tail(s)) : Tail(s)[i] = s[i + 1]
  BY HeadTailProperties, LenProperties, EmptySeq
<1>2. <<c, d>> \in Seq(S) /\ Len(<<c, d>>) = 2 /\ <<c, d>>[1] = c /\ <<c, d>>[2] = d
  OBVIOUS
<1>3. /\ <<c, d>> \o Tail(s) \in Seq(S)
      /\ Len(<<c, d>> \o Tail(s)) = 2 + Len(Tail(s))
      /\ \A i \in 1..(2 + Len(Tail(s))) : (<<c, d>> \o Tail(s))[i] =
           IF i <= 2 THEN <<c, d>>[i] ELSE Tail(s)[i - 2]
  BY <1>1, <1>2, ConcatProperties
<1>4. (<<c, d>> \o Tail(s))[1] = c /\ (<<c, d>> \o Tail(s))[2] = d
  BY <1>1, <1>2, <1>3
<1>5. ASSUME NEW i \in 3..(Len(s) + 1) PROVE (<<c, d>> \o Tail(s))[i] = s[i - 1]
  <2>1. i - 2 \in 1..Len(Tail(s)) /\ (i - 2) + 1 = i - 1
    BY <1>1
  <2>. QED  BY <1>1, <1>3, <2>1
<1>. QED  BY <1>1, <1>3, <1>4, <1>5

-----------------------------------------------------------------------------
\* What the steps do to the calls of their thread.

LEMMA NewCallType ==
  ASSUME NEW d \in Domains, NEW op \in {"alloc", "free"}, NEW hasGIL \in BOOLEAN
  PROVE  NewCall(d, op, hasGIL) \in Call
BY PatchAssumption DEF NewCall, Call, Domains

LEMMA TopIsCall ==
  ASSUME TypeOK, NEW t \in Threads, InCall(t)
  PROVE  /\ Top(t) \in Call /\ Top(t) = calls[t][1]
         /\ Len(calls[t]) \in Nat \ {0}
<1>1. calls[t] \in Seq(Call) /\ calls[t] # <<>>
  BY DEF TypeOK, InCall
<1>. QED  BY <1>1, HeadTailProperties, LenProperties, EmptySeq DEF Top

LEMMA SetTopDoes ==
  ASSUME TypeOK, NEW t \in Threads, InCall(t), NEW c \in Call, SetTop(t, c)
  PROVE  /\ calls' \in [Threads -> Seq(Call)]
         /\ \A u \in Threads : Len(calls'[u]) = Len(calls[u])
         /\ \A u \in Threads \ {t} : calls'[u] = calls[u]
         /\ calls'[t][1] = c
         /\ \A i \in 2..Len(calls[t]) : calls'[t][i] = calls[t][i]
<1>1. calls[t] \in Seq(Call) /\ calls[t] # <<>>
  BY DEF TypeOK, InCall
<1>2. calls' = [calls EXCEPT ![t] = <<c>> \o Tail(calls[t])]
  BY DEF SetTop, TypeOK
<1>3. /\ <<c>> \o Tail(calls[t]) \in Seq(Call)
      /\ Len(<<c>> \o Tail(calls[t])) = Len(calls[t])
      /\ (<<c>> \o Tail(calls[t]))[1] = c
      /\ \A i \in 2..Len(calls[t]) : (<<c>> \o Tail(calls[t]))[i] = calls[t][i]
  BY <1>1, NewTop
<1>4. calls'[t] = <<c>> \o Tail(calls[t])
  BY <1>2 DEF TypeOK
<1>. QED  BY <1>2, <1>3, <1>4 DEF TypeOK

\* A call begins, outside another or inside.  The one it is made in changes in
\* nested alone.
Begins(t, d, op) == CallAllocator(t, d, op) \/ Delegate(t, d, op)
                      \/ (d = "obj" /\ op = "free" /\ DecrefString(t))

LEMMA BeginsDoes ==
  ASSUME TypeOK, NEW t \in Threads, NEW d \in Domains, NEW op \in {"alloc", "free"}, Begins(t, d, op)
  PROVE  /\ calls' \in [Threads -> Seq(Call)]
         /\ Len(calls'[t]) = Len(calls[t]) + 1 /\ Len(calls[t]) \in Nat
         /\ calls'[t][1] = NewCall(d, op, HasGIL(t))
         /\ NewCall(d, op, HasGIL(t)) \in Call
         /\ \A i \in 1..Len(calls[t]) :
              /\ calls[t][i] \in Call
              /\ calls'[t][i + 1] \in {calls[t][i], [calls[t][i] EXCEPT !.nested = TRUE]}
         /\ \A u \in Threads \ {t} : calls'[u] = calls[u]
         /\ Len(calls[t]) < MaxDepth /\ UNCHANGED <<gil, patch, is_active_, pc>>
<1> DEFINE n == NewCall(d, op, HasGIL(t))
<1>1. calls[t] \in Seq(Call) /\ Len(calls[t]) \in Nat
  BY LenProperties DEF TypeOK
<1>2. n \in Call
  BY NewCallType DEF HasGIL
<1>3. Len(calls[t]) < MaxDepth /\ UNCHANGED <<gil, patch, is_active_, pc>>
  BY DEF Begins, CallAllocator, Delegate, DecrefString
<1>4. \A i \in 1..Len(calls[t]) : calls[t][i] \in Call
  BY <1>1
<1>5. CASE CallAllocator(t, d, op) \/ (d = "obj" /\ op = "free" /\ DecrefString(t))
  <2>1. calls' = [calls EXCEPT ![t] = <<n>> \o calls[t]]
    BY <1>5 DEF CallAllocator, DecrefString, TypeOK
  <2>2. /\ <<n>> \o calls[t] \in Seq(Call) /\ Len(<<n>> \o calls[t]) = Len(calls[t]) + 1
        /\ (<<n>> \o calls[t])[1] = n
        /\ \A i \in 1..Len(calls[t]) : (<<n>> \o calls[t])[i + 1] = calls[t][i]
    BY <1>1, <1>2, OneMore
  <2>3. calls'[t] = <<n>> \o calls[t] /\ \A u \in Threads \ {t} : calls'[u] = calls[u]
    BY <2>1 DEF TypeOK
  <2> HIDE DEF n
  <2>4. calls' \in [Threads -> Seq(Call)]
    BY <2>1, <2>2 DEF TypeOK
  <2>5. Len(calls'[t]) = Len(calls[t]) + 1 /\ calls'[t][1] = n
    BY <2>2, <2>3
  <2>6. \A i \in 1..Len(calls[t]) : calls'[t][i + 1] = calls[t][i]
    BY <2>2, <2>3
  <2>. QED  BY <1>1, <1>2, <1>3, <1>4, <2>3, <2>4, <2>5, <2>6 DEF n
<1>6. CASE Delegate(t, d, op)
  <2>1. calls[t] # <<>> /\ Top(t) \in Call /\ Top(t) = calls[t][1] /\ Len(calls[t]) \in Nat \ {0}
    BY <1>6, TopIsCall DEF Delegate, InCall
  <2> DEFINE c == [Top(t) EXCEPT !.nested = TRUE]
             s == <<n, c>> \o Tail(calls[t])
  <2>2. c \in Call
    BY <2>1 DEF Call
  <2>3. calls' = [calls EXCEPT ![t] = s]
    BY <1>6 DEF Delegate, TypeOK
  <2>4. /\ s \in Seq(Call) /\ Len(s) = Len(calls[t]) + 1 /\ s[1] = n /\ s[2] = c
        /\ \A i \in 3..(Len(calls[t]) + 1) : s[i] = calls[t][i - 1]
    BY <1>1, <1>2, <2>1, <2>2, Pushed
  <2> HIDE DEF s, n
  <2>5. calls'[t] = s /\ \A u \in Threads \ {t} : calls'[u] = calls[u]
    BY <2>3 DEF TypeOK
  <2>6. calls' \in [Threads -> Seq(Call)]
    BY <2>3, <2>4 DEF TypeOK
  <2>7. ASSUME NEW i \in 1..Len(calls[t])
        PROVE  calls'[t][i + 1] \in {calls[t][i], [calls[t][i] EXCEPT !.nested = TRUE]}
    <3>1. CASE i = 1
      BY <2>1, <2>4, <2>5, <3>1
    <3>2. CASE i # 1
      <4>1. i + 1 \in 3..(Len(calls[t]) + 1) /\ (i + 1) - 1 = i
        BY <2>1, <3>2
      <4>. QED  BY <2>4, <2>5, <4>1
    <3>. QED  BY <3>1, <3>2
  <2>8. Len(calls'[t]) = Len(calls[t]) + 1 /\ calls'[t][1] = n
    BY <2>4, <2>5
  <2>. QED  BY <1>1, <1>2, <1>3, <1>4, <2>5, <2>6, <2>7, <2>8 DEF n
<1>. QED  BY <1>5, <1>6 DEF Begins

\* A call that returns.
LEMMA ReturnDoes ==
  ASSUME TypeOK, NEW t \in Threads, Return(t)
  PROVE  /\ calls' \in [Threads -> Seq(Call)]
         /\ Len(calls'[t]) = Len(calls[t]) - 1 /\ Len(calls[t]) \in Nat \ {0}
         /\ \A i \in 1..Len(calls'[t]) : calls'[t][i] = calls[t][i + 1]
         /\ \A u \in Threads \ {t} : calls'[u] = calls[u]
<1>1. calls[t] \in Seq(Call) /\ calls[t] # <<>> /\ Len(calls[t]) \in Nat \ {0}
  BY TopIsCall DEF TypeOK, InCall, Return
<1>2. /\ Tail(calls[t]) \in Seq(Call) /\ Len(Tail(calls[t])) = Len(calls[t]) - 1
      /\ \A i \in 1..Len(Tail(calls[t])) : Tail(calls[t])[i] = calls[t][i + 1]
  BY <1>1, HeadTailProperties
<1>3. calls' = [calls EXCEPT ![t] = Tail(calls[t])]
  BY DEF Return, TypeOK
<1>. QED  BY <1>1, <1>2, <1>3 DEF TypeOK

\* A finalizer starts on top.
LEMMA RunFinalizerDoes ==
  ASSUME TypeOK, NEW t \in Threads, RunFinalizer(t)
  PROVE  /\ calls' \in [Threads -> Seq(Call)]
         /\ Len(calls'[t]) = Len(calls[t]) /\ Len(calls[t]) \in Nat \ {0}
         /\ \A i \in 1..Len(calls[t]) :
              /\ calls[t][i] \in Call /\ calls'[t][i] \in Call
              /\ calls'[t][i] = [calls[t][i] EXCEPT !.exposed = TRUE, !.nested = TRUE,
                                   !.at = IF i = 1 THEN "finalizer" ELSE @]
         /\ calls[t][1].at = "walk"
         /\ \A u \in Threads \ {t} : calls'[u] = calls[u]
<1>1. /\ calls[t] \in Seq(Call) /\ Len(calls[t]) \in Nat \ {0} /\ DOMAIN calls[t] = 1..Len(calls[t])
      /\ calls[t][1].at = "walk"
  BY TopIsCall, LenProperties DEF TypeOK, RunFinalizer
<1> DEFINE s == [i \in 1..Len(calls[t]) |->
                   [calls[t][i] EXCEPT !.exposed = TRUE, !.nested = TRUE,
                                       !.at = IF i = 1 THEN "finalizer" ELSE @]]
<1>2. ASSUME NEW i \in 1..Len(calls[t]) PROVE calls[t][i] \in Call /\ s[i] \in Call
  <2> DEFINE at == IF i = 1 THEN "finalizer" ELSE calls[t][i].at
  <2>1. calls[t][i] \in Call
    BY <1>1
  <2>2. at \in {"call", "base", "handle", "ensure", "walk", "finalizer", "crash", "return"}
    BY <2>1 DEF Call
  <2>3. s[i] = [calls[t][i] EXCEPT !.exposed = TRUE, !.nested = TRUE, !.at = at]
    OBVIOUS
  <2> HIDE DEF at, s
  <2>. QED  BY <2>1, <2>2, <2>3 DEF Call
<1>3. s \in Seq(Call) /\ Len(s) = Len(calls[t])
  <2>1. s \in [1..Len(calls[t]) -> Call]
    BY <1>2
  <2> HIDE DEF s
  <2>. QED  BY <1>1, <2>1, SeqDef, LenProperties
<1>4. calls' = [calls EXCEPT ![t] = s]
  BY <1>1 DEF RunFinalizer, TypeOK
<1>5. \A i \in 1..Len(calls[t]) :
        s[i] = [calls[t][i] EXCEPT !.exposed = TRUE, !.nested = TRUE,
                                   !.at = IF i = 1 THEN "finalizer" ELSE @]
  OBVIOUS
<1> HIDE DEF s
<1>6. calls'[t] = s
  BY <1>4 DEF TypeOK
<1>. QED  BY <1>1, <1>2, <1>3, <1>4, <1>5, <1>6 DEF TypeOK

-----------------------------------------------------------------------------
(***************************************************************************)
(* The inductive invariant.                                                *)
(***************************************************************************)

\* The reentrancy flag.  ReentrantScope's is_outer_scope_ and the thread's
\* is_active_ against the calls s the thread is in.
IsWrapper(c) == c.fn = "wrapped" /\ c.at # "call"

Reentry(s, active) ==
  /\ active <=> \E i \in 1..Len(s) : IsWrapper(s[i])
  /\ \A i \in 1..Len(s) : IsWrapper(s[i]) =>
       (s[i].is_outer_scope_ <=> \A j \in 1..Len(s) : IsWrapper(s[j]) => j <= i)
  /\ \A i \in 1..Len(s) : s[i].is_outer_scope_ => IsWrapper(s[i])

ReentryInv == \A t \in Threads : Reentry(calls[t], is_active_[t])

\* The GIL.  Who is in start() or stop() has it, and is at no allocator call but
\* those of the destructor.
ApiHasGIL == \A t \in Threads : InApi(t) => HasGIL(t)
ApiRunsPython == \A t \in Threads : InApi(t) /\ pc[t] # "destructor" => RunsPython(t)

\* In the calls of a thread only an outermost allocation records, or waits for
\* the GIL, or is interrupted by a finalizer.  A thread that ensured the GIL had
\* begun without it, and with raw calls alone; one that lost it meanwhile did so in
\* a finalizer, and has run nothing but Python since.
Recording(c) == c.at \in {"ensure", "walk", "finalizer"} \/ c.ensured
Above(t, i) == \E j \in 1..i : calls[t][j].at = "finalizer"
GilOK(t) == \A i \in 1..Len(calls[t]) : LET c == calls[t][i] IN
  /\ Recording(c) => c.is_outer_scope_ /\ c.op = "alloc"
  /\ c.ensured => /\ c.at \in {"walk", "finalizer"}
                  /\ \A j \in i..Len(calls[t]) : calls[t][j].dom = "raw" /\ calls[t][j].exposed
  /\ c.at = "finalizer" => \A j \in i..Len(calls[t]) : calls[t][j].exposed
  /\ c.dom # "raw" \/ c.at = "walk" => HasGIL(t) \/ Above(t, i)
  /\ InApi(t) => c.op = "free" \/ Above(t, i)
  /\ c.exposed \/ HasGIL(t)
GilInv == ApiHasGIL /\ ApiRunsPython /\ \A t \in Threads : GilOK(t)

\* What a call was handed is its own domain's or nothing; and what a call that
\* is not exposed has read is still there.
Handed(c) ==
  /\ c.ctx \in {"unread", "nullptr", c.dom}
  /\ IsWrapper(c) /\ c.at # "crash" => c.ctx = c.dom
UpToDate(c) ==
  /\ c.fn \in {"unread", hook[c.dom].fn} /\ c.ctx \in {"unread", hook[c.dom].ctx}
  /\ c.at # "call" => c.fn # "unread" /\ c.ctx # "unread"
  /\ c.at # "crash"
  /\ c.is_outer_scope_ => c.fn = "wrapped"
  /\ c.profiler \in {0, g_profiler}
  /\ c.at \in {"handle", "ensure", "walk"} => c.profiler = g_profiler
CallOK(c) == Handed(c) /\ (c.exposed \/ UpToDate(c))
CallsOK == \A t \in Threads : \A i \in 1..Len(calls[t]) : CallOK(calls[t][i])

\* Exactly the domains of D have their wrapper, the others the system's allocator.
Hooked(D) == \A d \in Domains : hook[d] = IF d \in D THEN Wrapper(d) ELSE System
BasesSaved == \A d \in Domains : g_base_allocators[d] = System

\* How far start() or stop() is with the hooks, before each label.
HookedAt(label) ==
  CASE label = "hook mem"   -> {"raw"}
    [] label = "hook obj"   -> {"raw", "mem"}
    [] label = "unhook raw" -> Domains
    [] label = "unhook mem" -> {"mem", "obj"}
    [] label = "unhook obj" -> {"obj"}
    [] OTHER                -> {}

Stage == \A t \in Threads : InApi(t) =>
  /\ Hooked(HookedAt(pc[t]))
  /\ g_profiler = 0 <=> pc[t] \in {"attach", "destructor"}
  /\ pc[t] \notin {"attach", "save", "reset", "destructor"} => BasesSaved
  /\ pc[t] = "attach" => started < MaxStarts

\* Between them all is hooked or nothing is.
AtRest == (\A t \in Threads : ~InApi(t)) =>
  \/ g_profiler = 0 /\ Hooked({})
  \/ g_profiler # 0 /\ Hooked(Domains) /\ BasesSaved

PatchInv == TypeOK /\ ReentryInv /\ GilInv /\ CallsOK /\ Stage /\ AtRest

LEMMA InitPatchInv == Init => PatchInv
<1> SUFFICES ASSUME Init PROVE PatchInv
  OBVIOUS
<1>1. calls \in [Threads -> Seq(Call)] /\ \A t \in Threads : Len(calls[t]) = 0 /\ ~is_active_[t]
  BY DEF Init
<1>2. TypeOK
  BY <1>1, PatchAssumption DEF Init, TypeOK, Labels, Allocator
<1>3. ReentryInv
  BY <1>1 DEF ReentryInv, Reentry
<1>4. GilInv
  BY <1>1 DEF Init, GilInv, ApiHasGIL, ApiRunsPython, GilOK, InApi
<1>5. CallsOK
  BY <1>1 DEF CallsOK
<1>6. Stage /\ AtRest
  BY DEF Init, Stage, AtRest, InApi, Hooked
<1>. QED  BY <1>2, <1>3, <1>4, <1>5, <1>6 DEF PatchInv

\* The hooks' part of the invariant is about patch and pc alone, and leaves no
\* hook without its profiler.
LEMMA QuietKeepsStage ==
  ASSUME Stage, AtRest, UNCHANGED <<patch, pc>>
  PROVE  Stage' /\ AtRest'
BY DEF Stage, AtRest, InApi, Hooked, BasesSaved, HookedAt, patch

LEMMA StageImpliesHooks == PatchInv => HooksHaveProfiler /\ HooksFollowProfiler
<1> SUFFICES ASSUME PatchInv PROVE HooksHaveProfiler /\ HooksFollowProfiler
  OBVIOUS
<1>1. \A d \in Domains : Wrapper(d) # System
  BY DEF Wrapper, System
<1>2. CASE \A t \in Threads : ~InApi(t)
  BY <1>1, <1>2 DEF PatchInv, AtRest, Hooked, BasesSaved, HooksHaveProfiler, HooksFollowProfiler
<1>3. ASSUME NEW t \in Threads, InApi(t) PROVE HooksHaveProfiler /\ HooksFollowProfiler
  <2>1. /\ Hooked(HookedAt(pc[t]))
        /\ g_profiler = 0 <=> pc[t] \in {"attach", "destructor"}
        /\ pc[t] \notin {"attach", "save", "reset", "destructor"} => BasesSaved
    BY <1>3 DEF PatchInv, Stage
  <2>2. HooksHaveProfiler
    BY <1>1, <2>1 DEF Hooked, HookedAt, BasesSaved, HooksHaveProfiler
  <2>3. HooksFollowProfiler
    BY <1>1, <1>3, <2>1 DEF Hooked, HookedAt, HooksFollowProfiler, InApi
  <2>. QED  BY <2>2, <2>3
<1>. QED  BY <1>2, <1>3

LEMMA QuietKeepsCalls ==
  ASSUME CallsOK, UNCHANGED <<patch, calls>>
  PROVE  CallsOK'
<1>1. \A t \in Threads : \A i \in 1..Len(calls[t]) : CallOK(calls'[t][i])
  BY DEF CallsOK
<1>2. UNCHANGED <<hook, g_profiler, calls>>
  BY DEF patch
<1>. QED  BY <1>1, <1>2 DEF CallsOK, CallOK, Handed, UpToDate, IsWrapper

\* Only one thread is in start() or stop().
LEMMA AloneInApi ==
  ASSUME ApiHasGIL, NEW t \in Threads, HasGIL(t)
  PROVE  \A u \in Threads \ {t} : ~InApi(u)
BY DEF ApiHasGIL, HasGIL

\* What the invariant says of a thread's innermost call.
LEMMA TopFacts ==
  ASSUME PatchInv, NEW t \in Threads, InCall(t)
  PROVE  /\ Top(t) \in Call /\ Top(t) = calls[t][1] /\ Len(calls[t]) \in Nat \ {0}
         /\ Recording(Top(t)) => Top(t).is_outer_scope_ /\ Top(t).op = "alloc"
         /\ Top(t).ensured =>
              /\ Top(t).at \in {"walk", "finalizer"}
              /\ \A j \in 1..Len(calls[t]) : calls[t][j].dom = "raw" /\ calls[t][j].exposed
         /\ Top(t).at = "finalizer" => \A j \in 1..Len(calls[t]) : calls[t][j].exposed
         /\ Top(t).at # "finalizer" =>
              /\ Top(t).dom # "raw" \/ Top(t).at = "walk" => HasGIL(t)
              /\ InApi(t) => Top(t).op = "free" /\ pc[t] = "destructor"
         /\ Top(t).exposed \/ HasGIL(t)
         /\ CallOK(Top(t))
         /\ Top(t).is_outer_scope_ => IsWrapper(Top(t))
<1>1. Top(t) \in Call /\ Top(t) = calls[t][1] /\ Len(calls[t]) \in Nat \ {0} /\ 1 \in 1..Len(calls[t])
  BY TopIsCall DEF PatchInv
<1>2. Above(t, 1) <=> Top(t).at = "finalizer"
  BY <1>1 DEF Above
<1>3. GilOK(t)
  BY DEF PatchInv, GilInv
<1>4. /\ Recording(Top(t)) => Top(t).is_outer_scope_ /\ Top(t).op = "alloc"
      /\ Top(t).ensured =>
           /\ Top(t).at \in {"walk", "finalizer"}
           /\ \A j \in 1..Len(calls[t]) : calls[t][j].dom = "raw" /\ calls[t][j].exposed
      /\ Top(t).at = "finalizer" => \A j \in 1..Len(calls[t]) : calls[t][j].exposed
      /\ Top(t).dom # "raw" \/ Top(t).at = "walk" => HasGIL(t) \/ Above(t, 1)
      /\ InApi(t) => Top(t).op = "free" \/ Above(t, 1)
      /\ Top(t).exposed \/ HasGIL(t)
  BY <1>1, <1>3 DEF GilOK
<1>5. InApi(t) /\ Top(t).at # "finalizer" => pc[t] = "destructor"
  BY DEF PatchInv, GilInv, ApiRunsPython, RunsPython
<1>6. CallOK(Top(t))
  BY <1>1 DEF PatchInv, CallsOK
<1>7. Top(t).is_outer_scope_ => IsWrapper(Top(t))
  BY <1>1 DEF PatchInv, ReentryInv, Reentry
<1>. QED  BY <1>1, <1>2, <1>4, <1>5, <1>6, <1>7

\* Only one call of a thread records at a time: it is the outermost scope.
LEMMA OneRecords ==
  ASSUME PatchInv, NEW t \in Threads,
         NEW i \in 1..Len(calls[t]), Recording(calls[t][i]),
         NEW j \in 1..Len(calls[t]), Recording(calls[t][j])
  PROVE  i = j
<1>1. calls[t][i].is_outer_scope_ /\ calls[t][j].is_outer_scope_
  BY DEF PatchInv, GilInv, GilOK
<1>2. IsWrapper(calls[t][i]) /\ IsWrapper(calls[t][j])
  BY <1>1 DEF PatchInv, ReentryInv, Reentry
<1>3. i <= j /\ j <= i
  BY <1>1, <1>2 DEF PatchInv, ReentryInv, Reentry
<1>. QED  BY <1>3

\* An allocation that is recorded in the raw domain by a thread without the GIL.
LEMMA EnsuringCalls ==
  ASSUME PatchInv, NEW t \in Threads, InCall(t), Top(t).at = "ensure", ~HasGIL(t)
  PROVE  \A j \in 1..Len(calls[t]) : calls[t][j].dom = "raw" /\ calls[t][j].exposed
<1>1. Top(t) = calls[t][1] /\ Len(calls[t]) \in Nat \ {0}
  BY TopFacts
<1>2. \A j \in 1..Len(calls[t]) : calls[t][j].at # "finalizer"
  <2> SUFFICES ASSUME NEW j \in 1..Len(calls[t]), calls[t][j].at = "finalizer" PROVE FALSE
    OBVIOUS
  <2>1. 1 \in 1..Len(calls[t]) /\ Recording(calls[t][1]) /\ Recording(calls[t][j])
    BY <1>1 DEF Recording
  <2>2. j = 1
    BY <2>1, OneRecords
  <2>. QED  BY <1>1, <2>2
<1>3. \A j \in 1..Len(calls[t]) : ~Above(t, j)
  BY <1>1, <1>2 DEF Above
<1>. QED  BY <1>3 DEF PatchInv, GilInv, GilOK

\* What the other threads rely on is kept.
LEMMA OthersKeepGil ==
  ASSUME PatchInv, NEW t \in Threads,
         gil' = gil \/ (gil \in {t, NoThread} /\ gil' \in {t, NoThread}),
         \A u \in Threads \ {t} : calls'[u] = calls[u] /\ pc'[u] = pc[u],
         GilOK(t)', InApi(t)' => HasGIL(t)',
         InApi(t)' /\ pc'[t] # "destructor" => RunsPython(t)'
  PROVE  GilInv'
<1>1. \A u \in Threads \ {t} : HasGIL(u)' <=> HasGIL(u)
  BY PatchAssumption DEF HasGIL
<1>2. ASSUME NEW u \in Threads, u # t
      PROVE  /\ GilOK(u)' /\ (InApi(u)' => HasGIL(u)')
             /\ InApi(u)' /\ pc'[u] # "destructor" => RunsPython(u)'
  <2>1. calls'[u] = calls[u] /\ pc'[u] = pc[u] /\ (HasGIL(u)' <=> HasGIL(u))
    BY <1>1, <1>2
  <2>2. /\ GilOK(u) /\ (InApi(u) => HasGIL(u))
        /\ InApi(u) /\ pc[u] # "destructor" => RunsPython(u)
    BY DEF PatchInv, GilInv, ApiHasGIL, ApiRunsPython
  <2>3. GilOK(u)'
    BY <2>1, <2>2 DEF GilOK, Above, InApi
  <2>4. InApi(u)' /\ pc'[u] # "destructor" => RunsPython(u)'
    BY <2>1, <2>2 DEF InApi, RunsPython, InCall, Top
  <2>. QED  BY <2>1, <2>2, <2>3, <2>4 DEF InApi
<1>3. ApiHasGIL' /\ ApiRunsPython' /\ \A u \in Threads : GilOK(u)'
  BY <1>2 DEF ApiHasGIL, ApiRunsPython
<1>. QED  BY <1>3 DEF GilInv

-----------------------------------------------------------------------------
\* The scopes of a thread.

\* c and d are marked alike.
Alike(c, d) ==
  /\ IsWrapper(c) <=> IsWrapper(d)
  /\ c.is_outer_scope_ <=> d.is_outer_scope_

LEMMA SameMarks ==
  ASSUME NEW s \in Seq(Call), NEW r \in Seq(Call), NEW a \in BOOLEAN, Reentry(s, a),
         Len(r) = Len(s), \A i \in 1..Len(s) : Alike(r[i], s[i])
  PROVE  Reentry(r, a)
BY DEF Reentry, Alike

\* A new outermost or nested scope.
LEMMA ScopeEntered ==
  ASSUME NEW s \in Seq(Call), NEW r \in Seq(Call), NEW a \in BOOLEAN, Reentry(s, a),
         Len(r) = Len(s), Len(s) > 0,
         ~IsWrapper(s[1]), IsWrapper(r[1]), r[1].is_outer_scope_ <=> ~a,
         \A i \in 2..Len(s) : r[i] = s[i]
  PROVE  Reentry(r, TRUE)
<1>1. Len(s) \in Nat \ {0}
  BY LenProperties
<1>2. a <=> \E i \in 2..Len(s) : IsWrapper(s[i])
  BY <1>1 DEF Reentry
<1>3. \A i \in 2..Len(s) : IsWrapper(s[i]) =>
        (s[i].is_outer_scope_ <=> \A j \in 2..Len(s) : IsWrapper(s[j]) => j <= i)
  BY <1>1 DEF Reentry
<1>4. r[1].is_outer_scope_ <=> \A j \in 1..Len(r) : IsWrapper(r[j]) => j <= 1
  <2>1. \A j \in 2..Len(s) : (IsWrapper(r[j]) <=> IsWrapper(s[j])) /\ ~(j <= 1)
    BY <1>1
  <2>. QED  BY <1>1, <1>2, <2>1
<1>5. ASSUME NEW i \in 2..Len(s), IsWrapper(s[i])
      PROVE  s[i].is_outer_scope_ <=> \A j \in 1..Len(r) : IsWrapper(r[j]) => j <= i
  BY <1>1, <1>3, <1>5
<1>6. \A i \in 1..Len(r) : i = 1 \/ (i \in 2..Len(s) /\ r[i] = s[i])
  BY <1>1
<1>7. \A i \in 1..Len(r) : r[i].is_outer_scope_ => IsWrapper(r[i])
  BY <1>1, <1>6 DEF Reentry
<1>8. \A i \in 1..Len(r) : IsWrapper(r[i]) =>
        (r[i].is_outer_scope_ <=> \A j \in 1..Len(r) : IsWrapper(r[j]) => j <= i)
  BY <1>4, <1>5, <1>6
<1>9. 1 \in 1..Len(r)
  BY <1>1
<1>. QED  BY <1>7, <1>8, <1>9 DEF Reentry

\* A call that is no scope yet, on top.
LEMMA CallPushed ==
  ASSUME NEW s \in Seq(Call), NEW r \in Seq(Call), NEW a \in BOOLEAN, Reentry(s, a),
         Len(r) = Len(s) + 1, ~IsWrapper(r[1]), ~r[1].is_outer_scope_,
         \A i \in 1..Len(s) : Alike(r[i + 1], s[i])
  PROVE  Reentry(r, a)
<1>1. Len(s) \in Nat
  BY LenProperties
<1>2. \A i \in 1..Len(r) : i = 1 \/ (i - 1 \in 1..Len(s) /\ (i - 1) + 1 = i)
  BY <1>1
<1>3. \A i \in 1..Len(r) : i = 1 \/ Alike(r[i], s[i - 1])
  BY <1>2
<1>4. \A i \in 1..Len(s) : i + 1 \in 1..Len(r) /\ (i + 1) - 1 = i
  BY <1>1
<1>5. a <=> \E i \in 1..Len(r) : IsWrapper(r[i])
  BY <1>2, <1>3, <1>4 DEF Reentry, Alike
<1>6. ASSUME NEW i \in 1..Len(r), IsWrapper(r[i])
      PROVE  r[i].is_outer_scope_ <=> \A j \in 1..Len(r) : IsWrapper(r[j]) => j <= i
  <2>1. i - 1 \in 1..Len(s) /\ Alike(r[i], s[i - 1]) /\ IsWrapper(s[i - 1])
    BY <1>2, <1>3, <1>6 DEF Alike
  <2>2. s[i - 1].is_outer_scope_ <=> \A j \in 1..Len(s) : IsWrapper(s[j]) => j <= i - 1
    BY <2>1 DEF Reentry
  <2>3. ASSUME \A j \in 1..Len(s) : IsWrapper(s[j]) => j <= i - 1, NEW j \in 1..Len(r), IsWrapper(r[j])
        PROVE  j <= i
    <3>1. j - 1 \in 1..Len(s) /\ IsWrapper(s[j - 1])
      BY <1>2, <1>3, <2>3 DEF Alike
    <3>. QED  BY <1>1, <2>3, <3>1
  <2>4. ASSUME \A j \in 1..Len(r) : IsWrapper(r[j]) => j <= i, NEW j \in 1..Len(s), IsWrapper(s[j])
        PROVE  j <= i - 1
    <3>1. j + 1 \in 1..Len(r) /\ IsWrapper(r[j + 1])
      BY <1>4, <2>4 DEF Alike
    <3>. QED  BY <1>1, <2>4, <3>1
  <2>. QED  BY <2>1, <2>2, <2>3, <2>4 DEF Alike
<1>7. ASSUME NEW i \in 1..Len(r), r[i].is_outer_scope_ PROVE IsWrapper(r[i])
  <2>1. i - 1 \in 1..Len(s) /\ Alike(r[i], s[i - 1])
    BY <1>2, <1>3, <1>7
  <2>. QED  BY <1>7, <2>1 DEF Reentry, Alike
<1>. QED  BY <1>5, <1>6, <1>7 DEF Reentry

\* The innermost call returns; were it the outermost scope, no other is left.
LEMMA CallPopped ==
  ASSUME NEW s \in Seq(Call), NEW r \in Seq(Call), NEW a \in BOOLEAN, Reentry(s, a),
         Len(s) > 0, Len(r) = Len(s) - 1, \A i \in 1..Len(r) : r[i] = s[i + 1],
         NEW b \in BOOLEAN, b <=> (a /\ ~s[1].is_outer_scope_)
  PROVE  Reentry(r, b)
<1>1. Len(s) \in Nat \ {0}
  BY LenProperties
<1>2. \A i \in 1..Len(r) : i + 1 \in 1..Len(s) /\ ~(i + 1 <= 1)
  BY <1>1
<1>3. \A i \in 1..Len(s) : i = 1 \/ (i - 1 \in 1..Len(r) /\ r[i - 1] = s[i])
  <2> SUFFICES ASSUME NEW i \in 1..Len(s), i # 1 PROVE i - 1 \in 1..Len(r) /\ r[i - 1] = s[i]
    OBVIOUS
  <2>1. i - 1 \in 1..Len(r) /\ (i - 1) + 1 = i
    BY <1>1
  <2>. QED  BY <2>1
<1>4. 1 \in 1..Len(s)
  BY <1>1
<1>5. CASE s[1].is_outer_scope_
  <2>1. \A j \in 1..Len(s) : IsWrapper(s[j]) => j <= 1
    BY <1>4, <1>5 DEF Reentry
  <2>2. \A i \in 1..Len(r) : ~IsWrapper(r[i]) /\ ~r[i].is_outer_scope_
    BY <1>2, <2>1 DEF Reentry
  <2>. QED  BY <1>5, <2>2 DEF Reentry
<1>6. CASE ~s[1].is_outer_scope_
  <2>1. a <=> \E i \in 1..Len(r) : IsWrapper(r[i])
    <3>1. ASSUME a PROVE \E i \in 1..Len(r) : IsWrapper(r[i])
      <4>1. PICK j \in 1..Len(s) : IsWrapper(s[j])
        BY <3>1 DEF Reentry
      <4>2. PICK k \in 1..Len(s) : IsWrapper(s[k]) /\ k # 1
        <5>1. CASE j = 1
          BY <1>1, <1>4, <1>6, <4>1, <5>1 DEF Reentry
        <5>2. CASE j # 1
          BY <4>1, <5>2
        <5>. QED  BY <5>1, <5>2
      <4>. QED  BY <1>3, <4>2
    <3>2. ASSUME NEW i \in 1..Len(r), IsWrapper(r[i]) PROVE a
      BY <1>2, <3>2 DEF Reentry
    <3>. QED  BY <3>1, <3>2
  <2>2. ASSUME NEW i \in 1..Len(r), IsWrapper(r[i])
        PROVE  r[i].is_outer_scope_ <=> \A j \in 1..Len(r) : IsWrapper(r[j]) => j <= i
    <3>1. r[i].is_outer_scope_ <=> \A j \in 1..Len(s) : IsWrapper(s[j]) => j <= i + 1
      BY <1>2, <2>2 DEF Reentry
    <3>2. ASSUME \A j \in 1..Len(s) : IsWrapper(s[j]) => j <= i + 1, NEW j \in 1..Len(r), IsWrapper(r[j])
          PROVE  j <= i
      <4>1. j + 1 <= i + 1
        BY <1>2, <3>2
      <4>. QED  BY <1>1, <4>1
    <3>3. ASSUME \A j \in 1..Len(r) : IsWrapper(r[j]) => j <= i, NEW j \in 1..Len(s), IsWrapper(s[j])
          PROVE  j <= i + 1
      <4>1. j = 1 \/ j - 1 <= i
        BY <1>3, <3>3
      <4>. QED  BY <1>1, <4>1
    <3>. QED  BY <3>1, <3>2, <3>3
  <2>3. \A i \in 1..Len(r) : r[i].is_outer_scope_ => IsWrapper(r[i])
    BY <1>2 DEF Reentry
  <2>. QED  BY <1>6, <2>1, <2>2, <2>3 DEF Reentry
<1>. QED  BY <1>5, <1>6

-----------------------------------------------------------------------------
\* A step of a thread's innermost call, which becomes c.

\* What the step leaves alone, and what it must see to.
Moves(t, c) ==
  /\ InCall(t) /\ c \in Call /\ SetTop(t, c)
  /\ c.dom = Top(t).dom /\ c.op = Top(t).op /\ c.exposed = Top(t).exposed
  /\ c.at # "finalizer"
  /\ Recording(c) => c.is_outer_scope_ /\ c.op = "alloc"
  /\ c.ensured => /\ c.at = "walk"
                  /\ \A j \in 1..Len(calls[t]) : calls[t][j].dom = "raw" /\ calls[t][j].exposed
  /\ CallOK(c)
  /\ UNCHANGED <<patch, pc>>

LEMMA MoveDoes ==
  ASSUME PatchInv, NEW t \in Threads, NEW c, Moves(t, c)
  PROVE  /\ calls' \in [Threads -> Seq(Call)]
         /\ \A u \in Threads : Len(calls'[u]) = Len(calls[u])
         /\ \A u \in Threads \ {t} : calls'[u] = calls[u]
         /\ calls'[t][1] = c /\ calls[t][1] = Top(t)
         /\ \A i \in 2..Len(calls[t]) : calls'[t][i] = calls[t][i]
         /\ \A i \in 1..Len(calls[t]) : i = 1 \/ i \in 2..Len(calls[t])
         /\ Len(calls[t]) \in Nat \ {0} /\ 1 \in 1..Len(calls[t])
         /\ calls'[t] # <<>>
<1>1. TypeOK
  BY DEF PatchInv
<1>2. /\ calls' \in [Threads -> Seq(Call)]
      /\ \A u \in Threads : Len(calls'[u]) = Len(calls[u])
      /\ \A u \in Threads \ {t} : calls'[u] = calls[u]
      /\ calls'[t][1] = c
      /\ \A i \in 2..Len(calls[t]) : calls'[t][i] = calls[t][i]
  BY <1>1, SetTopDoes DEF Moves
<1>3. Len(calls[t]) \in Nat \ {0} /\ calls[t][1] = Top(t)
  BY TopFacts DEF Moves
<1>4. calls'[t] # <<>>
  <2>1. Len(calls'[t]) # 0
    BY <1>2, <1>3
  <2>. QED  BY <2>1
<1>. QED  BY <1>2, <1>3, <1>4

\* The other calls of the thread, and the other threads, are as they were.
LEMMA MoveKeepsCalls ==
  ASSUME PatchInv, NEW t \in Threads, NEW c, Moves(t, c)
  PROVE  CallsOK'
<1>1. /\ \A u \in Threads : Len(calls'[u]) = Len(calls[u])
      /\ \A u \in Threads \ {t} : calls'[u] = calls[u]
      /\ calls'[t][1] = c
      /\ \A i \in 2..Len(calls[t]) : calls'[t][i] = calls[t][i]
      /\ \A i \in 1..Len(calls[t]) : i = 1 \/ i \in 2..Len(calls[t])
  BY MoveDoes
<1>2. ASSUME NEW u \in Threads, NEW i \in 1..Len(calls[u]) PROVE CallOK(calls'[u][i])
  <2>1. CASE u = t /\ i = 1
    BY <1>1, <2>1 DEF Moves
  <2>2. CASE ~(u = t /\ i = 1)
    BY <1>1, <1>2, <2>2 DEF PatchInv, CallsOK
  <2>. QED  BY <2>1, <2>2
<1>3. UNCHANGED <<hook, g_profiler>>
  BY DEF Moves, patch
<1>. QED  BY <1>1, <1>2, <1>3 DEF CallsOK, CallOK, Handed, UpToDate, IsWrapper

LEMMA MoveKeepsReentry ==
  ASSUME PatchInv, NEW t \in Threads, NEW c, Moves(t, c), Alike(c, Top(t)), UNCHANGED is_active_
  PROVE  ReentryInv'
<1>1. /\ calls' \in [Threads -> Seq(Call)] /\ calls \in [Threads -> Seq(Call)]
      /\ Len(calls'[t]) = Len(calls[t]) /\ is_active_[t] \in BOOLEAN
      /\ \A u \in Threads \ {t} : calls'[u] = calls[u]
      /\ calls'[t][1] = c /\ calls[t][1] = Top(t)
      /\ \A i \in 2..Len(calls[t]) : calls'[t][i] = calls[t][i]
      /\ \A i \in 1..Len(calls[t]) : i = 1 \/ i \in 2..Len(calls[t])
  BY MoveDoes DEF PatchInv, TypeOK
<1>2. \A i \in 1..Len(calls[t]) : Alike(calls'[t][i], calls[t][i])
  BY <1>1 DEF Alike
<1>3. Reentry(calls'[t], is_active_[t])
  BY <1>1, <1>2, SameMarks DEF PatchInv, ReentryInv
<1>. QED  BY <1>1, <1>3 DEF PatchInv, ReentryInv

\* A step that does not give the GIL up.
LEMMA MoveKeepsInv ==
  ASSUME PatchInv, NEW t \in Threads, NEW c, Moves(t, c), ReentryInv',
         is_active_' \in [Threads -> BOOLEAN],
         gil' = gil \/ (gil \in {t, NoThread} /\ gil' = t),
         Top(t).at = "finalizer" => gil' = t /\ ~InApi(t),
         c.at = "walk" => gil' = t
  PROVE  PatchInv'
<1>1. /\ calls' \in [Threads -> Seq(Call)]
      /\ \A u \in Threads : Len(calls'[u]) = Len(calls[u])
      /\ \A u \in Threads \ {t} : calls'[u] = calls[u]
      /\ calls'[t][1] = c /\ calls[t][1] = Top(t)
      /\ \A i \in 2..Len(calls[t]) : calls'[t][i] = calls[t][i]
      /\ \A i \in 1..Len(calls[t]) : i = 1 \/ i \in 2..Len(calls[t])
      /\ Len(calls[t]) \in Nat \ {0} /\ 1 \in 1..Len(calls[t])
  BY MoveDoes
<1>2. /\ UNCHANGED <<patch, pc>> /\ (InApi(t)' <=> InApi(t)) /\ (HasGIL(t) => HasGIL(t)')
      /\ c.dom = Top(t).dom /\ c.op = Top(t).op /\ c.exposed = Top(t).exposed
      /\ c.at # "finalizer"
      /\ InCall(t)
  BY DEF Moves, InApi, HasGIL
<1>3. TypeOK'
  BY <1>1, <1>2 DEF PatchInv, TypeOK, patch
<1>4. /\ Top(t).exposed \/ HasGIL(t)
      /\ Top(t).at # "finalizer" =>
              /\ Top(t).dom # "raw" => HasGIL(t)
              /\ InApi(t) => Top(t).op = "free" /\ pc[t] = "destructor"
  BY <1>2, TopFacts
<1>5. \A j \in 1..Len(calls[t]) :
        calls'[t][j].dom = calls[t][j].dom /\ calls'[t][j].exposed = calls[t][j].exposed
  BY <1>1, <1>2
<1>6. ASSUME NEW i \in 1..Len(calls[t]) PROVE Above(t, i) => Above(t, i)' \/ (HasGIL(t)' /\ ~InApi(t))
  <2>1. CASE Top(t).at = "finalizer"
    BY <2>1 DEF HasGIL
  <2>2. CASE Top(t).at # "finalizer"
    <3>1. \A j \in 1..i : calls[t][j].at = "finalizer" => calls'[t][j].at = "finalizer"
      BY <1>1, <2>2
    <3>. QED  BY <3>1 DEF Above
  <2>. QED  BY <2>1, <2>2
<1>7. GilOK(t)'
  <2> DEFINE Good(i) ==
        /\ Recording(calls'[t][i]) => calls'[t][i].is_outer_scope_ /\ calls'[t][i].op = "alloc"
        /\ calls'[t][i].ensured =>
             /\ calls'[t][i].at \in {"walk", "finalizer"}
             /\ \A j \in i..Len(calls'[t]) : calls'[t][j].dom = "raw" /\ calls'[t][j].exposed
        /\ calls'[t][i].at = "finalizer" => \A j \in i..Len(calls'[t]) : calls'[t][j].exposed
        /\ calls'[t][i].dom # "raw" \/ calls'[t][i].at = "walk" => HasGIL(t)' \/ Above(t, i)'
        /\ InApi(t)' => calls'[t][i].op = "free" \/ Above(t, i)'
        /\ calls'[t][i].exposed \/ HasGIL(t)'
  <2>1. Good(1)
    <3>1. Top(t).at = "finalizer" => HasGIL(t)' /\ ~InApi(t)
      BY DEF HasGIL
    <3>2. /\ Recording(c) => c.is_outer_scope_ /\ c.op = "alloc"
          /\ c.ensured => /\ c.at \in {"walk", "finalizer"}
                          /\ \A j \in 1..Len(calls[t]) : calls[t][j].dom = "raw" /\ calls[t][j].exposed
          /\ c.at = "walk" => HasGIL(t)'
      BY DEF Moves, HasGIL
    <3>. QED  BY <1>1, <1>2, <1>4, <1>5, <3>1, <3>2
  <2>2. ASSUME NEW i \in 2..Len(calls[t]) PROVE Good(i)
    <3>1. i \in 1..Len(calls[t]) /\ \A j \in i..Len(calls[t]) : j \in 1..Len(calls[t])
      BY <1>1
    <3>2. /\ Recording(calls[t][i]) => calls[t][i].is_outer_scope_ /\ calls[t][i].op = "alloc"
          /\ calls[t][i].ensured =>
               /\ calls[t][i].at \in {"walk", "finalizer"}
               /\ \A j \in i..Len(calls[t]) : calls[t][j].dom = "raw" /\ calls[t][j].exposed
          /\ calls[t][i].at = "finalizer" => \A j \in i..Len(calls[t]) : calls[t][j].exposed
          /\ calls[t][i].dom # "raw" \/ calls[t][i].at = "walk" => HasGIL(t) \/ Above(t, i)
          /\ InApi(t) => calls[t][i].op = "free" \/ Above(t, i)
          /\ calls[t][i].exposed \/ HasGIL(t)
      BY <3>1 DEF PatchInv, GilInv, GilOK
    <3>. QED  BY <1>1, <1>2, <1>5, <1>6, <3>1, <3>2
  <2>3. \A i \in 1..Len(calls'[t]) : Good(i)
    BY <1>1, <2>1, <2>2
  <2>. QED  BY <2>3 DEF GilOK
<1>8. InApi(t)' => HasGIL(t)'
  BY <1>2 DEF PatchInv, GilInv, ApiHasGIL
<1>9. ~(InApi(t)' /\ pc'[t] # "destructor")
  BY <1>2, <1>4 DEF InApi
<1>10. gil' = gil \/ (gil \in {t, NoThread} /\ gil' \in {t, NoThread})
  OBVIOUS
<1>11. GilInv'
  BY <1>1, <1>2, <1>7, <1>8, <1>9, <1>10, OthersKeepGil
<1>12. Stage' /\ AtRest'
  BY <1>2, QuietKeepsStage DEF PatchInv
<1>. QED  BY <1>3, <1>11, <1>12, MoveKeepsCalls DEF PatchInv

\* A call's wrapper has the context of its domain and a profiler to report to.
LEMMA WrapperReady ==
  ASSUME HooksHaveProfiler, NEW c \in Call, UpToDate(c), c.fn = "wrapped"
  PROVE  g_profiler # 0 /\ c.ctx \in {"unread", c.dom} /\ c.dom # "nullptr"
<1>1. c.dom \in Domains /\ hook[c.dom].fn = "wrapped" /\ c.dom # "nullptr"
  BY DEF Call, UpToDate, Domains
<1>2. hook[c.dom] = Wrapper(c.dom) /\ g_profiler # 0
  BY <1>1 DEF HooksHaveProfiler, System
<1>. QED  BY <1>1, <1>2 DEF UpToDate, Wrapper

LEMMA CallStepKeepsInv ==
  ASSUME PatchInv, NEW t \in Threads,
         \/ ReadFn(t) \/ ReadCtx(t) \/ EnterSystem(t) \/ BaseReturns(t)
         \/ EnsureGIL(t) \/ FinalizerEnds(t)
  PROVE  PatchInv'
<1>1. InCall(t) /\ UNCHANGED <<patch, is_active_, pc>>
  BY DEF ReadFn, ReadCtx, EnterSystem, BaseReturns, AfterBase, EnsureGIL, FinalizerEnds
<1>2. /\ Top(t) \in Call
      /\ Recording(Top(t)) => Top(t).is_outer_scope_ /\ Top(t).op = "alloc"
      /\ Top(t).ensured =>
           /\ Top(t).at \in {"walk", "finalizer"}
           /\ \A j \in 1..Len(calls[t]) : calls[t][j].dom = "raw" /\ calls[t][j].exposed
      /\ Top(t).at = "finalizer" => Top(t).exposed
      /\ Top(t).at # "finalizer" => (Top(t).dom # "raw" \/ Top(t).at = "walk" => HasGIL(t))
      /\ Handed(Top(t)) /\ (Top(t).exposed \/ UpToDate(Top(t)))
      /\ Top(t).is_outer_scope_ => IsWrapper(Top(t))
  <2>1. Top(t) = calls[t][1] /\ 1 \in 1..Len(calls[t])
    BY <1>1, TopFacts
  <2>. QED  BY <1>1, <2>1, TopFacts DEF CallOK
<1>3. /\ hook \in [Domains -> Allocator] /\ g_profiler \in 0..MaxStarts /\ HooksHaveProfiler
      /\ is_active_' \in [Threads -> BOOLEAN]
  BY <1>1, StageImpliesHooks DEF PatchInv, TypeOK
<1> DEFINE Good(c) == Moves(t, c) /\ Alike(c, Top(t)) /\ (c.at = "walk" => gil' = t)
<1>4. ASSUME NEW c, Good(c), gil' = gil \/ (gil \in {t, NoThread} /\ gil' = t),
             Top(t).at = "finalizer" => gil' = t /\ ~InApi(t)
      PROVE  PatchInv'
  BY <1>1, <1>3, <1>4, MoveKeepsReentry, MoveKeepsInv
<1>5. CASE ReadFn(t)
  <2> DEFINE c == [Top(t) EXCEPT !.fn = hook[Top(t).dom].fn]
  <2>1. /\ SetTop(t, c) /\ gil' = gil
        /\ Top(t).at = "call" /\ Top(t).fn = "unread"
    BY <1>5 DEF ReadFn
  <2>2. hook[Top(t).dom].fn \in {"system", "wrapped"}
    BY <1>2, <1>3 DEF Call, Allocator, System, Wrapper
  <2>3. c \in Call /\ c.fn = hook[Top(t).dom].fn /\ c.at = "call" /\ ~c.ensured
    BY <1>2, <2>1, <2>2 DEF Call
  <2>4. CallOK(c)
    BY <1>2, <2>1, <2>3 DEF Call, CallOK, Handed, UpToDate, IsWrapper
  <2>5. Good(c)
    BY <1>1, <1>2, <2>1, <2>3, <2>4 DEF Call, Moves, Alike, IsWrapper, Recording
  <2>. QED  BY <1>4, <2>1, <2>5
<1>6. CASE ReadCtx(t)
  <2> DEFINE c == [Top(t) EXCEPT !.ctx = hook[Top(t).dom].ctx]
  <2>1. /\ SetTop(t, c) /\ gil' = gil /\ Top(t).at = "call"
    BY <1>6 DEF ReadCtx
  <2>2. hook[Top(t).dom].ctx \in {"nullptr", Top(t).dom}
    BY <1>2, <1>3 DEF Call, HooksHaveProfiler, System, Wrapper
  <2>3. c \in Call /\ c.ctx = hook[Top(t).dom].ctx /\ c.at = "call" /\ ~c.ensured
    BY <1>2, <2>1, <2>2 DEF Call
  <2>4. CallOK(c)
    BY <1>2, <2>1, <2>2, <2>3 DEF Call, CallOK, Handed, UpToDate, IsWrapper
  <2>5. Good(c)
    BY <1>1, <1>2, <2>1, <2>3, <2>4 DEF Call, Moves, Alike, IsWrapper, Recording
  <2>. QED  BY <1>4, <2>1, <2>5
<1>7. CASE EnterSystem(t)
  <2> DEFINE c == [Top(t) EXCEPT !.at = "base"]
  <2>1. SetTop(t, c) /\ gil' = gil /\ Top(t).at = "call" /\ Top(t).fn = "system" /\ Top(t).ctx # "unread"
    BY <1>7 DEF EnterSystem
  <2>2. c \in Call /\ c.at = "base" /\ ~c.ensured
    BY <1>2, <2>1 DEF Call
  <2>3. CallOK(c)
    BY <1>2, <2>1, <2>2 DEF Call, CallOK, Handed, UpToDate, IsWrapper
  <2>4. Good(c)
    BY <1>1, <1>2, <2>1, <2>2, <2>3 DEF Call, Moves, Alike, IsWrapper, Recording
  <2>. QED  BY <1>4, <2>1, <2>4
<1>8. CASE BaseReturns(t)
  <2>1. gil' = gil /\ Top(t).at = "base" /\ ~Top(t).ensured
    BY <1>2, <1>8 DEF BaseReturns, AfterBase
  <2>2. CASE Top(t).op = "alloc" /\ Top(t).is_outer_scope_
    <3>1. PICK next \in {"crash", "handle", "ensure", "walk"} :
            /\ SetTop(t, [Top(t) EXCEPT !.at = next, !.nested = FALSE, !.profiler = g_profiler])
            /\ next = "crash" => g_profiler = 0
            /\ next = "walk" => Top(t).ctx # "raw"
      BY <1>8, <2>2 DEF BaseReturns, AfterBase
    <3> DEFINE c == [Top(t) EXCEPT !.at = next, !.nested = FALSE, !.profiler = g_profiler]
    <3>2. c \in Call /\ c.at = next /\ ~c.ensured /\ c.profiler = g_profiler
      BY <1>2, <1>3, <2>1 DEF Call
    <3>3. ~Top(t).exposed => g_profiler # 0
      <4>1. Top(t).fn = "wrapped"
        BY <1>2, <2>2 DEF IsWrapper
      <4>. QED  BY <1>2, <1>3, <4>1, WrapperReady
    <3>4. CallOK(c)
      BY <1>2, <2>1, <3>1, <3>2, <3>3 DEF Call, CallOK, Handed, UpToDate, IsWrapper
    \* The call stack is walked at once in a domain that is called with the GIL.
    <3>5. next = "walk" => HasGIL(t)
      BY <1>2, <2>1, <2>2, <3>1 DEF Handed, IsWrapper
    <3>6. Good(c)
      BY <1>1, <1>2, <2>1, <2>2, <3>1, <3>2, <3>4, <3>5 DEF Call, Moves, Alike, IsWrapper, Recording, HasGIL
    <3>. QED  BY <1>4, <2>1, <3>6
  <2>3. CASE ~(Top(t).op = "alloc" /\ Top(t).is_outer_scope_)
    <3> DEFINE c == [Top(t) EXCEPT !.at = "return"]
    <3>1. SetTop(t, c)
      BY <1>8, <2>3 DEF BaseReturns, AfterBase
    <3>2. c \in Call /\ c.at = "return" /\ ~c.ensured
      BY <1>2, <2>1 DEF Call
    <3>3. CallOK(c)
      BY <1>2, <2>1, <3>2 DEF Call, CallOK, Handed, UpToDate, IsWrapper
    <3>4. Good(c)
      BY <1>1, <1>2, <2>1, <3>1, <3>2, <3>3 DEF Call, Moves, Alike, IsWrapper, Recording
    <3>. QED  BY <1>4, <2>1, <3>4
  <2>. QED  BY <2>2, <2>3
<1>9. CASE EnsureGIL(t)
  <2> DEFINE c == [Top(t) EXCEPT !.at = "walk", !.nested = FALSE, !.ensured = (gil # t)]
  <2>1. SetTop(t, c) /\ gil \in {t, NoThread} /\ gil' = t /\ Top(t).at = "ensure"
    BY <1>9 DEF EnsureGIL
  <2>2. c \in Call /\ c.at = "walk" /\ (c.ensured <=> gil # t)
    BY <1>2, <2>1 DEF Call
  <2>3. CallOK(c)
    BY <1>2, <2>1, <2>2 DEF Call, CallOK, Handed, UpToDate, IsWrapper
  <2>4. c.ensured => \A j \in 1..Len(calls[t]) : calls[t][j].dom = "raw" /\ calls[t][j].exposed
    BY <1>1, <2>1, <2>2, EnsuringCalls DEF HasGIL
  <2>5. Recording(Top(t))
    BY <2>1 DEF Recording
  <2> DEFINE n == (gil # t)
  <2>6. c = [Top(t) EXCEPT !.at = "walk", !.nested = FALSE, !.ensured = n]
    OBVIOUS
  <2> HIDE DEF n
  <2>7. /\ c.dom = Top(t).dom /\ c.op = Top(t).op /\ c.exposed = Top(t).exposed
        /\ c.is_outer_scope_ = Top(t).is_outer_scope_ /\ c.fn = Top(t).fn
    BY <1>2, <2>6 DEF Call
  <2> HIDE DEF c
  <2>8. Good(c)
    BY <1>1, <1>2, <2>1, <2>2, <2>3, <2>4, <2>5, <2>7 DEF Moves, Alike, IsWrapper
  <2>. QED  BY <1>4, <2>1, <2>8
<1>10. CASE FinalizerEnds(t)
  <2> DEFINE c == [Top(t) EXCEPT !.at = "walk"]
  <2>1. SetTop(t, c) /\ gil \in {t, NoThread} /\ gil' = t /\ Top(t).at = "finalizer" /\ ~InApi(t)
    BY <1>10 DEF FinalizerEnds
  <2>2. c \in Call /\ c.at = "walk" /\ Recording(Top(t))
    BY <1>2, <2>1 DEF Call, Recording
  <2>3. CallOK(c)
    BY <1>2, <2>1, <2>2 DEF Call, CallOK, Handed, IsWrapper
  <2>4. Good(c)
    BY <1>1, <1>2, <2>1, <2>2, <2>3 DEF Call, Moves, Alike, IsWrapper
  <2>. QED  BY <1>4, <2>1, <2>4
<1>. QED  BY <1>5, <1>6, <1>7, <1>8, <1>9, <1>10

\* ReentrantScope's constructor.
LEMMA EnterWrapperKeepsInv ==
  ASSUME PatchInv, NEW t \in Threads, EnterWrapper(t)
  PROVE  PatchInv'
<1>1. /\ InCall(t) /\ Top(t).fn = "wrapped" /\ Top(t).at = "call" /\ Top(t).ctx # "unread"
      /\ is_active_' = [is_active_ EXCEPT ![t] = TRUE]
      /\ UNCHANGED <<gil, patch, pc>>
  BY DEF EnterWrapper
<1>2. /\ Top(t) \in Call /\ ~Top(t).ensured
      /\ Handed(Top(t)) /\ (Top(t).exposed \/ UpToDate(Top(t)))
  BY <1>1, TopFacts DEF CallOK
<1>3. /\ is_active_ \in [Threads -> BOOLEAN] /\ g_profiler \in 0..MaxStarts /\ 0 \in 0..MaxStarts
      /\ calls \in [Threads -> Seq(Call)] /\ HooksHaveProfiler
  BY StageImpliesHooks, PatchAssumption DEF PatchInv, TypeOK
<1>4. PICK outer \in BOOLEAN, at \in {"crash", "handle", "base"}, p \in 0..MaxStarts :
        /\ outer <=> ~is_active_[t]
        /\ SetTop(t, [Top(t) EXCEPT !.is_outer_scope_ = outer, !.at = at, !.profiler = p])
        /\ at = "crash" => Top(t).ctx = "nullptr" \/ g_profiler = 0
        /\ at # "crash" => Top(t).ctx # "nullptr"
        /\ p \in {0, g_profiler} /\ (at = "handle" => p = g_profiler)
  <2> DEFINE outer == ~is_active_[t]
             reports == Top(t).op = "free" /\ outer
             lost == \/ Top(t).ctx = "nullptr"
                     \/ reports /\ g_profiler = 0
             at == IF lost THEN "crash" ELSE IF reports THEN "handle" ELSE "base"
             p == IF reports /\ ~lost THEN g_profiler ELSE 0
  <2>1. /\ outer \in BOOLEAN /\ at \in {"crash", "handle", "base"} /\ p \in 0..MaxStarts
        /\ at = "crash" => Top(t).ctx = "nullptr" \/ g_profiler = 0
        /\ at # "crash" => Top(t).ctx # "nullptr"
        /\ p \in {0, g_profiler} /\ (at = "handle" => p = g_profiler)
    BY <1>3
  <2>2. SetTop(t, [Top(t) EXCEPT !.is_outer_scope_ = outer, !.at = at, !.profiler = p])
    BY DEF EnterWrapper
  <2>. QED  BY <2>1, <2>2
<1> DEFINE c == [Top(t) EXCEPT !.is_outer_scope_ = outer, !.at = at, !.profiler = p]
<1>5. /\ c \in Call /\ c.at = at /\ c.fn = "wrapped" /\ c.profiler = p /\ c.ctx = Top(t).ctx
      /\ (c.is_outer_scope_ <=> ~is_active_[t]) /\ ~c.ensured
      /\ c.dom = Top(t).dom /\ c.op = Top(t).op /\ c.exposed = Top(t).exposed
  BY <1>1, <1>2, <1>4 DEF Call
<1>6. SetTop(t, c)
  BY <1>4
<1> HIDE DEF c
<1>7. CallOK(c)
  <2>1. Handed(c)
    BY <1>1, <1>2, <1>4, <1>5 DEF Handed, IsWrapper
  <2>2. ASSUME ~c.exposed PROVE UpToDate(c)
    <3>1. UpToDate(Top(t)) /\ ~Top(t).exposed
      BY <1>2, <1>5, <2>2
    <3>2. g_profiler # 0 /\ Top(t).ctx # "nullptr"
      BY <1>1, <1>2, <1>3, <3>1, WrapperReady
    <3>3. at # "crash"
      BY <1>4, <3>2
    <3>. QED  BY <1>1, <1>4, <1>5, <3>1, <3>3 DEF UpToDate
  <2>. QED  BY <2>1, <2>2 DEF CallOK
<1>8. Moves(t, c) /\ c.at # "walk"
  BY <1>1, <1>2, <1>4, <1>5, <1>6, <1>7 DEF Moves, Recording
<1>9. ReentryInv'
  <2>1. /\ calls' \in [Threads -> Seq(Call)] /\ Len(calls'[t]) = Len(calls[t])
        /\ \A u \in Threads \ {t} : calls'[u] = calls[u]
        /\ calls'[t][1] = c /\ calls[t][1] = Top(t) /\ Len(calls[t]) \in Nat \ {0}
        /\ \A i \in 2..Len(calls[t]) : calls'[t][i] = calls[t][i]
    BY <1>8, MoveDoes
  <2>2. /\ ~IsWrapper(calls[t][1]) /\ Len(calls[t]) > 0 /\ is_active_[t] \in BOOLEAN
        /\ calls[t] \in Seq(Call) /\ calls'[t] \in Seq(Call)
        /\ Reentry(calls[t], is_active_[t])
    BY <1>1, <1>3, <2>1 DEF IsWrapper, PatchInv, ReentryInv
  <2>3. IsWrapper(calls'[t][1]) /\ (calls'[t][1].is_outer_scope_ <=> ~is_active_[t])
    BY <1>4, <1>5, <2>1 DEF IsWrapper
  <2>4. Reentry(calls'[t], TRUE)
    <3>1. /\ calls[t] \in Seq(Call) /\ calls'[t] \in Seq(Call) /\ is_active_[t] \in BOOLEAN
          /\ Reentry(calls[t], is_active_[t])
          /\ Len(calls'[t]) = Len(calls[t]) /\ Len(calls[t]) > 0
          /\ ~IsWrapper(calls[t][1]) /\ IsWrapper(calls'[t][1])
          /\ (calls'[t][1].is_outer_scope_ <=> ~is_active_[t])
          /\ \A i \in 2..Len(calls[t]) : calls'[t][i] = calls[t][i]
      BY <2>1, <2>2, <2>3
    <3>. QED  BY <3>1, ScopeEntered
  <2>. QED  BY <1>1, <1>3, <2>1, <2>4 DEF PatchInv, ReentryInv
<1>. QED  BY <1>1, <1>3, <1>8, <1>9, MoveKeepsInv

\* PyGILState_Release gives up what nobody else relies on.
LEMMA HandleReturnsKeepsInv ==
  ASSUME PatchInv, NEW t \in Threads, HandleReturns(t)
  PROVE  PatchInv'
<1>1. InCall(t) /\ Top(t).at \in {"handle", "walk"} /\ UNCHANGED <<patch, is_active_, pc>>
  BY DEF HandleReturns
<1>2. /\ Top(t) \in Call /\ Top(t) = calls[t][1] /\ 1 \in 1..Len(calls[t])
      /\ Recording(Top(t)) => Top(t).is_outer_scope_ /\ Top(t).op = "alloc"
      /\ Top(t).ensured =>
           /\ Top(t).at = "walk"
           /\ \A j \in 1..Len(calls[t]) : calls[t][j].dom = "raw" /\ calls[t][j].exposed
      /\ Top(t).at = "walk" => HasGIL(t)
      /\ InApi(t) => Top(t).op = "free" /\ pc[t] = "destructor"
      /\ Handed(Top(t)) /\ (Top(t).exposed \/ UpToDate(Top(t)))
  BY <1>1, TopFacts DEF CallOK
<1>3. is_active_' \in [Threads -> BOOLEAN] /\ 0 \in 0..MaxStarts
  BY <1>1, PatchAssumption DEF PatchInv, TypeOK
<1>4. PICK next \in {"crash", "base", "return"} :
        /\ SetTop(t, [Top(t) EXCEPT !.at = next, !.profiler = 0, !.nested = FALSE, !.ensured = FALSE])
        /\ next = "crash" => Top(t).profiler # g_profiler
        /\ gil' = IF Top(t).ensured THEN NoThread ELSE gil
  BY DEF HandleReturns
<1> DEFINE c == [Top(t) EXCEPT !.at = next, !.profiler = 0, !.nested = FALSE, !.ensured = FALSE]
<1>5. /\ c \in Call /\ c.at = next /\ ~c.ensured /\ c.profiler = 0 /\ c.fn = Top(t).fn
      /\ c.dom = Top(t).dom /\ c.op = Top(t).op /\ c.exposed = Top(t).exposed /\ c.ctx = Top(t).ctx
      /\ c.is_outer_scope_ = Top(t).is_outer_scope_
  BY <1>2, <1>3 DEF Call
<1>6. SetTop(t, c)
  BY <1>4
<1> HIDE DEF c
<1>7. CallOK(c)
  <2>1. Handed(c)
    BY <1>1, <1>2, <1>4, <1>5 DEF Handed, IsWrapper
  <2>2. ASSUME ~c.exposed PROVE UpToDate(c)
    <3>1. UpToDate(Top(t))
      BY <1>2, <1>5, <2>2
    <3>2. next # "crash"
      BY <1>1, <1>4, <3>1 DEF UpToDate
    <3>. QED  BY <1>1, <1>4, <1>5, <3>1, <3>2 DEF UpToDate
  <2>. QED  BY <2>1, <2>2 DEF CallOK
<1>8. Moves(t, c) /\ Alike(c, Top(t)) /\ c.at # "walk"
  BY <1>1, <1>4, <1>5, <1>6, <1>7 DEF Moves, Alike, IsWrapper, Recording
<1>9. ReentryInv'
  BY <1>1, <1>8, MoveKeepsReentry
<1>10. CASE ~Top(t).ensured
  BY <1>1, <1>3, <1>4, <1>8, <1>9, <1>10, MoveKeepsInv
<1>11. CASE Top(t).ensured
  <2>1. /\ calls' \in [Threads -> Seq(Call)]
        /\ \A u \in Threads : Len(calls'[u]) = Len(calls[u])
        /\ \A u \in Threads \ {t} : calls'[u] = calls[u]
        /\ calls'[t][1] = c
        /\ \A i \in 2..Len(calls[t]) : calls'[t][i] = calls[t][i]
        /\ \A i \in 1..Len(calls[t]) : i = 1 \/ i \in 2..Len(calls[t])
        /\ Len(calls[t]) \in Nat \ {0}
    BY <1>8, MoveDoes
  <2>2. /\ HasGIL(t) /\ ~InApi(t) /\ gil' = NoThread
        /\ \A j \in 1..Len(calls[t]) : calls[t][j].dom = "raw" /\ calls[t][j].exposed
    BY <1>2, <1>4, <1>11 DEF Recording
  <2>3. TypeOK'
    BY <1>1, <1>3, <2>1, <2>2 DEF PatchInv, TypeOK, patch
  \* No other call of the thread records.
  <2>4. \A i \in 2..Len(calls[t]) : ~Recording(calls[t][i])
    <3> SUFFICES ASSUME NEW i \in 2..Len(calls[t]), Recording(calls[t][i]) PROVE FALSE
      OBVIOUS
    <3>1. Recording(calls[t][1]) /\ i \in 1..Len(calls[t])
      BY <1>2, <1>11, <2>1 DEF Recording
    <3>2. i = 1
      BY <1>2, <3>1, OneRecords
    <3>. QED  BY <3>2
  <2>5. \A i \in 1..Len(calls[t]) :
          /\ ~Recording(calls'[t][i])
          /\ calls'[t][i].dom = "raw" /\ calls'[t][i].exposed
    <3>1. ~Recording(c) /\ c.dom = "raw" /\ c.exposed
      BY <1>2, <1>4, <1>5, <2>2 DEF Recording
    <3>. QED  BY <2>1, <2>2, <2>4, <3>1
  <2>6. GilOK(t)'
    BY <1>1, <2>1, <2>2, <2>5 DEF GilOK, Recording, InApi
  <2>7. GilInv'
    BY <1>1, <2>1, <2>2, <2>6, OthersKeepGil DEF HasGIL, InApi
  <2>. QED  BY <1>1, <1>8, <1>9, <2>3, <2>7, QuietKeepsStage, MoveKeepsCalls DEF PatchInv
<1>. QED  BY <1>10, <1>11

\* A finalizer starts: whatever it does, the calls are exposed.
LEMMA RunFinalizerKeepsInv ==
  ASSUME PatchInv, NEW t \in Threads, RunFinalizer(t)
  PROVE  PatchInv'
<1>1. TypeOK /\ InCall(t) /\ UNCHANGED <<gil, patch, is_active_, pc>>
  BY DEF PatchInv, RunFinalizer
<1>2. /\ calls' \in [Threads -> Seq(Call)]
      /\ Len(calls'[t]) = Len(calls[t]) /\ Len(calls[t]) \in Nat \ {0}
      /\ \A i \in 1..Len(calls[t]) :
           /\ calls[t][i] \in Call /\ calls'[t][i] \in Call
           /\ calls'[t][i] = [calls[t][i] EXCEPT !.exposed = TRUE, !.nested = TRUE,
                                !.at = IF i = 1 THEN "finalizer" ELSE @]
      /\ calls[t][1].at = "walk"
      /\ \A u \in Threads \ {t} : calls'[u] = calls[u]
  BY <1>1, RunFinalizerDoes
<1>3. \A i \in 1..Len(calls[t]) : LET c == calls[t][i]
                                      r == calls'[t][i] IN
        /\ r.dom = c.dom /\ r.op = c.op /\ r.fn = c.fn /\ r.ctx = c.ctx
        /\ r.is_outer_scope_ = c.is_outer_scope_ /\ r.ensured = c.ensured
        /\ r.at = (IF i = 1 THEN "finalizer" ELSE c.at) /\ r.exposed
  <2> SUFFICES ASSUME NEW i \in 1..Len(calls[t]), NEW c, c = calls[t][i], NEW r, r = calls'[t][i]
               PROVE  /\ r.dom = c.dom /\ r.op = c.op /\ r.fn = c.fn /\ r.ctx = c.ctx
                      /\ r.is_outer_scope_ = c.is_outer_scope_ /\ r.ensured = c.ensured
                      /\ r.at = (IF i = 1 THEN "finalizer" ELSE c.at) /\ r.exposed
    OBVIOUS
  <2>1. PICK at : at = (IF i = 1 THEN "finalizer" ELSE c.at)
    OBVIOUS
  <2>2. c \in Call /\ r = [c EXCEPT !.exposed = TRUE, !.nested = TRUE, !.at = at]
    BY <1>2, <2>1
  <2>. QED  BY <2>1, <2>2 DEF Call
<1> DEFINE s == calls[t]
           r == calls'[t]
<1>a. /\ calls' \in [Threads -> Seq(Call)]
      /\ r \in Seq(Call) /\ s \in Seq(Call)
      /\ Len(r) = Len(s) /\ Len(s) \in Nat \ {0} /\ 1 \in 1..Len(s)
      /\ \A i \in 1..Len(s) : r[i] \in Call
      /\ s[1].at = "walk" /\ r[1].at = "finalizer"
      /\ \A u \in Threads \ {t} : calls'[u] = calls[u]
  <2>1. s \in Seq(Call) /\ r \in Seq(Call)
    BY <1>1, <1>2 DEF TypeOK
  <2>2. 1 \in 1..Len(s) /\ \A i \in 1..Len(s) : r[i] \in Call
    <3>1. Len(s) \in Nat \ {0}
      BY <1>2
    <3> HIDE DEF s
    <3>2. 1 \in 1..Len(s)
      BY <3>1
    <3>. QED  BY <1>2, <3>2 DEF s
  <2>3. r[1].at = "finalizer"
    BY <1>3, <2>2
  <2>. QED  BY <1>2, <2>1, <2>2, <2>3
<1>4. TypeOK'
  BY <1>1, <1>a DEF TypeOK, patch
<1>5. ReentryInv'
  <2>1. \A i \in 1..Len(calls[t]) : Alike(calls'[t][i], calls[t][i])
    BY <1>a, <1>3 DEF Alike, IsWrapper
  <2>2. calls[t] \in Seq(Call) /\ calls'[t] \in Seq(Call) /\ is_active_[t] \in BOOLEAN
    BY <1>1, <1>a DEF TypeOK
  <2>3. Reentry(calls[t], is_active_[t])
    BY DEF PatchInv, ReentryInv
  <2>4. Len(calls'[t]) = Len(calls[t])
    BY <1>a
  <2>5. Reentry(calls'[t], is_active_[t])
    BY <2>1, <2>2, <2>3, <2>4, SameMarks
  <2>. QED  BY <1>1, <1>a, <2>5 DEF PatchInv, ReentryInv
<1>6. CallsOK'
  <2>1. ASSUME NEW i \in 1..Len(calls[t]) PROVE CallOK(calls'[t][i])
    <3>1. Handed(calls[t][i])
      BY DEF PatchInv, CallsOK, CallOK
    <3>2. /\ r[i].dom = s[i].dom /\ r[i].fn = s[i].fn /\ r[i].ctx = s[i].ctx /\ r[i].exposed
          /\ r[i].at = s[i].at \/ (s[i].at = "walk" /\ r[i].at = "finalizer")
      BY <1>a, <1>3
    <3>3. Handed(r[i])
      BY <3>1, <3>2 DEF Handed, IsWrapper
    <3>. QED  BY <3>2, <3>3 DEF CallOK, Handed, IsWrapper
  <2>2. ASSUME NEW u \in Threads \ {t}, NEW i \in 1..Len(calls[u]) PROVE CallOK(calls'[u][i])
    BY <1>a DEF PatchInv, CallsOK
  <2>3. Len(calls'[t]) = Len(calls[t]) /\ \A u \in Threads \ {t} : calls'[u] = calls[u]
    BY <1>a
  <2>4. \A u \in Threads : \A i \in 1..Len(calls'[u]) : CallOK(calls'[u][i])
    BY <2>1, <2>2, <2>3
  <2>5. UNCHANGED <<hook, g_profiler>>
    BY <1>1 DEF patch
  <2>. QED  BY <2>4, <2>5 DEF CallsOK, CallOK, Handed, UpToDate, IsWrapper
<1>7. GilOK(t)'
  <2>1. \A i \in 1..Len(calls[t]) : Above(t, i)'
    BY <1>a, <1>3 DEF Above
  <2>2. ASSUME NEW i \in 1..Len(calls[t]), Recording(calls'[t][i])
        PROVE  calls'[t][i].is_outer_scope_ /\ calls'[t][i].op = "alloc"
    <3>1. Recording(calls[t][i])
      BY <1>a, <1>3, <2>2 DEF Recording
    <3>. QED  BY <1>3, <3>1 DEF PatchInv, GilInv, GilOK
  <2>3. ASSUME NEW i \in 1..Len(calls[t]), calls'[t][i].ensured
        PROVE  /\ calls'[t][i].at \in {"walk", "finalizer"}
               /\ \A j \in i..Len(calls[t]) : calls'[t][j].dom = "raw"
    <3>1. /\ calls[t][i].at \in {"walk", "finalizer"}
          /\ \A j \in i..Len(calls[t]) : calls[t][j].dom = "raw" /\ j \in 1..Len(calls[t])
      BY <1>a, <1>3, <2>3 DEF PatchInv, GilInv, GilOK
    <3>. QED  BY <1>3, <3>1
  <2>4. \A i \in 1..Len(calls[t]) : \A j \in i..Len(calls[t]) : calls'[t][j].exposed
    BY <1>a, <1>3
  <2>. QED  BY <1>a, <1>3, <2>1, <2>2, <2>3, <2>4 DEF GilOK
<1>8. InApi(t) => HasGIL(t) /\ RunsPython(t)'
  <2>1. RunsPython(t)'
    <3>1. calls'[t] \in Seq(Call) /\ calls'[t] # <<>> /\ calls'[t][1].at = "finalizer"
      <4>1. calls'[t] \in Seq(Call) /\ Len(calls'[t]) # 0 /\ 1 \in 1..Len(calls[t])
        BY <1>a
      <4>2. calls'[t] # <<>>
        BY <4>1
      <4>. QED  BY <1>3, <4>1, <4>2
    <3>2. Head(calls'[t]) = calls'[t][1]
      BY <3>1, HeadTailProperties
    <3>. QED  BY <3>1, <3>2 DEF RunsPython, Top
  <2>. QED  BY <2>1 DEF PatchInv, GilInv, ApiHasGIL
<1>9. GilInv'
  BY <1>1, <1>a, <1>7, <1>8, OthersKeepGil DEF HasGIL, InApi
<1>. QED  BY <1>1, <1>4, <1>5, <1>6, <1>9, QuietKeepsStage DEF PatchInv

-----------------------------------------------------------------------------
\* Calls begin and end.

\* What a call may begin with.
LEMMA BeginsGuard ==
  ASSUME PatchInv, NEW t \in Threads, NEW d \in Domains, NEW op \in {"alloc", "free"}, Begins(t, d, op)
  PROVE  /\ d # "raw" => HasGIL(t)
         /\ InApi(t) => op = "free" /\ pc[t] = "destructor"
<1>1. CASE CallAllocator(t, d, op)
  BY <1>1 DEF CallAllocator
<1>2. CASE d = "obj" /\ op = "free" /\ DecrefString(t)
  BY <1>2 DEF DecrefString, PatchInv, GilInv, ApiHasGIL, InApi
<1>3. CASE Delegate(t, d, op)
  <2>1. /\ InCall(t) /\ Top(t).at \in {"base", "ensure", "walk"}
        /\ d # "raw" => Top(t).at = "walk"
        /\ op = "free" \/ Top(t).op # "free" \/ Top(t).at \in {"ensure", "walk"}
    BY <1>3 DEF Delegate
  <2>2. InCall(t) /\ Top(t).at # "finalizer"
    BY <2>1
  <2>3. /\ Recording(Top(t)) => Top(t).op = "alloc"
        /\ Top(t).at = "walk" => HasGIL(t)
        /\ InApi(t) => Top(t).op = "free" /\ pc[t] = "destructor"
    BY <2>2, TopFacts
  <2>4. Top(t).at \in {"ensure", "walk"} => Top(t).op = "alloc"
    BY <2>3 DEF Recording
  <2>. QED  BY <2>1, <2>3, <2>4
<1>. QED  BY <1>1, <1>2, <1>3 DEF Begins

LEMMA BeginsKeepsInv ==
  ASSUME PatchInv, NEW t \in Threads, NEW d \in Domains, NEW op \in {"alloc", "free"}, Begins(t, d, op)
  PROVE  PatchInv'
<1> DEFINE n == NewCall(d, op, HasGIL(t))
           s == calls[t]
           r == calls'[t]
<1>1. /\ calls' \in [Threads -> Seq(Call)]
      /\ Len(r) = Len(s) + 1 /\ Len(s) \in Nat
      /\ r[1] = n /\ n \in Call
      /\ \A i \in 1..Len(s) : s[i] \in Call /\ r[i + 1] \in {s[i], [s[i] EXCEPT !.nested = TRUE]}
      /\ \A u \in Threads \ {t} : calls'[u] = calls[u]
      /\ Len(s) < MaxDepth /\ UNCHANGED <<gil, patch, is_active_, pc>>
  BY BeginsDoes DEF PatchInv
<1>2. /\ n.dom = d /\ n.op = op /\ n.at = "call" /\ ~n.ensured /\ ~n.is_outer_scope_
      /\ n.ctx = "unread" /\ n.fn = "unread" /\ n.profiler = 0
      /\ (n.exposed <=> ~HasGIL(t))
  BY DEF NewCall
<1>3. \A i \in 1..Len(s) :
        /\ r[i + 1].dom = s[i].dom /\ r[i + 1].op = s[i].op /\ r[i + 1].fn = s[i].fn
        /\ r[i + 1].ctx = s[i].ctx /\ r[i + 1].at = s[i].at
        /\ r[i + 1].is_outer_scope_ = s[i].is_outer_scope_ /\ r[i + 1].profiler = s[i].profiler
        /\ r[i + 1].ensured = s[i].ensured /\ r[i + 1].exposed = s[i].exposed
  <2>1. ASSUME NEW c \in Call, NEW e \in {c, [c EXCEPT !.nested = TRUE]}
        PROVE  /\ e.dom = c.dom /\ e.op = c.op /\ e.fn = c.fn
               /\ e.ctx = c.ctx /\ e.at = c.at
               /\ e.is_outer_scope_ = c.is_outer_scope_ /\ e.profiler = c.profiler
               /\ e.ensured = c.ensured /\ e.exposed = c.exposed
    BY <2>1 DEF Call
  <2>2. \A i \in 1..Len(s) : s[i] \in Call /\ r[i + 1] \in {s[i], [s[i] EXCEPT !.nested = TRUE]}
    BY <1>1
  <2> HIDE DEF s, r
  <2>. QED  BY <2>1, <2>2
<1>4. \A i \in 1..Len(r) : i = 1 \/ (i - 1 \in 1..Len(s) /\ (i - 1) + 1 = i)
  BY <1>1
<1>a. /\ Len(r) = Len(s) + 1 /\ Len(s) \in Nat /\ r[1] = n
      /\ \A u \in Threads \ {t} : calls'[u] = calls[u]
      /\ UNCHANGED <<gil, patch, is_active_, pc>>
  BY <1>1
<1> HIDE DEF n
<1>5. TypeOK'
  <2>1. \A u \in Threads : Len(calls'[u]) <= MaxDepth
    <3>1. Len(calls'[t]) <= MaxDepth
      BY <1>1, PatchAssumption
    <3>. QED  BY <1>a, <3>1 DEF PatchInv, TypeOK
  <2>. QED  BY <1>1, <2>1 DEF PatchInv, TypeOK, patch
<1>6. ReentryInv'
  <2>1. /\ s \in Seq(Call) /\ r \in Seq(Call) /\ is_active_[t] \in BOOLEAN
        /\ Reentry(s, is_active_[t])
    BY <1>1 DEF PatchInv, TypeOK, ReentryInv
  <2>2. \A i \in 1..Len(s) : Alike(r[i + 1], s[i])
    BY <1>3 DEF Alike, IsWrapper
  <2>3. ~IsWrapper(r[1]) /\ ~r[1].is_outer_scope_ /\ Len(r) = Len(s) + 1
    BY <1>a, <1>2 DEF IsWrapper
  <2>4. Reentry(r, is_active_[t])
    BY <2>1, <2>2, <2>3, CallPushed
  <2>. QED  BY <1>a, <2>4 DEF PatchInv, ReentryInv
<1>7. CallsOK'
  <2>1. CallOK(n)
    BY <1>2 DEF CallOK, Handed, UpToDate, IsWrapper
  <2>2. ASSUME NEW i \in 1..Len(s) PROVE CallOK(r[i + 1])
    <3>1. CallOK(s[i])
      BY DEF PatchInv, CallsOK
    <3>. QED  BY <1>3, <3>1 DEF CallOK, Handed, UpToDate, IsWrapper
  <2>3. \A i \in 1..Len(r) : CallOK(r[i])
    BY <1>a, <1>4, <2>1, <2>2
  <2>4. \A u \in Threads : \A i \in 1..Len(calls'[u]) : CallOK(calls'[u][i])
    BY <1>a, <2>3 DEF PatchInv, CallsOK
  <2>5. UNCHANGED <<hook, g_profiler>>
    BY <1>a DEF patch
  <2>. QED  BY <2>4, <2>5 DEF CallsOK, CallOK, Handed, UpToDate, IsWrapper
<1>8. GilOK(t)'
  <2>1. \A i \in 1..Len(s) : Above(t, i) => Above(t, i + 1)'
    <3> SUFFICES ASSUME NEW i \in 1..Len(s), NEW j \in 1..i, s[j].at = "finalizer"
                 PROVE  \E k \in 1..(i + 1) : r[k].at = "finalizer"
      BY DEF Above
    <3>1. j + 1 \in 1..(i + 1) /\ j \in 1..Len(s)
      BY <1>a
    <3>. QED  BY <1>3, <3>1
  <2> DEFINE Good(i) ==
        /\ Recording(r[i]) => r[i].is_outer_scope_ /\ r[i].op = "alloc"
        /\ r[i].ensured =>
             /\ r[i].at \in {"walk", "finalizer"}
             /\ \A j \in i..Len(r) : r[j].dom = "raw" /\ r[j].exposed
        /\ r[i].at = "finalizer" => \A j \in i..Len(r) : r[j].exposed
        /\ r[i].dom # "raw" \/ r[i].at = "walk" => HasGIL(t) \/ Above(t, i)'
        /\ InApi(t) => r[i].op = "free" \/ Above(t, i)'
        /\ r[i].exposed \/ HasGIL(t)
  <2>2. Good(1)
    BY <1>a, <1>2, BeginsGuard DEF Recording
  <2>3. ASSUME NEW i \in 1..Len(s) PROVE Good(i + 1)
    <3>1. /\ Recording(s[i]) => s[i].is_outer_scope_ /\ s[i].op = "alloc"
          /\ s[i].ensured =>
               /\ s[i].at \in {"walk", "finalizer"}
               /\ \A j \in i..Len(s) : s[j].dom = "raw" /\ s[j].exposed
          /\ s[i].at = "finalizer" => \A j \in i..Len(s) : s[j].exposed
          /\ s[i].dom # "raw" \/ s[i].at = "walk" => HasGIL(t) \/ Above(t, i)
          /\ InApi(t) => s[i].op = "free" \/ Above(t, i)
          /\ s[i].exposed \/ HasGIL(t)
      BY DEF PatchInv, GilInv, GilOK
    <3>2. ASSUME NEW j \in (i + 1)..Len(r)
          PROVE  j - 1 \in i..Len(s) /\ r[j].dom = s[j - 1].dom /\ r[j].exposed = s[j - 1].exposed
      <4>1. j - 1 \in i..Len(s) /\ j - 1 \in 1..Len(s) /\ (j - 1) + 1 = j
        BY <1>a
      <4>. QED  BY <1>3, <4>1
    <3>3. Recording(r[i + 1]) <=> Recording(s[i])
      BY <1>3 DEF Recording
    <3>4. /\ r[i + 1].dom = s[i].dom /\ r[i + 1].op = s[i].op /\ r[i + 1].at = s[i].at
          /\ r[i + 1].is_outer_scope_ = s[i].is_outer_scope_
          /\ r[i + 1].ensured = s[i].ensured /\ r[i + 1].exposed = s[i].exposed
          /\ Above(t, i) => Above(t, i + 1)'
      BY <1>3, <2>1
    <3>5. s[i].ensured => \A j \in (i + 1)..Len(r) : r[j].dom = "raw" /\ r[j].exposed
      BY <3>1, <3>2
    <3>6. s[i].at = "finalizer" => \A j \in (i + 1)..Len(r) : r[j].exposed
      BY <3>1, <3>2
    <3>. QED  BY <3>1, <3>3, <3>4, <3>5, <3>6
  <2>4. \A i \in 1..Len(r) : Good(i)
    <3> HIDE DEF Good
    <3>. QED  BY <1>4, <2>2, <2>3
  <2>. QED  BY <1>a, <2>4 DEF GilOK, HasGIL, InApi
<1>9. GilInv'
  <2>1. (InApi(t)' <=> InApi(t)) /\ (HasGIL(t)' <=> HasGIL(t)) /\ pc'[t] = pc[t] /\ gil' = gil
    BY <1>a DEF InApi, HasGIL
  <2>2. (InApi(t) => HasGIL(t)) /\ (InApi(t) => pc[t] = "destructor")
    BY BeginsGuard DEF PatchInv, GilInv, ApiHasGIL
  <2>. QED  BY <1>a, <1>8, <2>1, <2>2, OthersKeepGil
<1>. QED  BY <1>a, <1>5, <1>6, <1>7, <1>9, QuietKeepsStage DEF PatchInv

LEMMA ReturnKeepsInv ==
  ASSUME PatchInv, NEW t \in Threads, Return(t)
  PROVE  PatchInv'
<1> DEFINE s == calls[t]
           r == calls'[t]
<1>1. /\ InCall(t) /\ Top(t).at = "return"
      /\ is_active_' = [is_active_ EXCEPT ![t] = @ /\ ~Top(t).is_outer_scope_]
      /\ UNCHANGED <<gil, patch, pc>>
  BY DEF Return
<1>2. /\ calls' \in [Threads -> Seq(Call)]
      /\ Len(r) = Len(s) - 1 /\ Len(s) \in Nat \ {0}
      /\ \A i \in 1..Len(r) : r[i] = s[i + 1]
      /\ \A u \in Threads \ {t} : calls'[u] = calls[u]
  BY ReturnDoes DEF PatchInv
<1>3. /\ Top(t) \in Call /\ s[1] = Top(t)
      /\ InApi(t) => pc[t] = "destructor"
  BY <1>1, TopFacts
<1>4. \A i \in 1..Len(r) : i + 1 \in 1..Len(s) /\ i + 1 # 1
  BY <1>2
<1>5. is_active_' \in [Threads -> BOOLEAN]
  BY <1>1, <1>3 DEF PatchInv, TypeOK, Call
<1>6. TypeOK'
  <2>1. \A u \in Threads : Len(calls'[u]) <= MaxDepth
    <3>1. Len(calls'[t]) <= MaxDepth
      <4>1. Len(calls[t]) <= MaxDepth
        BY DEF PatchInv, TypeOK
      <4>. QED  BY <1>2, <4>1, PatchAssumption
    <3>. QED  BY <1>2, <3>1 DEF PatchInv, TypeOK
  <2>. QED  BY <1>1, <1>2, <1>5, <2>1 DEF PatchInv, TypeOK, patch
<1>7. ReentryInv'
  <2>1. /\ s \in Seq(Call) /\ r \in Seq(Call) /\ is_active_[t] \in BOOLEAN
        /\ Reentry(s, is_active_[t]) /\ Len(s) > 0
    BY <1>2 DEF PatchInv, TypeOK, ReentryInv
  <2>2. /\ is_active_'[t] \in BOOLEAN
        /\ is_active_'[t] <=> (is_active_[t] /\ ~s[1].is_outer_scope_)
        /\ \A u \in Threads \ {t} : is_active_'[u] = is_active_[u]
    BY <1>1, <1>3, <1>5 DEF PatchInv, TypeOK
  <2>3. Reentry(r, is_active_'[t])
    BY <1>2, <2>1, <2>2, CallPopped
  <2>. QED  BY <1>2, <2>2, <2>3 DEF PatchInv, ReentryInv
<1>8. CallsOK'
  <2>1. \A u \in Threads : \A i \in 1..Len(calls'[u]) : CallOK(calls'[u][i])
    BY <1>2, <1>4 DEF PatchInv, CallsOK
  <2>2. UNCHANGED <<hook, g_profiler>>
    BY <1>1 DEF patch
  <2>. QED  BY <2>1, <2>2 DEF CallsOK, CallOK, Handed, UpToDate, IsWrapper
<1>9. GilOK(t)'
  <2>1. \A i \in 1..Len(r) : Above(t, i + 1) => Above(t, i)'
    <3> SUFFICES ASSUME NEW i \in 1..Len(r), NEW j \in 1..(i + 1), s[j].at = "finalizer"
                 PROVE  \E k \in 1..i : r[k].at = "finalizer"
      BY DEF Above
    <3>1. j # 1
      BY <1>1, <1>3
    <3>2. j - 1 \in 1..i /\ j - 1 \in 1..Len(r) /\ (j - 1) + 1 = j
      BY <1>2, <3>1
    <3>. QED  BY <1>2, <3>2
  <2>2. ASSUME NEW i \in 1..Len(r)
        PROVE  /\ Recording(r[i]) => r[i].is_outer_scope_ /\ r[i].op = "alloc"
               /\ r[i].ensured =>
                    /\ r[i].at \in {"walk", "finalizer"}
                    /\ \A j \in i..Len(r) : r[j].dom = "raw" /\ r[j].exposed
               /\ r[i].at = "finalizer" => \A j \in i..Len(r) : r[j].exposed
               /\ r[i].dom # "raw" \/ r[i].at = "walk" => HasGIL(t) \/ Above(t, i)'
               /\ InApi(t) => r[i].op = "free" \/ Above(t, i)'
               /\ r[i].exposed \/ HasGIL(t)
    <3>1. /\ Recording(s[i + 1]) => s[i + 1].is_outer_scope_ /\ s[i + 1].op = "alloc"
          /\ s[i + 1].ensured =>
               /\ s[i + 1].at \in {"walk", "finalizer"}
               /\ \A j \in (i + 1)..Len(s) : s[j].dom = "raw" /\ s[j].exposed
          /\ s[i + 1].at = "finalizer" => \A j \in (i + 1)..Len(s) : s[j].exposed
          /\ s[i + 1].dom # "raw" \/ s[i + 1].at = "walk" => HasGIL(t) \/ Above(t, i + 1)
          /\ InApi(t) => s[i + 1].op = "free" \/ Above(t, i + 1)
          /\ s[i + 1].exposed \/ HasGIL(t)
      BY <1>4 DEF PatchInv, GilInv, GilOK
    <3>2. \A j \in i..Len(r) : j + 1 \in (i + 1)..Len(s) /\ r[j] = s[j + 1]
      BY <1>2
    <3>3. r[i] = s[i + 1] /\ (Above(t, i + 1) => Above(t, i)')
      BY <1>2, <2>1
    <3>4. s[i + 1].ensured => \A j \in i..Len(r) : r[j].dom = "raw" /\ r[j].exposed
      BY <3>1, <3>2
    <3>5. s[i + 1].at = "finalizer" => \A j \in i..Len(r) : r[j].exposed
      BY <3>1, <3>2
    <3>. QED  BY <3>1, <3>3, <3>4, <3>5
  <2>. QED  BY <1>1, <2>2 DEF GilOK, HasGIL, InApi
<1>10. GilInv'
  <2>1. (InApi(t)' <=> InApi(t)) /\ (HasGIL(t)' <=> HasGIL(t)) /\ pc'[t] = pc[t] /\ gil' = gil
    BY <1>1 DEF InApi, HasGIL
  <2>2. InApi(t) => HasGIL(t)
    BY DEF PatchInv, GilInv, ApiHasGIL
  <2>. QED  BY <1>1, <1>2, <1>3, <1>9, <2>1, <2>2, OthersKeepGil
<1>. QED  BY <1>1, <1>6, <1>7, <1>8, <1>10, QuietKeepsStage DEF PatchInv

\* A thread at Python code: if it is in a call at all then in a finalizer, and
\* its calls are exposed.
LEMMA PythonCalls ==
  ASSUME PatchInv, NEW t \in Threads, RunsPython(t)
  PROVE  \A i \in 1..Len(calls[t]) : calls[t][i].exposed /\ Above(t, i)
<1>1. CASE InCall(t)
  <2>1. Top(t).at = "finalizer" /\ Top(t) = calls[t][1] /\ Len(calls[t]) \in Nat \ {0}
    BY <1>1, TopFacts DEF RunsPython
  <2>2. \A i \in 1..Len(calls[t]) : 1 \in 1..i /\ i \in 1..Len(calls[t])
    BY <2>1
  <2>. QED  BY <1>1, <2>1, <2>2, TopFacts DEF Above
<1>2. CASE ~InCall(t)
  <2>1. Len(calls[t]) = 0
    <3>1. calls[t] = <<>>
      BY <1>2 DEF InCall
    <3>. QED  BY <3>1
  <2>. QED  BY <2>1
<1>. QED  BY <1>1, <1>2

\* The interpreter hands the GIL on.
LEMMA SwitchKeepsInv ==
  ASSUME PatchInv, NEW t \in Threads, AcquireGIL(t) \/ ReleaseGIL(t)
  PROVE  PatchInv'
<1>1. /\ UNCHANGED <<patch, is_active_, calls, pc>> /\ RunsPython(t) /\ ~InApi(t)
      /\ gil \in {t, NoThread} /\ gil' \in {t, NoThread}
  BY DEF AcquireGIL, ReleaseGIL, HasGIL
<1>2. TypeOK' /\ ReentryInv'
  BY <1>1 DEF PatchInv, TypeOK, ReentryInv, patch
<1>3. CallsOK'
  BY <1>1, QuietKeepsCalls DEF PatchInv
<1>4. GilOK(t)'
  <2>1. \A i \in 1..Len(calls[t]) : calls[t][i].exposed /\ Above(t, i)
    BY <1>1, PythonCalls
  <2>2. \A i \in 1..Len(calls[t]) : Above(t, i)'
    BY <1>1, <2>1 DEF Above
  <2>. QED  BY <1>1, <2>1, <2>2 DEF PatchInv, GilInv, GilOK, InApi
<1>5. GilInv'
  BY <1>1, <1>4, OthersKeepGil DEF InApi
<1>. QED  BY <1>1, <1>2, <1>3, <1>5, QuietKeepsStage DEF PatchInv

-----------------------------------------------------------------------------
\* Start and stop.

\* Entering start() or stop().
LEMMA EnterApiKeepsInv ==
  ASSUME PatchInv, NEW t \in Threads, StartProfiler(t) \/ StopProfiler(t)
  PROVE  PatchInv'
<1>1. /\ HasGIL(t) /\ RunsPython(t) /\ ~InApi(t) /\ UNCHANGED <<gil, patch, is_active_, calls>>
      /\ \/ Goto(t, "attach") /\ g_profiler = 0 /\ started < MaxStarts
         \/ Goto(t, "unhook raw") /\ g_profiler # 0
  BY DEF StartProfiler, StopProfiler
<1>2. pc \in [Threads -> Labels]
  BY DEF PatchInv, TypeOK
<1>3. TypeOK' /\ ReentryInv'
  BY <1>1 DEF PatchInv, TypeOK, ReentryInv, patch, Goto, Labels
<1>4. \A u \in Threads \ {t} : ~InApi(u) /\ pc'[u] = pc[u]
  BY <1>1, <1>2, AloneInApi DEF PatchInv, GilInv, Goto
<1>5. GilInv'
  <2>1. \A i \in 1..Len(calls[t]) : Above(t, i) /\ Above(t, i)'
    <3>1. \A i \in 1..Len(calls[t]) : Above(t, i)
      BY <1>1, PythonCalls
    <3>. QED  BY <1>1, <3>1 DEF Above
  <2>2. GilOK(t)'
    BY <1>1, <2>1 DEF PatchInv, GilInv, GilOK, HasGIL
  <2>3. HasGIL(t)' /\ RunsPython(t)' /\ gil' = gil
    BY <1>1 DEF HasGIL, RunsPython, InCall, Top
  <2>. QED  BY <1>1, <1>4, <2>2, <2>3, OthersKeepGil
<1>6. \/ g_profiler = 0 /\ Hooked({})
      \/ g_profiler # 0 /\ Hooked(Domains) /\ BasesSaved
  BY <1>1, <1>4 DEF PatchInv, AtRest
<1>7. Stage'
  BY <1>1, <1>2, <1>4, <1>6 DEF Stage, Goto, InApi, Hooked, BasesSaved, HookedAt, patch
<1>8. AtRest'
  BY <1>1, <1>2 DEF AtRest, Goto, InApi
<1>9. CallsOK'
  BY <1>1, QuietKeepsCalls DEF PatchInv
<1>. QED  BY <1>3, <1>5, <1>7, <1>8, <1>9 DEF PatchInv

\* While a thread moves the hooks every call is exposed: the other threads are
\* without the GIL, and this one is in no call or in a finalizer.
LEMMA AllExposed ==
  ASSUME PatchInv, NEW t \in Threads, HasGIL(t), RunsPython(t)
  PROVE  \A u \in Threads : \A i \in 1..Len(calls[u]) : calls[u][i].exposed
<1>1. ASSUME NEW u \in Threads \ {t}, NEW i \in 1..Len(calls[u]) PROVE calls[u][i].exposed
  BY PatchAssumption DEF PatchInv, GilInv, GilOK, HasGIL
<1>. QED  BY <1>1, PythonCalls

\* A step of start() or stop() touches the hooks and its own label alone.
LEMMA ApiStepKeepsInv ==
  ASSUME PatchInv, NEW t \in Threads, ApiStep(t)
  PROVE  PatchInv'
<1> USE DEF InApi
<1>1. pc[t] # "run" /\ UNCHANGED <<gil, is_active_, calls>>
  BY DEF ApiStep, PublishProfiler, SaveBaseAllocators, HookDomain, UnhookDomain,
         SetAllocator, ResetProfiler, Destroyed
<1>2. /\ pc \in [Threads -> Labels] /\ hook \in [Domains -> Allocator]
      /\ g_base_allocators \in [Domains -> Allocator \cup {Unset}]
      /\ g_profiler \in 0..MaxStarts /\ started \in 0..MaxStarts /\ MaxStarts \in Nat
  BY PatchAssumption DEF PatchInv, TypeOK
<1>3. HasGIL(t) /\ \A u \in Threads \ {t} : pc[u] = "run"
  BY <1>1, AloneInApi DEF PatchInv, GilInv, ApiHasGIL
<1>4. PICK l \in Labels : Goto(t, l)
  BY DEF ApiStep, PublishProfiler, SaveBaseAllocators, HookDomain, UnhookDomain,
         SetAllocator, ResetProfiler, Destroyed, Labels
<1>5. pc' \in [Threads -> Labels] /\ pc'[t] = l /\ \A u \in Threads \ {t} : pc'[u] = "run"
  BY <1>2, <1>3, <1>4 DEF Goto
<1>a. RunsPython(t)
  <2>1. CASE Destroyed(t)
    BY <2>1 DEF Destroyed
  <2>2. CASE ~Destroyed(t)
    <3>1. pc[t] # "destructor"
      BY <2>2 DEF ApiStep, PublishProfiler, SaveBaseAllocators, HookDomain, UnhookDomain,
                  SetAllocator, ResetProfiler
    <3>. QED  BY <1>1, <3>1 DEF PatchInv, GilInv, ApiRunsPython
  <2>. QED  BY <2>1, <2>2
<1>6. GilInv'
  <2>1. \A i \in 1..Len(calls[t]) : Above(t, i) /\ Above(t, i)'
    <3>1. \A i \in 1..Len(calls[t]) : Above(t, i)
      BY <1>a, PythonCalls
    <3>. QED  BY <1>1, <3>1 DEF Above
  <2>2. GilOK(t)'
    BY <1>1, <2>1 DEF PatchInv, GilInv, GilOK, HasGIL
  <2>3. HasGIL(t)' /\ RunsPython(t)' /\ gil' = gil
    BY <1>1, <1>3, <1>a DEF HasGIL, RunsPython, InCall, Top
  <2>. QED  BY <1>1, <1>3, <1>5, <2>2, <2>3, OthersKeepGil
<1>b. CallsOK' /\ ReentryInv'
  <2>1. \A u \in Threads : \A i \in 1..Len(calls[u]) : calls[u][i].exposed
    BY <1>3, <1>a, AllExposed
  <2>. QED  BY <1>1, <2>1 DEF PatchInv, CallsOK, CallOK, Handed, IsWrapper, ReentryInv
<1>7. /\ Hooked(HookedAt(pc[t]))
      /\ g_profiler = 0 <=> pc[t] \in {"attach", "destructor"}
      /\ pc[t] \notin {"attach", "save", "reset", "destructor"} => BasesSaved
      /\ pc[t] = "attach" => started < MaxStarts
  BY <1>1 DEF PatchInv, Stage
<1> DEFINE StageOf(label) ==
      IF label = "run" THEN \/ g_profiler = 0 /\ Hooked({})
                            \/ g_profiler # 0 /\ Hooked(Domains) /\ BasesSaved
      ELSE /\ Hooked(HookedAt(label))
           /\ g_profiler = 0 <=> label \in {"attach", "destructor"}
           /\ label \notin {"attach", "save", "reset", "destructor"} => BasesSaved
           /\ label = "attach" => started < MaxStarts
<1> DEFINE Kept == /\ g_profiler' \in 0..MaxStarts /\ started' \in 0..MaxStarts
                   /\ hook' \in [Domains -> Allocator]
                   /\ g_base_allocators' \in [Domains -> Allocator \cup {Unset}]
                   /\ StageOf(l)'
<1>8. ASSUME PublishProfiler(t) PROVE Kept
  <2>1. l = "save" /\ pc[t] = "attach"
    BY <1>2, <1>4, <1>8 DEF PublishProfiler, Goto
  <2>2. /\ g_profiler' \in 0..MaxStarts /\ started' \in 0..MaxStarts /\ g_profiler' # 0
        /\ UNCHANGED <<hook, g_base_allocators>>
    BY <1>2, <1>7, <1>8, <2>1 DEF PublishProfiler
  <2>. QED  BY <1>2, <1>7, <2>1, <2>2 DEF Hooked, HookedAt
<1>9. ASSUME SaveBaseAllocators(t) PROVE Kept
  <2>1. l = "hook raw" /\ pc[t] = "save"
    BY <1>2, <1>4, <1>9 DEF SaveBaseAllocators, Goto
  <2>2. g_base_allocators' = hook /\ UNCHANGED <<g_profiler, started, hook>>
    BY <1>9 DEF SaveBaseAllocators
  <2>3. \A d \in Domains : hook[d] = System
    BY <1>7, <2>1 DEF Hooked, HookedAt
  <2>. QED  BY <1>2, <1>7, <2>1, <2>2, <2>3 DEF Hooked, HookedAt, BasesSaved
<1>10. ASSUME HookDomain(t) PROVE Kept
  <2>1. UNCHANGED <<g_profiler, started, g_base_allocators>> /\ g_profiler # 0 /\ BasesSaved /\ BasesSaved'
    BY <1>7, <1>10 DEF HookDomain, SetAllocator, BasesSaved
  <2>2. /\ hook' \in [Domains -> Allocator]
        /\ \/ pc[t] = "hook raw" /\ l = "hook mem" /\ hook' = [hook EXCEPT !["raw"] = Wrapper("raw")]
           \/ pc[t] = "hook mem" /\ l = "hook obj" /\ hook' = [hook EXCEPT !["mem"] = Wrapper("mem")]
           \/ pc[t] = "hook obj" /\ l = "run" /\ hook' = [hook EXCEPT !["obj"] = Wrapper("obj")]
    BY <1>2, <1>4, <1>10 DEF HookDomain, SetAllocator, Goto, Allocator, Domains
  <2>3. StageOf(l)'
    BY <1>2, <1>7, <2>1, <2>2 DEF Hooked, HookedAt, Domains
  <2>. QED  BY <1>2, <2>1, <2>2, <2>3
<1>11. ASSUME UnhookDomain(t) PROVE Kept
  <2>1. UNCHANGED <<g_profiler, started, g_base_allocators>> /\ g_profiler # 0 /\ BasesSaved /\ BasesSaved'
    BY <1>7, <1>11 DEF UnhookDomain, SetAllocator, BasesSaved
  <2>2. /\ hook' \in [Domains -> Allocator]
        /\ \/ pc[t] = "unhook raw" /\ l = "unhook mem" /\ hook' = [hook EXCEPT !["raw"] = System]
           \/ pc[t] = "unhook mem" /\ l = "unhook obj" /\ hook' = [hook EXCEPT !["mem"] = System]
           \/ pc[t] = "unhook obj" /\ l = "reset" /\ hook' = [hook EXCEPT !["obj"] = System]
    BY <1>2, <1>4, <1>11, <2>1 DEF UnhookDomain, SetAllocator, Goto, Allocator, Domains, BasesSaved
  <2>3. StageOf(l)'
    BY <1>2, <1>7, <2>1, <2>2 DEF Hooked, HookedAt, Domains
  <2>. QED  BY <1>2, <2>1, <2>2, <2>3
<1>12. ASSUME ResetProfiler(t) PROVE Kept
  <2>1. l = "destructor" /\ pc[t] = "reset" /\ g_profiler' = 0
        /\ UNCHANGED <<started, g_base_allocators, hook>>
    BY <1>2, <1>4, <1>12 DEF ResetProfiler, Goto
  <2>. QED  BY <1>2, <1>7, <2>1 DEF Hooked, HookedAt
<1>13. ASSUME Destroyed(t) PROVE Kept
  <2>1. l = "run" /\ pc[t] = "destructor" /\ UNCHANGED <<g_profiler, started, g_base_allocators, hook>>
    BY <1>2, <1>4, <1>13 DEF Destroyed, Goto, patch
  <2>. QED  BY <1>2, <1>7, <2>1 DEF Hooked, HookedAt
<1>14. Kept
  BY <1>8, <1>9, <1>10, <1>11, <1>12, <1>13 DEF ApiStep
<1>15. TypeOK'
  BY <1>1, <1>5, <1>14 DEF PatchInv, TypeOK
<1>16. Stage' /\ AtRest'
  BY <1>5, <1>14 DEF Stage, AtRest
<1>. QED  BY <1>6, <1>b, <1>15, <1>16 DEF PatchInv

-----------------------------------------------------------------------------
\* The theorems.

LEMMA PatchInvStep == PatchInv /\ [Next]_vars => PatchInv'
<1> SUFFICES ASSUME PatchInv, [Next]_vars PROVE PatchInv'
  OBVIOUS
<1>1. CASE UNCHANGED vars
  <2>1. TypeOK' /\ ReentryInv'
    BY <1>1 DEF vars, PatchInv, TypeOK, ReentryInv
  <2>2. GilInv'
    BY <1>1 DEF vars, PatchInv, GilInv, ApiHasGIL, ApiRunsPython, RunsPython, GilOK, Above,
                HasGIL, InApi, InCall, Top
  <2>3. UNCHANGED <<patch, calls, pc>>
    BY <1>1 DEF vars, patch
  <2>. QED  BY <2>1, <2>2, <2>3, QuietKeepsCalls, QuietKeepsStage DEF PatchInv
<1>2. CASE Next
  <2>1. PICK t \in Threads :
          \/ StartProfiler(t) \/ StopProfiler(t) \/ ApiStep(t) \/ DecrefString(t)
          \/ \E d \in Domains, op \in {"alloc", "free"} : CallAllocator(t, d, op) \/ Delegate(t, d, op)
          \/ CallStep(t) \/ EnsureGIL(t) \/ RunFinalizer(t) \/ FinalizerEnds(t)
          \/ AcquireGIL(t) \/ ReleaseGIL(t)
    BY <1>2 DEF Next
  <2>2. ASSUME DecrefString(t) PROVE PatchInv'
    <3>1. "obj" \in Domains /\ "free" \in {"alloc", "free"} /\ Begins(t, "obj", "free")
      BY <2>2 DEF Domains, Begins
    <3>. QED  BY <3>1, BeginsKeepsInv
  <2>3. ASSUME NEW d \in Domains, NEW op \in {"alloc", "free"},
               CallAllocator(t, d, op) \/ Delegate(t, d, op)
        PROVE  PatchInv'
    <3>1. Begins(t, d, op)
      BY <2>3 DEF Begins
    <3>. QED  BY <3>1, BeginsKeepsInv
  <2>. QED  BY <2>1, <2>2, <2>3, EnterApiKeepsInv, ApiStepKeepsInv, CallStepKeepsInv, EnterWrapperKeepsInv,
               HandleReturnsKeepsInv, RunFinalizerKeepsInv, ReturnKeepsInv, SwitchKeepsInv DEF CallStep
<1>. QED  BY <1>1, <1>2

LEMMA PatchInvariant == Spec => []PatchInv
BY InitPatchInv, PatchInvStep, PTL DEF Spec

\* Every hook is an allocator, and stop() never installs one that was not
\* saved: AttachProfiler and DetachProfiler, whatever overlaps.
THEOREM MallocPatchTypeCorrect == Spec => []TypeOK
<1>1. PatchInv => TypeOK
  BY DEF PatchInv
<1>. QED  BY <1>1, PatchInvariant, PTL

\* Whatever overlaps with a start or stop: while a wrapper is in place there is
\* a profiler behind it, and what it calls in turn is not a wrapper.
THEOREM HooksAlwaysHaveProfiler == Spec => []HooksHaveProfiler
<1>1. PatchInv => HooksHaveProfiler
  BY StageImpliesHooks DEF PatchInv
<1>. QED  BY <1>1, PatchInvariant, PTL

\* Whatever overlaps: between starts and stops all three domains are hooked
\* exactly while is_tracing() says so.
THEOREM HooksAgreeWithProfiler == Spec => []HooksFollowProfiler
<1>1. PatchInv => HooksFollowProfiler
  BY StageImpliesHooks DEF PatchInv
<1>. QED  BY <1>1, PatchInvariant, PTL

\* Whatever overlaps, and however deep the calls of a thread are nested:
\* is_active_ is set exactly inside a wrapper, and only the outermost wrapper
\* takes itself for the outer scope, so that no memory is counted twice.
THEOREM OutermostScopeIsTheOnlyOne == Spec => []OnlyOutermostTraced
<1>1. PatchInv => OnlyOutermostTraced
  BY DEF PatchInv, ReentryInv, Reentry, OnlyOutermostTraced, Wrappers, IsWrapper
<1>. QED  BY <1>1, PatchInvariant, PTL

\* Whatever calls and finalizers came in between, and whether the domain is
\* called with the GIL or the call ensured it: the call stack is read by a
\* thread that has the GIL (stacktraces.cc:55, heap.h:65).
THEOREM CallStackIsReadWithGIL == Spec => []WalksHaveGIL
<1>1. PatchInv => WalksHaveGIL
  <2> SUFFICES ASSUME PatchInv, NEW t \in Threads, NEW i \in 1..Len(calls[t]), calls[t][i].at = "walk"
               PROVE  HasGIL(t)
    BY DEF WalksHaveGIL
  <2>1. HasGIL(t) \/ Above(t, i)
    BY DEF PatchInv, GilInv, GilOK
  <2>2. ~Above(t, i)
    <3> SUFFICES ASSUME NEW j \in 1..i, calls[t][j].at = "finalizer" PROVE FALSE
      BY DEF Above
    <3>1. j \in 1..Len(calls[t]) /\ Recording(calls[t][i]) /\ Recording(calls[t][j])
      <4>1. Len(calls[t]) \in Nat
        BY LenProperties DEF PatchInv, TypeOK
      <4>. QED  BY <4>1 DEF Recording
    <3>2. i = j
      BY <3>1, OneRecords
    <3>. QED  BY <3>2
  <2>. QED  BY <2>1, <2>2
<1>. QED  BY <1>1, PatchInvariant, PTL

\* What AttachProfiler and DetachProfiler rely on, and where it ends: a call that
\* had the GIL from its beginning and ran no finalizer in it finds the hook
\* whole and the profiler there until it returns (malloc_patch.cc:194-224,
\* heap.h:113); only the others can be in a profiler that is destroyed, go through
\* a null pointer or be handed another domain's base allocator.
THEOREM CallsThatKeepTheGILAreSafe == Spec => []OnlyExposedCallsLost
<1>1. PatchInv => OnlyExposedCallsLost
  <2> SUFFICES ASSUME PatchInv, NEW t \in Threads, NEW i \in 1..Len(calls[t]), NEW c, c = calls[t][i],
                      c.at = "crash" \/ InDestroyed(c) \/ Mismatched(c), ~c.exposed
               PROVE  FALSE
    BY DEF OnlyExposedCallsLost
  <2>1. Handed(c) /\ UpToDate(c)
    BY DEF PatchInv, CallsOK, CallOK
  <2>. QED  BY <2>1 DEF Handed, UpToDate, IsWrapper, InDestroyed, Mismatched
<1>. QED  BY <1>1, PatchInvariant, PTL
=============================================================================
