----------------------------- MODULE CallTraceSet -----------------------------
(***************************************************************************)
(* stacktraces.cc: taking the call stack of a thread and interning it as   *)
(* the leaf of a tree of frames that share their parents, over the life of *)
(* the Python strings the frames refer to.                                 *)
(*                                                                         *)
(* A string object is an address with a content and a reference count;     *)
(* its address is reused once the count is zero.  A FuncLoc is modelled by *)
(* its filename: name goes through the same calls, and the line numbers    *)
(* are compared by value.  A CallFrame is an element of trace_leaves_, in  *)
(* the order of their creation, and a TraceHandle is an index, 0 for       *)
(* nullptr.  Everything here runs with the GIL held.                       *)
(***************************************************************************)
EXTENDS Integers, Sequences, FiniteSets

CONSTANTS
  Strings,               \* the addresses of string objects
  Contents,              \* what a string can say
  Skipped,               \* the contents that begin with "<"
  Free,                  \* the content of an address where no object is
  MaxStack,              \* bound: the deepest stack a thread has
  max_frames_,
  kMaxFramesToCapture

ASSUME CallTraceSetAssumption ==
  /\ Free \notin Contents /\ Skipped \subseteq Contents
  /\ {MaxStack, max_frames_, kMaxFramesToCapture} \subseteq Nat

VARIABLES
  content, refcnt,   \* the string objects
  program,           \* the strings the program itself refers to
  string_table_,
  trace_leaves_,
  pc,
  frames,            \* the stack of the thread that records, as it is
  trace,             \* its CallTrace, the current frame first
  todo,              \* the frame the walk is at, then Intern's i + 1
  parent

vars == <<content, refcnt, program, string_table_, trace_leaves_,
          pc, frames, trace, todo, parent>>
heap == <<content, refcnt, program>>
local == <<frames, trace, todo, parent>>

CallFrame == [parent : Nat, loc : Strings]

TypeOK ==
  /\ content \in [Strings -> Contents \cup {Free}]
  /\ refcnt \in [Strings -> Nat]
  /\ program \subseteq Strings /\ string_table_ \subseteq Strings
  /\ trace_leaves_ \in Seq(CallFrame)
  /\ pc \in {"idle", "walk", "find", "intern", "free"}
  /\ frames \in Seq(Strings) /\ trace \in Seq(Strings)
  /\ Len(trace) <= kMaxFramesToCapture
  /\ todo \in IF pc = "walk" THEN 1..Len(frames) + 1 ELSE 0..Len(trace)
  /\ parent \in 0..Len(trace_leaves_)

Init ==
  /\ content = [s \in Strings |-> Free] /\ refcnt = [s \in Strings |-> 0]
  /\ program = {} /\ string_table_ = {}
  /\ trace_leaves_ = <<>>
  /\ pc = "idle"
  /\ frames = <<>> /\ trace = <<>> /\ todo = 0 /\ parent = 0

-----------------------------------------------------------------------------
\* How often a call trace refers to a string.
Occurrences(tr, s) == Cardinality({i \in DOMAIN tr : tr[i] = s})

\* Py_DECREF, dec[s] times: an object nobody refers to is freed.
Decref(dec) ==
  /\ refcnt' = [s \in Strings |-> refcnt[s] - dec[s]]
  /\ content' = [s \in Strings |-> IF refcnt[s] - dec[s] = 0 THEN Free ELSE content[s]]

\* EqualPyString, and the equality of CallFrames.
EqualPyString(p1, p2) == p1 = p2 \/ content[p1] = content[p2]

\* The CallFrames equal to (parent, loc).
EqualFrames(loc) ==
  {f \in DOMAIN trace_leaves_ :
     trace_leaves_[f].parent = parent /\ EqualPyString(trace_leaves_[f].loc, loc)}

(***************************************************************************)
(* What a lookup of (parent, loc) may return, 0 for the end.  The hash is  *)
(* that of the pointers: an equal frame with the same string object is in  *)
(* the bucket looked at, one with another object of the same content may   *)
(* or may not be.                                                          *)
(***************************************************************************)
Lookup(loc) ==
  LET equal == EqualFrames(loc)
  IN equal \cup (IF \E f \in equal : trace_leaves_[f].loc = loc THEN {} ELSE {0})

GetTrace(h) ==
  LET up[f \in 0..Len(trace_leaves_)] ==
        IF f = 0 THEN <<>>
        ELSE <<trace_leaves_[f].loc>> \o up[trace_leaves_[f].parent]
  IN up[h]

Said(tr) == [i \in DOMAIN tr |-> content[tr[i]]]

-----------------------------------------------------------------------------
\* The program makes a string object, or drops its last reference to one.
NewString(s, c) ==
  /\ pc = "idle" /\ content[s] = Free
  /\ content' = [content EXCEPT ![s] = c]
  /\ refcnt' = [refcnt EXCEPT ![s] = 1]
  /\ program' = program \cup {s}
  /\ UNCHANGED <<string_table_, trace_leaves_, pc, local>>

DropString(s) ==
  /\ pc = "idle" /\ s \in program
  /\ Decref([x \in Strings |-> IF x = s THEN 1 ELSE 0])
  /\ program' = program \ {s}
  /\ UNCHANGED <<string_table_, trace_leaves_, pc, local>>

SkipFrame(s) == content[s] \in Skipped

FrameLimit == IF max_frames_ > kMaxFramesToCapture THEN kMaxFramesToCapture
              ELSE max_frames_

\* GetCurrentCallTrace of a thread with the given stack begins.  A running
\* frame's code object refers to its filename.
GetCurrentCallTrace ==
  /\ pc = "idle"
  /\ \E n \in 0..MaxStack : \E stack \in [1..n -> program] : frames' = stack
  /\ todo' = 1
  /\ pc' = "walk"
  /\ UNCHANGED <<heap, string_table_, trace_leaves_, trace, parent>>

\* Slip: the frames that are skipped use up the limit.
WalkFrameCutFirst ==
  /\ pc = "walk"
  /\ IF todo <= Len(frames) /\ todo <= FrameLimit
     THEN /\ IF SkipFrame(frames[todo]) THEN UNCHANGED <<refcnt, trace>>
             ELSE /\ refcnt' = [refcnt EXCEPT ![frames[todo]] = @ + 1]
                  /\ trace' = Append(trace, frames[todo])
          /\ todo' = todo + 1
          /\ UNCHANGED pc
     ELSE /\ pc' = "find" /\ todo' = Len(trace)
          /\ UNCHANGED <<refcnt, trace>>
  /\ UNCHANGED <<content, program, string_table_, trace_leaves_, frames, parent>>

\* Its loop: one frame, left out or kept with a reference to its string, as
\* long as there is room.
WalkFrame ==
  /\ pc = "walk"
  /\ IF todo <= Len(frames) /\ Len(trace) < FrameLimit
     THEN /\ IF SkipFrame(frames[todo]) THEN UNCHANGED <<refcnt, trace>>
             ELSE /\ refcnt' = [refcnt EXCEPT ![frames[todo]] = @ + 1]
                  /\ trace' = Append(trace, frames[todo])
          /\ todo' = todo + 1
          /\ UNCHANGED pc
     ELSE /\ pc' = "find" /\ todo' = Len(trace)
          /\ UNCHANGED <<refcnt, trace>>
  /\ UNCHANGED <<content, program, string_table_, trace_leaves_, frames, parent>>

\* Intern's first loop: one frame, root first, looked up as it stands.
FindFrame ==
  /\ pc = "find"
  /\ IF todo = 0 THEN pc' = "intern" /\ UNCHANGED <<todo, parent>>
     ELSE \E f \in Lookup(trace[todo]) :
            IF f = 0 THEN pc' = "intern" /\ UNCHANGED <<todo, parent>>
            ELSE parent' = f /\ todo' = todo - 1 /\ UNCHANGED pc
  /\ UNCHANGED <<heap, string_table_, trace_leaves_, frames, trace>>

\* Slip: the string table keeps a string without a reference to it.
InternStringBorrowed(s) ==
  LET found == {x \in string_table_ : EqualPyString(x, s)}
  IN [string |-> IF found = {} THEN s ELSE CHOOSE x \in found : TRUE,
      table  |-> IF found = {} THEN string_table_ \cup {s} ELSE string_table_,
      incref |-> 0]

\* The string of the table that equals s, which s becomes if there is none.
InternString(s) ==
  LET found == {x \in string_table_ : EqualPyString(x, s)}
  IN [string |-> IF found = {} THEN s ELSE CHOOSE x \in found : TRUE,
      table  |-> IF found = {} THEN string_table_ \cup {s} ELSE string_table_,
      incref |-> IF found = {} THEN 1 ELSE 0]

\* Slip: the frame keeps the string it came with.
InternFrameAsIs ==
  /\ pc = "intern"
  /\ IF todo = 0
     THEN /\ pc' = "free"
          /\ UNCHANGED <<refcnt, string_table_, trace_leaves_, todo, parent>>
     ELSE /\ LET s == InternString(trace[todo]) IN
               /\ string_table_' = s.table
               /\ refcnt' = [refcnt EXCEPT ![trace[todo]] = @ + s.incref]
               /\ \E f \in Lookup(trace[todo]) :
                    IF f # 0 THEN parent' = f /\ UNCHANGED trace_leaves_
                    ELSE /\ trace_leaves_' = Append(trace_leaves_,
                              [parent |-> parent, loc |-> trace[todo]])
                         /\ parent' = Len(trace_leaves_')
          /\ todo' = todo - 1
          /\ UNCHANGED pc
  /\ UNCHANGED <<content, program, frames, trace>>

\* Intern's second loop: one frame with its string interned, found or added.
InternFrame ==
  /\ pc = "intern"
  /\ IF todo = 0
     THEN /\ pc' = "free"
          /\ UNCHANGED <<refcnt, string_table_, trace_leaves_, todo, parent>>
     ELSE /\ LET s == InternString(trace[todo]) IN
               /\ string_table_' = s.table
               /\ refcnt' = [refcnt EXCEPT ![trace[todo]] = @ + s.incref]
               /\ \E f \in Lookup(s.string) :
                    IF f # 0 THEN parent' = f /\ UNCHANGED trace_leaves_
                    ELSE /\ trace_leaves_' = Append(trace_leaves_,
                              [parent |-> parent, loc |-> s.string])
                         /\ parent' = Len(trace_leaves_')
          /\ todo' = todo - 1
          /\ UNCHANGED pc
  /\ UNCHANGED <<content, program, frames, trace>>

\* RecordMalloc drops the references the CallTrace holds; the handle goes into
\* the live set.
FreeCallTrace ==
  /\ pc = "free"
  /\ Decref([s \in Strings |-> Occurrences(trace, s)])
  /\ pc' = "idle"
  /\ frames' = <<>> /\ trace' = <<>> /\ todo' = 0 /\ parent' = 0
  /\ UNCHANGED <<program, string_table_, trace_leaves_>>

\* Slip: the frames stay.
ResetStringsOnly ==
  /\ pc = "idle"
  /\ Decref([s \in Strings |-> IF s \in string_table_ THEN 1 ELSE 0])
  /\ string_table_' = {}
  /\ UNCHANGED <<program, trace_leaves_, pc, local>>

\* CallTraceSet::Reset, which the destructor amounts to as well.
Reset ==
  /\ pc = "idle"
  /\ Decref([s \in Strings |-> IF s \in string_table_ THEN 1 ELSE 0])
  /\ string_table_' = {}
  /\ trace_leaves_' = <<>>
  /\ UNCHANGED <<program, pc, local>>

Next ==
  \/ \E s \in Strings : DropString(s) \/ \E c \in Contents : NewString(s, c)
  \/ GetCurrentCallTrace \/ WalkFrame
  \/ FindFrame \/ InternFrame \/ FreeCallTrace \/ Reset

Spec == Init /\ [][Next]_vars

-----------------------------------------------------------------------------
(***************************************************************************)
(* Interned frames refer to live strings, of the string table, which holds *)
(* one object per content: no frame outlives its strings, although the     *)
(* program drops its own references when it likes and addresses are        *)
(* reused.                                                                 *)
(***************************************************************************)
NoDanglingString ==
  /\ \A f \in DOMAIN trace_leaves_ : trace_leaves_[f].loc \in string_table_
  /\ \A s \in string_table_ : content[s] # Free
  /\ \A s1, s2 \in string_table_ : content[s1] = content[s2] => s1 = s2

(***************************************************************************)
(* The reference counts come out even: each reference Intern,              *)
(* GetCurrentCallTrace and their callers take is dropped once, so that     *)
(* nothing is freed early and, after a Reset, nothing is kept.             *)
(***************************************************************************)
RefcountsExact ==
  \A s \in Strings :
    refcnt[s] = (IF s \in program THEN 1 ELSE 0)
                + (IF s \in string_table_ THEN 1 ELSE 0) + Occurrences(trace, s)

(***************************************************************************)
(* Two different frames are two different call stacks: one stack has one   *)
(* handle, although the set hashes the address of a string where it        *)
(* compares its content (stacktraces.h:142).                               *)
(***************************************************************************)
InternedOnce ==
  \A f, g \in DOMAIN trace_leaves_ :
    Said(GetTrace(f)) = Said(GetTrace(g)) => f = g

\* How many of the innermost n frames of the stack are not left out.
Kept(n) == Cardinality({i \in 1..n : ~SkipFrame(frames[i])})

(***************************************************************************)
(* The handle Intern returns is that of the innermost frames of the stack  *)
(* that was walked, the importer's left out, and as many as the limit      *)
(* allows: each frame that is kept stands where its rank among them says.  *)
(***************************************************************************)
InternReturnsTrace ==
  pc = "free" =>
    LET told == Said(GetTrace(parent))
        all == Kept(Len(frames))
    IN /\ Len(told) = IF all < FrameLimit THEN all ELSE FrameLimit
       /\ \A i \in DOMAIN frames : ~SkipFrame(frames[i]) /\ Kept(i) <= FrameLimit =>
            told[Kept(i)] = content[frames[i]]

(***************************************************************************)
(* A handle keeps its meaning: until the next Reset it reads as the same   *)
(* call stack, whatever the program and later calls do (heap.h:49).        *)
(***************************************************************************)
HandlesKeepTheirTrace ==
  [][\A h \in DOMAIN trace_leaves_ :
       h \in DOMAIN trace_leaves_' =>
         Said(GetTrace(h))' = Said(GetTrace(h))]_vars
=============================================================================
