-------------------------- MODULE CallTraceSetProofs --------------------------
(***************************************************************************)
(* Proofs about CallTraceSet, for any strings, any depth of stack and any  *)
(* number of frames to keep: the reference counts come out even, no        *)
(* interned frame outlives its strings, a call stack has one handle, and a *)
(* handle is that of the call stack until the next Reset.                  *)
(***************************************************************************)
EXTENDS CallTraceSet, DataInduction, FiniteSetTheorems, TLAPS

\* Nobody records: the locals of the last call are gone.
IdleOK == pc = "idle" => frames = <<>> /\ trace = <<>> /\ todo = 0 /\ parent = 0

\* An object is there as long as somebody refers to it.
CountedAlive == \A s \in Strings : content[s] = Free <=> refcnt[s] = 0

\* The code objects of the frames are the program's.
FramesOwned == \A i \in 1..Len(frames) : frames[i] \in program

\* The two hold each other up: a count is positive because the table or the
\* trace has its reference, and what they refer to is there because of that.
Inv == TypeOK /\ IdleOK /\ FramesOwned /\ CountedAlive /\ RefcountsExact /\ NoDanglingString

-----------------------------------------------------------------------------
\* Occurrences counts the references a call trace holds.

LEMMA OccurrencesNat ==
  ASSUME NEW tr \in Seq(Strings), NEW s
  PROVE  /\ IsFiniteSet({i \in DOMAIN tr : tr[i] = s})
         /\ Occurrences(tr, s) \in Nat
<1>1. IsFiniteSet(1..Len(tr))
  BY FS_Interval
<1>2. {i \in DOMAIN tr : tr[i] = s} \in SUBSET (1..Len(tr))
  OBVIOUS
<1>3. IsFiniteSet({i \in DOMAIN tr : tr[i] = s})
  BY <1>1, <1>2, FS_Subset
<1>4. QED
  BY <1>3, FS_CardinalityType DEF Occurrences

LEMMA OccurrencesEmpty == ASSUME NEW s PROVE Occurrences(<<>>, s) = 0
<1>1. {i \in DOMAIN <<>> : <<>>[i] = s} = {}
  OBVIOUS
<1>2. QED
  BY <1>1, FS_EmptySet DEF Occurrences

LEMMA OccurrencesAppend ==
  ASSUME NEW tr \in Seq(Strings), NEW x \in Strings, NEW s \in Strings
  PROVE  Occurrences(Append(tr, x), s) =
           Occurrences(tr, s) + (IF x = s THEN 1 ELSE 0)
<1> DEFINE n == Len(tr) + 1
           old == {i \in DOMAIN tr : tr[i] = s}
           new == {i \in DOMAIN Append(tr, x) : Append(tr, x)[i] = s}
<1>1. new = IF x = s THEN old \cup {n} ELSE old
  OBVIOUS
<1>2. n \notin old
  OBVIOUS
<1>3. IsFiniteSet(old) /\ Cardinality(old) \in Nat
  BY OccurrencesNat DEF Occurrences
<1>4. Cardinality(old \cup {n}) = Cardinality(old) + 1
  BY <1>2, <1>3, FS_AddElement
<1> HIDE DEF n, old, new
<1>5. Cardinality(new) = Cardinality(old) + (IF x = s THEN 1 ELSE 0)
  BY <1>1, <1>3, <1>4
<1>6. QED
  BY <1>5 DEF Occurrences, old, new

LEMMA OccurrencesMember ==
  ASSUME NEW tr \in Seq(Strings), NEW i \in DOMAIN tr
  PROVE  Occurrences(tr, tr[i]) >= 1
<1> DEFINE at == {j \in DOMAIN tr : tr[j] = tr[i]}
<1>1. i \in at
  OBVIOUS
<1>2. IsFiniteSet(at) /\ Cardinality(at) \in Nat
  BY OccurrencesNat DEF Occurrences
<1>3. Cardinality(at) # 0
  BY <1>1, <1>2, FS_EmptySet
<1> HIDE DEF at
<1>4. Cardinality(at) >= 1
  BY <1>2, <1>3
<1>5. QED
  BY <1>4 DEF Occurrences, at

-----------------------------------------------------------------------------
LEMMA InitInv == Init => Inv
<1> SUFFICES ASSUME Init PROVE Inv
  OBVIOUS
<1>1. TypeOK /\ IdleOK /\ FramesOwned /\ CountedAlive
  BY CallTraceSetAssumption DEF Init, TypeOK, IdleOK, FramesOwned, CountedAlive
<1>2. RefcountsExact
  BY OccurrencesEmpty DEF Init, RefcountsExact
<1>3. NoDanglingString
  BY DEF Init, NoDanglingString
<1>4. QED
  BY <1>1, <1>2, <1>3 DEF Inv

LEMMA NextInv == Inv /\ [Next]_vars => Inv'
<1> SUFFICES ASSUME Inv, [Next]_vars PROVE Inv'
  OBVIOUS
<1> USE CallTraceSetAssumption
<1>t. TypeOK /\ IdleOK /\ FramesOwned /\ CountedAlive /\ RefcountsExact /\ NoDanglingString
  BY DEF Inv
<1>o. \A s \in Strings : Occurrences(trace, s) \in Nat
  BY <1>t, OccurrencesNat DEF TypeOK
<1>1. ASSUME NEW s \in Strings, NEW c \in Contents, NewString(s, c) PROVE Inv'
  <2>1. refcnt[s] = 0 /\ s \notin program /\ s \notin string_table_
    BY <1>t, <1>o, <1>1 DEF NewString, CountedAlive, RefcountsExact, TypeOK
  <2>2. program \subseteq program'
    BY <1>1 DEF NewString
  <2>3. TypeOK'
    BY <1>t, <1>1, <2>2 DEF NewString, local, TypeOK, IdleOK
  <2>4. IdleOK' /\ FramesOwned' /\ CountedAlive'
    BY <1>t, <1>1 DEF NewString, local, TypeOK, IdleOK, FramesOwned, CountedAlive
  <2>5. RefcountsExact'
    <3> SUFFICES ASSUME NEW x \in Strings
                 PROVE  refcnt'[x] = (IF x \in program' THEN 1 ELSE 0)
                          + (IF x \in string_table_' THEN 1 ELSE 0) + Occurrences(trace', x)
      BY DEF RefcountsExact
    <3>1. trace' = trace /\ string_table_' = string_table_
      BY <1>1 DEF NewString, local
    <3>2. refcnt[x] = (IF x \in program THEN 1 ELSE 0)
            + (IF x \in string_table_ THEN 1 ELSE 0) + Occurrences(trace, x)
      BY <1>t DEF RefcountsExact
    <3>3. CASE x = s
      BY <1>t, <1>o, <1>1, <2>1, <3>1, <3>2, <3>3 DEF NewString, TypeOK
    <3>4. CASE x # s
      BY <1>t, <1>1, <3>1, <3>2, <3>4 DEF NewString, TypeOK
    <3>5. QED
      BY <3>3, <3>4
  <2>6. NoDanglingString'
    BY <1>t, <1>1, <2>1 DEF NewString, TypeOK, NoDanglingString
  <2>7. QED
    BY <2>3, <2>4, <2>5, <2>6 DEF Inv
<1>2. ASSUME NEW s \in Strings, DropString(s) PROVE Inv'
  <2>1. /\ trace' = trace /\ string_table_' = string_table_ /\ trace_leaves_' = trace_leaves_
        /\ program' = program \ {s} /\ s \in program
    BY <1>2 DEF DropString, local
  <2>2. \A x \in Strings : refcnt'[x] = refcnt[x] - (IF x = s THEN 1 ELSE 0)
    BY <1>2 DEF DropString, Decref
  <2>3. \A x \in Strings : content'[x] = IF refcnt'[x] = 0 THEN Free ELSE content[x]
    BY <1>2 DEF DropString, Decref
  <2>4. ASSUME NEW x \in Strings
        PROVE  /\ refcnt'[x] \in Nat
               /\ refcnt'[x] = (IF x \in program' THEN 1 ELSE 0)
                    + (IF x \in string_table_' THEN 1 ELSE 0) + Occurrences(trace', x)
               /\ x \in string_table_ => refcnt'[x] # 0
    <3>1. refcnt[x] = (IF x \in program THEN 1 ELSE 0)
            + (IF x \in string_table_ THEN 1 ELSE 0) + Occurrences(trace, x)
      BY <1>t DEF RefcountsExact
    <3>2. refcnt[x] \in Nat /\ Occurrences(trace, x) \in Nat
      BY <1>t, <1>o DEF TypeOK
    <3>3. refcnt'[x] = refcnt[x] - (IF x = s THEN 1 ELSE 0)
      BY <2>2
    <3>4. CASE x = s
      BY <2>1, <3>1, <3>2, <3>3, <3>4
    <3>5. CASE x # s
      <4>1. refcnt'[x] = refcnt[x] /\ (x \in program' <=> x \in program)
        BY <2>1, <3>2, <3>3, <3>5
      <4>2. QED
        BY <2>1, <3>1, <3>2, <4>1
    <3>6. QED
      BY <3>4, <3>5
  <2>5. TypeOK'
    BY <1>t, <1>2, <2>4 DEF DropString, Decref, local, TypeOK, IdleOK
  <2>6. IdleOK' /\ FramesOwned' /\ RefcountsExact'
    BY <1>t, <1>2, <2>4 DEF DropString, local, IdleOK, FramesOwned, RefcountsExact
  <2>7. CountedAlive'
    <3> SUFFICES ASSUME NEW x \in Strings PROVE content'[x] = Free <=> refcnt'[x] = 0
      BY DEF CountedAlive
    <3>1. CASE x = s
      BY <1>t, <2>1, <2>2, <2>3, <2>4, <3>1 DEF TypeOK, CountedAlive, RefcountsExact
    <3>2. CASE x # s
      BY <1>t, <2>2, <2>3, <3>2 DEF TypeOK, CountedAlive
    <3>3. QED
      BY <3>1, <3>2
  <2>8. NoDanglingString'
    <3>1. \A x \in string_table_ : content'[x] = content[x]
      BY <1>t, <2>3, <2>4 DEF TypeOK
    <3>2. QED
      BY <1>t, <2>1, <3>1 DEF NoDanglingString
  <2>9. QED
    BY <2>5, <2>6, <2>7, <2>8 DEF Inv
<1>3. CASE GetCurrentCallTrace
  <2>1. PICK n \in 0..MaxStack : frames' \in [1..n -> program]
    BY <1>3 DEF GetCurrentCallTrace
  <2>2. frames' \in Seq(Strings) /\ Len(frames') = n /\ FramesOwned'
    BY <1>t, <1>3, <2>1 DEF GetCurrentCallTrace, heap, TypeOK, FramesOwned
  <2>3. TypeOK'
    BY <1>t, <1>3, <2>2 DEF GetCurrentCallTrace, heap, TypeOK
  <2>4. IdleOK' /\ CountedAlive' /\ RefcountsExact' /\ NoDanglingString'
    BY <1>t, <1>3 DEF GetCurrentCallTrace, heap, IdleOK, CountedAlive, RefcountsExact,
         NoDanglingString
  <2>5. QED
    BY <2>2, <2>3, <2>4 DEF Inv
<1>4. CASE WalkFrame
  <2>1. CASE todo <= Len(frames) /\ Len(trace) < FrameLimit /\ ~SkipFrame(frames[todo])
    <3> DEFINE s == frames[todo]
    <3>1. /\ pc = "walk" /\ todo \in 1..Len(frames) /\ s \in Strings
          /\ refcnt' = [refcnt EXCEPT ![s] = @ + 1] /\ trace' = Append(trace, s)
          /\ todo' = todo + 1 /\ pc' = pc
          /\ content' = content /\ program' = program /\ string_table_' = string_table_
          /\ trace_leaves_' = trace_leaves_ /\ frames' = frames /\ parent' = parent
      BY <1>t, <1>4, <2>1 DEF WalkFrame, TypeOK
    <3>2. Len(trace) + 1 <= kMaxFramesToCapture
      BY <1>t, <2>1 DEF FrameLimit, TypeOK
    <3>3. \A x \in Strings :
            Occurrences(trace', x) = Occurrences(trace, x) + (IF s = x THEN 1 ELSE 0)
      BY <1>t, <3>1, OccurrencesAppend DEF TypeOK
    <3>4. s \in program
      BY <1>t, <3>1 DEF FramesOwned
    <3> HIDE DEF s
    <3>5. trace' \in Seq(Strings) /\ Len(trace') = Len(trace) + 1
      BY <1>t, <3>1 DEF TypeOK
    <3>6. TypeOK'
      BY <1>t, <3>1, <3>2, <3>5 DEF TypeOK
    <3>7. ASSUME NEW x \in Strings
          PROVE  /\ refcnt'[x] = (IF x \in program' THEN 1 ELSE 0)
                      + (IF x \in string_table_' THEN 1 ELSE 0) + Occurrences(trace', x)
                 /\ content'[x] = Free <=> refcnt'[x] = 0
      <4>1. refcnt[x] \in Nat /\ Occurrences(trace, x) \in Nat
        BY <1>t, <1>o DEF TypeOK
      <4>2. refcnt[x] = (IF x \in program THEN 1 ELSE 0)
              + (IF x \in string_table_ THEN 1 ELSE 0) + Occurrences(trace, x)
        BY <1>t DEF RefcountsExact
      <4>3. content[x] = Free <=> refcnt[x] = 0
        BY <1>t DEF CountedAlive
      <4>4. refcnt'[x] = refcnt[x] + (IF s = x THEN 1 ELSE 0)
        BY <1>t, <3>1, <4>1 DEF TypeOK
      <4>5. CASE s = x
        BY <3>1, <3>3, <3>4, <4>1, <4>2, <4>3, <4>4, <4>5
      <4>6. CASE s # x
        BY <3>1, <3>3, <4>1, <4>2, <4>3, <4>4, <4>6
      <4>7. QED
        BY <4>5, <4>6
    <3>8. RefcountsExact' /\ CountedAlive'
      BY <3>7 DEF RefcountsExact, CountedAlive
    <3>9. IdleOK' /\ FramesOwned' /\ NoDanglingString'
      BY <1>t, <3>1 DEF IdleOK, FramesOwned, NoDanglingString
    <3>10. QED
      BY <3>6, <3>8, <3>9 DEF Inv
  <2>2. CASE ~(todo <= Len(frames) /\ Len(trace) < FrameLimit /\ ~SkipFrame(frames[todo]))
    <3>1. /\ pc = "walk" /\ refcnt' = refcnt /\ trace' = trace
          /\ content' = content /\ program' = program /\ string_table_' = string_table_
          /\ trace_leaves_' = trace_leaves_ /\ frames' = frames /\ parent' = parent
          /\ \/ todo <= Len(frames) /\ todo' = todo + 1 /\ pc' = pc
             \/ todo' = Len(trace) /\ pc' = "find"
      BY <1>t, <1>4, <2>2 DEF WalkFrame, TypeOK
    <3>2. TypeOK'
      BY <1>t, <3>1 DEF TypeOK
    <3>3. IdleOK' /\ FramesOwned' /\ CountedAlive' /\ RefcountsExact' /\ NoDanglingString'
      BY <1>t, <3>1 DEF IdleOK, FramesOwned, CountedAlive, RefcountsExact, NoDanglingString
    <3>4. QED
      BY <3>2, <3>3 DEF Inv
  <2>3. QED
    BY <2>1, <2>2
<1>5. CASE FindFrame
  <2>1. /\ content' = content /\ refcnt' = refcnt /\ program' = program
        /\ string_table_' = string_table_ /\ trace_leaves_' = trace_leaves_
        /\ frames' = frames /\ trace' = trace
        /\ pc = "find" /\ pc' \in {"find", "intern"}
    BY <1>5 DEF FindFrame, heap
  <2>2. todo' \in 0..Len(trace)
    BY <1>t, <1>5 DEF FindFrame, TypeOK
  <2>3. ASSUME NEW f \in Lookup(trace[todo]) PROVE f \in 0..Len(trace_leaves_)
    BY <1>t DEF Lookup, EqualFrames, TypeOK
  <2>4. parent' \in 0..Len(trace_leaves_)
    BY <1>t, <1>5, <2>3 DEF FindFrame, TypeOK
  <2>5. TypeOK'
    BY <1>t, <2>1, <2>2, <2>4 DEF TypeOK
  <2>6. IdleOK' /\ FramesOwned' /\ CountedAlive' /\ RefcountsExact' /\ NoDanglingString'
    BY <1>t, <2>1 DEF IdleOK, FramesOwned, CountedAlive, RefcountsExact, NoDanglingString
  <2>7. QED
    BY <2>5, <2>6 DEF Inv
<1>6. CASE InternFrame
  <2>1. CASE todo = 0
    <3>1. /\ content' = content /\ refcnt' = refcnt /\ program' = program
          /\ string_table_' = string_table_ /\ trace_leaves_' = trace_leaves_
          /\ frames' = frames /\ trace' = trace /\ todo' = todo /\ parent' = parent
          /\ pc = "intern" /\ pc' = "free"
      BY <1>6, <2>1 DEF InternFrame
    <3>2. TypeOK'
      BY <1>t, <3>1 DEF TypeOK
    <3>3. IdleOK' /\ FramesOwned' /\ CountedAlive' /\ RefcountsExact' /\ NoDanglingString'
      BY <1>t, <3>1 DEF IdleOK, FramesOwned, CountedAlive, RefcountsExact, NoDanglingString
    <3>4. QED
      BY <3>2, <3>3 DEF Inv
  <2>2. CASE todo # 0
    <3> DEFINE t == trace[todo]
               found == {x \in string_table_ : EqualPyString(x, t)}
               s == InternString(t)
    <3>1. /\ pc = "intern" /\ pc' = pc /\ todo' = todo - 1
          /\ content' = content /\ program' = program
          /\ frames' = frames /\ trace' = trace
          /\ string_table_' = s.table
          /\ refcnt' = [refcnt EXCEPT ![t] = @ + s.incref]
      BY <1>6, <2>2 DEF InternFrame
    <3>2. todo \in DOMAIN trace /\ t \in Strings
      BY <1>t, <2>2, <3>1 DEF TypeOK
    <3>3. content[t] # Free
      <4>1. Occurrences(trace, t) >= 1
        BY <1>t, <3>2, OccurrencesMember DEF TypeOK
      <4>2. refcnt[t] # 0
        <5>1. refcnt[t] = (IF t \in program THEN 1 ELSE 0)
                + (IF t \in string_table_ THEN 1 ELSE 0) + Occurrences(trace, t)
          BY <1>t, <3>2 DEF RefcountsExact
        <5>2. refcnt[t] \in Nat /\ Occurrences(trace, t) \in Nat
          BY <1>t, <1>o, <3>2 DEF TypeOK
        <5> HIDE DEF t
        <5>3. QED
          BY <4>1, <5>1, <5>2
      <4>3. QED
        BY <1>t, <3>2, <4>2 DEF CountedAlive
    <3>4. s.string \in s.table /\ s.table \subseteq Strings
      BY <1>t, <3>2 DEF InternString, TypeOK
    <3>5. /\ found = {} => s.table = string_table_ \cup {t} /\ s.incref = 1
          /\ found # {} => s.table = string_table_ /\ s.incref = 0
      BY DEF InternString
    <3>6. found = {} => \A x \in string_table_ : x # t /\ content[x] # content[t]
      BY DEF EqualPyString
    <3>7. ASSUME NEW f \in Lookup(s.string) PROVE f \in 0..Len(trace_leaves_)
      BY <1>t DEF Lookup, EqualFrames, TypeOK
    <3>8. \/ trace_leaves_' = trace_leaves_ /\ parent' \in 0..Len(trace_leaves_)
          \/ /\ trace_leaves_' = Append(trace_leaves_, [parent |-> parent, loc |-> s.string])
             /\ parent' = Len(trace_leaves_')
      BY <1>6, <2>2, <3>7 DEF InternFrame
    <3> HIDE DEF t, found, s
    <3>9. ASSUME NEW x \in Strings
          PROVE  /\ refcnt'[x] \in Nat
                 /\ refcnt'[x] = (IF x \in program' THEN 1 ELSE 0)
                      + (IF x \in string_table_' THEN 1 ELSE 0) + Occurrences(trace', x)
                 /\ content'[x] = Free <=> refcnt'[x] = 0
      <4>1. refcnt[x] \in Nat /\ Occurrences(trace, x) \in Nat
        BY <1>t, <1>o DEF TypeOK
      <4>2. refcnt[x] = (IF x \in program THEN 1 ELSE 0)
              + (IF x \in string_table_ THEN 1 ELSE 0) + Occurrences(trace, x)
        BY <1>t DEF RefcountsExact
      <4>3. content[x] = Free <=> refcnt[x] = 0
        BY <1>t DEF CountedAlive
      <4>4. refcnt'[x] = IF t = x THEN refcnt[x] + s.incref ELSE refcnt[x]
        BY <1>t, <3>1 DEF TypeOK
      <4>5. CASE t = x /\ found = {}
        <5>1. x \notin string_table_ /\ x \in string_table_' /\ refcnt'[x] = refcnt[x] + 1
          BY <3>1, <3>5, <3>6, <4>4, <4>5
        <5>2. content'[x] # Free
          BY <3>1, <3>3, <4>5
        <5>3. QED
          BY <3>1, <4>1, <4>2, <5>1, <5>2
      <4>6. CASE ~(t = x /\ found = {})
        <5>1. (x \in string_table_' <=> x \in string_table_) /\ refcnt'[x] = refcnt[x]
          BY <3>1, <3>5, <4>1, <4>4, <4>6
        <5>2. QED
          BY <3>1, <4>1, <4>2, <4>3, <5>1
      <4>7. QED
        BY <4>5, <4>6
    <3>10. /\ trace_leaves_' \in Seq(CallFrame) /\ parent' \in 0..Len(trace_leaves_')
           /\ \A f \in DOMAIN trace_leaves_' : trace_leaves_'[f].loc \in string_table_'
      <4>1. string_table_ \subseteq string_table_'
        BY <3>1, <3>5
      <4>2. s.string \in string_table_' /\ s.string \in Strings
        BY <3>1, <3>4
      <4>3. CASE trace_leaves_' = trace_leaves_ /\ parent' \in 0..Len(trace_leaves_)
        BY <1>t, <4>1, <4>3 DEF TypeOK, NoDanglingString
      <4>4. CASE /\ trace_leaves_' = Append(trace_leaves_, [parent |-> parent, loc |-> s.string])
                 /\ parent' = Len(trace_leaves_')
        <5>1. [parent |-> parent, loc |-> s.string] \in CallFrame
          BY <1>t, <4>2 DEF TypeOK, CallFrame
        <5>2. trace_leaves_ \in Seq(CallFrame)
          BY <1>t DEF TypeOK
        <5>3. trace_leaves_' \in Seq(CallFrame) /\ parent' \in 0..Len(trace_leaves_')
          BY <4>4, <5>1, <5>2
        <5>4. QED
          BY <1>t, <4>1, <4>2, <4>4, <5>2, <5>3 DEF NoDanglingString
      <4>5. QED
        BY <3>8, <4>3, <4>4
    <3>11. string_table_' \subseteq Strings
      BY <3>1, <3>4
    <3>12. refcnt' \in [Strings -> Nat]
      BY <1>t, <3>1, <3>9 DEF TypeOK
    <3>13. TypeOK'
      <4>1. todo' \in 0..Len(trace') /\ pc' = "intern" /\ Len(trace') <= kMaxFramesToCapture
        BY <1>t, <2>2, <3>1, <3>2 DEF TypeOK
      <4>2. content' \in [Strings -> Contents \cup {Free}] /\ program' \subseteq Strings
        BY <1>t, <3>1 DEF TypeOK
      <4>3. frames' \in Seq(Strings) /\ trace' \in Seq(Strings)
        BY <1>t, <3>1 DEF TypeOK
      <4>4. QED
        BY <3>10, <3>11, <3>12, <4>1, <4>2, <4>3 DEF TypeOK
    <3>14. NoDanglingString'
      <4>1. /\ \A x \in string_table_ : content[x] # Free
            /\ \A x, y \in string_table_ : content[x] = content[y] => x = y
        BY <1>t DEF NoDanglingString
      <4>2. CASE found = {}
        <5>1. string_table_' = string_table_ \cup {t} /\ content' = content
          BY <3>1, <3>5, <4>2
        <5>2. \A x \in string_table_' : content'[x] # Free
          BY <3>3, <4>1, <5>1
        <5>3. \A x, y \in string_table_' : content'[x] = content'[y] => x = y
          BY <3>6, <4>1, <4>2, <5>1
        <5>4. QED
          BY <3>10, <5>2, <5>3 DEF NoDanglingString
      <4>3. CASE found # {}
        <5>1. string_table_' = string_table_ /\ content' = content
          BY <3>1, <3>5, <4>3
        <5>2. QED
          BY <3>10, <4>1, <5>1 DEF NoDanglingString
      <4>4. QED
        BY <4>2, <4>3
    <3>15. IdleOK' /\ FramesOwned' /\ CountedAlive' /\ RefcountsExact'
      BY <1>t, <3>1, <3>9 DEF IdleOK, FramesOwned, CountedAlive, RefcountsExact
    <3>16. QED
      BY <3>13, <3>14, <3>15 DEF Inv
  <2>3. QED
    BY <2>1, <2>2
<1>7. CASE FreeCallTrace
  <2>1. /\ program' = program /\ string_table_' = string_table_
        /\ trace_leaves_' = trace_leaves_ /\ pc' = "idle"
        /\ frames' = <<>> /\ trace' = <<>> /\ todo' = 0 /\ parent' = 0
    BY <1>7 DEF FreeCallTrace
  <2>2. \A x \in Strings : refcnt'[x] = refcnt[x] - Occurrences(trace, x)
    BY <1>7 DEF FreeCallTrace, Decref
  <2>3. \A x \in Strings : content'[x] = IF refcnt'[x] = 0 THEN Free ELSE content[x]
    BY <1>7 DEF FreeCallTrace, Decref
  <2>4. ASSUME NEW x \in Strings
        PROVE  /\ refcnt'[x] \in Nat
               /\ refcnt'[x] = (IF x \in program' THEN 1 ELSE 0)
                    + (IF x \in string_table_' THEN 1 ELSE 0) + Occurrences(trace', x)
               /\ content'[x] = Free <=> refcnt'[x] = 0
               /\ x \in string_table_ => content'[x] = content[x]
    <3>1. refcnt[x] = (IF x \in program THEN 1 ELSE 0)
            + (IF x \in string_table_ THEN 1 ELSE 0) + Occurrences(trace, x)
      BY <1>t DEF RefcountsExact
    <3>2. refcnt[x] \in Nat /\ Occurrences(trace, x) \in Nat
      BY <1>t, <1>o DEF TypeOK
    <3>3. refcnt'[x] = refcnt[x] - Occurrences(trace, x)
      BY <2>2
    <3>4. Occurrences(trace', x) = 0
      BY <2>1, OccurrencesEmpty
    <3>5. refcnt'[x] = (IF x \in program THEN 1 ELSE 0)
            + (IF x \in string_table_ THEN 1 ELSE 0)
      BY <3>1, <3>2, <3>3
    <3>6. refcnt'[x] \in Nat /\ (x \in string_table_ => refcnt'[x] # 0)
      BY <3>5
    <3>7. content[x] = Free => refcnt'[x] = 0
      BY <1>t, <3>1, <3>2, <3>5 DEF CountedAlive
    <3>8. content'[x] = IF refcnt'[x] = 0 THEN Free ELSE content[x]
      BY <2>3
    <3>9. QED
      BY <2>1, <3>4, <3>5, <3>6, <3>7, <3>8
  <2>5. TypeOK'
    <3>1. refcnt' \in [Strings -> Nat] /\ content' \in [Strings -> Contents \cup {Free}]
      BY <1>t, <1>7, <2>4 DEF FreeCallTrace, Decref, TypeOK
    <3>2. QED
      BY <1>t, <2>1, <3>1 DEF TypeOK
  <2>6. IdleOK' /\ FramesOwned' /\ RefcountsExact' /\ CountedAlive'
    BY <2>1, <2>4 DEF IdleOK, FramesOwned, RefcountsExact, CountedAlive
  <2>7. NoDanglingString'
    BY <1>t, <2>1, <2>4 DEF TypeOK, NoDanglingString
  <2>8. QED
    BY <2>5, <2>6, <2>7 DEF Inv
<1>8. CASE Reset
  <2>1. /\ program' = program /\ string_table_' = {} /\ trace_leaves_' = <<>>
        /\ pc = "idle" /\ pc' = pc
        /\ frames' = frames /\ trace' = trace /\ todo' = todo /\ parent' = parent
    BY <1>8 DEF Reset, local
  <2>2. \A x \in Strings : refcnt'[x] = refcnt[x] - (IF x \in string_table_ THEN 1 ELSE 0)
    BY <1>8 DEF Reset, Decref
  <2>3. \A x \in Strings : content'[x] = IF refcnt'[x] = 0 THEN Free ELSE content[x]
    BY <1>8 DEF Reset, Decref
  <2>4. ASSUME NEW x \in Strings
        PROVE  /\ refcnt'[x] \in Nat
               /\ refcnt'[x] = (IF x \in program' THEN 1 ELSE 0)
                    + (IF x \in string_table_' THEN 1 ELSE 0) + Occurrences(trace', x)
               /\ content'[x] = Free <=> refcnt'[x] = 0
    <3>1. refcnt[x] = (IF x \in program THEN 1 ELSE 0)
            + (IF x \in string_table_ THEN 1 ELSE 0) + Occurrences(trace, x)
      BY <1>t DEF RefcountsExact
    <3>2. refcnt[x] \in Nat /\ Occurrences(trace, x) \in Nat
      BY <1>t, <1>o DEF TypeOK
    <3>3. refcnt'[x] = refcnt[x] - (IF x \in string_table_ THEN 1 ELSE 0)
      BY <2>2
    <3>4. Occurrences(trace', x) = Occurrences(trace, x) /\ x \notin string_table_'
      BY <2>1
    <3>5. refcnt'[x] = (IF x \in program THEN 1 ELSE 0) + Occurrences(trace, x)
      BY <3>1, <3>2, <3>3
    <3>6. refcnt'[x] \in Nat
      BY <3>2, <3>5
    <3>7. content[x] = Free => refcnt'[x] = 0
      BY <1>t, <3>1, <3>2, <3>5 DEF CountedAlive
    <3>8. content'[x] = IF refcnt'[x] = 0 THEN Free ELSE content[x]
      BY <2>3
    <3>9. refcnt'[x] = (IF x \in program' THEN 1 ELSE 0)
            + (IF x \in string_table_' THEN 1 ELSE 0) + Occurrences(trace', x)
      BY <2>1, <3>2, <3>4, <3>5
    <3>10. QED
      BY <3>6, <3>7, <3>8, <3>9
  <2>5. TypeOK'
    <3>1. refcnt' \in [Strings -> Nat] /\ content' \in [Strings -> Contents \cup {Free}]
      BY <1>t, <1>8, <2>4 DEF Reset, Decref, TypeOK
    <3>2. parent' = 0
      BY <1>t, <2>1 DEF IdleOK
    <3>3. QED
      BY <1>t, <2>1, <3>1, <3>2 DEF TypeOK
  <2>6. IdleOK' /\ FramesOwned' /\ RefcountsExact' /\ CountedAlive'
    BY <1>t, <2>1, <2>4 DEF IdleOK, FramesOwned, RefcountsExact, CountedAlive
  <2>7. NoDanglingString'
    BY <2>1 DEF NoDanglingString
  <2>8. QED
    BY <2>5, <2>6, <2>7 DEF Inv
<1>9. CASE UNCHANGED vars
  <2>1. TypeOK'
    BY <1>t, <1>9 DEF vars, TypeOK
  <2>2. IdleOK' /\ FramesOwned' /\ CountedAlive' /\ RefcountsExact' /\ NoDanglingString'
    BY <1>t, <1>9 DEF vars, IdleOK, FramesOwned, CountedAlive, RefcountsExact,
         NoDanglingString
  <2>3. QED
    BY <2>1, <2>2 DEF Inv
<1>10. QED
  BY <1>1, <1>2, <1>3, <1>4, <1>5, <1>6, <1>7, <1>8, <1>9 DEF Next

-----------------------------------------------------------------------------
THEOREM InvAlways == Spec => []Inv
<1>1. QED
  BY InitInv, NextInv, PTL DEF Spec

(***************************************************************************)
(* Each reference GetCurrentCallTrace, Intern and their callers take on a  *)
(* filename is dropped exactly once, whatever the stacks that are walked,  *)
(* the strings that come and go, and however often the profiler resets.    *)
(***************************************************************************)
THEOREM RefcountsComeOutEven == Spec => []RefcountsExact
<1>1. Inv => RefcountsExact
  BY DEF Inv
<1>2. QED
  BY InvAlways, <1>1, PTL

(***************************************************************************)
(* The filename of an interned frame is a live object of the string table, *)
(* which holds one object for each content.                                *)
(***************************************************************************)
THEOREM NoFrameOutlivesItsStrings == Spec => []NoDanglingString
<1>1. Inv => NoDanglingString
  BY DEF Inv
<1>2. QED
  BY InvAlways, <1>1, PTL

-----------------------------------------------------------------------------
(***************************************************************************)
(* The tree.  The parent of a frame was there before the frame, so that    *)
(* the walk GetTrace describes comes to an end; its lemmas are about any   *)
(* sequence of frames in which this is so.                                 *)
(***************************************************************************)
ParentsEarlier(leaves) == \A f \in DOMAIN leaves : leaves[f].parent < f

IsWalk(up, leaves) ==
  up = [f \in 0..Len(leaves) |->
          IF f = 0 THEN <<>> ELSE <<leaves[f].loc>> \o up[leaves[f].parent]]

TraceOf(leaves, h) == (CHOOSE up : IsWalk(up, leaves))[h]

LEMMA GetTraceIs == \A h : GetTrace(h) = TraceOf(trace_leaves_, h)
  BY DEF GetTrace, TraceOf, IsWalk

LEMMA FrameType ==
  ASSUME NEW leaves \in Seq(CallFrame), ParentsEarlier(leaves)
  PROVE  /\ Len(leaves) \in Nat
         /\ \A f \in 1..Len(leaves) :
              leaves[f].parent \in 0..(f - 1) /\ leaves[f].loc \in Strings
<1>1. Len(leaves) \in Nat /\ DOMAIN leaves = 1..Len(leaves)
  OBVIOUS
<1>2. ASSUME NEW f \in 1..Len(leaves)
      PROVE  leaves[f].parent \in 0..(f - 1) /\ leaves[f].loc \in Strings
  <2>1. leaves[f] \in CallFrame
    OBVIOUS
  <2>2. leaves[f].parent \in Nat /\ leaves[f].loc \in Strings
    BY <2>1 DEF CallFrame
  <2>3. leaves[f].parent < f /\ f \in Nat
    BY <1>1 DEF ParentsEarlier
  <2>4. QED
    BY <2>2, <2>3
<1>3. QED
  BY <1>1, <1>2

\* There is such a walk, found one frame at a time.
LEMMA WalkExists ==
  ASSUME NEW leaves \in Seq(CallFrame), ParentsEarlier(leaves)
  PROVE  \E up : IsWalk(up, leaves)
<1> DEFINE Walks(up, k) == up = [f \in 0..k |->
             IF f = 0 THEN <<>> ELSE <<leaves[f].loc>> \o up[leaves[f].parent]]
           T == {k \in Nat : k <= Len(leaves) => \E up : Walks(up, k)}
<1>1. 0 \in T
  <2>1. Walks([f \in 0..0 |-> <<>>], 0)
    OBVIOUS
  <2> HIDE DEF Walks
  <2>2. QED
    BY <2>1
<1>2. ASSUME NEW k \in Nat, k \in T PROVE k + 1 \in T
  <2>1. SUFFICES ASSUME k + 1 <= Len(leaves) PROVE \E up : Walks(up, k + 1)
    <3> HIDE DEF Walks
    <3>1. QED
      OBVIOUS
  <2>2. PICK up : Walks(up, k)
    <3>1. k <= Len(leaves)
      BY <2>1, FrameType
    <3> HIDE DEF Walks
    <3>2. QED
      BY <1>2, <3>1
  <2> DEFINE next == [f \in 0..(k + 1) |->
               IF f = 0 THEN <<>> ELSE <<leaves[f].loc>> \o up[leaves[f].parent]]
  <2>3. ASSUME NEW f \in 0..(k + 1), f # 0
        PROVE  next[leaves[f].parent] = up[leaves[f].parent]
    <3>1. f \in 1..Len(leaves)
      BY <2>1, <2>3, FrameType
    <3>2. leaves[f].parent \in 0..k /\ leaves[f].parent \in 0..(k + 1)
      BY <3>1, FrameType
    <3>3. QED
      BY <2>2, <3>2
  <2>4. Walks(next, k + 1)
    BY <2>3
  <2> HIDE DEF Walks, next
  <2>5. QED
    BY <2>4
<1>3. \A k \in Nat : k \in T
  <2> HIDE DEF T
  <2>1. QED
    BY <1>1, <1>2, SetInduction
<1>4. PICK up : Walks(up, Len(leaves))
  <2> HIDE DEF Walks
  <2>1. QED
    BY <1>3, FrameType
<1>5. IsWalk(up, leaves)
  BY <1>4 DEF IsWalk
<1>6. QED
  BY <1>5

\* What a handle stands for: its string and what its parent stands for.
LEMMA TraceUnfolds ==
  ASSUME NEW leaves \in Seq(CallFrame), ParentsEarlier(leaves)
  PROVE  /\ TraceOf(leaves, 0) = <<>>
         /\ \A f \in 1..Len(leaves) :
              TraceOf(leaves, f) = <<leaves[f].loc>> \o TraceOf(leaves, leaves[f].parent)
<1> DEFINE up == CHOOSE up : IsWalk(up, leaves)
<1>1. IsWalk(up, leaves)
  BY WalkExists
<1>2. \A h : TraceOf(leaves, h) = up[h]
  BY DEF TraceOf
<1> HIDE DEF up
<1>3. 0 \in 0..Len(leaves) /\ \A f \in 1..Len(leaves) : f \in 0..Len(leaves) /\ f # 0
  BY FrameType
<1>4. up[0] = <<>>
  BY <1>1, <1>3 DEF IsWalk
<1>5. \A f \in 1..Len(leaves) : up[f] = <<leaves[f].loc>> \o up[leaves[f].parent]
  BY <1>1, <1>3 DEF IsWalk
<1>6. QED
  BY <1>2, <1>4, <1>5

\* Its strings are those of frames.
LEMMA TraceType ==
  ASSUME NEW leaves \in Seq(CallFrame), ParentsEarlier(leaves), NEW S,
         \A f \in 1..Len(leaves) : leaves[f].loc \in S
  PROVE  \A h \in 0..Len(leaves) : TraceOf(leaves, h) \in Seq(S)
<1> DEFINE T == {h \in Nat : h <= Len(leaves) => TraceOf(leaves, h) \in Seq(S)}
<1>1. ASSUME NEW h \in Nat, \A m \in 0..(h - 1) : m \in T PROVE h \in T
  <2>1. SUFFICES ASSUME h <= Len(leaves) PROVE TraceOf(leaves, h) \in Seq(S)
    OBVIOUS
  <2>2. CASE h = 0
    <3>1. TraceOf(leaves, 0) = <<>>
      BY TraceUnfolds
    <3>2. <<>> \in Seq(S)
      OBVIOUS
    <3>3. QED
      BY <2>2, <3>1, <3>2
  <2>3. CASE h # 0
    <3>1. h \in 1..Len(leaves)
      BY <2>1, <2>3, FrameType
    <3>2. leaves[h].parent \in 0..(h - 1) /\ leaves[h].loc \in S
      BY <3>1, FrameType
    <3>3. leaves[h].parent <= Len(leaves)
      BY <2>1, <3>2, FrameType
    <3>4. TraceOf(leaves, leaves[h].parent) \in Seq(S)
      BY <1>1, <3>2, <3>3
    <3>5. TraceOf(leaves, h) = <<leaves[h].loc>> \o TraceOf(leaves, leaves[h].parent)
      BY <3>1, TraceUnfolds
    <3>6. QED
      BY <3>2, <3>4, <3>5
  <2>4. QED
    BY <2>2, <2>3
<1>2. \A h \in Nat : h \in T
  <2> HIDE DEF T
  <2>1. QED
    BY <1>1, StrongInduction
<1>3. QED
  BY <1>2, FrameType

\* A frame that is added changes what no other handle stands for.
LEMMA TraceAppend ==
  ASSUME NEW leaves \in Seq(CallFrame), ParentsEarlier(leaves),
         NEW x \in CallFrame, x.parent <= Len(leaves)
  PROVE  /\ ParentsEarlier(Append(leaves, x))
         /\ \A h \in 0..Len(leaves) : TraceOf(Append(leaves, x), h) = TraceOf(leaves, h)
<1> DEFINE longer == Append(leaves, x)
           T == {h \in Nat : h <= Len(leaves) => TraceOf(longer, h) = TraceOf(leaves, h)}
<1>0. Len(leaves) \in Nat /\ x.parent \in Nat
  BY DEF CallFrame
<1>1. /\ longer \in Seq(CallFrame) /\ Len(longer) = Len(leaves) + 1
      /\ DOMAIN longer = 1..Len(leaves) + 1
      /\ \A f \in 1..Len(leaves) : longer[f] = leaves[f]
      /\ longer[Len(leaves) + 1] = x
  OBVIOUS
<1> HIDE DEF longer
<1>2. ParentsEarlier(longer)
  <2>1. SUFFICES ASSUME NEW f \in 1..Len(leaves) + 1 PROVE longer[f].parent < f
    BY <1>1 DEF ParentsEarlier
  <2>2. CASE f = Len(leaves) + 1
    BY <1>0, <1>1, <2>2
  <2>3. CASE f # Len(leaves) + 1
    <3>1. f \in 1..Len(leaves)
      BY <1>0, <2>3
    <3>2. QED
      BY <1>1, <3>1, FrameType
  <2>4. QED
    BY <2>2, <2>3
<1>3. ASSUME NEW h \in Nat, \A m \in 0..(h - 1) : m \in T PROVE h \in T
  <2>1. SUFFICES ASSUME h <= Len(leaves) PROVE TraceOf(longer, h) = TraceOf(leaves, h)
    OBVIOUS
  <2>2. CASE h = 0
    BY <1>1, <1>2, <2>2, TraceUnfolds
  <2>3. CASE h # 0
    <3>1. h \in 1..Len(leaves) /\ h \in 1..Len(longer)
      BY <1>0, <1>1, <2>1, <2>3
    <3>2. leaves[h].parent \in 0..(h - 1) /\ longer[h] = leaves[h]
      BY <1>1, <3>1, FrameType
    <3>3. leaves[h].parent <= Len(leaves)
      BY <1>0, <2>1, <3>2
    <3>4. TraceOf(longer, leaves[h].parent) = TraceOf(leaves, leaves[h].parent)
      BY <1>3, <3>2, <3>3
    <3>5. TraceOf(leaves, h) = <<leaves[h].loc>> \o TraceOf(leaves, leaves[h].parent)
      BY <3>1, TraceUnfolds
    <3>6. TraceOf(longer, h) = <<longer[h].loc>> \o TraceOf(longer, longer[h].parent)
      BY <1>1, <1>2, <3>1, TraceUnfolds
    <3>7. QED
      BY <3>2, <3>4, <3>5, <3>6
  <2>4. QED
    BY <2>2, <2>3
<1>4. \A h \in Nat : h \in T
  <2> HIDE DEF T
  <2>1. QED
    BY <1>3, StrongInduction
<1>5. \A h \in 0..Len(leaves) : TraceOf(longer, h) = TraceOf(leaves, h)
  BY <1>0, <1>4
<1>6. QED
  BY <1>2, <1>5 DEF longer

-----------------------------------------------------------------------------
\* What a call trace says when the strings have the contents c.
SaidBy(c, tr) == [i \in DOMAIN tr |-> c[tr[i]]]

LEMMA SaidIs == \A tr : Said(tr) = SaidBy(content, tr)
  BY DEF Said, SaidBy

LEMMA SaidSame ==
  ASSUME NEW S, NEW tr \in Seq(S), NEW c, NEW d, \A s \in S : c[s] = d[s]
  PROVE  SaidBy(c, tr) = SaidBy(d, tr)
  BY DEF SaidBy

\* What a trace with one more frame says.
LEMMA SaidPush ==
  ASSUME NEW s \in Strings, NEW tr \in Seq(Strings), NEW c
  PROVE  LET says == SaidBy(c, tr)
             more == SaidBy(c, <<s>> \o tr)
         IN /\ Len(says) = Len(tr) /\ Len(tr) \in Nat
            /\ DOMAIN says = 1..Len(tr)
            /\ Len(more) = Len(tr) + 1
            /\ DOMAIN more = 1..Len(tr) + 1
            /\ more[1] = c[s]
            /\ \A i \in 1..Len(tr) : says[i] = more[i + 1]
<1> DEFINE longer == <<s>> \o tr
<1>1. /\ Len(tr) \in Nat /\ DOMAIN tr = 1..Len(tr)
      /\ Len(longer) = Len(tr) + 1 /\ DOMAIN longer = 1..Len(tr) + 1
      /\ longer[1] = s
      /\ \A i \in 1..Len(tr) : longer[i + 1] = tr[i]
  OBVIOUS
<1> HIDE DEF longer
<1>2. DOMAIN SaidBy(c, tr) = 1..Len(tr) /\ DOMAIN SaidBy(c, longer) = 1..Len(tr) + 1
  BY <1>1 DEF SaidBy
<1>3. Len(SaidBy(c, tr)) = Len(tr) /\ Len(SaidBy(c, longer)) = Len(tr) + 1
  BY <1>1, <1>2
<1>4. SaidBy(c, longer)[1] = c[s]
  BY <1>1 DEF SaidBy
<1>5. ASSUME NEW i \in 1..Len(tr) PROVE SaidBy(c, tr)[i] = SaidBy(c, longer)[i + 1]
  <2>1. i + 1 \in 1..Len(tr) + 1
    BY <1>1
  <2>2. QED
    BY <1>1, <2>1 DEF SaidBy
<1>6. QED
  BY <1>1, <1>2, <1>3, <1>4, <1>5 DEF longer

\* Two frames with one parent do not say the same.
FramesDiffer(leaves, c) ==
  \A f, g \in 1..Len(leaves) :
    leaves[f].parent = leaves[g].parent /\ c[leaves[f].loc] = c[leaves[g].loc] => f = g

\* Then two handles do not say the same either.
LEMMA HandlesDiffer ==
  ASSUME NEW leaves \in Seq(CallFrame), ParentsEarlier(leaves), NEW c,
         FramesDiffer(leaves, c)
  PROVE  \A f, g \in 0..Len(leaves) :
           SaidBy(c, TraceOf(leaves, f)) = SaidBy(c, TraceOf(leaves, g)) => f = g
<1> DEFINE Says(f) == SaidBy(c, TraceOf(leaves, f))
           n(f) == Len(TraceOf(leaves, f))
           up(f) == leaves[f].parent
           T == {f \in Nat : f <= Len(leaves) =>
                   \A g \in 0..Len(leaves) : Says(f) = Says(g) => f = g}
<1>1. \A h \in 0..Len(leaves) : TraceOf(leaves, h) \in Seq(Strings)
  <2>1. \A f \in 1..Len(leaves) : leaves[f].loc \in Strings
    BY FrameType
  <2>2. QED
    BY <2>1, TraceType
<1>2. DOMAIN Says(0) = {}
  <2>1. DOMAIN TraceOf(leaves, 0) = {}
    BY TraceUnfolds
  <2>2. QED
    BY <2>1 DEF SaidBy
<1>3. ASSUME NEW f \in 1..Len(leaves)
      PROVE  /\ up(f) \in 0..(f - 1) /\ up(f) \in 0..Len(leaves)
             /\ n(up(f)) \in Nat
             /\ DOMAIN Says(up(f)) = 1..n(up(f))
             /\ DOMAIN Says(f) = 1..n(up(f)) + 1
             /\ Says(f)[1] = c[leaves[f].loc]
             /\ \A i \in 1..n(up(f)) : Says(up(f))[i] = Says(f)[i + 1]
             /\ Says(up(f)) = [i \in DOMAIN Says(up(f)) |-> Says(up(f))[i]]
  <2>1. up(f) \in 0..(f - 1) /\ up(f) \in 0..Len(leaves) /\ leaves[f].loc \in Strings
    BY FrameType
  <2>2. TraceOf(leaves, f) = <<leaves[f].loc>> \o TraceOf(leaves, up(f))
    BY TraceUnfolds
  <2>3. TraceOf(leaves, up(f)) \in Seq(Strings)
    BY <1>1, <2>1
  <2>4. Says(up(f)) = [i \in DOMAIN Says(up(f)) |-> Says(up(f))[i]]
    BY DEF SaidBy
  <2> HIDE DEF up
  <2>5. QED
    BY <2>1, <2>2, <2>3, <2>4, SaidPush
<1> HIDE DEF Says, n
<1>4. ASSUME NEW f \in Nat, \A m \in 0..(f - 1) : m \in T PROVE f \in T
  <2>1. SUFFICES ASSUME f <= Len(leaves), NEW g \in 0..Len(leaves), Says(f) = Says(g)
                 PROVE  f = g
    OBVIOUS
  <2>2. CASE f = 0 \/ g = 0
    <3>1. \A h \in 1..Len(leaves) : DOMAIN Says(h) # {}
      <4>1. SUFFICES ASSUME NEW h \in 1..Len(leaves) PROVE 1 \in DOMAIN Says(h)
        OBVIOUS
      <4> HIDE DEF up
      <4>2. QED
        BY <1>3
    <3>2. f \in 0..Len(leaves) /\ Len(leaves) \in Nat
      BY <2>1, FrameType
    <3>3. DOMAIN Says(f) = {} /\ DOMAIN Says(g) = {}
      BY <1>2, <2>1, <2>2
    <3>4. f = 0 /\ g = 0
      BY <3>1, <3>2, <3>3
    <3>5. QED
      BY <3>4
  <2>3. CASE f # 0 /\ g # 0
    <3>1. f \in 1..Len(leaves) /\ g \in 1..Len(leaves)
      BY <2>1, <2>3, FrameType
    <3> HIDE DEF up
    <3>2. n(up(f)) = n(up(g))
      <4>1. 1..n(up(f)) + 1 = 1..n(up(g)) + 1 /\ n(up(f)) \in Nat /\ n(up(g)) \in Nat
        BY <1>3, <2>1, <3>1
      <4>2. n(up(f)) + 1 \in 1..n(up(f)) + 1 /\ n(up(g)) + 1 \in 1..n(up(g)) + 1
        BY <4>1
      <4>3. n(up(f)) + 1 <= n(up(g)) + 1 /\ n(up(g)) + 1 <= n(up(f)) + 1
        BY <4>1, <4>2
      <4>4. QED
        BY <4>1, <4>3
    <3>3. c[leaves[f].loc] = c[leaves[g].loc]
      BY <1>3, <2>1, <3>1
    <3>4. Says(up(f)) = Says(up(g))
      <4>1. DOMAIN Says(up(f)) = DOMAIN Says(up(g))
        BY <1>3, <3>1, <3>2
      <4>2. ASSUME NEW i \in DOMAIN Says(up(f)) PROVE Says(up(f))[i] = Says(up(g))[i]
        <5>1. i \in 1..n(up(f)) /\ i \in 1..n(up(g))
          BY <1>3, <3>1, <3>2, <4>2
        <5>2. Says(up(f))[i] = Says(f)[i + 1]
          BY <1>3, <3>1, <5>1
        <5>3. Says(up(g))[i] = Says(g)[i + 1]
          BY <1>3, <3>1, <5>1
        <5>4. QED
          BY <2>1, <5>2, <5>3
      <4>3. QED
        BY <1>3, <3>1, <4>1, <4>2
    <3>5. up(f) \in 0..(f - 1) /\ up(f) \in 0..Len(leaves) /\ up(g) \in 0..Len(leaves)
      BY <1>3, <3>1
    <3>6. up(f) = up(g)
      <4>1. up(f) \in T
        BY <1>4, <3>5
      <4>2. up(f) <= Len(leaves)
        BY <3>5, FrameType
      <4>3. QED
        BY <3>4, <3>5, <4>1, <4>2
    <3>7. QED
      BY <3>1, <3>3, <3>6 DEF FramesDiffer, up
  <2>4. QED
    BY <2>2, <2>3
<1>5. \A f \in Nat : f \in T
  <2> HIDE DEF T
  <2>1. QED
    BY <1>4, StrongInduction
<1>6. QED
  BY <1>5, FrameType DEF Says

-----------------------------------------------------------------------------
(***************************************************************************)
(* The tree is the program's: what a step makes of the frames and of the   *)
(* strings they refer to.                                                  *)
(***************************************************************************)
Tree == ParentsEarlier(trace_leaves_) /\ FramesDiffer(trace_leaves_, content)

\* Intern adds the frame (parent, s), which no frame is equal to.
AddsFrame(s) ==
  /\ content' = content
  /\ trace_leaves_' = Append(trace_leaves_, [parent |-> parent, loc |-> s])
  /\ EqualFrames(s) = {}

LEMMA InternStringIs ==
  ASSUME NEW t \in Strings, string_table_ \subseteq Strings
  PROVE  LET s == InternString(t)
         IN /\ s.string \in s.table /\ s.string \in Strings
            /\ string_table_ \subseteq s.table
            /\ content[s.string] = content[t]
<1> DEFINE found == {x \in string_table_ : EqualPyString(x, t)}
           s == InternString(t)
<1>1. CASE found = {}
  <2>1. s.string = t /\ s.table = string_table_ \cup {t}
    BY <1>1 DEF InternString
  <2>2. QED
    BY <2>1
<1>2. CASE found # {}
  <2>1. s.string \in found /\ s.table = string_table_
    BY <1>2 DEF InternString
  <2>2. \A x \in found : x \in string_table_ /\ content[x] = content[t]
    BY DEF EqualPyString
  <2>3. QED
    BY <2>1, <2>2
<1>3. QED
  BY <1>1, <1>2

\* InternFrame, one of its three ways.
LEMMA InternFrameDoes ==
  ASSUME Inv, Inv', InternFrame, todo # 0
  PROVE  LET s == InternString(trace[todo]).string
         IN /\ content' = content /\ frames' = frames /\ trace' = trace
            /\ pc = "intern" /\ pc' = pc
            /\ todo \in 1..Len(trace) /\ todo' = todo - 1
            /\ string_table_ \subseteq string_table_'
            /\ s \in Strings /\ s \in string_table_' /\ content[s] = content[trace[todo]]
            /\ \/ /\ trace_leaves_' = trace_leaves_
                  /\ parent' \in EqualFrames(s)
               \/ /\ AddsFrame(s)
                  /\ parent' = Len(trace_leaves_) + 1
<1> DEFINE t == trace[todo]
           s == InternString(t)
<1>1. TypeOK /\ TypeOK' /\ NoDanglingString'
  BY DEF Inv
<1>2. /\ content' = content /\ frames' = frames /\ trace' = trace
      /\ pc = "intern" /\ pc' = pc /\ todo' = todo - 1
      /\ string_table_' = s.table
  BY DEF InternFrame
<1>3. todo \in 1..Len(trace) /\ t \in Strings /\ string_table_ \subseteq Strings
  BY <1>1, <1>2 DEF TypeOK
<1>4. /\ s.string \in s.table /\ s.string \in Strings /\ string_table_ \subseteq s.table
      /\ content[s.string] = content[t]
  BY <1>3, InternStringIs
<1>5. PICK f \in Lookup(s.string) :
        IF f # 0 THEN parent' = f /\ UNCHANGED trace_leaves_
        ELSE /\ trace_leaves_' = Append(trace_leaves_, [parent |-> parent, loc |-> s.string])
             /\ parent' = Len(trace_leaves_')
  BY DEF InternFrame
<1> HIDE DEF s, t
<1>6. CASE f # 0
  <2>1. f \in EqualFrames(s.string)
    BY <1>5, <1>6 DEF Lookup
  <2>2. QED
    BY <1>2, <1>3, <1>4, <1>5, <1>6, <2>1 DEF s, t
<1>7. CASE f = 0
  <2>1. /\ trace_leaves_' = Append(trace_leaves_, [parent |-> parent, loc |-> s.string])
        /\ parent' = Len(trace_leaves_')
    BY <1>5, <1>7
  <2>2. trace_leaves_ \in Seq(CallFrame)
    BY <1>1 DEF TypeOK
  <2>3. parent' = Len(trace_leaves_) + 1
    BY <2>1, <2>2
  <2>4. \A g \in EqualFrames(s.string) :
          g \in DOMAIN trace_leaves_ /\ EqualPyString(trace_leaves_[g].loc, s.string)
    BY DEF EqualFrames
  <2>5. 0 \notin EqualFrames(s.string)
    BY <2>2, <2>4
  <2>6. \A g \in EqualFrames(s.string) : trace_leaves_[g].loc # s.string
    BY <1>5, <1>7, <2>5 DEF Lookup
  <2>7. ASSUME NEW g \in EqualFrames(s.string) PROVE FALSE
    <3>1. g \in DOMAIN trace_leaves_ /\ content[trace_leaves_[g].loc] = content[s.string]
      BY <2>4 DEF EqualPyString
    <3>2. g \in DOMAIN trace_leaves_' /\ trace_leaves_'[g] = trace_leaves_[g]
      BY <2>1, <2>2, <3>1
    <3>3. trace_leaves_[g].loc \in string_table_'
      BY <1>1, <3>2 DEF NoDanglingString
    <3>4. trace_leaves_[g].loc = s.string
      BY <1>1, <1>2, <1>4, <3>1, <3>3 DEF NoDanglingString
    <3>5. QED
      BY <2>6, <3>4
  <2>8. AddsFrame(s.string)
    BY <1>2, <2>1, <2>7 DEF AddsFrame
  <2>9. QED
    BY <1>2, <1>3, <1>4, <2>3, <2>8 DEF s, t
<1>8. QED
  BY <1>6, <1>7

\* Every step of the program empties the tree, or leaves its frames and what
\* their strings say as they are and adds one frame at most.
LEMMA TreeSteps ==
  ASSUME Inv, Inv', [Next]_vars
  PROVE  \/ trace_leaves_' = <<>>
         \/ /\ trace_leaves_' = trace_leaves_
            /\ \A s \in string_table_ : content'[s] = content[s]
         \/ \E s \in Strings : AddsFrame(s)
<1> USE CallTraceSetAssumption
<1>1. ASSUME NEW s \in Strings, NEW c \in Contents, NewString(s, c)
      PROVE  /\ trace_leaves_' = trace_leaves_
             /\ \A x \in string_table_ : content'[x] = content[x]
  <2>1. s \notin string_table_
    BY <1>1 DEF NewString, Inv, NoDanglingString
  <2>2. QED
    BY <1>1, <2>1 DEF NewString, Inv, TypeOK
<1>2. ASSUME NEW dec, Decref(dec), string_table_' = string_table_
      PROVE  \A x \in string_table_ : content'[x] = content[x]
  <2>1. SUFFICES ASSUME NEW x \in string_table_ PROVE content'[x] = content[x]
    OBVIOUS
  <2>2. x \in Strings
    BY DEF Inv, TypeOK
  <2>3. content'[x] # Free
    BY <1>2 DEF Inv, NoDanglingString
  <2>4. QED
    BY <1>2, <2>2, <2>3 DEF Decref
<1>3. ASSUME NEW s \in Strings, DropString(s)
      PROVE  /\ trace_leaves_' = trace_leaves_
             /\ \A x \in string_table_ : content'[x] = content[x]
  BY <1>2, <1>3 DEF DropString
<1>4. CASE FreeCallTrace
  BY <1>2, <1>4 DEF FreeCallTrace
<1>5. CASE GetCurrentCallTrace \/ WalkFrame \/ FindFrame
  BY <1>5 DEF GetCurrentCallTrace, WalkFrame, FindFrame, heap
<1>6. CASE InternFrame
  <2>1. CASE todo = 0
    BY <1>6, <2>1 DEF InternFrame
  <2>2. CASE todo # 0
    BY <1>6, <2>2, InternFrameDoes
  <2>3. QED
    BY <2>1, <2>2
<1>7. CASE Reset
  BY <1>7 DEF Reset
<1>8. CASE UNCHANGED vars
  BY <1>8 DEF vars
<1>9. QED
  BY <1>1, <1>3, <1>4, <1>5, <1>6, <1>7, <1>8 DEF Next

\* What a new frame is, and how the tree grows by it.
LEMMA AddsFrameTree ==
  ASSUME Inv, Tree, NEW s \in Strings, AddsFrame(s)
  PROVE  /\ Tree'
         /\ \A h \in 0..Len(trace_leaves_) :
              TraceOf(trace_leaves_', h) = TraceOf(trace_leaves_, h)
<1> DEFINE x == [parent |-> parent, loc |-> s]
           n == Len(trace_leaves_)
<1>1. /\ trace_leaves_ \in Seq(CallFrame) /\ n \in Nat /\ parent \in 0..n
  BY DEF Inv, TypeOK
<1>2. x \in CallFrame /\ x.parent <= n
  BY <1>1 DEF CallFrame
<1>3. trace_leaves_' = Append(trace_leaves_, x) /\ content' = content /\ EqualFrames(s) = {}
  BY DEF AddsFrame
<1>4. /\ Len(trace_leaves_') = n + 1 /\ trace_leaves_'[n + 1] = x
      /\ \A f \in 1..n : trace_leaves_'[f] = trace_leaves_[f]
  BY <1>1, <1>2, <1>3
<1>5. ParentsEarlier(trace_leaves_) /\ FramesDiffer(trace_leaves_, content)
  BY DEF Tree
<1>6. /\ ParentsEarlier(trace_leaves_')
      /\ \A h \in 0..n : TraceOf(trace_leaves_', h) = TraceOf(trace_leaves_, h)
  BY <1>1, <1>2, <1>3, <1>5, TraceAppend
<1>7. ASSUME NEW f \in 1..n
      PROVE  ~(trace_leaves_[f].parent = parent /\ content[trace_leaves_[f].loc] = content[s])
  <2>1. f \in DOMAIN trace_leaves_ /\ f \notin EqualFrames(s)
    BY <1>1, <1>3
  <2>2. QED
    BY <2>1 DEF EqualFrames, EqualPyString
<1>8. FramesDiffer(trace_leaves_', content')
  <2>1. SUFFICES ASSUME NEW f \in 1..n + 1, NEW g \in 1..n + 1,
                        trace_leaves_'[f].parent = trace_leaves_'[g].parent,
                        content[trace_leaves_'[f].loc] = content[trace_leaves_'[g].loc]
                 PROVE  f = g
    BY <1>3, <1>4 DEF FramesDiffer
  <2>2. \A h \in 1..n + 1 : h = n + 1 \/ h \in 1..n
    BY <1>1
  <2>3. x.parent = parent /\ x.loc = s
    OBVIOUS
  <2> HIDE DEF x, n
  <2>4. CASE f \in 1..n /\ g \in 1..n
    BY <1>4, <1>5, <2>1, <2>4 DEF FramesDiffer, n
  <2>5. CASE f = n + 1 /\ g \in 1..n
    BY <1>4, <1>7, <2>1, <2>3, <2>5
  <2>6. CASE f \in 1..n /\ g = n + 1
    BY <1>4, <1>7, <2>1, <2>3, <2>6
  <2>7. QED
    BY <2>2, <2>4, <2>5, <2>6
<1>9. Tree'
  BY <1>6, <1>8 DEF Tree
<1>10. QED
  BY <1>6, <1>9

LEMMA InitTree == Init => Tree
  BY DEF Init, Tree, ParentsEarlier, FramesDiffer

LEMMA NextTree == Inv /\ Inv' /\ Tree /\ [Next]_vars => Tree'
<1> SUFFICES ASSUME Inv, Inv', Tree, [Next]_vars PROVE Tree'
  OBVIOUS
<1>1. CASE trace_leaves_' = <<>>
  BY <1>1 DEF Tree, ParentsEarlier, FramesDiffer
<1>2. CASE /\ trace_leaves_' = trace_leaves_
           /\ \A s \in string_table_ : content'[s] = content[s]
  <2>1. \A f \in 1..Len(trace_leaves_) : trace_leaves_[f].loc \in string_table_
    BY DEF Inv, TypeOK, NoDanglingString
  <2>2. FramesDiffer(trace_leaves_, content')
    BY <1>2, <2>1 DEF Tree, FramesDiffer
  <2>3. QED
    BY <1>2, <2>2 DEF Tree
<1>3. CASE \E s \in Strings : AddsFrame(s)
  BY <1>3, AddsFrameTree
<1>4. QED
  BY <1>1, <1>2, <1>3, TreeSteps

LEMMA TreeAlways == Spec => []Tree
<1>1. QED
  BY InvAlways, InitTree, NextTree, PTL DEF Spec

(***************************************************************************)
(* One call stack has one handle, whichever of the strings of equal        *)
(* content its frames were taken from, and wherever the hash of a pointer  *)
(* makes the lookup end.                                                   *)
(***************************************************************************)
THEOREM StacksAreInternedOnce == Spec => []InternedOnce
<1>1. Inv /\ Tree => InternedOnce
  <2>1. SUFFICES ASSUME Inv, Tree, NEW f \in DOMAIN trace_leaves_, NEW g \in DOMAIN trace_leaves_,
                        Said(GetTrace(f)) = Said(GetTrace(g))
                 PROVE  f = g
    BY DEF InternedOnce
  <2>2. trace_leaves_ \in Seq(CallFrame)
    BY <2>1 DEF Inv, TypeOK
  <2>3. f \in 0..Len(trace_leaves_) /\ g \in 0..Len(trace_leaves_)
    BY <2>2
  <2>4. SaidBy(content, TraceOf(trace_leaves_, f)) = SaidBy(content, TraceOf(trace_leaves_, g))
    BY <2>1, GetTraceIs, SaidIs
  <2>5. QED
    BY <2>1, <2>2, <2>3, <2>4, HandlesDiffer DEF Tree
<1>2. QED
  BY InvAlways, TreeAlways, <1>1, PTL

(***************************************************************************)
(* Until the next Reset, a handle of the live set reads as the stack it    *)
(* was returned for: no step changes the frames above it, nor what their   *)
(* strings say.                                                            *)
(***************************************************************************)
THEOREM HandlesAreStable == Spec => HandlesKeepTheirTrace
<1> DEFINE Keep == \A h \in DOMAIN trace_leaves_ :
                     h \in DOMAIN trace_leaves_' => Said(GetTrace(h))' = Said(GetTrace(h))
<1>1. Inv /\ Inv' /\ Tree /\ [Next]_vars => [Keep]_vars
  <2>1. SUFFICES ASSUME Inv, Inv', Tree, [Next]_vars,
                        NEW h \in DOMAIN trace_leaves_, h \in DOMAIN trace_leaves_'
                 PROVE  Said(GetTrace(h))' = Said(GetTrace(h))
    OBVIOUS
  <2>2. Said(GetTrace(h)) = SaidBy(content, TraceOf(trace_leaves_, h))
    BY GetTraceIs, SaidIs
  <2>3. Said(GetTrace(h))' = SaidBy(content', TraceOf(trace_leaves_', h))
    BY DEF Said, SaidBy, GetTrace, TraceOf, IsWalk
  <2>4. trace_leaves_ \in Seq(CallFrame) /\ ParentsEarlier(trace_leaves_)
    BY <2>1 DEF Inv, TypeOK, Tree
  <2>5. h \in 0..Len(trace_leaves_) /\ h \in 1..Len(trace_leaves_)
    BY <2>4
  <2>6. CASE trace_leaves_' = <<>>
    BY <2>1, <2>6
  <2>7. CASE /\ trace_leaves_' = trace_leaves_
             /\ \A s \in string_table_ : content'[s] = content[s]
    <3>1. \A f \in 1..Len(trace_leaves_) : trace_leaves_[f].loc \in string_table_
      BY <2>1, <2>4 DEF Inv, NoDanglingString
    <3>2. TraceOf(trace_leaves_, h) \in Seq(string_table_)
      BY <2>4, <2>5, <3>1, TraceType
    <3>3. SaidBy(content', TraceOf(trace_leaves_, h)) = SaidBy(content, TraceOf(trace_leaves_, h))
      BY <2>7, <3>2, SaidSame
    <3>4. QED
      BY <2>2, <2>3, <2>7, <3>3
  <2>8. ASSUME NEW s \in Strings, AddsFrame(s)
        PROVE  Said(GetTrace(h))' = Said(GetTrace(h))
    <3>1. content' = content
      BY <2>8 DEF AddsFrame
    <3>2. TraceOf(trace_leaves_', h) = TraceOf(trace_leaves_, h)
      BY <2>1, <2>5, <2>8, AddsFrameTree
    <3>3. QED
      BY <2>2, <2>3, <3>1, <3>2
  <2>9. QED
    BY <2>1, <2>6, <2>7, <2>8, TreeSteps
<1>2. QED
  BY InvAlways, TreeAlways, <1>1, PTL DEF Spec, HandlesKeepTheirTrace

-----------------------------------------------------------------------------
(***************************************************************************)
(* What Intern returns.  The walk puts the frames it keeps at their ranks; *)
(* from then on the handle that has been reached says what the rest of the *)
(* call trace says, from the frame after todo to the outermost one.        *)
(***************************************************************************)
\* The first n frames that are kept, or as many of them as fit, are in trace.
Ranked(n) ==
  /\ Len(trace) = IF Kept(n) < FrameLimit THEN Kept(n) ELSE FrameLimit
  /\ \A i \in 1..n : ~SkipFrame(frames[i]) /\ Kept(i) <= FrameLimit =>
       trace[Kept(i)] = frames[i]

\* The handle h of the tree leaves says what tr says after its first t frames.
Tells(leaves, c, h, tr, t) ==
  LET told == SaidBy(c, TraceOf(leaves, h))
  IN /\ Len(told) = Len(tr) - t
     /\ \A j \in 1..(Len(tr) - t) : told[j] = c[tr[t + j]]

Recording ==
  /\ pc = "walk" => /\ parent = 0
                    /\ Len(trace) = Kept(todo - 1)
                    /\ Ranked(todo - 1)
  /\ pc \in {"find", "intern", "free"} =>
       /\ Ranked(Len(frames))
       /\ Tells(trace_leaves_, content, parent, trace, todo)
  /\ pc = "free" => todo = 0

-----------------------------------------------------------------------------
LEMMA KeptType ==
  ASSUME NEW n \in Nat
  PROVE  IsFiniteSet({i \in 1..n : ~SkipFrame(frames[i])}) /\ Kept(n) \in Nat
<1>1. IsFiniteSet(1..n)
  BY FS_Interval
<1>2. {i \in 1..n : ~SkipFrame(frames[i])} \in SUBSET (1..n)
  OBVIOUS
<1>3. IsFiniteSet({i \in 1..n : ~SkipFrame(frames[i])})
  BY <1>1, <1>2, FS_Subset
<1>4. QED
  BY <1>3, FS_CardinalityType DEF Kept

LEMMA KeptNone == Kept(0) = 0
<1>1. {i \in 1..0 : ~SkipFrame(frames[i])} = {}
  OBVIOUS
<1>2. QED
  BY <1>1, FS_EmptySet DEF Kept

LEMMA KeptNext ==
  ASSUME NEW n \in Nat
  PROVE  Kept(n + 1) = IF SkipFrame(frames[n + 1]) THEN Kept(n) ELSE Kept(n) + 1
<1> DEFINE K(m) == {i \in 1..m : ~SkipFrame(frames[i])}
<1>1. K(n + 1) = IF SkipFrame(frames[n + 1]) THEN K(n) ELSE K(n) \cup {n + 1}
  <2>1. 1..(n + 1) = (1..n) \cup {n + 1}
    OBVIOUS
  <2>2. QED
    BY <2>1
<1>2. IsFiniteSet(K(n)) /\ n + 1 \notin K(n)
  BY KeptType
<1>3. Cardinality(K(n) \cup {n + 1}) = Cardinality(K(n)) + 1
  BY <1>2, FS_AddElement
<1>4. Kept(n) = Cardinality(K(n)) /\ Kept(n + 1) = Cardinality(K(n + 1))
  BY DEF Kept
<1> HIDE DEF K
<1>5. QED
  BY <1>1, <1>3, <1>4

LEMMA KeptMonotone ==
  ASSUME NEW m \in Nat, NEW n \in Nat, m <= n
  PROVE  Kept(m) <= Kept(n)
<1> DEFINE K(k) == {i \in 1..k : ~SkipFrame(frames[i])}
<1>1. K(m) \subseteq K(n) /\ IsFiniteSet(K(n))
  BY KeptType
<1>2. Cardinality(K(m)) <= Cardinality(K(n))
  BY <1>1, FS_Subset
<1>3. QED
  BY <1>2 DEF Kept

LEMMA FrameLimitType == FrameLimit \in Nat
  BY CallTraceSetAssumption DEF FrameLimit

\* A handle one frame below another one tells one frame more.
LEMMA TellsMore ==
  ASSUME NEW leaves \in Seq(CallFrame), ParentsEarlier(leaves), NEW c,
         NEW tr \in Seq(Strings), NEW t \in 1..Len(tr),
         NEW f \in 1..Len(leaves), c[leaves[f].loc] = c[tr[t]],
         Tells(leaves, c, leaves[f].parent, tr, t)
  PROVE  Tells(leaves, c, f, tr, t - 1)
<1> DEFINE p == leaves[f].parent
           m == Len(tr) - t
           told == SaidBy(c, TraceOf(leaves, p))
           more == SaidBy(c, TraceOf(leaves, f))
<1>1. p \in 0..Len(leaves) /\ leaves[f].loc \in Strings
  BY FrameType
<1>2. TraceOf(leaves, p) \in Seq(Strings)
  <2>1. \A g \in 1..Len(leaves) : leaves[g].loc \in Strings
    BY FrameType
  <2>2. QED
    BY <1>1, <2>1, TraceType
<1>3. TraceOf(leaves, f) = <<leaves[f].loc>> \o TraceOf(leaves, p)
  BY TraceUnfolds
<1>4. Len(told) = m /\ \A j \in 1..m : told[j] = c[tr[t + j]]
  BY DEF Tells
<1>5. m \in Nat /\ Len(tr) - (t - 1) = m + 1
  OBVIOUS
<1> HIDE DEF p, m
<1>6. /\ Len(more) = m + 1 /\ more[1] = c[leaves[f].loc]
      /\ \A i \in 1..m : told[i] = more[i + 1]
  BY <1>1, <1>2, <1>3, <1>4, SaidPush
<1> HIDE DEF told, more
<1>7. ASSUME NEW j \in 1..m + 1 PROVE more[j] = c[tr[(t - 1) + j]]
  <2>1. CASE j = 1
    <3>1. (t - 1) + 1 = t
      OBVIOUS
    <3>2. QED
      BY <1>6, <2>1, <3>1
  <2>2. CASE j # 1
    <3>1. j - 1 \in 1..m /\ (j - 1) + 1 = j /\ t + (j - 1) = (t - 1) + j
      BY <1>5, <2>2
    <3>2. more[j] = told[j - 1] /\ told[j - 1] = c[tr[t + (j - 1)]]
      BY <1>4, <1>6, <3>1
    <3>3. QED
      BY <3>1, <3>2
  <2>3. QED
    BY <2>1, <2>2
<1>8. QED
  BY <1>5, <1>6, <1>7 DEF Tells, more

LEMMA InitRecording == Init => Recording
  BY DEF Init, Recording

\* Nothing the recording depends on changes: its ranks do not either.
LEMMA RankedSame ==
  ASSUME content' = content, frames' = frames, trace' = trace
  PROVE  \A n : /\ Kept(n)' = Kept(n)
                /\ Ranked(n)' <=> Ranked(n)
<1>1. \A n : Kept(n)' = Kept(n)
  BY DEF Kept, SkipFrame
<1>2. QED
  BY <1>1 DEF Ranked, SkipFrame, FrameLimit

\* One frame of the walk.
LEMMA WalkRecording ==
  ASSUME Inv, Tree, Recording, WalkFrame
  PROVE  Recording'
<1>1. /\ pc = "walk" /\ content' = content /\ frames' = frames
      /\ parent' = parent /\ trace_leaves_' = trace_leaves_
  BY DEF WalkFrame
<1>2. /\ frames \in Seq(Strings) /\ trace \in Seq(Strings) /\ todo \in 1..Len(frames) + 1
      /\ trace_leaves_ \in Seq(CallFrame) /\ Len(trace) \in Nat /\ Len(frames) \in Nat
  BY <1>1 DEF Inv, TypeOK
<1>3. parent = 0 /\ Len(trace) = Kept(todo - 1) /\ Ranked(todo - 1)
  BY <1>1 DEF Recording
<1>4. todo - 1 \in Nat /\ todo \in Nat /\ (todo - 1) + 1 = todo /\ (todo + 1) - 1 = todo
  BY <1>2
<1>5. Kept(todo - 1) \in Nat /\ Kept(todo) \in Nat /\ FrameLimit \in Nat
  BY <1>4, KeptType, FrameLimitType
<1>6. \A n : Kept(n)' = Kept(n)
  BY <1>1 DEF Kept, SkipFrame
<1>7. Kept(todo) = IF SkipFrame(frames[todo]) THEN Kept(todo - 1) ELSE Kept(todo - 1) + 1
  BY <1>4, KeptNext
<1>8. Len(trace) <= FrameLimit
  BY <1>3, <1>5 DEF Ranked
<1>9. \A i \in 1..todo - 1 : Kept(i) \in Nat /\ Kept(i) <= Len(trace)
  <2>1. SUFFICES ASSUME NEW i \in 1..todo - 1 PROVE Kept(i) \in Nat /\ Kept(i) <= Kept(todo - 1)
    BY <1>3
  <2>2. i \in Nat /\ i <= todo - 1
    BY <1>4
  <2>3. QED
    BY <1>4, <2>2, KeptType, KeptMonotone
<1>10. CASE todo <= Len(frames) /\ Len(trace) < FrameLimit
  <2>1. pc' = "walk" /\ todo' = todo + 1
    BY <1>1, <1>10 DEF WalkFrame
  <2>2. CASE SkipFrame(frames[todo])
    <3>1. trace' = trace
      BY <1>10, <2>2 DEF WalkFrame
    <3>2. Ranked(todo)
      <4>1. SUFFICES ASSUME NEW i \in 1..todo, ~SkipFrame(frames[i]), Kept(i) <= FrameLimit
                     PROVE  trace[Kept(i)] = frames[i]
        BY <1>3, <1>7, <2>2 DEF Ranked
      <4>2. i \in 1..todo - 1
        BY <1>4, <2>2, <4>1
      <4>3. QED
        BY <1>3, <4>1, <4>2 DEF Ranked
    <3>3. \A n : n = todo => Ranked(n)'
      BY <1>1, <3>1, <3>2, RankedSame
    <3>4. Ranked(todo - 1)' /\ Len(trace') = Kept(todo - 1)'
      BY <1>3, <1>4, <1>6, <1>7, <2>1, <2>2, <3>1, <3>3
    <3>5. QED
      BY <1>1, <1>3, <2>1, <3>4 DEF Recording
  <2>3. CASE ~SkipFrame(frames[todo])
    <3>1. trace' = Append(trace, frames[todo])
      BY <1>10, <2>3 DEF WalkFrame
    <3>2. frames[todo] \in Strings
      BY <1>2, <1>10
    <3>3. /\ Len(trace') = Len(trace) + 1 /\ trace'[Len(trace) + 1] = frames[todo]
          /\ \A k \in 1..Len(trace) : trace'[k] = trace[k]
      BY <1>2, <3>1, <3>2
    <3>4. Kept(todo) = Len(trace) + 1
      BY <1>3, <1>7, <2>3
    <3>5. ASSUME NEW i \in 1..todo, ~SkipFrame(frames[i]), Kept(i) <= FrameLimit
          PROVE  trace'[Kept(i)] = frames[i]
      <4>1. CASE i = todo
        BY <3>3, <3>4, <4>1
      <4>2. CASE i # todo
        <5>1. i \in 1..todo - 1
          BY <1>4, <4>2
        <5>2. trace[Kept(i)] = frames[i]
          BY <1>3, <3>5, <5>1 DEF Ranked
        <5>3. Kept(i) # 0
          <6>1. i - 1 \in Nat /\ (i - 1) + 1 = i
            BY <5>1
          <6>2. Kept(i) = Kept(i - 1) + 1 /\ Kept(i - 1) \in Nat
            BY <3>5, <6>1, KeptNext, KeptType
          <6>3. QED
            BY <6>2
        <5>4. Kept(i) \in 1..Len(trace)
          BY <1>9, <5>1, <5>3
        <5>5. QED
          BY <3>3, <5>2, <5>4
      <4>3. QED
        BY <4>1, <4>2
    <3>6. Len(trace') = IF Kept(todo) < FrameLimit THEN Kept(todo) ELSE FrameLimit
      BY <1>2, <1>5, <1>10, <3>3, <3>4
    <3>7. todo' - 1 = todo
      BY <1>4, <2>1
    <3>8. \A n : Kept(n)' = Kept(n) /\ (SkipFrame(frames[n])' <=> SkipFrame(frames[n]))
      BY <1>1, <1>6 DEF SkipFrame
    <3>9. Kept(todo - 1)' = Kept(todo)
      BY <3>7, <3>8
    <3>10. ASSUME NEW i \in 1..todo, ~SkipFrame(frames[i])', Kept(i)' <= FrameLimit
           PROVE  trace'[Kept(i)'] = frames'[i]
      BY <1>1, <3>5, <3>8, <3>10
    <3>11. Ranked(todo - 1)'
      BY <3>6, <3>7, <3>9, <3>10 DEF Ranked, FrameLimit
    <3>12. QED
      BY <1>1, <1>3, <2>1, <3>3, <3>4, <3>9, <3>11 DEF Recording
  <2>4. QED
    BY <2>2, <2>3
<1>11. CASE ~(todo <= Len(frames) /\ Len(trace) < FrameLimit)
  <2>1. pc' = "find" /\ todo' = Len(trace) /\ trace' = trace
    BY <1>1, <1>11 DEF WalkFrame
  <2>2. Ranked(Len(frames))
    <3>1. CASE todo > Len(frames)
      <4>1. todo - 1 = Len(frames)
        BY <1>2, <3>1
      <4>2. QED
        BY <1>3, <4>1
    <3>2. CASE todo <= Len(frames)
      <4>1. Len(trace) = FrameLimit /\ Kept(todo - 1) = FrameLimit
        BY <1>2, <1>3, <1>5, <1>8, <1>11, <3>2
      <4>2. Kept(todo - 1) <= Kept(Len(frames)) /\ Kept(Len(frames)) \in Nat
        <5>1. todo - 1 \in Nat /\ Len(frames) \in Nat /\ todo - 1 <= Len(frames)
          BY <1>2, <1>4, <3>2
        <5>2. QED
          BY <5>1, KeptMonotone, KeptType
      <4>3. ASSUME NEW i \in 1..Len(frames), ~SkipFrame(frames[i]), Kept(i) <= FrameLimit
            PROVE  trace[Kept(i)] = frames[i]
        <5>1. CASE i <= todo - 1
          <6>1. i \in 1..todo - 1
            BY <1>4, <5>1
          <6>2. QED
            BY <1>3, <4>3, <6>1 DEF Ranked
        <5>2. CASE ~(i <= todo - 1)
          <6>1. i - 1 \in Nat /\ (i - 1) + 1 = i /\ todo - 1 <= i - 1
            BY <1>4, <5>2
          <6>2. Kept(i) = Kept(i - 1) + 1 /\ Kept(i - 1) \in Nat
            BY <4>3, <6>1, KeptNext, KeptType
          <6>3. Kept(todo - 1) <= Kept(i - 1)
            BY <1>4, <6>1, KeptMonotone
          <6>4. FALSE
            BY <1>5, <4>1, <4>3, <6>2, <6>3
          <6>5. QED
            BY <6>4
        <5>3. QED
          BY <5>1, <5>2
      <4>4. Len(trace) = IF Kept(Len(frames)) < FrameLimit THEN Kept(Len(frames)) ELSE FrameLimit
        BY <1>5, <4>1, <4>2
      <4>5. QED
        BY <4>3, <4>4 DEF Ranked
    <3>3. QED
      BY <1>2, <3>1, <3>2
  <2>3. Ranked(Len(frames))'
    BY <1>1, <2>1, <2>2, RankedSame
  <2>4. Tells(trace_leaves_, content, 0, trace, Len(trace))
    <3>1. SaidBy(content, TraceOf(trace_leaves_, 0)) = <<>>
      BY <1>2, TraceUnfolds DEF Tree, SaidBy
    <3>2. QED
      BY <1>2, <3>1 DEF Tells
  <2>5. QED
    BY <1>1, <1>3, <2>1, <2>3, <2>4 DEF Recording
<1>12. QED
  BY <1>10, <1>11

\* One frame that is found, or interned.
LEMMA DeeperRecording ==
  ASSUME Inv, Tree, Tree', Recording, pc \in {"find", "intern"}, pc' = pc,
         content' = content, frames' = frames, trace' = trace,
         todo \in 1..Len(trace), todo' = todo - 1,
         trace_leaves_' \in Seq(CallFrame),
         \A h \in 0..Len(trace_leaves_) :
           TraceOf(trace_leaves_', h) = TraceOf(trace_leaves_, h),
         parent' \in 1..Len(trace_leaves_'),
         trace_leaves_'[parent'].parent = parent,
         content[trace_leaves_'[parent'].loc] = content[trace[todo]]
  PROVE  Recording'
<1>1. trace \in Seq(Strings) /\ parent \in 0..Len(trace_leaves_)
  BY DEF Inv, TypeOK
<1>2. Ranked(Len(frames)) /\ Tells(trace_leaves_, content, parent, trace, todo)
  BY DEF Recording
<1>3. Tells(trace_leaves_', content, parent, trace, todo)
  BY <1>1, <1>2 DEF Tells
<1>4. Tells(trace_leaves_', content, parent', trace, todo - 1)
  BY <1>1, <1>3, TellsMore DEF Tree
<1>5. Ranked(Len(frames))'
  BY <1>2, RankedSame
<1>6. QED
  BY <1>4, <1>5 DEF Recording

LEMMA FoundFrame ==
  ASSUME Inv, NEW s, NEW f \in EqualFrames(s)
  PROVE  /\ f \in 1..Len(trace_leaves_)
         /\ trace_leaves_[f].parent = parent
         /\ content[trace_leaves_[f].loc] = content[s]
  BY DEF EqualFrames, EqualPyString, Inv, TypeOK

LEMMA NextRecording == Inv /\ Inv' /\ Tree /\ Tree' /\ Recording /\ [Next]_vars => Recording'
<1> SUFFICES ASSUME Inv, Inv', Tree, Tree', Recording, [Next]_vars PROVE Recording'
  OBVIOUS
<1>1. TypeOK /\ TypeOK' /\ IdleOK
  BY DEF Inv
<1>2. ASSUME pc' = "idle" PROVE Recording'
  BY <1>2 DEF Recording
<1>3. ASSUME NEW s \in Strings, DropString(s) \/ \E c \in Contents : NewString(s, c)
      PROVE  Recording'
  BY <1>2, <1>3 DEF DropString, NewString
<1>4. CASE FreeCallTrace \/ Reset
  BY <1>2, <1>4 DEF FreeCallTrace, Reset, local
<1>5. CASE GetCurrentCallTrace
  <2>1. /\ pc = "idle" /\ pc' = "walk" /\ todo' = 1
        /\ trace' = trace /\ parent' = parent
    BY <1>5 DEF GetCurrentCallTrace
  <2>2. trace' = <<>> /\ parent' = 0
    BY <1>1, <2>1 DEF IdleOK
  <2>3. Kept(0)' = 0
    <3>1. {i \in 1..0 : ~SkipFrame(frames[i])'} = {}
      OBVIOUS
    <3>2. QED
      BY <3>1, FS_EmptySet DEF Kept
  <2>4. FrameLimit \in Nat
    BY FrameLimitType
  <2>5. Ranked(0)'
    BY <2>2, <2>3, <2>4 DEF Ranked, FrameLimit
  <2>6. Kept(todo - 1)' = 0 /\ Ranked(todo - 1)'
    BY <2>1, <2>3, <2>5
  <2>7. QED
    BY <2>1, <2>2, <2>6 DEF Recording
<1>6. CASE WalkFrame
  BY <1>6, WalkRecording
<1>7. CASE FindFrame
  <2>1. /\ content' = content /\ frames' = frames /\ trace' = trace
        /\ trace_leaves_' = trace_leaves_ /\ pc = "find"
        /\ todo \in 0..Len(trace) /\ Len(trace) \in Nat
    BY <1>1, <1>7 DEF FindFrame, heap, TypeOK
  <2>2. CASE pc' = "intern" /\ todo' = todo /\ parent' = parent
    <3>1. Ranked(Len(frames)) /\ Tells(trace_leaves_, content, parent, trace, todo)
      BY <2>1 DEF Recording
    <3>2. Ranked(Len(frames))'
      BY <2>1, <3>1, RankedSame
    <3>3. QED
      BY <2>1, <2>2, <3>1, <3>2 DEF Recording
  <2>3. ASSUME todo # 0,
               NEW f \in Lookup(trace[todo]), f # 0, parent' = f, todo' = todo - 1, pc' = pc
        PROVE  Recording'
    <3>1. f \in EqualFrames(trace[todo])
      BY <2>3 DEF Lookup
    <3>2. /\ f \in 1..Len(trace_leaves_) /\ trace_leaves_[f].parent = parent
          /\ content[trace_leaves_[f].loc] = content[trace[todo]]
      BY <3>1, FoundFrame
    <3>3. todo \in 1..Len(trace)
      BY <2>1, <2>3
    <3>4. trace_leaves_' \in Seq(CallFrame)
      BY <1>1 DEF TypeOK
    <3>5. QED
      BY <2>1, <2>3, <3>2, <3>3, <3>4, DeeperRecording
  <2>4. QED
    BY <1>7, <2>2, <2>3 DEF FindFrame
<1>8. CASE InternFrame
  <2>1. CASE todo = 0
    <3>1. /\ content' = content /\ frames' = frames /\ trace' = trace
          /\ trace_leaves_' = trace_leaves_ /\ parent' = parent /\ todo' = todo
          /\ pc = "intern" /\ pc' = "free"
      BY <1>8, <2>1 DEF InternFrame
    <3>2. Ranked(Len(frames)) /\ Tells(trace_leaves_, content, parent, trace, todo)
      BY <3>1 DEF Recording
    <3>3. Ranked(Len(frames))'
      BY <3>1, <3>2, RankedSame
    <3>4. QED
      BY <2>1, <3>1, <3>2, <3>3 DEF Recording
  <2>2. CASE todo # 0
    <3> DEFINE s == InternString(trace[todo]).string
    <3>1. /\ content' = content /\ frames' = frames /\ trace' = trace
          /\ pc = "intern" /\ pc' = pc
          /\ todo \in 1..Len(trace) /\ todo' = todo - 1
          /\ s \in Strings /\ content[s] = content[trace[todo]]
          /\ \/ /\ trace_leaves_' = trace_leaves_
                /\ parent' \in EqualFrames(s)
             \/ /\ AddsFrame(s)
                /\ parent' = Len(trace_leaves_) + 1
      BY <1>8, <2>2, InternFrameDoes
    <3> HIDE DEF s
    <3>2. /\ trace_leaves_ \in Seq(CallFrame) /\ trace_leaves_' \in Seq(CallFrame)
          /\ parent \in Nat
      BY <1>1 DEF TypeOK
    <3>3. CASE trace_leaves_' = trace_leaves_ /\ parent' \in EqualFrames(s)
      <4>1. /\ parent' \in 1..Len(trace_leaves_) /\ trace_leaves_[parent'].parent = parent
            /\ content[trace_leaves_[parent'].loc] = content[s]
        BY <3>3, FoundFrame
      <4>2. QED
        BY <3>1, <3>2, <3>3, <4>1, DeeperRecording
    <3>4. CASE AddsFrame(s) /\ parent' = Len(trace_leaves_) + 1
      <4>1. \A h \in 0..Len(trace_leaves_) :
              TraceOf(trace_leaves_', h) = TraceOf(trace_leaves_, h)
        BY <3>1, <3>4, AddsFrameTree
      <4>2. trace_leaves_' = Append(trace_leaves_, [parent |-> parent, loc |-> s])
        BY <3>4 DEF AddsFrame
      <4>3. /\ parent' \in 1..Len(trace_leaves_')
            /\ trace_leaves_'[parent'] = [parent |-> parent, loc |-> s]
        BY <3>2, <3>4, <4>2
      <4>4. trace_leaves_'[parent'].parent = parent /\ trace_leaves_'[parent'].loc = s
        BY <4>3
      <4>5. QED
        BY <3>1, <3>2, <4>1, <4>3, <4>4, DeeperRecording
    <3>5. QED
      BY <3>1, <3>3, <3>4
  <2>3. QED
    BY <2>1, <2>2
<1>9. CASE UNCHANGED vars
  <2>1. /\ content' = content /\ frames' = frames /\ trace' = trace /\ parent' = parent
        /\ trace_leaves_' = trace_leaves_ /\ todo' = todo /\ pc' = pc
    BY <1>9 DEF vars
  <2>2. \A n : Kept(n)' = Kept(n) /\ (Ranked(n)' <=> Ranked(n))
    BY <2>1, RankedSame
  <2>3. QED
    BY <2>1, <2>2 DEF Recording
<1>10. QED
  BY <1>3, <1>4, <1>5, <1>6, <1>7, <1>8, <1>9 DEF Next

LEMMA RecordingAlways == Spec => []Recording
<1>1. QED
  BY InvAlways, TreeAlways, InitRecording, NextRecording, PTL DEF Spec

(***************************************************************************)
(* The handle that goes into the live set is the call stack that was       *)
(* walked: its innermost frames, without the skipped ones, in their order, *)
(* and as many as the limit has room for.                                  *)
(***************************************************************************)
THEOREM InternReturnsTheStack == Spec => []InternReturnsTrace
<1>1. Inv /\ Recording => InternReturnsTrace
  <2>1. SUFFICES ASSUME Inv, Recording, pc = "free" PROVE InternReturnsTrace
    BY DEF InternReturnsTrace
  <2> DEFINE told == Said(GetTrace(parent))
  <2>2. Ranked(Len(frames)) /\ Tells(trace_leaves_, content, parent, trace, 0)
    BY <2>1 DEF Recording
  <2>3. told = SaidBy(content, TraceOf(trace_leaves_, parent))
    BY GetTraceIs, SaidIs
  <2>4. trace \in Seq(Strings) /\ frames \in Seq(Strings)
    BY <2>1 DEF Inv, TypeOK
  <2>5. Len(told) = Len(trace) /\ \A j \in 1..Len(trace) : told[j] = content[trace[j]]
    BY <2>2, <2>3, <2>4 DEF Tells
  <2> HIDE DEF told
  <2>6. ASSUME NEW i \in DOMAIN frames, ~SkipFrame(frames[i]), Kept(i) <= FrameLimit
        PROVE  told[Kept(i)] = content[frames[i]]
    <3>1. i \in 1..Len(frames) /\ i - 1 \in Nat /\ (i - 1) + 1 = i /\ Len(frames) \in Nat
      BY <2>4
    <3>2. trace[Kept(i)] = frames[i]
      BY <2>2, <2>6, <3>1 DEF Ranked
    <3>3. Kept(i) = Kept(i - 1) + 1 /\ Kept(i - 1) \in Nat
      BY <2>6, <3>1, KeptNext, KeptType
    <3>4. Kept(i) <= Kept(Len(frames)) /\ Kept(Len(frames)) \in Nat /\ FrameLimit \in Nat
      <4>1. i \in Nat /\ i <= Len(frames)
        BY <3>1
      <4>2. QED
        BY <3>1, <4>1, KeptMonotone, KeptType, FrameLimitType
    <3>5. Kept(i) <= Len(trace)
      BY <2>2, <2>6, <3>3, <3>4 DEF Ranked
    <3>6. Kept(i) \in 1..Len(trace)
      BY <2>4, <3>3, <3>5
    <3>7. QED
      BY <2>5, <3>2, <3>6
  <2>7. Len(told) = IF Kept(Len(frames)) < FrameLimit THEN Kept(Len(frames)) ELSE FrameLimit
    BY <2>2, <2>5 DEF Ranked
  <2>8. QED
    BY <2>6, <2>7 DEF InternReturnsTrace, told
<1>2. QED
  BY InvAlways, RecordingAlways, <1>1, PTL
=============================================================================
