---------------------------- MODULE TaskServiceProofs ---------------------------
(***************************************************************************)
(* What a client may rely on, proved of module TaskService for every set   *)
(* of submissions.  The argument is that Line, the reported tasks followed *)
(* by the running one and the pending ones, is changed by Accept alone,    *)
(* which appends a submission that is not in it.  By theorem Implements of *)
(* SchedulerProofs it holds of the scheduler's threads as well.            *)
(***************************************************************************)
EXTENDS TaskService, TLAPS

\* The tasks in the server are submissions, and none of them is "no task".
Typed ==
  /\ requested \subseteq Tasks
  /\ pending \in Seq(Tasks)
  /\ running \in Tasks \cup {NoTask}
  /\ reported \in Seq(Tasks)

\* The task whose time is running, as a sequence of at most one.
Current == IF running = NoTask THEN <<>> ELSE <<running>>

-----------------------------------------------------------------------------
(* Sequences                                                                *)

\* The elements of a concatenation are those of its parts.
LEMMA ConcatElements ==
  ASSUME NEW S, NEW s \in Seq(S), NEW t \in Seq(S)
  PROVE  Elements(s \o t) = Elements(s) \cup Elements(t)
<1>1. ASSUME NEW i \in DOMAIN (s \o t)
      PROVE  (s \o t)[i] \in Elements(s) \cup Elements(t)
  <2>1. CASE i \in DOMAIN s
    BY <2>1 DEF Elements
  <2>2. CASE i \notin DOMAIN s
    <3>1. i - Len(s) \in DOMAIN t /\ (s \o t)[i] = t[i - Len(s)]
      BY <2>2
    <3>. QED  BY <3>1 DEF Elements
  <2>. QED  BY <2>1, <2>2
<1>2. ASSUME NEW i \in DOMAIN s
      PROVE  s[i] \in Elements(s \o t)
  <2>1. i \in DOMAIN (s \o t) /\ (s \o t)[i] = s[i]
    OBVIOUS
  <2>. QED  BY <2>1 DEF Elements
<1>3. ASSUME NEW i \in DOMAIN t
      PROVE  t[i] \in Elements(s \o t)
  <2>1. Len(s) + i \in DOMAIN (s \o t) /\ (s \o t)[Len(s) + i] = t[i]
    OBVIOUS
  <2>. QED  BY <2>1 DEF Elements
<1>. QED  BY <1>1, <1>2, <1>3 DEF Elements

\* Moving the first element of a sequence to the end of the one before it
\* changes nothing in what they are together.
LEMMA HeadMoves ==
  ASSUME NEW S, NEW s \in Seq(S), NEW t \in Seq(S), t # <<>>
  PROVE  s \o (<<Head(t)>> \o Tail(t)) = s \o t
<1>1. <<Head(t)>> \o Tail(t) = t
  OBVIOUS
<1>. QED  BY <1>1

\* Concatenation is associative.
LEMMA ConcatAssoc ==
  ASSUME NEW S, NEW s \in Seq(S), NEW t \in Seq(S), NEW u \in Seq(S)
  PROVE  (s \o t) \o u = s \o (t \o u)
OBVIOUS

-----------------------------------------------------------------------------
(* The steps                                                                *)

\* Every step keeps the types.
LEMMA TypedSteps ==
  ASSUME NoTask \notin Tasks, Typed, [Next]_vars
  PROVE  Typed'
<1>1. ASSUME NEW k \in Tasks, Request(k) PROVE Typed'
  BY <1>1 DEF Typed, Request
<1>2. ASSUME NEW k \in Tasks, Accept(k) PROVE Typed'
  BY <1>2 DEF Typed, Accept
<1>3. CASE Start
  BY <1>3 DEF Typed, Start
<1>4. CASE Report
  BY <1>4 DEF Typed, Report
<1>5. CASE StopServing
  BY <1>5 DEF Typed, StopServing
<1>6. CASE UNCHANGED vars
  BY <1>6 DEF Typed, vars
<1>. QED  BY <1>1, <1>2, <1>3, <1>4, <1>5, <1>6 DEF Next

\* The line is a sequence of submissions: the accepted ones.
LEMMA LineAccepted ==
  ASSUME NoTask \notin Tasks, Typed
  PROVE  Line \in Seq(Tasks) /\ \A k \in Tasks : k \in Elements(Line) <=> k \in Accepted
<1>1. Current \in Seq(Tasks)
  BY DEF Typed, Current
<1>2. reported \o Current \in Seq(Tasks)
  BY <1>1 DEF Typed
<1>3. Elements(Line) = (Elements(reported) \cup Elements(Current)) \cup Elements(pending)
  <2>1. Line = (reported \o Current) \o pending
    BY DEF Line, Current
  <2>2. pending \in Seq(Tasks) /\ reported \in Seq(Tasks)
    BY DEF Typed
  <2>3. Elements((reported \o Current) \o pending) = Elements(reported \o Current) \cup Elements(pending)
    <3>1. PICK r : r = reported \o Current
      OBVIOUS
    <3>2. r \in Seq(Tasks)
      BY <1>2, <3>1
    <3>3. Elements(r \o pending) = Elements(r) \cup Elements(pending)
      BY <2>2, <3>2, ConcatElements
    <3>. QED  BY <3>1, <3>3
  <2>4. Elements(reported \o Current) = Elements(reported) \cup Elements(Current)
    BY <1>1, <2>2, ConcatElements
  <2>. QED  BY <2>1, <2>3, <2>4
<1>4. \A k \in Tasks : k \in Elements(Current) <=> k = running
  BY DEF Typed, Current, Elements
<1>5. Line \in Seq(Tasks)
  BY <1>2 DEF Typed, Line, Current
<1>. QED  BY <1>3, <1>4, <1>5 DEF Accepted

\* A step leaves the line alone or appends a submission that is not in it.
LEMMA LineSteps ==
  ASSUME NoTask \notin Tasks, Typed, [Next]_vars
  PROVE  \/ Line' = Line
         \/ \E k \in Tasks \ Elements(Line) : Line' = Append(Line, k)
<1>1. ASSUME NEW k \in Tasks, Request(k) PROVE Line' = Line
  BY <1>1 DEF Line, Request
<1>2. ASSUME NEW k \in Tasks, Accept(k)
      PROVE  k \notin Elements(Line) /\ Line' = Append(Line, k)
  <2>1. k \notin Elements(Line)
    BY <1>2, LineAccepted DEF Accept
  <2>2. Current \in Seq(Tasks) /\ pending \in Seq(Tasks) /\ reported \in Seq(Tasks)
    BY DEF Typed, Current
  <2>3. Line = (reported \o Current) \o pending
    BY DEF Line, Current
  <2>4. Line' = (reported \o Current) \o Append(pending, k)
    BY <1>2 DEF Line, Current, Accept
  <2>5. reported \o Current \in Seq(Tasks)
    BY <2>2
  <2>6. (reported \o Current) \o Append(pending, k) = Append((reported \o Current) \o pending, k)
    BY <2>2, <2>5
  <2>. QED  BY <2>1, <2>3, <2>4, <2>6
<1>3. CASE Start
  <2>1. Line = reported \o pending
    BY <1>3 DEF Line, Start, Typed
  <2>2. Head(pending) \in Tasks /\ Tail(pending) \in Seq(Tasks)
    BY <1>3 DEF Start, Typed
  <2>3. /\ running' = Head(pending) /\ running' # NoTask
        /\ reported' = reported /\ pending' = Tail(pending)
    BY <1>3, <2>2 DEF Start
  <2>4. Line' = (reported \o <<Head(pending)>>) \o Tail(pending)
    BY <2>3 DEF Line
  <2>5. (reported \o <<Head(pending)>>) \o Tail(pending) = reported \o (<<Head(pending)>> \o Tail(pending))
    BY <2>2, ConcatAssoc DEF Typed
  <2>. QED  BY <1>3, <2>1, <2>4, <2>5, HeadMoves DEF Start, Typed
<1>4. CASE Report
  <2>1. Append(reported, running) = reported \o <<running>>
    BY <1>4 DEF Report, Typed
  <2>2. Append(reported, running) \in Seq(Tasks)
    BY <1>4 DEF Report, Typed
  <2>3. Append(reported, running) \o <<>> = Append(reported, running)
    BY <2>2
  <2>4. Line = Append(reported, running) \o pending
    BY <1>4, <2>1 DEF Line, Report
  <2>5. Line' = (Append(reported, running) \o <<>>) \o pending
    BY <1>4 DEF Line, Report
  <2>. QED  BY <2>3, <2>4, <2>5
<1>5. CASE StopServing
  BY <1>5 DEF Line, StopServing
<1>6. CASE UNCHANGED vars
  BY <1>6 DEF Line, vars
<1>. QED  BY <1>1, <1>2, <1>3, <1>4, <1>5, <1>6 DEF Next

-----------------------------------------------------------------------------
(* The theorems                                                             *)

\* Types hold in every state.
THEOREM TypeCorrect ==
  ASSUME NoTask \notin Tasks PROVE SafeSpec => []Typed
<1>1. Init => Typed
  BY DEF Init, Typed
<1>2. Typed /\ [Next]_vars => Typed'
  BY TypedSteps
<1>. QED  BY <1>1, <1>2, PTL DEF SafeSpec

\* A submission is accepted once, so no assignee is told twice of a task that
\* was queued once.
THEOREM AcceptedOnce ==
  ASSUME NoTask \notin Tasks PROVE SafeSpec => []AtMostOnce
<1>1. Init => Typed /\ AtMostOnce
  <2>. SUFFICES ASSUME Init PROVE AtMostOnce
    BY DEF Init, Typed
  <2>1. Line = <<>>
    BY DEF Init, Line
  <2>. QED  BY <2>1 DEF AtMostOnce
<1>2. Typed /\ AtMostOnce /\ [Next]_vars => AtMostOnce'
  <2>. SUFFICES ASSUME Typed, AtMostOnce, [Next]_vars PROVE AtMostOnce'
    OBVIOUS
  <2>1. Line \in Seq(Tasks)
    BY LineAccepted
  <2>2. CASE Line' = Line
    BY <2>2 DEF AtMostOnce
  <2>3. ASSUME NEW k \in Tasks \ Elements(Line), Line' = Append(Line, k)
        PROVE  AtMostOnce'
    <3>1. \A i \in DOMAIN Line : Line[i] # k
      BY DEF Elements
    <3>2. \A i \in DOMAIN Line' : i \in DOMAIN Line \/ i = Len(Line) + 1
      BY <2>1, <2>3
    <3>3. \A i \in DOMAIN Line : Line'[i] = Line[i]
      BY <2>1, <2>3
    <3>4. Line'[Len(Line) + 1] = k
      BY <2>1, <2>3
    <3>. QED  BY <3>1, <3>2, <3>3, <3>4 DEF AtMostOnce
  <2>. QED  BY <2>2, <2>3, LineSteps
<1>. QED  BY <1>1, <1>2, TypeCorrect, PTL DEF SafeSpec

\* First come, first served: no step takes a task out of the line or changes
\* its place in it.
THEOREM FirstComeFirstServed ==
  ASSUME NoTask \notin Tasks PROVE SafeSpec => OrderKept
<1>1. Typed /\ [Next]_vars =>
        [\A i \in DOMAIN Line : i \in DOMAIN Line' /\ Line'[i] = Line[i]]_vars
  <2>. SUFFICES ASSUME Typed, [Next]_vars
                PROVE  \A i \in DOMAIN Line : i \in DOMAIN Line' /\ Line'[i] = Line[i]
    OBVIOUS
  <2>1. Line \in Seq(Tasks)
    BY LineAccepted
  <2>. QED  BY <2>1, LineSteps
<1>. QED  BY <1>1, TypeCorrect, PTL DEF SafeSpec, OrderKept
=============================================================================
