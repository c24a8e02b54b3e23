------------------------------ MODULE ServerProofs ------------------------------
(***************************************************************************)
(* What Server promises, proved for every set of io threads, tasks,        *)
(* sessions and messages.                                                  *)
(*                                                                         *)
(* Every step of the server is a step of Scheduler or leaves its variables *)
(* alone, and the same of WebSocketSessions, except that an exception in   *)
(* either ends both.  So the inductive invariants that SchedulerProofs and *)
(* WebSocketProofs prove are invariants of the server, and what is left to *)
(* prove is what the two do to each other: which thread runs which         *)
(* handler, and in which order the reports of the one become messages of   *)
(* the other.  The server implements TaskService, as Scheduler does.       *)
(***************************************************************************)
EXTENDS Server, SequenceTheorems, TLAPS

-----------------------------------------------------------------------------
(* The components, with their theorems                                      *)

\* The queue, the timer and process_tasks.
TaskProofs == INSTANCE SchedulerProofs WITH posted <- asked

\* The registry and the sessions.
ChatProofs == INSTANCE WebSocketProofs WITH
                Updates <- Tasks, Malformed <- BadMessages

\* What they assume follows from what the server assumes.
LEMMA Assumptions ==
  /\ TaskProofs!ThreadAssumption /\ TaskProofs!TaskAssumption
  /\ ChatProofs!SessionAssumption /\ ChatProofs!MessageAssumption
<1>1. TaskProofs!ThreadAssumption
  BY ThreadAssumption DEF TaskProofs!Threads
<1>2. TaskProofs!TaskAssumption
  BY TaskAssumption
<1>3. ChatProofs!SessionAssumption
  BY SessionAssumption DEF ChatProofs!Callers
<1>4. ChatProofs!MessageAssumption
  BY MessageAssumption
<1>. QED  BY <1>1, <1>2, <1>3, <1>4

-----------------------------------------------------------------------------
(* The inductive invariant                                                  *)

\* A thread that runs an on_read does nothing else, every running on_read has a
\* thread of its own, and the timer's send is made by a thread that will call
\* process_tasks after it.
Serving ==
  /\ serves \in [IoThreads -> Sessions \cup {Nobody}]
  /\ \A t \in IoThreads : serves[t] # Nobody => pc[t] = "idle" /\ at[serves[t]] # "idle"
  /\ \A s \in Sessions : at[s] # "idle" => \E t \in IoThreads : serves[t] = s
  /\ \A t, u \in IoThreads : serves[t] # Nobody /\ serves[t] = serves[u] => t = u
  /\ at[Timer] # "idle" => \E t \in IoThreads : pc[t] \in {"update", "lock"}

\* The tasks that were reported.
Reports == {updates[i] : i \in DOMAIN updates}

\* A task is reported once.  While the timer scans it is the task of the only
\* thread that runs the timer's handler, from then on the one reported last.
Reported ==
  /\ \A i, j \in DOMAIN updates : updates[i] = updates[j] => i = j
  /\ Reports \cap inbox = {}
  /\ at[Timer] = "scan" =>
       /\ msg[Timer] \notin Reports
       /\ \A t \in IoThreads : pc[t] = "update" => job[t] = msg[Timer]
  /\ at[Timer] \in {"fan", "post"} => updates # <<>> /\ msg[Timer] = updates[Len(updates)]

\* The inductive invariant.
SInv ==
  /\ TaskProofs!IInv /\ ChatProofs!IInv
  /\ Serving /\ Reported /\ ToldInOrder

-----------------------------------------------------------------------------
(* Every step of the server, seen by its components                         *)

\* The steps that belong to the queue, the timer and process_tasks.
TaskMove ==
  /\ up
  /\ \/ Expire \/ RunTimer \/ EndScan
     \/ \E k \in Tasks : Request(k) \/ RunPost(k)
     \/ \E t \in Tasking!Threads : TakeMutex(t) \/ Continue(t)

\* The steps that belong to the registry and the sessions; EndScan is of both.
ChatMove ==
  /\ up
  /\ \/ StartUpdate \/ EndScan
     \/ \E s \in Sessions :
          \/ RunSession(s) \/ StartRead(s) \/ CopySessions(s) \/ FinishRead(s)
          \/ RunOnSend(s) \/ RunOnWrite(s) \/ Leave(s)
     \/ \E c \in Sessions \cup {Timer} : ContinueSend(c)

\* A step of the first kind is one of Scheduler, any other leaves it alone.
LEMMA TaskingStep ==
  ASSUME [Next]_vars
  PROVE  IF TaskMove THEN TaskProofs!Next ELSE UNCHANGED taskVars
<1>1. ASSUME up, NEW k \in Tasks, Request(k) \/ RunPost(k) PROVE TaskProofs!Next
  BY <1>1 DEF Request, RunPost, Tasking!Request, Tasking!RunPost, Tasking!PostThrows, Tasking!Goto,
       TaskProofs!Request, TaskProofs!RunPost, TaskProofs!PostThrows, TaskProofs!Goto,
       TaskProofs!Run, TaskProofs!Next
<1>2. ASSUME up, Expire \/ RunTimer PROVE TaskProofs!Next
  BY <1>2 DEF Expire, RunTimer, Tasking!Expire, Tasking!RunTimer, Tasking!Goto,
       TaskProofs!Expire, TaskProofs!RunTimer, TaskProofs!Goto,
       TaskProofs!Run, TaskProofs!Next
<1>3. ASSUME up, EndScan PROVE TaskProofs!Next
  BY <1>3 DEF EndScan, Tasking!SendUpdate, Tasking!Goto,
       TaskProofs!SendUpdate, TaskProofs!Goto,
       TaskProofs!ProcessTasks, TaskProofs!Next, TaskProofs!Threads
<1>4. ASSUME up, NEW t \in Tasking!Threads, TakeMutex(t) PROVE TaskProofs!Next
  BY <1>4 DEF TakeMutex, Tasking!PushBack, Tasking!Lock, Tasking!Goto, Tasking!Threads,
       TaskProofs!PushBack, TaskProofs!Lock, TaskProofs!Goto, TaskProofs!PushTask,
       TaskProofs!ProcessTasks, TaskProofs!Next, TaskProofs!Threads
<1>5. ASSUME up, NEW t \in Tasking!Threads, Continue(t) PROVE TaskProofs!Next
  <2>1. CASE t \in IoThreads /\ (Tasking!PushUnlock(t) \/ Tasking!PushNotify(t))
    BY <1>5, <2>1 DEF Tasking!PushUnlock, Tasking!PushNotify, Tasking!Goto, Tasking!Waiting,
         Tasking!Threads, TaskProofs!PushUnlock, TaskProofs!PushNotify, TaskProofs!Goto,
         TaskProofs!Waiting, TaskProofs!PushTask, TaskProofs!Next, TaskProofs!Threads
  <2>2. CASE Tasking!TestEmpty(t) \/ Tasking!TestNonEmpty(t) \/ Tasking!Take(t) \/ Tasking!Arm(t) \/ Tasking!Release(t)
    BY <1>5, <2>2 DEF Tasking!TestEmpty, Tasking!TestNonEmpty, Tasking!Take, Tasking!Arm,
         Tasking!Release, Tasking!Goto, Tasking!Threads,
       TaskProofs!TestEmpty, TaskProofs!TestNonEmpty, TaskProofs!Take, TaskProofs!Arm,
       TaskProofs!Release, TaskProofs!Goto, TaskProofs!ProcessTasks,
       TaskProofs!Next, TaskProofs!Threads
  <2>. QED  BY <1>5, <2>1, <2>2 DEF Continue
<1>6. ASSUME ChatMove, ~EndScan PROVE UNCHANGED taskVars
  BY <1>6 DEF ChatMove, StartUpdate, RunOnSend, RunOnWrite, CopySessions, FinishRead, Leave,
       RunSession, StartRead, ContinueSend, OnlyChat
<1>. QED
  BY <1>1, <1>2, <1>3, <1>4, <1>5, <1>6 DEF Next, Progress, World, TaskMove, ChatMove, vars

\* A step of the second kind is one of WebSocketSessions, any other leaves it
\* alone.
LEMMA ChatStep ==
  ASSUME [Next]_vars
  PROVE  IF ChatMove THEN ChatProofs!Next ELSE UNCHANGED chatVars
<1>1. ASSUME up, NEW s \in Sessions, RunSession(s) PROVE ChatProofs!Next
  BY <1>1 DEF RunSession, Chat!Upgrade, Chat!AcceptFails, Chat!ReadFails, Chat!Accept,
       Chat!ReadThrows, Chat!StrandFree, Chat!MutexFree, Chat!session, Chat!stream, Chat!caller,
       ChatProofs!Upgrade, ChatProofs!AcceptFails, ChatProofs!ReadFails, ChatProofs!Accept,
       ChatProofs!ReadThrows, ChatProofs!StrandFree, ChatProofs!MutexFree, ChatProofs!session,
       ChatProofs!stream, ChatProofs!caller, ChatProofs!Life, ChatProofs!Read, ChatProofs!Next
<1>2. ASSUME up, NEW s \in Sessions, RunOnSend(s) \/ RunOnWrite(s) PROVE ChatProofs!Next
  BY <1>2 DEF RunOnSend, RunOnWrite, Chat!OnSend, Chat!Write, Chat!OnWrite, Chat!WriteFails,
       Chat!StrandFree, Chat!session, Chat!stream, Chat!caller,
       ChatProofs!OnSend, ChatProofs!Write, ChatProofs!OnWrite, ChatProofs!WriteFails,
       ChatProofs!StrandFree, ChatProofs!session, ChatProofs!stream, ChatProofs!caller,
       ChatProofs!Next
<1>3. ASSUME up, NEW s \in Sessions, StartRead(s) PROVE ChatProofs!Next
  BY <1>3 DEF StartRead, Chat!ReadMessage, Chat!StrandFree, Chat!session,
       ChatProofs!ReadMessage, ChatProofs!StrandFree, ChatProofs!session,
       ChatProofs!Read, ChatProofs!Next
<1>4. ASSUME up, NEW s \in Sessions, CopySessions(s) PROVE ChatProofs!Next
  BY <1>4 DEF CopySessions, Chat!CopySessions, Chat!MutexFree, Chat!session, Chat!stream,
       ChatProofs!CopySessions, ChatProofs!MutexFree, ChatProofs!session, ChatProofs!stream,
       ChatProofs!Send, ChatProofs!Callers, ChatProofs!Next
<1>5. ASSUME up, NEW s \in Sessions, FinishRead(s) PROVE ChatProofs!Next
  BY <1>5 DEF FinishRead, Chat!Finish, Chat!session, ChatProofs!Finish, ChatProofs!session,
       ChatProofs!Send, ChatProofs!Callers, ChatProofs!Next
<1>6. ASSUME up, NEW s \in Sessions, Leave(s) PROVE ChatProofs!Next
  BY <1>6 DEF Leave, Chat!Leave, Chat!Referenced, Chat!Callers, Chat!MutexFree, Chat!stream,
       Chat!caller, ChatProofs!Leave, ChatProofs!Referenced, ChatProofs!Callers,
       ChatProofs!MutexFree, ChatProofs!stream, ChatProofs!caller, ChatProofs!Life, ChatProofs!Next
<1>7. ASSUME up, NEW c \in Sessions \cup {Timer}, ContinueSend(c) PROVE ChatProofs!Next
  <2>1. CASE c \in Sessions /\ Chat!AssignUid(c)
    BY <1>7, <2>1 DEF Chat!AssignUid, Chat!stream, ChatProofs!AssignUid, ChatProofs!stream,
         ChatProofs!Next
  <2>2. CASE Chat!Finish(c) \/ Chat!Post(c)
    BY <1>7, <2>2 DEF Chat!Finish, Chat!Post, Chat!session, ChatProofs!Finish, ChatProofs!Post,
         ChatProofs!session, ChatProofs!Send, ChatProofs!Callers, ChatProofs!Next
  <2>3. CASE \E s \in Sessions : Chat!CompareUid(s)
    BY <1>7, <2>3 DEF Chat!CompareUid, Chat!session, Chat!stream, ChatProofs!CompareUid,
         ChatProofs!session, ChatProofs!stream, ChatProofs!Scan, ChatProofs!Next
  <2>4. CASE \E s \in Sessions : Chat!Lock(c, s)
    BY <1>7, <2>4 DEF Chat!Lock, Chat!Lockable, Chat!Referenced, Chat!Callers, Chat!session,
         Chat!stream, ChatProofs!Lock, ChatProofs!Lockable, ChatProofs!Referenced,
         ChatProofs!Callers, ChatProofs!session, ChatProofs!stream, ChatProofs!Send, ChatProofs!Next
  <2>. QED  BY <1>7, <2>1, <2>2, <2>3, <2>4 DEF ContinueSend
<1>8. ASSUME up, StartUpdate PROVE ChatProofs!Next
  BY <1>8 DEF StartUpdate, Chat!Update, Chat!session, Chat!stream, ChatProofs!Update,
       ChatProofs!session, ChatProofs!stream, ChatProofs!Next
<1>9. ASSUME up, EndScan PROVE ChatProofs!Next
  BY <1>9 DEF EndScan, Chat!EndScan, Chat!session, Chat!stream, ChatProofs!EndScan,
       ChatProofs!session, ChatProofs!stream, ChatProofs!Scan, ChatProofs!Next
<1>10. ASSUME TaskMove, ~EndScan PROVE UNCHANGED chatVars
  BY <1>10 DEF TaskMove, Expire, RunTimer, Request, RunPost, TakeMutex, Continue, OnlyTasks
<1>. QED
  BY <1>1, <1>2, <1>3, <1>4, <1>5, <1>6, <1>7, <1>8, <1>9, <1>10
     DEF Next, Progress, World, TaskMove, ChatMove, vars

\* Scheduler bears that the process ends without its doing.
LEMMA TaskingEnds ==
  ASSUME TaskProofs!IInv, UNCHANGED taskVars, up' \in BOOLEAN
  PROVE  TaskProofs!IInv'
<1>. USE DEF taskVars
<1>1. TaskProofs!Running' = TaskProofs!Running /\ TaskProofs!Accepted' = TaskProofs!Accepted
  BY DEF TaskProofs!Running, TaskProofs!Accepted, TaskProofs!Elements
<1>2. TaskProofs!TypeOK'
  BY DEF TaskProofs!IInv, TaskProofs!TypeOK
<1>3. TaskProofs!MutualExclusion' /\ TaskProofs!SingleProcessor' /\ TaskProofs!NoUnderflow'
  BY DEF TaskProofs!IInv, TaskProofs!MutualExclusion, TaskProofs!SingleProcessor,
       TaskProofs!NoUnderflow
<1>4. TaskProofs!NoLostWakeup' /\ TaskProofs!CurrIsRunning'
  BY DEF TaskProofs!IInv, TaskProofs!NoLostWakeup, TaskProofs!Waiting, TaskProofs!CurrIsRunning
<1>5. TaskProofs!CurrAfterReport'
  BY <1>1 DEF TaskProofs!IInv, TaskProofs!CurrAfterReport
<1>6. TaskProofs!OnePlace' /\ TaskProofs!AcceptedPosted'
  BY <1>1 DEF TaskProofs!IInv, TaskProofs!OnePlace, TaskProofs!AcceptedPosted
<1>. QED  BY <1>2, <1>3, <1>4, <1>5, <1>6 DEF TaskProofs!IInv

\* So does WebSocketSessions.
LEMMA ChatEnds ==
  ASSUME ChatProofs!IInv, UNCHANGED chatVars, up' \in BOOLEAN
  PROVE  ChatProofs!IInv'
<1>. USE DEF chatVars
<1>1. ChatProofs!TypeOK' /\ ChatProofs!CallersSound' /\ ChatProofs!WriterSound'
  BY DEF ChatProofs!IInv, ChatProofs!TypeOK, ChatProofs!CallersSound, ChatProofs!WriterSound,
       ChatProofs!OneWriter
<1>2. /\ \A s \in Sessions : ChatProofs!Line(s)' = ChatProofs!Line(s)
      /\ \A s \in Sessions : ChatProofs!Told(s)' = ChatProofs!Told(s)
  BY DEF ChatProofs!Line, ChatProofs!Told, ChatProofs!Elements
<1>3. /\ \A s \in Sessions : ChatProofs!Referenced(s)' = ChatProofs!Referenced(s)
      /\ \A s \in Sessions : ChatProofs!Lockable(s)' = ChatProofs!Lockable(s)
  BY DEF ChatProofs!Referenced, ChatProofs!Lockable
<1>4. ChatProofs!RegistrySound' /\ ChatProofs!NothingOutlives'
  BY <1>3 DEF ChatProofs!IInv, ChatProofs!RegistrySound, ChatProofs!NothingOutlives
<1>5. ChatProofs!Taken' /\ ChatProofs!OneTarget' /\ ChatProofs!NotYet' /\ ChatProofs!SnapshotSound'
  BY <1>2 DEF ChatProofs!IInv, ChatProofs!Taken, ChatProofs!OneTarget, ChatProofs!NotYet,
       ChatProofs!SnapshotSound
<1>6. ChatProofs!DeliveredOnce'
  BY <1>2 DEF ChatProofs!IInv, ChatProofs!DeliveredOnce, ChatProofs!Elements
<1>7. ChatProofs!BroadcastReaches'
  <2>1. \A m \in Messages, s \in Sessions : ChatProofs!Underway(m, s)' = ChatProofs!Underway(m, s)
    BY DEF ChatProofs!Underway
  <2>2. snapshot' = snapshot /\ \A m \in Messages : snapshot[m] \subseteq Sessions
    BY DEF ChatProofs!IInv, ChatProofs!TypeOK
  <2>3. ASSUME NEW m \in Messages, NEW s \in snapshot'[m], ChatProofs!Lockable(s)'
        PROVE  m \in ChatProofs!Told(s)' \/ ChatProofs!Underway(m, s)'
    BY <1>2, <1>3, <2>1, <2>2, <2>3 DEF ChatProofs!IInv, ChatProofs!BroadcastReaches,
         ChatProofs!Told
  <2>. QED  BY <2>3 DEF ChatProofs!BroadcastReaches, ChatProofs!Told
<1>. QED  BY <1>1, <1>4, <1>5, <1>6, <1>7 DEF ChatProofs!IInv

\* Hence both invariants hold on.
LEMMA ComponentStep ==
  ASSUME TaskProofs!IInv, ChatProofs!IInv, [Next]_vars
  PROVE  TaskProofs!IInv' /\ ChatProofs!IInv'
<1>1. up' \in BOOLEAN
  <2>1. CASE TaskProofs!Next
    <3>1. TaskProofs!IInv'
      BY <2>1, Assumptions, TaskProofs!NextInv
    <3>. QED  BY <3>1 DEF TaskProofs!IInv, TaskProofs!TypeOK
  <2>2. CASE ChatProofs!Next
    <3>1. ChatProofs!IInv'
      BY <2>2, Assumptions, ChatProofs!IInvStep
    <3>. QED  BY <3>1 DEF ChatProofs!IInv, ChatProofs!TypeOK
  <2>3. CASE UNCHANGED vars
    BY <2>3 DEF vars, TaskProofs!IInv, TaskProofs!TypeOK
  <2>4. TaskProofs!Next \/ ChatProofs!Next \/ UNCHANGED vars
    <3>1. TaskMove \/ ChatMove \/ UNCHANGED vars
      BY DEF Next, Progress, World, TaskMove, ChatMove
    <3>. QED  BY <3>1, TaskingStep, ChatStep
  <2>. QED  BY <2>1, <2>2, <2>3, <2>4
<1>2. TaskProofs!IInv'
  BY <1>1, Assumptions, TaskingStep, TaskingEnds, TaskProofs!NextInv
<1>3. ChatProofs!IInv'
  BY <1>1, Assumptions, ChatStep, ChatEnds, ChatProofs!IInvStep
<1>. QED  BY <1>2, <1>3

-----------------------------------------------------------------------------
(* One handler to a thread                                                  *)

\* The program counters of both.
Shape ==
  /\ pc \in [IoThreads \cup {Consumer} -> TaskProofs!PCs]
  /\ at \in [Sessions \cup {Timer} -> ChatProofs!Places]

\* They have their types.
LEMMA Shapes ==
  ASSUME TaskProofs!IInv, ChatProofs!IInv
  PROVE  Shape
BY DEF Shape, TaskProofs!IInv, TaskProofs!TypeOK, TaskProofs!Threads,
       ChatProofs!IInv, ChatProofs!TypeOK, ChatProofs!Callers

\* A handler starts on a free thread, and until it returns that thread takes no
\* other step: one in the timer's send does not take mutex_ for process_tasks.
LEMMA ServingStep ==
  ASSUME Shape, Serving, [Next]_vars
  PROVE  Serving'
<1>. USE ThreadAssumption, SessionAssumption DEF Serving, Shape
<1>1. ASSUME NEW k \in Tasks, Request(k) PROVE Serving'
  BY <1>1 DEF Request, Tasking!Request, OnlyTasks, chatVars
<1>2. ASSUME NEW k \in Tasks, RunPost(k) PROVE Serving'
  BY <1>2 DEF RunPost, Free, Tasking!RunPost, Tasking!PostThrows, Tasking!Goto, OnlyTasks, chatVars
<1>3. CASE Expire
  BY <1>3 DEF Expire, Tasking!Expire, OnlyTasks, chatVars
<1>4. CASE RunTimer
  BY <1>4 DEF RunTimer, Free, Tasking!RunTimer, Tasking!Goto, OnlyTasks, chatVars
<1>5. ASSUME NEW t \in Tasking!Threads, TakeMutex(t) PROVE Serving'
  BY <1>5 DEF TakeMutex, Sending, Tasking!PushBack, Tasking!Lock, Tasking!Goto, Tasking!Threads,
       OnlyTasks, chatVars
<1>6. ASSUME NEW t \in Tasking!Threads, Continue(t) PROVE Serving'
  <2>. USE DEF Tasking!Threads, OnlyTasks, chatVars, Tasking!Goto
  <2>1. CASE Tasking!PushUnlock(t) \/ Tasking!TestEmpty(t) \/ Tasking!TestNonEmpty(t)
    BY <1>6, <2>1 DEF Continue, Tasking!PushUnlock, Tasking!TestEmpty, Tasking!TestNonEmpty
  <2>2. CASE Tasking!Take(t) \/ Tasking!Arm(t) \/ Tasking!Release(t)
    BY <1>6, <2>2 DEF Continue, Tasking!Take, Tasking!Arm, Tasking!Release
  <2>3. CASE Tasking!PushNotify(t)
    BY <1>6, <2>3 DEF Continue, Tasking!PushNotify, Tasking!Waiting
  <2>. QED  BY <1>6, <2>1, <2>2, <2>3 DEF Continue
<1>7. CASE StartUpdate
  BY <1>7 DEF StartUpdate, Chat!Update, OnlyChat, taskVars
<1>8. CASE EndScan
  BY <1>8 DEF EndScan, Chat!EndScan, Tasking!SendUpdate, Tasking!Goto
<1>9. ASSUME NEW s \in Sessions, RunSession(s) \/ RunOnSend(s) \/ RunOnWrite(s) \/ Leave(s) PROVE Serving'
  <2>1. UNCHANGED <<at, pc, serves>>
    BY <1>9 DEF RunSession, RunOnSend, RunOnWrite, Leave, OnlyChat, taskVars, Chat!Upgrade,
         Chat!Accept, Chat!AcceptFails, Chat!ReadFails, Chat!ReadThrows, Chat!OnSend, Chat!Write,
         Chat!OnWrite, Chat!WriteFails, Chat!Leave, Chat!caller
  <2>. QED  BY <2>1
<1>10. ASSUME NEW s \in Sessions, StartRead(s) PROVE Serving'
  BY <1>10 DEF StartRead, Free, Chat!ReadMessage, Chat!StrandFree, OnlyChat, taskVars
<1>11. ASSUME NEW s \in Sessions, FinishRead(s) PROVE Serving'
  BY <1>11 DEF FinishRead, Chat!Finish, OnlyChat, taskVars
<1>12. ASSUME NEW s \in Sessions, CopySessions(s) PROVE Serving'
  BY <1>12 DEF CopySessions, Chat!CopySessions, OnlyChat, taskVars
<1>13. ASSUME NEW c \in Sessions \cup {Timer}, ContinueSend(c) PROVE Serving'
  BY <1>13 DEF ContinueSend, Chat!AssignUid, Chat!Finish, Chat!CompareUid, Chat!Lock, Chat!Post,
       OnlyChat, taskVars, Chat!caller
<1>14. CASE UNCHANGED vars
  BY <1>14 DEF vars, taskVars, chatVars
<1>. QED
  BY <1>1, <1>2, <1>3, <1>4, <1>5, <1>6, <1>7, <1>8, <1>9, <1>10, <1>11, <1>12, <1>13, <1>14
     DEF Next, Progress, World

-----------------------------------------------------------------------------
(* Each task is reported once                                               *)

\* A report comes last.
LEMMA ReportAppend ==
  ASSUME updates \in Seq(Tasks), NEW k \in Tasks, updates' = Append(updates, k)
  PROVE  /\ updates' # <<>> /\ updates'[Len(updates')] = k
         /\ Len(updates) \in Nat /\ DOMAIN updates = 1 .. Len(updates)
         /\ DOMAIN updates' = 1 .. Len(updates) + 1 /\ updates'[Len(updates) + 1] = k
         /\ \A i \in DOMAIN updates : updates'[i] = updates[i]
         /\ Reports' = Reports \cup {k}
<1>1. /\ Len(updates) \in Nat /\ DOMAIN updates = 1 .. Len(updates)
      /\ Len(updates') = Len(updates) + 1 /\ DOMAIN updates' = 1 .. Len(updates) + 1
      /\ \A i \in 1 .. Len(updates) : updates'[i] = updates[i]
      /\ updates'[Len(updates) + 1] = k
  BY AppendProperties, LenProperties
<1>2. updates' # <<>>
  BY AppendProperties
<1>3. Reports' = Reports \cup {k}
  <2>1. ASSUME NEW i \in DOMAIN updates' PROVE updates'[i] \in Reports \cup {k}
    BY <1>1, <2>1 DEF Reports
  <2>2. Reports \subseteq Reports'
    BY <1>1 DEF Reports
  <2>3. k \in Reports'
    BY <1>1 DEF Reports
  <2>. QED  BY <2>1, <2>2, <2>3 DEF Reports
<1>. QED  BY <1>1, <1>2, <1>3

\* The update that a send takes from the inbox was not reported, and no second
\* thread can run the timer's handler meanwhile, for there is one processor.
LEMMA ReportedStep ==
  ASSUME TaskProofs!IInv, ChatProofs!IInv, Serving, Reported, [Next]_vars
  PROVE  Reported'
<1>. USE ThreadAssumption, SessionAssumption DEF Reported, Reports, Shape
<1>0. Shape /\ job \in [IoThreads \cup {Consumer} -> Tasks \cup {NoTask}]
  BY Shapes DEF TaskProofs!IInv, TaskProofs!TypeOK, TaskProofs!Threads
<1>1. ASSUME NEW k \in Tasks, Request(k) PROVE Reported'
  BY <1>1 DEF Request, Tasking!Request, OnlyTasks, chatVars
<1>2. ASSUME NEW k \in Tasks, RunPost(k) PROVE Reported'
  BY <1>0, <1>2 DEF RunPost, Tasking!RunPost, Tasking!PostThrows, Tasking!Goto, OnlyTasks, chatVars
<1>3. CASE Expire
  BY <1>3 DEF Expire, Tasking!Expire, OnlyTasks, chatVars
<1>4. CASE RunTimer
  <2>1. at[Timer] = "idle"
    <3>1. armed # NoTask
      BY <1>4 DEF RunTimer, Tasking!RunTimer, TaskProofs!IInv, TaskProofs!TypeOK
    <3>2. \A t \in IoThreads : pc[t] \notin {"update", "lock"}
      BY <3>1 DEF TaskProofs!IInv, TaskProofs!SingleProcessor, TaskProofs!Processing,
           TaskProofs!Threads
    <3>. QED  BY <3>2 DEF Serving
  <2>. QED  BY <1>4, <2>1 DEF RunTimer, Tasking!RunTimer, OnlyTasks, chatVars
<1>5. ASSUME NEW t \in Tasking!Threads, TakeMutex(t) PROVE Reported'
  BY <1>0, <1>5 DEF TakeMutex, Tasking!PushBack, Tasking!Lock, Tasking!Goto, Tasking!Threads,
       OnlyTasks, chatVars
<1>6. ASSUME NEW t \in Tasking!Threads, Continue(t) PROVE Reported'
  <2>. USE DEF Tasking!Threads, OnlyTasks, chatVars, Tasking!Goto
  <2>1. CASE Tasking!PushUnlock(t) \/ Tasking!TestEmpty(t) \/ Tasking!TestNonEmpty(t)
    BY <1>0, <1>6, <2>1 DEF Continue, Tasking!PushUnlock, Tasking!TestEmpty, Tasking!TestNonEmpty
  <2>2. CASE Tasking!Take(t) \/ Tasking!Arm(t) \/ Tasking!Release(t)
    BY <1>0, <1>6, <2>2 DEF Continue, Tasking!Take, Tasking!Arm, Tasking!Release
  <2>3. CASE Tasking!PushNotify(t)
    BY <1>0, <1>6, <2>3 DEF Continue, Tasking!PushNotify, Tasking!Waiting
  <2>. QED  BY <1>6, <2>1, <2>2, <2>3 DEF Continue
<1>7. CASE StartUpdate
  <2>1. PICK t \in IoThreads : pc[t] = "update" /\ Chat!Update(job[t])
    BY <1>7 DEF StartUpdate
  <2>2. \A u \in IoThreads : pc[u] = "update" => u = t
    BY <2>1 DEF TaskProofs!IInv, TaskProofs!SingleProcessor, TaskProofs!Processing,
         TaskProofs!Threads
  <2>3. UNCHANGED <<updates, pc, job>> /\ at'[Timer] = "scan" /\ msg'[Timer] = job[t]
        /\ job[t] \in inbox /\ inbox' = inbox \ {job[t]}
    BY <1>0, <1>7, <2>1 DEF StartUpdate, Chat!Update, OnlyChat, taskVars, ChatProofs!IInv,
         ChatProofs!TypeOK, ChatProofs!Callers
  <2>. QED  BY <2>2, <2>3
<1>8. CASE EndScan
  <2>1. PICK t \in IoThreads : Tasking!SendUpdate(t)
    BY <1>8 DEF EndScan
  <2>2. /\ at[Timer] = "scan" /\ at'[Timer] = "fan" /\ msg' = msg /\ inbox' = inbox
        /\ updates' = Append(updates, job[t]) /\ job[t] = msg[Timer]
    BY <1>0, <1>8, <2>1 DEF EndScan, Chat!EndScan, Chat!session, Chat!stream, Tasking!SendUpdate,
         Tasking!Goto
  <2>3. updates \in Seq(Tasks) /\ job[t] \in Tasks /\ job[t] \notin inbox /\ job[t] \notin Reports
    BY <2>1, <2>2 DEF Tasking!SendUpdate, Tasking!Goto, TaskProofs!IInv, TaskProofs!TypeOK,
         TaskProofs!Threads, ChatProofs!IInv, ChatProofs!Taken, ChatProofs!Callers
  <2>4. /\ updates' # <<>> /\ updates'[Len(updates')] = job[t] /\ Len(updates) \in Nat
        /\ DOMAIN updates = 1 .. Len(updates) /\ DOMAIN updates' = 1 .. Len(updates) + 1
        /\ updates'[Len(updates) + 1] = job[t] /\ \A i \in DOMAIN updates : updates'[i] = updates[i]
        /\ Reports' = Reports \cup {job[t]}
    BY <2>2, <2>3, ReportAppend
  <2>5. \A i, j \in DOMAIN updates' : updates'[i] = updates'[j] => i = j
    BY <2>3, <2>4
  <2>. QED  BY <2>2, <2>3, <2>4, <2>5
<1>9. ASSUME ChatMove, ~StartUpdate, ~EndScan PROVE Reported'
  <2>1. UNCHANGED <<updates, pc, job>>
    BY <1>9, TaskingStep DEF ChatMove, RunSession, StartRead, CopySessions, FinishRead, RunOnSend,
         RunOnWrite, Leave, ContinueSend, OnlyChat, taskVars
  <2>2. inbox' \subseteq inbox /\ (at'[Timer] = "scan" => at[Timer] = "scan")
        /\ (at'[Timer] \in {"fan", "post"} => at[Timer] \in {"fan", "post"})
        /\ (at'[Timer] # "idle" => msg'[Timer] = msg[Timer])
    <3>. USE <1>0 DEF ChatProofs!IInv, ChatProofs!TypeOK, ChatProofs!Callers
    <3>1. ASSUME NEW s \in Sessions, RunSession(s) \/ RunOnSend(s) \/ RunOnWrite(s) \/ Leave(s)
          PROVE  UNCHANGED <<at, msg>> /\ inbox' \subseteq inbox
      BY <3>1 DEF RunSession, RunOnSend, RunOnWrite, Leave, Chat!Upgrade, Chat!Accept,
           Chat!AcceptFails, Chat!ReadFails, Chat!ReadThrows, Chat!OnSend, Chat!Write,
           Chat!OnWrite, Chat!WriteFails, Chat!Leave, Chat!caller
    <3>2. ASSUME NEW s \in Sessions, StartRead(s) \/ FinishRead(s) \/ CopySessions(s)
          PROVE  at'[Timer] = at[Timer] /\ msg'[Timer] = msg[Timer] /\ inbox' \subseteq inbox
      BY <3>2 DEF StartRead, FinishRead, CopySessions, Chat!ReadMessage, Chat!Finish,
           Chat!CopySessions
    <3>3. ASSUME NEW c \in Sessions, ContinueSend(c)
          PROVE  at'[Timer] = at[Timer] /\ msg'[Timer] = msg[Timer] /\ inbox' \subseteq inbox
      BY <3>3 DEF ContinueSend, Chat!AssignUid, Chat!Lock, Chat!Post
    <3>4. CASE ContinueSend(Timer)
      BY <3>4 DEF ContinueSend, Chat!Finish, Chat!CompareUid, Chat!Lock, Chat!Post
    <3>. QED  BY <1>9, <3>1, <3>2, <3>3, <3>4 DEF ChatMove
  <2>. QED  BY <2>1, <2>2
<1>10. CASE UNCHANGED vars
  BY <1>10 DEF vars, taskVars, chatVars
<1>. QED
  BY <1>1, <1>2, <1>3, <1>4, <1>5, <1>6, <1>7, <1>8, <1>9, <1>10 DEF Next, Progress, World, ChatMove

-----------------------------------------------------------------------------
(* Updates come in the order of the reports                                 *)

\* Nothing is twice in u.
Once(u) == \A i, j \in DOMAIN u : u[i] = u[j] => i = j

\* Where k is in u.
RankIn(u, k) == CHOOSE i \in DOMAIN u : u[i] = k

\* The tasks in line are in u, and in the same order.
Follows(line, u) ==
  /\ \A i \in DOMAIN line : line[i] \in Tasks => \E r \in DOMAIN u : u[r] = line[i]
  /\ \A i, j \in DOMAIN line :
       line[i] \in Tasks /\ line[j] \in Tasks /\ i < j => RankIn(u, line[i]) < RankIn(u, line[j])

\* That is what ToldInOrder says.
LEMMA InOrderFollows ==
  /\ ToldInOrder <=> \A s \in Sessions : Follows(ChatProofs!Line(s), updates)
  /\ ToldInOrder' <=> \A s \in Sessions : Follows(ChatProofs!Line(s)', updates')
<1>1. /\ \A s \in Sessions : Chat!Line(s) = ChatProofs!Line(s)
      /\ \A s \in Sessions : Chat!Line(s)' = ChatProofs!Line(s)'
  BY DEF Chat!Line, ChatProofs!Line
<1>2. ToldInOrder <=> \A s \in Sessions : Follows(ChatProofs!Line(s), updates)
  BY <1>1 DEF ToldInOrder, Told, Follows, Rank, RankIn, Chat!Elements
<1>3. ToldInOrder' <=> \A s \in Sessions : Follows(ChatProofs!Line(s)', updates')
  BY <1>1 DEF ToldInOrder, Told, Follows, Rank, RankIn, Chat!Elements
<1>. QED  BY <1>2, <1>3

\* In a sequence without repetition each has its own place.
LEMMA RankOf ==
  ASSUME NEW u, Once(u), NEW i \in DOMAIN u
  PROVE  RankIn(u, u[i]) = i
<1>1. \E j \in DOMAIN u : u[j] = u[i]
  OBVIOUS
<1>2. RankIn(u, u[i]) \in DOMAIN u /\ u[RankIn(u, u[i])] = u[i]
  BY <1>1 DEF RankIn
<1>. QED  BY <1>2 DEF Once

\* A report does not change the place of those before it.
LEMMA FollowsReport ==
  ASSUME NEW u \in Seq(Tasks), NEW k \in Tasks, Once(u), Once(Append(u, k)), NEW line, Follows(line, u)
  PROVE  Follows(line, Append(u, k))
<1>. DEFINE v == Append(u, k)
<1>1. \A r \in DOMAIN u : r \in DOMAIN v /\ v[r] = u[r]
  BY AppendProperties, LenProperties
<1>2. ASSUME NEW r \in DOMAIN u PROVE RankIn(v, u[r]) = RankIn(u, u[r])
  BY <1>1, <1>2, RankOf
<1>. HIDE DEF v
<1>3. ASSUME NEW i \in DOMAIN line, line[i] \in Tasks
      PROVE  (\E r \in DOMAIN v : v[r] = line[i]) /\ RankIn(v, line[i]) = RankIn(u, line[i])
  BY <1>1, <1>2, <1>3 DEF Follows
<1>4. Follows(line, v)
  BY <1>3 DEF Follows
<1>. QED  BY <1>4 DEF v

\* What was reported last may be posted next.
LEMMA FollowsPost ==
  ASSUME NEW u \in Seq(Tasks), Once(u), NEW S, NEW line \in Seq(S), NEW m \in S, Follows(line, u),
         m \in Tasks => u # <<>> /\ m = u[Len(u)] /\ \A i \in DOMAIN line : line[i] # m
  PROVE  Follows(Append(line, m), u)
<1>. DEFINE n == Len(line)
            after == Append(line, m)
<1>1. /\ n \in Nat /\ DOMAIN line = 1 .. n /\ DOMAIN after = 1 .. n + 1
      /\ \A i \in 1 .. n : after[i] = line[i]
      /\ after[n + 1] = m
  BY AppendProperties, LenProperties
<1>2. Len(u) \in Nat /\ DOMAIN u = 1 .. Len(u) /\ (m \in Tasks => Len(u) \in DOMAIN u)
  BY LenProperties, EmptySeq
<1>. HIDE DEF n, after
<1>3. ASSUME NEW i \in 1 .. n, line[i] \in Tasks, m \in Tasks
      PROVE  RankIn(u, line[i]) < RankIn(u, m)
  <2>1. PICK r \in DOMAIN u : u[r] = line[i]
    BY <1>1, <1>3 DEF Follows
  <2>2. RankIn(u, line[i]) = r /\ RankIn(u, m) = Len(u)
    BY <1>2, <1>3, <2>1, RankOf
  <2>3. r # Len(u)
    BY <1>1, <1>3, <2>1
  <2>. QED  BY <1>2, <2>1, <2>2, <2>3
<1>4. ASSUME NEW i \in DOMAIN after, after[i] \in Tasks PROVE \E r \in DOMAIN u : u[r] = after[i]
  <2>1. CASE i \in 1 .. n
    BY <1>1, <1>4, <2>1 DEF Follows
  <2>2. CASE i = n + 1
    BY <1>1, <1>2, <1>4, <2>2
  <2>. QED  BY <1>1, <2>1, <2>2
<1>5. ASSUME NEW i \in DOMAIN after, NEW j \in DOMAIN after, i < j, after[i] \in Tasks, after[j] \in Tasks
      PROVE  RankIn(u, after[i]) < RankIn(u, after[j])
  <2>1. i \in 1 .. n /\ after[i] = line[i]
    BY <1>1, <1>5
  <2>2. CASE j \in 1 .. n
    BY <1>1, <1>5, <2>1, <2>2 DEF Follows
  <2>3. CASE j = n + 1
    BY <1>1, <1>3, <1>5, <2>1, <2>3
  <2>. QED  BY <1>1, <2>2, <2>3
<1>6. Follows(after, u)
  BY <1>4, <1>5 DEF Follows
<1>. QED  BY <1>6 DEF after

\* The timer posts what was reported last, to a session that has not got it.
LEMMA InOrderStep ==
  ASSUME TaskProofs!IInv, ChatProofs!IInv, Reported, Reported', ToldInOrder, [Next]_vars
  PROVE  ToldInOrder'
<1>0. /\ updates \in Seq(Tasks) /\ Once(updates) /\ Once(updates')
      /\ \A s \in Sessions : Follows(ChatProofs!Line(s), updates)
  BY InOrderFollows DEF TaskProofs!IInv, TaskProofs!TypeOK, Reported, Once
<1>1. CASE EndScan
  <2>1. PICK t \in IoThreads : Tasking!SendUpdate(t)
    BY <1>1 DEF EndScan
  <2>2. job[t] \in Tasks /\ updates' = Append(updates, job[t])
    BY <2>1 DEF Tasking!SendUpdate, Tasking!Goto, TaskProofs!IInv, TaskProofs!TypeOK,
         TaskProofs!Threads
  <2>3. UNCHANGED <<queue, sent, posted>>
    BY <1>1 DEF EndScan, Chat!EndScan, Chat!stream
  <2>4. \A s \in Sessions : ChatProofs!Line(s)' = ChatProofs!Line(s)
    BY <2>3 DEF ChatProofs!Line
  <2>. QED  BY <1>0, <2>2, <2>4, FollowsReport, InOrderFollows
<1>2. CASE ~EndScan
  <2>1. updates' = updates
    BY <1>2 DEF Next, Progress, World, Expire, RunTimer, StartUpdate, RunPost, TakeMutex, Continue,
         RunOnSend, RunOnWrite, CopySessions, FinishRead, Leave, ContinueSend, Request, RunSession,
         StartRead, OnlyChat, taskVars, vars, Tasking!Expire, Tasking!RunTimer, Tasking!RunPost,
         Tasking!PostThrows, Tasking!PushBack, Tasking!Lock, Tasking!PushUnlock,
         Tasking!PushNotify, Tasking!TestEmpty, Tasking!TestNonEmpty, Tasking!Take, Tasking!Arm,
         Tasking!Release, Tasking!Request
  <2>2. (\A s \in Sessions : ChatProofs!Line(s)' = ChatProofs!Line(s))
        \/ \E c \in Sessions \cup {Timer}, t \in Sessions : held[c] = t /\ ChatProofs!Post(c)
    <3>1. CASE ChatProofs!Next
      BY <3>1, Assumptions, ChatProofs!LineSteps DEF ChatProofs!IInv, ChatProofs!Callers
    <3>2. CASE UNCHANGED chatVars
      BY <3>2 DEF chatVars, ChatProofs!Line
    <3>. QED  BY <3>1, <3>2, ChatStep
  <2>3. ASSUME \A s \in Sessions : ChatProofs!Line(s)' = ChatProofs!Line(s) PROVE ToldInOrder'
    BY <1>0, <2>1, <2>3, InOrderFollows
  <2>4. ASSUME NEW c \in Sessions \cup {Timer}, NEW t \in Sessions, held[c] = t, ChatProofs!Post(c)
        PROVE  ToldInOrder'
    <3>1. /\ msg[c] \in ChatProofs!Payloads /\ ChatProofs!Line(t) \in Seq(ChatProofs!Payloads)
          /\ ChatProofs!Line(t)' = Append(ChatProofs!Line(t), msg[c])
          /\ \A s \in Sessions \ {t} : ChatProofs!Line(s)' = ChatProofs!Line(s)
      BY <2>4, Assumptions, ChatProofs!PostLine, ChatProofs!LineType DEF ChatProofs!IInv,
           ChatProofs!Callers
    <3>2. msg[c] \in Tasks => c = Timer /\ msg[c] \notin ChatProofs!Told(t)
      BY <2>4, MessageAssumption DEF ChatProofs!Post, ChatProofs!IInv, ChatProofs!CallersSound,
           ChatProofs!NotYet, ChatProofs!Callers
    <3>3. msg[c] \in Tasks => /\ updates # <<>> /\ msg[c] = updates[Len(updates)]
                              /\ \A i \in DOMAIN ChatProofs!Line(t) : ChatProofs!Line(t)[i] # msg[c]
      BY <2>4, <3>2 DEF ChatProofs!Post, Reported, ChatProofs!Told, ChatProofs!Elements
    <3>4. Follows(ChatProofs!Line(t)', updates)
      BY <1>0, <3>1, <3>3, FollowsPost
    <3>. QED  BY <1>0, <2>1, <3>1, <3>4, InOrderFollows
  <2>. QED  BY <2>2, <2>3, <2>4
<1>. QED  BY <1>1, <1>2

-----------------------------------------------------------------------------
(* The theorems                                                             *)

\* The invariant holds at the start.
LEMMA SInvInit == Init => SInv
<1>. SUFFICES ASSUME Init PROVE SInv
  OBVIOUS
<1>1. TaskProofs!IInv
  <2>1. TaskProofs!Init
    BY DEF Init, Tasking!Init, Tasking!Threads, TaskProofs!Init, TaskProofs!Threads
  <2>. QED  BY <2>1, Assumptions, TaskProofs!InitInv
<1>2. ChatProofs!IInv
  <2>1. ChatProofs!Init
    BY DEF Init, Chat!Init, Chat!Callers, Chat!Payloads, ChatProofs!Init, ChatProofs!Callers,
         ChatProofs!Payloads
  <2>. QED  BY <2>1, Assumptions, ChatProofs!IInvInit
<1>3. Serving
  BY SessionAssumption DEF Init, Chat!Init, Chat!Callers, Serving
<1>4. Reported
  BY DEF Init, Tasking!Init, Chat!Init, Chat!Callers, Reported, Reports
<1>5. ToldInOrder
  <2>1. \A s \in Sessions : ChatProofs!Line(s) = <<>>
    BY DEF Init, Chat!Init, ChatProofs!Line
  <2>2. \A s \in Sessions : Follows(ChatProofs!Line(s), updates)
    BY <2>1 DEF Follows
  <2>. QED  BY <2>2, InOrderFollows
<1>. QED  BY <1>1, <1>2, <1>3, <1>4, <1>5 DEF SInv

\* Every step keeps it.
LEMMA SInvStep == SInv /\ [Next]_vars => SInv'
<1>. SUFFICES ASSUME SInv, [Next]_vars PROVE SInv'
  OBVIOUS
<1>1. TaskProofs!IInv' /\ ChatProofs!IInv'
  BY ComponentStep DEF SInv
<1>2. Serving'
  BY Shapes, ServingStep DEF SInv
<1>3. Reported'
  BY ReportedStep DEF SInv
<1>4. ToldInOrder'
  BY <1>3, InOrderStep DEF SInv
<1>. QED  BY <1>1, <1>2, <1>3, <1>4 DEF SInv

\* So it holds in every reachable state.
LEMMA SInvHolds == Spec => []SInv
BY SInvInit, SInvStep, PTL DEF Spec

\* Every client is told of tasks in the order in which they were reported, and
\* of none before.
THEOREM UpdatesInOrder == Spec => []ToldInOrder
<1>1. SInv => ToldInOrder
  BY DEF SInv
<1>. QED  BY <1>1, SInvHolds, PTL

\* What Scheduler and WebSocketSessions promise, in the server.
PartsHold ==
  /\ Tasking!MutualExclusion /\ Tasking!SingleProcessor /\ Tasking!NoLostWakeup
  /\ Tasking!NoUnderflow /\ Tasking!CurrIsRunning /\ Tasking!OnePlace
  /\ Chat!RegistrySound /\ Chat!NothingOutlives /\ Chat!OneWriter
  /\ Chat!DeliveredOnce /\ Chat!BroadcastReaches

\* Together on the same threads, with the same mutex_, both keep their promises.
THEOREM PartsKeep == Spec => []PartsHold
<1>1. ASSUME TaskProofs!IInv
      PROVE  /\ Tasking!MutualExclusion /\ Tasking!SingleProcessor /\ Tasking!NoLostWakeup
             /\ Tasking!NoUnderflow /\ Tasking!CurrIsRunning
  BY <1>1 DEF TaskProofs!IInv, TaskProofs!Threads, TaskProofs!Holding, TaskProofs!Processing,
       TaskProofs!Waiting, TaskProofs!MutualExclusion, TaskProofs!SingleProcessor,
       TaskProofs!NoLostWakeup, TaskProofs!NoUnderflow, TaskProofs!CurrIsRunning,
       Tasking!Threads, Tasking!Holding, Tasking!Processing, Tasking!Waiting,
       Tasking!MutualExclusion, Tasking!SingleProcessor, Tasking!NoLostWakeup,
       Tasking!NoUnderflow, Tasking!CurrIsRunning
<1>2. ASSUME TaskProofs!IInv PROVE Tasking!OnePlace
  <2>1. Tasking!Accepted = TaskProofs!Accepted
    BY DEF Tasking!Accepted, Tasking!Elements, Tasking!Running, Tasking!Threads,
         TaskProofs!Accepted, TaskProofs!Elements, TaskProofs!Running, TaskProofs!Threads
  <2>. QED  BY <1>2, <2>1 DEF TaskProofs!IInv, TaskProofs!OnePlace, TaskProofs!Threads,
                 Tasking!OnePlace, Tasking!Threads
<1>3. ASSUME ChatProofs!IInv
      PROVE  Chat!RegistrySound /\ Chat!NothingOutlives /\ Chat!OneWriter
  BY <1>3 DEF ChatProofs!IInv, ChatProofs!RegistrySound, ChatProofs!NothingOutlives,
       ChatProofs!Referenced, ChatProofs!Callers, ChatProofs!WriterSound, ChatProofs!OneWriter,
       Chat!RegistrySound, Chat!NothingOutlives, Chat!Referenced, Chat!Callers, Chat!OneWriter
<1>4. ASSUME ChatProofs!IInv PROVE Chat!DeliveredOnce
  BY <1>4 DEF ChatProofs!IInv, ChatProofs!DeliveredOnce, ChatProofs!Line, ChatProofs!Elements,
       Chat!DeliveredOnce, Chat!Line, Chat!Elements
<1>5. ASSUME ChatProofs!IInv PROVE Chat!BroadcastReaches
  BY <1>5 DEF ChatProofs!IInv, ChatProofs!BroadcastReaches, ChatProofs!Lockable,
       ChatProofs!Referenced, ChatProofs!Callers, ChatProofs!Underway, ChatProofs!Line,
       ChatProofs!Elements, Chat!BroadcastReaches, Chat!Lockable, Chat!Referenced, Chat!Callers,
       Chat!Underway, Chat!Line, Chat!Elements
<1>6. SInv => PartsHold
  BY <1>1, <1>2, <1>3, <1>4, <1>5 DEF SInv, PartsHold
<1>. QED  BY <1>6, SInvHolds, PTL

\* The server does nothing that its components do not: each of its steps is a
\* step of Scheduler and of WebSocketSessions, or of one and nothing to the other.
THEOREM Composes ==
  Spec => [][/\ TaskProofs!Next \/ UNCHANGED taskVars
             /\ ChatProofs!Next \/ UNCHANGED chatVars]_vars
<1>1. [Next]_vars => /\ TaskProofs!Next \/ UNCHANGED taskVars
                     /\ ChatProofs!Next \/ UNCHANGED chatVars
  BY TaskingStep, ChatStep
<1>. QED  BY <1>1, PTL DEF Spec

-----------------------------------------------------------------------------
(* The server implements TaskService                                        *)

\* A step that only the sessions take is none of the task service's, unless it
\* throws: then the service stops.
LEMMA OthersServe ==
  ASSUME up' = up \/ up' = FALSE, UNCHANGED taskVars
  PROVE  [TaskProofs!Service!Next]_(TaskProofs!Service!vars)
<1>. USE DEF taskVars
<1>1. TaskProofs!Running' = TaskProofs!Running
  BY DEF TaskProofs!Running
<1>2. CASE up' = up
  BY <1>1, <1>2 DEF TaskProofs!Service!vars
<1>3. CASE up' = FALSE
  BY <1>1, <1>3 DEF TaskProofs!Service!Next, TaskProofs!Service!StopServing
<1>. QED  BY <1>2, <1>3

\* What the sessions do on the same threads cannot be told from outside the task
\* service: tasks are accepted once, run one at a time in the order in which
\* they were accepted, and are reported once.
THEOREM ServesTasks == Spec => TaskProofs!ServiceSteps
<1>1. Init => TaskProofs!Service!Init
  <2>1. Init => TaskProofs!Init
    BY DEF Init, Tasking!Init, Tasking!Threads, TaskProofs!Init, TaskProofs!Threads
  <2>. QED  BY <2>1, TaskProofs!InitService, Assumptions
<1>2. ASSUME SInv, SInv', [Next]_vars
      PROVE  [TaskProofs!Service!Next]_(TaskProofs!Service!vars)
  <2>1. TaskProofs!IInv /\ TaskProofs!IInv'
    BY <1>2 DEF SInv
  <2>2. TaskProofs!Next \/ UNCHANGED taskVars
    BY <1>2, TaskingStep
  <2>3. up' = up \/ up' = FALSE
    <3>1. (up \in BOOLEAN) /\ (up' \in BOOLEAN)
      BY <2>1 DEF TaskProofs!IInv, TaskProofs!TypeOK
    <3>2. up \/ UNCHANGED vars
      BY <1>2 DEF Next, Progress, World
    <3>. QED  BY <3>1, <3>2 DEF vars
  <2>. QED  BY <2>1, <2>2, <2>3, OthersServe, TaskProofs!StepService, Assumptions
<1>. QED  BY <1>1, <1>2, SInvHolds, PTL DEF Spec, TaskProofs!ServiceSteps
=============================================================================
