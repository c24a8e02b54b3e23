---------------------------- MODULE SchedulerProofs ----------------------------
(***************************************************************************)
(* Scheduler for every set of threads and tasks: its invariants, and that  *)
(* every step is a step of TaskService.                                    *)
(***************************************************************************)
EXTENDS Scheduler, SequenceTheorems, TLAPS

\* The steps that move no thread: clients, the clock, signals, exceptions
\* and the end of main(), and stuttering.
Quiet ==
  \/ \E k \in Tasks : Request(k)
  \/ Expire
  \/ Exit
  \/ \E t \in IoThreads : RunSignal(t) \/ \E k \in Tasks : PostThrows(t, k)
  \/ UNCHANGED vars

LEMMA QuietSteps ==
  ASSUME Quiet
  PROVE  UNCHANGED <<tasks_queue, curr, mutex, armed, pc, job, updates>>
  BY DEF Quiet, Request, Expire, Exit, RunSignal, PostThrows, vars

-----------------------------------------------------------------------------
(* One lemma for each part of the invariant.                               *)

\* The queue gets tasks of push_task calls only, and the processor takes its
\* task from a queue that is not empty (NoUnderflow).
LEMMA TypeStep ==
  ASSUME TypeOK, NoUnderflow, [Next]_vars
  PROVE  TypeOK'
<1> USE DEF TypeOK, NoUnderflow, Threads, PCs, Goto
<1>1. CASE Quiet
  <2>1. ASSUME NEW k \in Tasks, Request(k) PROVE TypeOK'
    BY <2>1 DEF Request
  <2>2. CASE Expire
    BY <2>2 DEF Expire
  <2>3. CASE Exit
    BY <2>3 DEF Exit
  <2>4. ASSUME NEW t \in IoThreads, RunSignal(t) PROVE TypeOK'
    BY <2>4 DEF RunSignal
  <2>5. ASSUME NEW t \in IoThreads, NEW k \in Tasks, PostThrows(t, k)
        PROVE  TypeOK'
    BY <2>5 DEF PostThrows
  <2>6. CASE UNCHANGED vars
    BY <2>6 DEF vars
  <2> QED
    BY <1>1, <2>1, <2>2, <2>3, <2>4, <2>5, <2>6 DEF Quiet
<1>2. ASSUME NEW t \in IoThreads, NEW k \in Tasks, RunPost(t, k) PROVE TypeOK'
  BY <1>2 DEF RunPost
<1>3. ASSUME NEW t \in IoThreads, RunTimer(t) PROVE TypeOK'
  BY <1>3 DEF RunTimer
<1>4. ASSUME NEW t \in IoThreads, Return(t) PROVE TypeOK'
  BY <1>4 DEF Return
<1>5. ASSUME NEW t \in IoThreads, PushBack(t) PROVE TypeOK'
  BY <1>5, AppendProperties DEF PushBack
<1>6. ASSUME NEW t \in IoThreads, PushUnlock(t) PROVE TypeOK'
  BY <1>6 DEF PushUnlock
<1>7. ASSUME NEW t \in IoThreads, PushNotify(t) PROVE TypeOK'
  BY <1>7 DEF PushNotify, Waiting
<1>8. ASSUME NEW t \in Threads, SendUpdate(t) PROVE TypeOK'
  BY <1>8, AppendProperties DEF SendUpdate
<1>9. ASSUME NEW t \in Threads, Lock(t) PROVE TypeOK'
  BY <1>9 DEF Lock
<1>10. ASSUME NEW t \in Threads, TestEmpty(t) PROVE TypeOK'
  BY <1>10 DEF TestEmpty
<1>11. ASSUME NEW t \in Threads, TestNonEmpty(t) PROVE TypeOK'
  BY <1>11 DEF TestNonEmpty
<1>12. ASSUME NEW t \in Threads, SpuriousWakeup(t) PROVE TypeOK'
  BY <1>12 DEF SpuriousWakeup
<1>13. ASSUME NEW t \in Threads, Take(t) PROVE TypeOK'
  BY <1>13, HeadTailProperties DEF Take
<1>14. ASSUME NEW t \in Threads, Arm(t) PROVE TypeOK'
  BY <1>14 DEF Arm
<1>15. ASSUME NEW t \in Threads, Release(t) PROVE TypeOK'
  BY <1>15 DEF Release
<1> QED
  BY <1>1, <1>2, <1>3, <1>4, <1>5, <1>6, <1>7, <1>8, <1>9,
     <1>10, <1>11, <1>12, <1>13, <1>14, <1>15
     DEF Next, Run, PushTask, ProcessTasks, Quiet

\* A thread enters a critical section when mutex_ is free and leaves it when
\* it gives mutex_ back.
LEMMA MutexStep ==
  ASSUME TypeOK, MutualExclusion, [Next]_vars
  PROVE  MutualExclusion'
<1> USE ThreadAssumption DEF TypeOK, MutualExclusion, Threads, Holding, Goto
<1>1. CASE Quiet
  BY <1>1, QuietSteps
<1>2. ASSUME NEW t \in IoThreads, NEW k \in Tasks, RunPost(t, k)
      PROVE  MutualExclusion'
  BY <1>2 DEF RunPost
<1>3. ASSUME NEW t \in IoThreads, RunTimer(t) PROVE MutualExclusion'
  BY <1>3 DEF RunTimer
<1>4. ASSUME NEW t \in IoThreads, Return(t) PROVE MutualExclusion'
  BY <1>4 DEF Return
<1>5. ASSUME NEW t \in IoThreads, PushBack(t) PROVE MutualExclusion'
  BY <1>5 DEF PushBack
<1>6. ASSUME NEW t \in IoThreads, PushUnlock(t) PROVE MutualExclusion'
  BY <1>6 DEF PushUnlock
<1>7. ASSUME NEW t \in IoThreads, PushNotify(t) PROVE MutualExclusion'
  BY <1>7 DEF PushNotify, Waiting
<1>8. ASSUME NEW t \in Threads, SendUpdate(t) PROVE MutualExclusion'
  BY <1>8 DEF SendUpdate
<1>9. ASSUME NEW t \in Threads, Lock(t) PROVE MutualExclusion'
  BY <1>9 DEF Lock
<1>10. ASSUME NEW t \in Threads, TestEmpty(t) PROVE MutualExclusion'
  BY <1>10 DEF TestEmpty
<1>11. ASSUME NEW t \in Threads, TestNonEmpty(t) PROVE MutualExclusion'
  BY <1>11 DEF TestNonEmpty
<1>12. ASSUME NEW t \in Threads, SpuriousWakeup(t) PROVE MutualExclusion'
  BY <1>12 DEF SpuriousWakeup
<1>13. ASSUME NEW t \in Threads, Take(t) PROVE MutualExclusion'
  BY <1>13 DEF Take
<1>14. ASSUME NEW t \in Threads, Arm(t) PROVE MutualExclusion'
  BY <1>14 DEF Arm
<1>15. ASSUME NEW t \in Threads, Release(t) PROVE MutualExclusion'
  BY <1>15 DEF Release
<1> QED
  BY <1>1, <1>2, <1>3, <1>4, <1>5, <1>6, <1>7, <1>8, <1>9,
     <1>10, <1>11, <1>12, <1>13, <1>14, <1>15
     DEF Next, Run, PushTask, ProcessTasks, Quiet

\* Arming the timer ends the processor's work, its handler takes it up again,
\* and push_task never starts a second one.
LEMMA ProcessorStep ==
  ASSUME TypeOK, SingleProcessor, [Next]_vars
  PROVE  SingleProcessor'
<1> USE DEF TypeOK, SingleProcessor, Threads, Processing, Goto
<1>1. CASE Quiet
  BY <1>1, QuietSteps
<1>2. ASSUME NEW t \in IoThreads, NEW k \in Tasks, RunPost(t, k)
      PROVE  SingleProcessor'
  BY <1>2 DEF RunPost
<1>3. ASSUME NEW t \in IoThreads, RunTimer(t) PROVE SingleProcessor'
  BY <1>3 DEF RunTimer
<1>4. ASSUME NEW t \in IoThreads, Return(t) PROVE SingleProcessor'
  BY <1>4 DEF Return
<1>5. ASSUME NEW t \in IoThreads, PushBack(t) PROVE SingleProcessor'
  BY <1>5 DEF PushBack
<1>6. ASSUME NEW t \in IoThreads, PushUnlock(t) PROVE SingleProcessor'
  BY <1>6 DEF PushUnlock
<1>7. ASSUME NEW t \in IoThreads, PushNotify(t) PROVE SingleProcessor'
  <2>1. CASE Waiting = {}
    <3>1. /\ pc[t] = "notify"
          /\ pc' = [pc EXCEPT ![t] = "idle"]
          /\ armed' = armed
      BY <2>1, <1>7 DEF PushNotify
    <3> QED
      BY <3>1
  <2>2. CASE Waiting # {}
    <3>1. PICK w \in Waiting : pc' = [pc EXCEPT ![t] = "idle", ![w] = "lock"]
      BY <2>2, <1>7 DEF PushNotify
    <3>2. w \in Threads /\ w # t /\ pc[w] = "wait" /\ pc[t] = "notify"
      BY <3>1, <1>7 DEF PushNotify, Waiting
    <3>3. \A u \in Threads : pc'[u] \in Processing <=> pc[u] \in Processing
      BY <3>1, <3>2
    <3>4. armed' = armed
      BY <1>7 DEF PushNotify
    <3> QED
      BY <3>3, <3>4
  <2> QED
    BY <2>1, <2>2
<1>8. ASSUME NEW t \in Threads, SendUpdate(t) PROVE SingleProcessor'
  BY <1>8 DEF SendUpdate
<1>9. ASSUME NEW t \in Threads, Lock(t) PROVE SingleProcessor'
  BY <1>9 DEF Lock
<1>10. ASSUME NEW t \in Threads, TestEmpty(t) PROVE SingleProcessor'
  BY <1>10 DEF TestEmpty
<1>11. ASSUME NEW t \in Threads, TestNonEmpty(t) PROVE SingleProcessor'
  BY <1>11 DEF TestNonEmpty
<1>12. ASSUME NEW t \in Threads, SpuriousWakeup(t) PROVE SingleProcessor'
  BY <1>12 DEF SpuriousWakeup
<1>13. ASSUME NEW t \in Threads, Take(t) PROVE SingleProcessor'
  BY <1>13 DEF Take
<1>14. ASSUME NEW t \in Threads, Arm(t) PROVE SingleProcessor'
  BY <1>14, TaskAssumption DEF Arm
<1>15. ASSUME NEW t \in Threads, Release(t) PROVE SingleProcessor'
  BY <1>15 DEF Release
<1> QED
  BY <1>1, <1>2, <1>3, <1>4, <1>5, <1>6, <1>7, <1>8, <1>9,
     <1>10, <1>11, <1>12, <1>13, <1>14, <1>15
     DEF Next, Run, PushTask, ProcessTasks, Quiet

\* Between the test and the dequeue the processor holds mutex_, and whoever
\* changes the queue must hold it.
LEMMA UnderflowStep ==
  ASSUME TypeOK, MutualExclusion, NoUnderflow, [Next]_vars
  PROVE  NoUnderflow'
<1> USE DEF TypeOK, MutualExclusion, NoUnderflow, Threads, Holding, Goto
<1>1. CASE Quiet
  BY <1>1, QuietSteps
<1>2. ASSUME NEW t \in IoThreads, NEW k \in Tasks, RunPost(t, k)
      PROVE  NoUnderflow'
  BY <1>2 DEF RunPost
<1>3. ASSUME NEW t \in IoThreads, RunTimer(t) PROVE NoUnderflow'
  BY <1>3 DEF RunTimer
<1>4. ASSUME NEW t \in IoThreads, Return(t) PROVE NoUnderflow'
  BY <1>4 DEF Return
<1>5. ASSUME NEW t \in IoThreads, PushBack(t) PROVE NoUnderflow'
  BY <1>5, AppendProperties DEF PushBack
<1>6. ASSUME NEW t \in IoThreads, PushUnlock(t) PROVE NoUnderflow'
  BY <1>6 DEF PushUnlock
<1>7. ASSUME NEW t \in IoThreads, PushNotify(t) PROVE NoUnderflow'
  BY <1>7 DEF PushNotify, Waiting
<1>8. ASSUME NEW t \in Threads, SendUpdate(t) PROVE NoUnderflow'
  BY <1>8 DEF SendUpdate
<1>9. ASSUME NEW t \in Threads, Lock(t) PROVE NoUnderflow'
  BY <1>9 DEF Lock
<1>10. ASSUME NEW t \in Threads, TestEmpty(t) PROVE NoUnderflow'
  BY <1>10 DEF TestEmpty
<1>11. ASSUME NEW t \in Threads, TestNonEmpty(t) PROVE NoUnderflow'
  BY <1>11 DEF TestNonEmpty
<1>12. ASSUME NEW t \in Threads, SpuriousWakeup(t) PROVE NoUnderflow'
  BY <1>12 DEF SpuriousWakeup
<1>13. ASSUME NEW t \in Threads, Take(t) PROVE NoUnderflow'
  BY <1>13 DEF Take
<1>14. ASSUME NEW t \in Threads, Arm(t) PROVE NoUnderflow'
  BY <1>14 DEF Arm
<1>15. ASSUME NEW t \in Threads, Release(t) PROVE NoUnderflow'
  BY <1>15 DEF Release
<1> QED
  BY <1>1, <1>2, <1>3, <1>4, <1>5, <1>6, <1>7, <1>8, <1>9,
     <1>10, <1>11, <1>12, <1>13, <1>14, <1>15
     DEF Next, Run, PushTask, ProcessTasks, Quiet

\* The processor goes to sleep on an empty queue and is the only sleeper: the
\* notification that follows a push is for it.
LEMMA WakeupStep ==
  ASSUME TypeOK, SingleProcessor, NoLostWakeup, [Next]_vars
  PROVE  NoLostWakeup'
<1> USE DEF TypeOK, SingleProcessor, NoLostWakeup, Threads, Processing,
            Waiting, Goto
<1>1. CASE Quiet
  BY <1>1, QuietSteps
<1>2. ASSUME NEW t \in IoThreads, NEW k \in Tasks, RunPost(t, k)
      PROVE  NoLostWakeup'
  BY <1>2 DEF RunPost
<1>3. ASSUME NEW t \in IoThreads, RunTimer(t) PROVE NoLostWakeup'
  BY <1>3 DEF RunTimer
<1>4. ASSUME NEW t \in IoThreads, Return(t) PROVE NoLostWakeup'
  BY <1>4 DEF Return
<1>5. ASSUME NEW t \in IoThreads, PushBack(t) PROVE NoLostWakeup'
  BY <1>5 DEF PushBack
<1>6. ASSUME NEW t \in IoThreads, PushUnlock(t) PROVE NoLostWakeup'
  BY <1>6 DEF PushUnlock
<1>7. ASSUME NEW t \in IoThreads, PushNotify(t) PROVE NoLostWakeup'
  BY <1>7 DEF PushNotify
<1>8. ASSUME NEW t \in Threads, SendUpdate(t) PROVE NoLostWakeup'
  BY <1>8 DEF SendUpdate
<1>9. ASSUME NEW t \in Threads, Lock(t) PROVE NoLostWakeup'
  BY <1>9 DEF Lock
<1>10. ASSUME NEW t \in Threads, TestEmpty(t) PROVE NoLostWakeup'
  BY <1>10 DEF TestEmpty
<1>11. ASSUME NEW t \in Threads, TestNonEmpty(t) PROVE NoLostWakeup'
  BY <1>11 DEF TestNonEmpty
<1>12. ASSUME NEW t \in Threads, SpuriousWakeup(t) PROVE NoLostWakeup'
  BY <1>12 DEF SpuriousWakeup
<1>13. ASSUME NEW t \in Threads, Take(t) PROVE NoLostWakeup'
  BY <1>13 DEF Take
<1>14. ASSUME NEW t \in Threads, Arm(t) PROVE NoLostWakeup'
  BY <1>14 DEF Arm
<1>15. ASSUME NEW t \in Threads, Release(t) PROVE NoLostWakeup'
  BY <1>15 DEF Release
<1> QED
  BY <1>1, <1>2, <1>3, <1>4, <1>5, <1>6, <1>7, <1>8, <1>9,
     <1>10, <1>11, <1>12, <1>13, <1>14, <1>15
     DEF Next, Run, PushTask, ProcessTasks, Quiet

\* Only the processor changes curr_, at its next dequeue.
LEMMA CurrStep ==
  ASSUME TypeOK, SingleProcessor, CurrIsRunning, [Next]_vars
  PROVE  CurrIsRunning'
<1> USE DEF TypeOK, SingleProcessor, CurrIsRunning, Threads, Processing, Goto
<1>1. CASE Quiet
  BY <1>1, QuietSteps
<1>2. ASSUME NEW t \in IoThreads, NEW k \in Tasks, RunPost(t, k)
      PROVE  CurrIsRunning'
  BY <1>2 DEF RunPost
<1>3. ASSUME NEW t \in IoThreads, RunTimer(t) PROVE CurrIsRunning'
  BY <1>3 DEF RunTimer
<1>4. ASSUME NEW t \in IoThreads, Return(t) PROVE CurrIsRunning'
  BY <1>4 DEF Return
<1>5. ASSUME NEW t \in IoThreads, PushBack(t) PROVE CurrIsRunning'
  BY <1>5 DEF PushBack
<1>6. ASSUME NEW t \in IoThreads, PushUnlock(t) PROVE CurrIsRunning'
  BY <1>6 DEF PushUnlock
<1>7. ASSUME NEW t \in IoThreads, PushNotify(t) PROVE CurrIsRunning'
  BY <1>7 DEF PushNotify, Waiting
<1>8. ASSUME NEW t \in Threads, SendUpdate(t) PROVE CurrIsRunning'
  BY <1>8 DEF SendUpdate
<1>9. ASSUME NEW t \in Threads, Lock(t) PROVE CurrIsRunning'
  BY <1>9 DEF Lock
<1>10. ASSUME NEW t \in Threads, TestEmpty(t) PROVE CurrIsRunning'
  BY <1>10 DEF TestEmpty
<1>11. ASSUME NEW t \in Threads, TestNonEmpty(t) PROVE CurrIsRunning'
  BY <1>11 DEF TestNonEmpty
<1>12. ASSUME NEW t \in Threads, SpuriousWakeup(t) PROVE CurrIsRunning'
  BY <1>12 DEF SpuriousWakeup
<1>13. ASSUME NEW t \in Threads, Take(t) PROVE CurrIsRunning'
  BY <1>13 DEF Take
<1>14. ASSUME NEW t \in Threads, Arm(t) PROVE CurrIsRunning'
  BY <1>14 DEF Arm
<1>15. ASSUME NEW t \in Threads, Release(t) PROVE CurrIsRunning'
  BY <1>15 DEF Release
<1> QED
  BY <1>1, <1>2, <1>3, <1>4, <1>5, <1>6, <1>7, <1>8, <1>9,
     <1>10, <1>11, <1>12, <1>13, <1>14, <1>15
     DEF Next, Run, PushTask, ProcessTasks, Quiet

\* A report makes curr_ the last task reported; nothing but the next dequeue
\* changes it.
LEMMA ReportStep ==
  ASSUME TypeOK, SingleProcessor, NoUnderflow, CurrIsRunning, CurrAfterReport,
         [Next]_vars
  PROVE  CurrAfterReport'
<1> USE DEF CurrAfterReport, Running
<1>1. CASE Quiet
  BY <1>1, QuietSteps
<1>2. ASSUME NEW t \in Threads, SendUpdate(t) PROVE CurrAfterReport'
  <2>1. updates \in Seq(Tasks) /\ job[t] \in Tasks /\ job[t] = curr
    BY <1>2 DEF SendUpdate, Goto, TypeOK, CurrIsRunning
  <2>2. /\ updates' = Append(updates, job[t])
        /\ curr' = job[t]
    BY <1>2, <2>1 DEF SendUpdate
  <2>3. updates' # <<>> /\ updates'[Len(updates')] = job[t]
    BY <2>1, <2>2, AppendProperties
  <2> QED
    BY <2>2, <2>3
<1>3. ASSUME NEW t \in Threads, Take(t) PROVE CurrAfterReport'
  <2>1. tasks_queue # <<>> /\ tasks_queue \in Seq(Tasks)
    BY <1>3 DEF Take, Goto, NoUnderflow, TypeOK
  <2>2. Head(tasks_queue) \in Tasks
    BY <2>1, HeadTailProperties
  <2>3. Running' = Head(tasks_queue)
    BY <1>3 DEF Take, Goto, TypeOK
  <2> QED
    BY <2>2, <2>3, TaskAssumption
<1>4. ASSUME UNCHANGED <<curr, updates>>, Running' = Running
      PROVE  CurrAfterReport'
  BY <1>4
<1>5. ASSUME NEW t \in Threads, Arm(t) PROVE CurrAfterReport'
  <2>1. Running = curr /\ job[t] \in Tasks
    BY <1>5 DEF Arm, Goto, TypeOK
  <2>2. Running' = curr
    BY <1>5, <2>1, TaskAssumption DEF Arm
  <2> QED
    BY <1>4, <1>5, <2>1, <2>2 DEF Arm
<1>6. ASSUME NEW t \in IoThreads, RunTimer(t) PROVE CurrAfterReport'
  <2>1. Running = curr
    BY <1>6 DEF RunTimer, TypeOK
  <2>2. Running' = curr
    BY <1>6 DEF RunTimer, Goto, TypeOK, Threads
  <2> QED
    BY <1>4, <1>6, <2>1, <2>2 DEF RunTimer
<1>7. ASSUME NEW t \in IoThreads,
             \/ \E k \in Tasks : RunPost(t, k)
             \/ Return(t) \/ PushBack(t) \/ PushUnlock(t)
      PROVE  CurrAfterReport'
  BY <1>4, <1>7
     DEF RunPost, Return, PushBack, PushUnlock, Goto, TypeOK, Threads
<1>8. ASSUME NEW t \in IoThreads, PushNotify(t) PROVE CurrAfterReport'
  BY <1>4, <1>8 DEF PushNotify, Waiting, TypeOK, Threads
<1>9. ASSUME NEW t \in Threads,
             \/ Lock(t) \/ TestEmpty(t) \/ TestNonEmpty(t)
             \/ SpuriousWakeup(t) \/ Release(t)
      PROVE  CurrAfterReport'
  BY <1>4, <1>9
     DEF Lock, TestEmpty, TestNonEmpty, SpuriousWakeup, Release, Goto, TypeOK
<1> QED
  BY <1>1, <1>2, <1>3, <1>5, <1>6, <1>7, <1>8, <1>9
     DEF Next, Run, PushTask, ProcessTasks, Quiet

-----------------------------------------------------------------------------
(* What a step does to the tasks the server has accepted.                   *)

LEMMA ElementsAppend ==
  ASSUME NEW S, NEW s \in Seq(S), NEW x \in S
  PROVE  Elements(Append(s, x)) = Elements(s) \cup {x}
  BY AppendProperties DEF Elements

LEMMA ElementsHeadTail ==
  ASSUME NEW S, NEW s \in Seq(S), s # <<>>
  PROVE  Elements(s) = {Head(s)} \cup Elements(Tail(s))
<1>1. /\ Tail(s) \in Seq(S)
      /\ Len(Tail(s)) = Len(s) - 1
      /\ \A i \in 1 .. Len(Tail(s)) : Tail(s)[i] = s[i + 1]
      /\ Head(s) = s[1]
      /\ Len(s) \in Nat \ {0}
  BY HeadTailProperties
<1>2. DOMAIN s = 1 .. Len(s) /\ DOMAIN Tail(s) = 1 .. Len(Tail(s))
  BY <1>1
<1>3. ASSUME NEW i \in DOMAIN s PROVE s[i] \in {Head(s)} \cup Elements(Tail(s))
  <2>1. CASE i = 1
    BY <1>1, <2>1
  <2>2. CASE i # 1
    <3>1. i - 1 \in 1 .. Len(Tail(s)) /\ Tail(s)[i - 1] = s[i]
      BY <1>1, <1>2, <2>2
    <3> QED
      BY <1>2, <3>1 DEF Elements
  <2> QED
    BY <2>1, <2>2
<1>4. ASSUME NEW i \in DOMAIN Tail(s) PROVE Tail(s)[i] \in Elements(s)
  BY <1>1, <1>2 DEF Elements
<1>5. Head(s) \in Elements(s)
  BY <1>1, <1>2 DEF Elements
<1> QED
  BY <1>3, <1>4, <1>5 DEF Elements

\* push_task accepts the task it was called with.
LEMMA PushAccepts ==
  ASSUME TypeOK, NEW t \in IoThreads, PushBack(t)
  PROVE  Accepted' = Accepted \cup {job[t]}
<1>1. tasks_queue \in Seq(Tasks) /\ job[t] \in Tasks
  BY DEF PushBack, Goto, TypeOK, Threads
<1>2. Elements(tasks_queue') = Elements(tasks_queue) \cup {job[t]}
  BY <1>1, ElementsAppend DEF PushBack
<1>3. Running' = Running
  BY DEF PushBack, Goto, TypeOK, Threads, Running
<1> QED
  BY <1>2, <1>3 DEF PushBack, Accepted

\* Every other step leaves the accepted tasks as they are; the place NoTask
\* of an idle processor does not count.
LEMMA AcceptedStep ==
  ASSUME TypeOK, SingleProcessor, NoUnderflow, CurrIsRunning, [Next]_vars,
         \A t \in IoThreads : ~PushBack(t)
  PROVE  Accepted' \ {NoTask} = Accepted \ {NoTask}
<1> USE DEF Accepted, Running
<1>1. CASE Quiet
  BY <1>1, QuietSteps
<1>2. ASSUME NEW t \in Threads, Take(t)
      PROVE  Accepted' \ {NoTask} = Accepted \ {NoTask}
  <2>1. tasks_queue # <<>> /\ tasks_queue \in Seq(Tasks)
    BY <1>2 DEF Take, Goto, NoUnderflow, TypeOK
  <2>2. Elements(tasks_queue) = {Head(tasks_queue)} \cup Elements(tasks_queue')
    BY <1>2, <2>1, ElementsHeadTail DEF Take
  <2>3. Running = NoTask
    BY <1>2 DEF Take, Goto, SingleProcessor, Processing
  <2>4. Running' = Head(tasks_queue)
    BY <1>2 DEF Take, Goto, TypeOK
  <2> QED
    BY <1>2, <2>2, <2>3, <2>4 DEF Take
<1>3. ASSUME NEW t \in Threads, SendUpdate(t)
      PROVE  Accepted' \ {NoTask} = Accepted \ {NoTask}
  <2>1. updates \in Seq(Tasks) /\ job[t] \in Tasks /\ job[t] = curr
    BY <1>3 DEF SendUpdate, Goto, TypeOK, CurrIsRunning
  <2>2. Elements(updates') = Elements(updates) \cup {job[t]}
    BY <1>3, <2>1, ElementsAppend DEF SendUpdate
  <2>3. Running = job[t]
    BY <1>3, <2>1 DEF SendUpdate, Goto
  <2>4. Running' = NoTask
    BY <1>3 DEF SendUpdate, Goto, TypeOK, SingleProcessor, Processing
  <2> QED
    BY <1>3, <2>2, <2>3, <2>4 DEF SendUpdate
<1>5. ASSUME NEW t \in Threads, Arm(t) PROVE Accepted' = Accepted
  <2>1. Running = curr /\ job[t] \in Tasks
    BY <1>5 DEF Arm, Goto, TypeOK
  <2>2. Running' = curr
    BY <1>5, <2>1, TaskAssumption DEF Arm
  <2> QED
    BY <1>5, <2>1, <2>2 DEF Arm
<1>6. ASSUME NEW t \in IoThreads, RunTimer(t) PROVE Accepted' = Accepted
  <2>1. Running = curr
    BY <1>6 DEF RunTimer, TypeOK
  <2>2. Running' = curr
    BY <1>6 DEF RunTimer, Goto, TypeOK, Threads
  <2> QED
    BY <1>6, <2>1, <2>2 DEF RunTimer
<1>7. ASSUME NEW t \in IoThreads, NEW k \in Tasks, RunPost(t, k)
      PROVE  Accepted' = Accepted
  BY <1>7 DEF RunPost, Goto, TypeOK, Threads
<1>8. ASSUME NEW t \in IoThreads, Return(t) PROVE Accepted' = Accepted
  BY <1>8 DEF Return, Goto, TypeOK, Threads
<1>9. ASSUME NEW t \in IoThreads, PushUnlock(t) PROVE Accepted' = Accepted
  BY <1>9 DEF PushUnlock, Goto, TypeOK, Threads
<1>10. ASSUME NEW t \in IoThreads, PushNotify(t) PROVE Accepted' = Accepted
  BY <1>10 DEF PushNotify, Waiting, TypeOK, Threads
<1>11. ASSUME NEW t \in Threads,
              \/ Lock(t) \/ TestEmpty(t) \/ TestNonEmpty(t)
              \/ SpuriousWakeup(t) \/ Release(t)
       PROVE  Accepted' = Accepted
  BY <1>11 DEF Lock, TestEmpty, TestNonEmpty, SpuriousWakeup, Release, Goto,
               TypeOK
<1> QED
  BY <1>1, <1>2, <1>3, <1>5, <1>6, <1>7, <1>8, <1>9, <1>10, <1>11
     DEF Next, Run, PushTask, ProcessTasks, Quiet

\* The server accepts what clients posted.
AcceptedPosted == Accepted \subseteq posted \cup {NoTask}

\* What a quiet step may change of the submissions.
LEMMA QuietPlaces ==
  ASSUME TypeOK, Quiet
  PROVE  /\ posted \subseteq posted'
         /\ requests' \subseteq posted' /\ posted' \subseteq Tasks
         /\ requests' \ requests \subseteq posted' \ posted
  BY DEF Quiet, Request, Expire, Exit, RunSignal, PostThrows, vars, TypeOK

LEMMA PlaceStep ==
  ASSUME TypeOK, SingleProcessor, NoUnderflow, CurrIsRunning, OnePlace,
         AcceptedPosted, [Next]_vars
  PROVE  OnePlace' /\ AcceptedPosted'
<1>1. requests \subseteq posted /\ posted \subseteq Tasks
  BY DEF TypeOK
<1>2. ASSUME NEW t \in IoThreads, PushBack(t)
      PROVE  OnePlace' /\ AcceptedPosted'
  <2>1. Accepted' = Accepted \cup {job[t]}
    BY <1>2, PushAccepts
  <2>2. /\ t \in Threads /\ pc[t] = "push"
        /\ \A u \in Threads : pc'[u] = "push" => pc[u] = "push" /\ u # t
        /\ UNCHANGED <<posted, requests, job>>
    BY <1>2 DEF PushBack, Goto, TypeOK, Threads
  <2> QED
    BY <1>1, <2>1, <2>2 DEF OnePlace, AcceptedPosted
<1>3. CASE \A t \in IoThreads : ~PushBack(t)
  <2>1. Accepted' \ {NoTask} = Accepted \ {NoTask}
    BY <1>3, AcceptedStep
  <2>2. CASE Quiet
    <3>1. UNCHANGED <<pc, job>>
      BY <2>2, QuietSteps
    <3>2. /\ posted \subseteq posted'
          /\ requests' \subseteq posted' /\ posted' \subseteq Tasks
          /\ requests' \ requests \subseteq posted' \ posted
      BY <2>2, QuietPlaces
    <3> QED
      BY <1>1, <2>1, <3>1, <3>2, TaskAssumption DEF OnePlace, AcceptedPosted
  <2>3. ASSUME NEW t \in IoThreads, NEW k \in Tasks, RunPost(t, k)
        PROVE  OnePlace' /\ AcceptedPosted'
    <3>1. /\ k \in requests /\ requests' = requests \ {k}
          /\ posted' = posted
          /\ t \in Threads /\ job'[t] = k
          /\ \A u \in Threads :
               u # t => pc'[u] = pc[u] /\ job'[u] = job[u]
      BY <2>3 DEF RunPost, Goto, TypeOK, Threads
    <3> QED
      BY <1>1, <2>1, <3>1, TaskAssumption DEF OnePlace, AcceptedPosted
  <2>4. ASSUME UNCHANGED <<posted, requests>>,
               \A u \in Threads :
                 pc'[u] = "push" => pc[u] = "push" /\ job'[u] = job[u]
        PROVE  OnePlace' /\ AcceptedPosted'
    BY <1>1, <2>1, <2>4, TaskAssumption DEF OnePlace, AcceptedPosted
  <2>5. ASSUME NEW t \in IoThreads,
               RunTimer(t) \/ Return(t) \/ PushUnlock(t) \/ PushNotify(t)
        PROVE  OnePlace' /\ AcceptedPosted'
    BY <2>4, <2>5
       DEF RunTimer, Return, PushUnlock, PushNotify, Waiting, Goto, TypeOK,
           Threads
  <2>6. ASSUME NEW t \in Threads, ProcessTasks(t) \/ SpuriousWakeup(t)
        PROVE  OnePlace' /\ AcceptedPosted'
    BY <2>4, <2>6
       DEF ProcessTasks, SendUpdate, Lock, TestEmpty, TestNonEmpty, Take, Arm,
           Release, SpuriousWakeup, Goto, TypeOK
  <2> QED
    BY <1>3, <2>2, <2>3, <2>5, <2>6 DEF Next, Run, PushTask, Quiet
<1> QED
  BY <1>2, <1>3

-----------------------------------------------------------------------------
(* The inductive invariant                                                  *)

IInv ==
  /\ TypeOK
  /\ MutualExclusion
  /\ SingleProcessor
  /\ NoLostWakeup
  /\ NoUnderflow
  /\ CurrIsRunning
  /\ CurrAfterReport
  /\ OnePlace
  /\ AcceptedPosted

LEMMA InitInv == ASSUME Init PROVE IInv
<1>1. /\ \A t \in Threads : pc[t] = IF t = Consumer THEN "lock" ELSE "idle"
      /\ \A t \in Threads : job[t] = NoTask
      /\ Consumer \in Threads
  BY DEF Init, Threads
<1>2. TypeOK
  <2>1. pc \in [Threads -> PCs] /\ job \in [Threads -> Tasks \cup {NoTask}]
    BY DEF Init, PCs
  <2>2. \A t \in Threads : pc[t] \notin {"push", "arm", "update"}
    BY <1>1
  <2>3. <<>> \in Seq(Tasks)
    OBVIOUS
  <2>4. tasks_queue \in Seq(Tasks) /\ updates \in Seq(Tasks)
    BY <2>3 DEF Init
  <2>5. expired = FALSE /\ stopped = FALSE /\ up = TRUE
    BY DEF Init
  <2>6. posted = {} /\ requests = {} /\ curr = NoTask /\ armed = NoTask
        /\ mutex = NoThread
    BY DEF Init
  <2> QED
    BY <2>1, <2>2, <2>4, <2>5, <2>6 DEF TypeOK
<1>3. MutualExclusion
  BY <1>1, ThreadAssumption DEF Init, MutualExclusion, Holding
<1>4. SingleProcessor
  BY <1>1 DEF Init, SingleProcessor, Processing
<1>5. NoLostWakeup /\ NoUnderflow /\ CurrIsRunning
  BY <1>1 DEF Init, NoLostWakeup, NoUnderflow, CurrIsRunning
<1>6. CurrAfterReport
  BY DEF Init, CurrAfterReport
<1>7. Accepted = {NoTask}
  <2>1. Elements(<<>>) = {}
    BY DEF Elements
  <2> QED
    BY <1>1, <2>1 DEF Init, Accepted, Running
<1>8. OnePlace /\ AcceptedPosted
  BY <1>1, <1>7 DEF Init, OnePlace, AcceptedPosted
<1> QED
  BY <1>2, <1>3, <1>4, <1>5, <1>6, <1>8 DEF IInv

LEMMA NextInv == ASSUME IInv, [Next]_vars PROVE IInv'
  BY TypeStep, MutexStep, ProcessorStep, UnderflowStep, WakeupStep, CurrStep,
     ReportStep, PlaceStep DEF IInv

\* Every reachable state satisfies the inductive invariant.
THEOREM Invariance == Spec => []IInv
  BY InitInv, NextInv, PTL DEF Spec

\* The variables keep their types.
THEOREM TypeCorrect == Spec => []TypeOK
<1>1. IInv => TypeOK
  BY DEF IInv
<1> QED
  BY <1>1, Invariance, PTL

\* mutex_ is held by the thread inside a critical section and no other.
THEOREM MutexSafe == Spec => []MutualExclusion
<1>1. IInv => MutualExclusion
  BY DEF IInv
<1> QED
  BY <1>1, Invariance, PTL

\* There is one processor of tasks at any time, a thread or the timer.
THEOREM OneProcessor == Spec => []SingleProcessor
<1>1. IInv => SingleProcessor
  BY DEF IInv
<1> QED
  BY <1>1, Invariance, PTL

\* No wake-up of cv_ is lost.
THEOREM WakeupKept == Spec => []NoLostWakeup
<1>1. IInv => NoLostWakeup
  BY DEF IInv
<1> QED
  BY <1>1, Invariance, PTL

\* front() and pop_front() never meet an empty list.
THEOREM QueueSafe == Spec => []NoUnderflow
<1>1. IInv => NoUnderflow
  BY DEF IInv
<1> QED
  BY <1>1, Invariance, PTL

\* curr_ is the task in progress.
THEOREM CurrCorrect == Spec => []CurrIsRunning
<1>1. IInv => CurrIsRunning
  BY DEF IInv
<1> QED
  BY <1>1, Invariance, PTL

\* Between two tasks curr_ still is the one reported last.
THEOREM CurrStale == Spec => []CurrAfterReport
<1>1. IInv => CurrAfterReport
  BY DEF IInv
<1> QED
  BY <1>1, Invariance, PTL

\* A submission is never in two places.
THEOREM TaskOnce == Spec => []OnePlace
<1>1. IInv => OnePlace
  BY DEF IInv
<1> QED
  BY <1>1, Invariance, PTL

-----------------------------------------------------------------------------
(* Scheduler implements TaskService.                                        *)

LEMMA InitService == ASSUME Init PROVE Service!Init
  BY DEF Init, Service!Init, Running, Threads

LEMMA StepService ==
  ASSUME IInv, IInv', [Next]_vars
  PROVE  [Service!Next]_(Service!vars)
<1> USE DEF IInv
<1>a. Service!Accepted = Accepted
  BY DEF Service!Accepted, Accepted, Service!Elements, Elements
<1>1. ASSUME NEW k \in Tasks, Request(k) PROVE Service!Request(k)
  BY <1>1 DEF Request, Service!Request, Running
<1>2. CASE Expire
  BY <1>2 DEF Expire, Service!vars, Running
<1>3. CASE Exit
  BY <1>3 DEF Exit, Service!Next, Service!StopServing, Running
<1>4. ASSUME NEW t \in IoThreads, RunSignal(t) PROVE Service!StopServing
  BY <1>4 DEF RunSignal, Service!StopServing, Running
<1>5. ASSUME NEW t \in IoThreads, NEW k \in Tasks, PostThrows(t, k)
      PROVE  Service!StopServing
  BY <1>5 DEF PostThrows, Service!StopServing, Running
<1>6. CASE UNCHANGED vars
  BY <1>6 DEF vars, Service!vars, Running
<1>7. ASSUME NEW t \in IoThreads, NEW k \in Tasks, RunPost(t, k)
      PROVE  UNCHANGED Service!vars
  BY <1>7 DEF RunPost, Goto, Service!vars, Running, TypeOK, Threads
<1>8. ASSUME NEW t \in IoThreads, RunTimer(t) PROVE UNCHANGED Service!vars
  <2>1. Running = curr
    BY <1>8 DEF RunTimer, TypeOK, Running
  <2>2. Running' = curr
    BY <1>8 DEF RunTimer, Goto, TypeOK, Threads, Running
  <2> QED
    BY <1>8, <2>1, <2>2 DEF RunTimer, Service!vars
<1>9. ASSUME NEW t \in IoThreads, Return(t) \/ PushUnlock(t)
      PROVE  UNCHANGED Service!vars
  BY <1>9 DEF Return, PushUnlock, Goto, Service!vars, Running, TypeOK, Threads
<1>10. ASSUME NEW t \in IoThreads, PushNotify(t) PROVE UNCHANGED Service!vars
  BY <1>10 DEF PushNotify, Waiting, Service!vars, Running, TypeOK, Threads
<1>11. ASSUME NEW t \in IoThreads, PushBack(t)
       PROVE  \E k \in Tasks : Service!Accept(k)
  <2>1. job[t] \in Tasks /\ job[t] \in posted \ Accepted
    BY <1>11 DEF PushBack, Goto, TypeOK, OnePlace, Threads
  <2>2. Running' = Running
    BY <1>11 DEF PushBack, Goto, TypeOK, Threads, Running
  <2>3. Service!Accept(job[t])
    BY <1>11, <1>a, <2>1, <2>2 DEF PushBack, Service!Accept
  <2> QED
    BY <2>1, <2>3
<1>12. ASSUME NEW t \in Threads, SendUpdate(t) PROVE Service!Report
  <2>1. job[t] \in Tasks /\ job[t] = curr
    BY <1>12 DEF SendUpdate, Goto, TypeOK, CurrIsRunning
  <2>2. Running = job[t]
    BY <1>12, <2>1 DEF SendUpdate, Goto, Running
  <2>3. Running' = NoTask
    BY <1>12 DEF SendUpdate, Goto, TypeOK, SingleProcessor, Processing, Running
  <2> QED
    BY <1>12, <2>1, <2>2, <2>3, TaskAssumption DEF SendUpdate, Service!Report
<1>13. ASSUME NEW t \in Threads,
              \/ Lock(t) \/ TestEmpty(t) \/ TestNonEmpty(t)
              \/ SpuriousWakeup(t) \/ Release(t)
       PROVE  UNCHANGED Service!vars
  BY <1>13 DEF Lock, TestEmpty, TestNonEmpty, SpuriousWakeup, Release, Goto,
               Service!vars, Running, TypeOK
<1>14. ASSUME NEW t \in Threads, Take(t) PROVE Service!Start
  <2>1. tasks_queue # <<>>
    BY <1>14 DEF Take, Goto, NoUnderflow
  <2>2. Running = NoTask
    BY <1>14 DEF Take, Goto, SingleProcessor, Processing, Running
  <2>3. Running' = Head(tasks_queue)
    BY <1>14 DEF Take, Goto, TypeOK, Running
  <2> QED
    BY <1>14, <2>1, <2>2, <2>3 DEF Take, Service!Start
<1>15. ASSUME NEW t \in Threads, Arm(t) PROVE UNCHANGED Service!vars
  <2>1. Running = curr /\ job[t] \in Tasks
    BY <1>15 DEF Arm, Goto, TypeOK, Running
  <2>2. Running' = curr
    BY <1>15, <2>1, TaskAssumption DEF Arm, Running
  <2> QED
    BY <1>15, <2>1, <2>2 DEF Arm, Service!vars
<1> QED
  BY <1>1, <1>2, <1>3, <1>4, <1>5, <1>6, <1>7, <1>8, <1>9, <1>10, <1>11,
     <1>12, <1>13, <1>14, <1>15
     DEF Next, Run, PushTask, ProcessTasks, Service!Next

\* Every behaviour of the scheduler is one of the task service: tasks run one
\* at a time, in the order of their push_task calls, and are reported once.
THEOREM Implements == Spec => ServiceSteps
<1>1. IInv /\ IInv' /\ [Next]_vars => [Service!Next]_(Service!vars)
  BY StepService
<1> QED
  BY <1>1, InitService, Invariance, PTL DEF Spec, ServiceSteps

=============================================================================
