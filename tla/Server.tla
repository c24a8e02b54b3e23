--------------------------------- MODULE Server ---------------------------------
(***************************************************************************)
(* The server as a whole: module Scheduler and module WebSocketSessions    *)
(* with what they share.  Both run on the same io threads, a thread runs   *)
(* one handler at a time, and one mutex_ guards the queue and the registry.*)
(* The timer's handler calls send(assignee, update) before it calls        *)
(* process_tasks again, and process_tasks may keep its thread for as long  *)
(* as the queue is empty.                                                  *)
(*                                                                         *)
(* The server is not asked to stop here (stopped stays FALSE): that is in  *)
(* module Scheduler.                                                       *)
(***************************************************************************)
EXTENDS Naturals, Sequences, FiniteSets

CONSTANTS
  IoThreads, Consumer, Tasks, Malformed, NoTask, NoThread,        \* Scheduler
  Sessions, Timer, Messages, NameOf, BadMessages, Assignee, NoName,
  NoMessage, Nobody                                      \* WebSocketSessions

ASSUME ThreadAssumption ==  \* what Scheduler assumes
  /\ Consumer \notin IoThreads
  /\ NoThread \notin IoThreads \cup {Consumer}
ASSUME TaskAssumption ==
  /\ NoTask \notin Tasks
  /\ Malformed \subseteq Tasks
ASSUME SessionAssumption == \* and WebSocketSessions
  /\ Timer \notin Sessions
  /\ Nobody \notin Sessions \cup {Timer}
ASSUME MessageAssumption ==
  /\ Messages \cap Tasks = {}
  /\ NoMessage \notin Messages \cup Tasks
  /\ DOMAIN NameOf = Messages
  /\ DOMAIN Assignee = Tasks
  /\ \A k \in Tasks : Assignee[k] # NoName

VARIABLES
  asked, requests, tasks_queue, curr, mutex, armed, expired, pc, job, updates,
  stopped, life, sessions, uid, reading, writing, posted, queue, sent, broken,
  at, msg, fan, held, found, snapshot, inbox, up,
  serves     \* the session whose on_read an io thread runs, or Nobody

Tasking == INSTANCE Scheduler WITH posted <- asked
Chat == INSTANCE WebSocketSessions WITH
          Updates <- Tasks, Malformed <- BadMessages

taskVars == <<asked, requests, tasks_queue, curr, mutex, armed, expired, pc,
              job, updates, stopped>>
chatVars == <<life, sessions, uid, reading, writing, posted, queue, sent,
              broken, at, msg, fan, held, found, snapshot, inbox>>
vars == <<taskVars, chatVars, up, serves>>

Init ==
  /\ Tasking!Init
  /\ Chat!Init
  /\ serves = [t \in IoThreads |-> Nobody]

-----------------------------------------------------------------------------
(* What the two share                                                       *)

\* Thread t is inside ioc.run() and runs no handler.
Free(t) == pc[t] = "idle" /\ serves[t] = Nobody

AnyFree == \E t \in IoThreads : Free(t)

\* Nobody holds mutex_, in either component.
MutexFree == mutex = NoThread /\ Chat!MutexFree

\* Thread t is inside send(assignee, update), called by the timer's handler.
Sending(t) == pc[t] \in {"update", "lock"} /\ at[Timer] # "idle"

OnlyTasks == UNCHANGED <<chatVars, serves>>
OnlyChat  == UNCHANGED taskVars

-----------------------------------------------------------------------------
(* The queue, the timer and POST /api/tasks                                 *)

Request(k) == Tasking!Request(k) /\ OnlyTasks

Expire == Tasking!Expire /\ OnlyTasks

RunPost(k) ==
  /\ \E t \in IoThreads :
       Free(t) /\ (Tasking!RunPost(t, k) \/ Tasking!PostThrows(t, k))
  /\ OnlyTasks

RunTimer ==
  /\ \E t \in IoThreads : Free(t) /\ Tasking!RunTimer(t)
  /\ OnlyTasks

\* push_task and process_tasks wait for mutex_, the latter after the send.
TakeMutex(t) ==
  /\ MutexFree
  /\ \/ t \in IoThreads /\ Tasking!PushBack(t)
     \/ ~Sending(t) /\ Tasking!Lock(t)
  /\ OnlyTasks

\* The steps of push_task and process_tasks that wait for nothing.
Continue(t) ==
  /\ \/ t \in IoThreads /\ (Tasking!PushUnlock(t) \/ Tasking!PushNotify(t))
     \/ Tasking!TestEmpty(t) \/ Tasking!TestNonEmpty(t)
     \/ Tasking!Take(t) \/ Tasking!Arm(t) \/ Tasking!Release(t)
  /\ OnlyTasks

-----------------------------------------------------------------------------
(* The report of a task                                                     *)

\* send(assignee, update) with the task of the completion handler.
StartUpdate ==
  /\ MutexFree
  /\ \E t \in IoThreads : pc[t] = "update" /\ Chat!Update(job[t])
  /\ OnlyChat /\ UNCHANGED serves

\* Mutant: send(id, message) forgets the session it has found.
EndScanForgets ==
  /\ fan[Timer] = {}
  /\ at[Timer] = "scan"
  /\ at' = [at EXCEPT ![Timer] = "fan"]
  /\ found' = Nobody
  /\ \E t \in IoThreads : Tasking!SendUpdate(t)
  /\ UNCHANGED <<life, sessions, uid, reading, writing, posted, queue, sent,
                 broken, msg, fan, held, snapshot, inbox, serves>>

\* The scan is over and mutex_ released: from here on the task is reported.
EndScan ==
  /\ Chat!EndScan
  /\ \E t \in IoThreads : Tasking!SendUpdate(t)
  /\ UNCHANGED serves

-----------------------------------------------------------------------------
(* WebSocket sessions                                                       *)

\* Handlers of one step: some io thread runs them.
RunSession(s) ==
  /\ AnyFree
  /\ \/ Chat!Upgrade(s) \/ Chat!AcceptFails(s) \/ Chat!ReadFails(s)
     \/ MutexFree /\ Chat!Accept(s)
     \/ \E m \in Messages : Chat!ReadThrows(s, m)
  /\ OnlyChat /\ UNCHANGED serves

RunOnSend(s) == AnyFree /\ Chat!OnSend(s) /\ OnlyChat /\ UNCHANGED serves

RunOnWrite(s) == AnyFree /\ Chat!Write(s) /\ OnlyChat /\ UNCHANGED serves

\* on_read keeps its thread until it has read, assigned, copied and sent.
StartRead(s) ==
  /\ \E t \in IoThreads :
       Free(t) /\ serves' = [serves EXCEPT ![t] = s]
  /\ \E m \in Messages : Chat!ReadMessage(s, m)
  /\ OnlyChat

FinishRead(s) ==
  /\ Chat!Finish(s)
  /\ serves' = [t \in IoThreads |-> IF serves[t] = s THEN Nobody ELSE serves[t]]
  /\ OnlyChat

CopySessions(s) ==
  MutexFree /\ Chat!CopySessions(s) /\ OnlyChat /\ UNCHANGED serves

\* The steps of a send, and of the assignment, that wait for nothing.
ContinueSend(c) ==
  /\ \/ c \in Sessions /\ Chat!AssignUid(c)
     \/ c = Timer /\ Chat!Finish(c)
     \/ c = Timer /\ \E s \in Sessions : Chat!CompareUid(s)
     \/ \E s \in Sessions : Chat!Lock(c, s)
     \/ Chat!Post(c)
  /\ OnlyChat /\ UNCHANGED serves

Leave(s) == MutexFree /\ Chat!Leave(s) /\ OnlyChat /\ UNCHANGED serves

-----------------------------------------------------------------------------
\* What the program does by itself once it has been asked: the steps of a
\* running handler, the dispatch of a ready one, the expiry and the writes.
Progress ==
  \/ Expire \/ RunTimer \/ StartUpdate \/ EndScan
  \/ \E k \in Tasks : RunPost(k)
  \/ \E t \in Tasking!Threads : TakeMutex(t) \/ Continue(t)
  \/ \E s \in Sessions :
       \/ RunOnSend(s) \/ RunOnWrite(s)
       \/ CopySessions(s) \/ FinishRead(s) \/ Leave(s)
  \/ \E c \in Sessions \cup {Timer} : ContinueSend(c)

\* What clients and connections do.
World ==
  \/ \E k \in Tasks : Request(k)
  \/ \E s \in Sessions : RunSession(s) \/ StartRead(s)

Next == up /\ (Progress \/ World)

Spec == Init /\ [][Next]_vars

(***************************************************************************)
(* Fairness.  The program does not stop while it can do anything.  No more *)
(* is needed: clients ask a bounded number of times and cv_.wait returns   *)
(* here only after a notification (spurious wake-ups are in Scheduler), so *)
(* every behaviour comes to an end, and what it must not do is to end too  *)
(* early, with every thread waiting for something.                         *)
(***************************************************************************)
FairSpec == Spec /\ WF_vars(up /\ Progress)

-----------------------------------------------------------------------------
(* Properties                                                               *)

\* When the program can do nothing by itself it has nothing left to do: no
\* submission is unhandled or unreported, no handler is stuck in a send, no
\* message waits to be written except behind a failed write, mutex_ is free, and
\* an io thread is left for the next client, although one may sleep in
\* process_tasks and all wait for the same mutex_.
NothingStuck ==
  (up /\ ~ENABLED Progress) =>
    /\ requests = {} /\ asked \subseteq Chat!Elements(updates)
    /\ \A c \in Sessions \cup {Timer} : at[c] = "idle"
    /\ \A s \in Sessions : posted[s] = <<>> /\ (queue[s] = <<>> \/ broken[s])
    /\ MutexFree /\ AnyFree

\* Where the updates are in what a session was sent.
Told(s) == {i \in DOMAIN Chat!Line(s) : Chat!Line(s)[i] \in Tasks}

Rank(k) == CHOOSE i \in DOMAIN updates : updates[i] = k

\* An assignee is told of tasks in the order in which they were queued, and
\* of none before its time was over, although a thread of its own writes to
\* the client while the next task is already running.
ToldInOrder ==
  \A s \in Sessions :
    LET line == Chat!Line(s)
    IN  /\ \A i \in Told(s) : line[i] \in Chat!Elements(updates)
        /\ \A i, j \in Told(s) : i < j => Rank(line[i]) < Rank(line[j])

\* Two io threads suffice, although one may sleep in process_tasks while
\* broadcasts keep the other busy: every task is reported, and if its assignee
\* is registered under its name when it is asked for, the update is written to
\* the assignee's client, unless that session ends or a write to it fails.
EventuallyTold ==
  \A k \in Tasks :
    /\ k \in asked ~> (k \in Chat!Elements(updates) \/ ~up)
    /\ \A s \in Sessions :
         (k \in requests /\ s \in sessions /\ uid[s] = Assignee[k] /\ at[s] # "assign")
           ~> \/ \E r \in Sessions : k \in Chat!Elements(sent[r])
              \/ s \notin sessions \/ broken[s]
              \/ ~up
=============================================================================
