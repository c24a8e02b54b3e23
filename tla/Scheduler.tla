------------------------------- MODULE Scheduler -------------------------------
(***************************************************************************)
(* The scheduler of gss-server: shared_state's task queue, its mutex_,     *)
(* condition variable and deadline timer, the detached consumer thread     *)
(* main() starts, and the threads that run the io_context.                 *)
(*                                                                         *)
(* A call of process_tasks() blocks on cv_ until the queue has a task,     *)
(* dequeues it and arms the timer; the timer's completion handler runs on  *)
(* an io thread, reports the task to its assignee and calls process_tasks  *)
(* again.  Handlers of POST /api/tasks call push_task().                   *)
(*                                                                         *)
(* Every access of the queue modelled here is made with mutex_ held; the   *)
(* copies GET /api/admin makes without it are in module AdminSnapshot.     *)
(***************************************************************************)
EXTENDS Naturals, Sequences, FiniteSets

CONSTANTS
  IoThreads,  \* threads inside ioc.run(): main and its threads - 1 helpers
  Consumer,   \* the detached thread of main.cpp:69
  Tasks,      \* submissions; each is a POST /api/tasks of its own
  Malformed,  \* submissions whose body json::parse or a conversion rejects
  NoTask,
  NoThread

Threads == IoThreads \cup {Consumer}

ASSUME ThreadAssumption ==
  /\ Consumer \notin IoThreads
  /\ NoThread \notin Threads
ASSUME TaskAssumption ==
  /\ NoTask \notin Tasks
  /\ Malformed \subseteq Tasks

VARIABLES
  posted,      \* submissions clients have made (history; bounds the model)
  requests,    \* those whose handler the io_context has still to run
  tasks_queue, \* shared_state::tasks_queue_, front first
  curr,        \* shared_state::curr_
  mutex,       \* the thread that holds mutex_, or NoThread
  armed,       \* the task captured by the pending timer_.async_wait, or NoTask
  expired,     \* TRUE when that wait completed and its handler is ready
  pc,          \* where each thread is
  job,         \* the task local to the function each thread is in
  updates,     \* tasks handed to send(assignee, "update"), in order
  stopped,     \* ioc.stop() was called
  up           \* FALSE once the process is over

vars == <<posted, requests, tasks_queue, curr, mutex, armed, expired, pc, job,
          updates, stopped, up>>

-----------------------------------------------------------------------------
(* Program counters.                                                       *)
(*   idle     inside ioc.run(), between two handlers                       *)
(*   push     push_task: before mutex_ is locked                           *)
(*   unlock   push_task: the task is queued, mutex_ held                   *)
(*   notify   push_task: mutex_ released, notify_one still to come         *)
(*   update   timer handler: before send(assignee, update)                 *)
(*   lock     process_tasks: wants mutex_ (on entry or after a wake-up)    *)
(*   test     process_tasks: holds mutex_, at the while condition          *)
(*   wait     process_tasks: blocked in cv_.wait                           *)
(*   take     process_tasks: queue not empty, before front()/pop_front()   *)
(*   arm      process_tasks: task dequeued, timer not armed yet            *)
(*   release  process_tasks: timer armed, mutex_ not released yet          *)
(*   returned ioc.run() (or the consumer's lambda) has returned            *)

PCs == {"idle", "push", "unlock", "notify", "update", "lock", "test", "wait",
        "take", "arm", "release", "returned"}

Holding == {"unlock", "test", "take", "arm", "release"}

\* The places of a thread that is responsible for the next task.
Processing == {"update", "lock", "test", "wait", "take", "arm"}

Goto(t, from, to) == pc[t] = from /\ pc' = [pc EXCEPT ![t] = to]

Waiting == {t \in Threads : pc[t] = "wait"}

Init ==
  /\ posted = {}
  /\ requests = {}
  /\ tasks_queue = <<>>
  /\ curr = NoTask
  /\ mutex = NoThread
  /\ armed = NoTask
  /\ expired = FALSE
  /\ pc = [t \in Threads |-> IF t = Consumer THEN "lock" ELSE "idle"]
  /\ job = [t \in Threads |-> NoTask]
  /\ updates = <<>>
  /\ stopped = FALSE
  /\ up = TRUE

-----------------------------------------------------------------------------
(* Clients, the clock and the io_context                                   *)

\* A client sends POST /api/tasks and the request has been read.
Request(k) ==
  /\ k \notin posted
  /\ posted' = posted \cup {k}
  /\ requests' = requests \cup {k}
  /\ UNCHANGED <<tasks_queue, curr, mutex, armed, expired, pc, job, updates,
                 stopped, up>>

Expire ==
  /\ armed # NoTask
  /\ ~expired
  /\ expired' = TRUE
  /\ UNCHANGED <<posted, requests, tasks_queue, curr, mutex, armed, pc, job,
                 updates, stopped, up>>

\* Mutant: the handler of a request stays ready.
RunPostAgain(t, k) ==
  /\ ~stopped
  /\ k \in requests \ Malformed
  /\ Goto(t, "idle", "push")
  /\ job' = [job EXCEPT ![t] = k]
  /\ UNCHANGED <<posted, requests, tasks_queue, curr, mutex, armed, expired,
                 updates, stopped, up>>

\* An idle io thread runs the handler of a POST: json::parse and the
\* conversions succeed and push_task is called.
RunPost(t, k) ==
  /\ ~stopped
  /\ k \in requests \ Malformed
  /\ requests' = requests \ {k}
  /\ Goto(t, "idle", "push")
  /\ job' = [job EXCEPT ![t] = k]
  /\ UNCHANGED <<posted, tasks_queue, curr, mutex, armed, expired, updates,
                 stopped, up>>

\* They throw: nothing between the handler and ioc.run() catches, so the
\* exception ends the process (main() logs it, a helper thread terminates).
PostThrows(t, k) ==
  /\ ~stopped
  /\ pc[t] = "idle"
  /\ k \in requests \cap Malformed
  /\ requests' = requests \ {k}
  /\ up' = FALSE
  /\ UNCHANGED <<posted, tasks_queue, curr, mutex, armed, expired, pc, job,
                 updates, stopped>>

\* Mutant: the completion handler does not capture the task.
RunTimerNoCapture(t) ==
  /\ ~stopped
  /\ expired
  /\ Goto(t, "idle", "update")
  /\ armed' = NoTask
  /\ expired' = FALSE
  /\ UNCHANGED <<posted, requests, tasks_queue, curr, mutex, job, updates,
                 stopped, up>>

\* An idle io thread runs the completion handler of the timer.
RunTimer(t) ==
  /\ ~stopped
  /\ expired
  /\ Goto(t, "idle", "update")
  /\ job' = [job EXCEPT ![t] = armed]
  /\ armed' = NoTask
  /\ expired' = FALSE
  /\ UNCHANGED <<posted, requests, tasks_queue, curr, mutex, updates, stopped,
                 up>>

\* SIGINT or SIGTERM: an idle io thread runs the handler that stops ioc.
RunSignal(t) ==
  /\ ~stopped
  /\ pc[t] = "idle"
  /\ stopped' = TRUE
  /\ UNCHANGED <<posted, requests, tasks_queue, curr, mutex, armed, expired,
                 pc, job, updates, up>>

\* Mutant: a stopped thread stays in run() while requests are unhandled.
ReturnOnlyWhenDrained(t) ==
  /\ stopped
  /\ requests = {}
  /\ Goto(t, "idle", "returned")
  /\ UNCHANGED <<posted, requests, tasks_queue, curr, mutex, armed, expired,
                 job, updates, stopped, up>>

\* After ioc.stop() a thread returns from run() when its handler is over.
Return(t) ==
  /\ stopped
  /\ Goto(t, "idle", "returned")
  /\ UNCHANGED <<posted, requests, tasks_queue, curr, mutex, armed, expired,
                 job, updates, stopped, up>>

\* main() has joined every helper and leaves.
Exit ==
  /\ \A t \in IoThreads : pc[t] = "returned"
  /\ up' = FALSE
  /\ UNCHANGED <<posted, requests, tasks_queue, curr, mutex, armed, expired,
                 pc, job, updates, stopped>>

-----------------------------------------------------------------------------
(* shared_state::push_task                                                 *)

\* Mutant: push_task does not lock mutex_.
PushBackUnlocked(t) ==
  /\ Goto(t, "push", "unlock")
  /\ mutex' = t
  /\ tasks_queue' = Append(tasks_queue, job[t])
  /\ UNCHANGED <<posted, requests, curr, armed, expired, job, updates,
                 stopped, up>>

\* Mutant: push_front for push_back.
PushFront(t) ==
  /\ mutex = NoThread
  /\ Goto(t, "push", "unlock")
  /\ mutex' = t
  /\ tasks_queue' = <<job[t]>> \o tasks_queue
  /\ UNCHANGED <<posted, requests, curr, armed, expired, job, updates,
                 stopped, up>>

PushBack(t) ==
  /\ mutex = NoThread
  /\ Goto(t, "push", "unlock")
  /\ mutex' = t
  /\ tasks_queue' = Append(tasks_queue, job[t])
  /\ UNCHANGED <<posted, requests, curr, armed, expired, job, updates,
                 stopped, up>>

\* Mutant: push_task does not notify.
PushUnlockSilently(t) ==
  /\ Goto(t, "unlock", "idle")
  /\ mutex' = NoThread
  /\ UNCHANGED <<posted, requests, tasks_queue, curr, armed, expired, job,
                 updates, stopped, up>>

PushUnlock(t) ==
  /\ Goto(t, "unlock", "notify")
  /\ mutex' = NoThread
  /\ UNCHANGED <<posted, requests, tasks_queue, curr, armed, expired, job,
                 updates, stopped, up>>

\* cv_.notify_one(): some waiting thread wakes, if there is one; a woken
\* thread has to take mutex_ again.  The handler returns.
PushNotify(t) ==
  /\ pc[t] = "notify"
  /\ \/ /\ Waiting = {}
        /\ pc' = [pc EXCEPT ![t] = "idle"]
     \/ \E w \in Waiting :
          pc' = [pc EXCEPT ![t] = "idle", ![w] = "lock"]
  /\ UNCHANGED <<posted, requests, tasks_queue, curr, mutex, armed, expired,
                 job, updates, stopped, up>>

-----------------------------------------------------------------------------
(* shared_state::process_tasks and the timer handler that calls it          *)

\* send(assignee, update): takes and releases mutex_ for the lookup.
SendUpdate(t) ==
  /\ mutex = NoThread
  /\ Goto(t, "update", "lock")
  /\ updates' = Append(updates, job[t])
  /\ UNCHANGED <<posted, requests, tasks_queue, curr, mutex, armed, expired,
                 job, stopped, up>>

Lock(t) ==
  /\ mutex = NoThread
  /\ Goto(t, "lock", "test")
  /\ mutex' = t
  /\ UNCHANGED <<posted, requests, tasks_queue, curr, armed, expired, job,
                 updates, stopped, up>>

\* The queue is empty: cv_.wait releases mutex_ and blocks in one step.
TestEmpty(t) ==
  /\ tasks_queue = <<>>
  /\ Goto(t, "test", "wait")
  /\ mutex' = NoThread
  /\ UNCHANGED <<posted, requests, tasks_queue, curr, armed, expired, job,
                 updates, stopped, up>>

\* Mutant: process_tasks does not test the queue again.
TestSkipped(t) ==
  /\ Goto(t, "test", "take")
  /\ UNCHANGED <<posted, requests, tasks_queue, curr, mutex, armed, expired,
                 job, updates, stopped, up>>

TestNonEmpty(t) ==
  /\ tasks_queue # <<>>
  /\ Goto(t, "test", "take")
  /\ UNCHANGED <<posted, requests, tasks_queue, curr, mutex, armed, expired,
                 job, updates, stopped, up>>

\* cv_.wait may return without a notification.
SpuriousWakeup(t) ==
  /\ Goto(t, "wait", "lock")
  /\ UNCHANGED <<posted, requests, tasks_queue, curr, mutex, armed, expired,
                 job, updates, stopped, up>>

\* Mutant: curr_ is set only for the first task.
TakeCurrOnce(t) ==
  /\ Goto(t, "take", "arm")
  /\ job' = [job EXCEPT ![t] = Head(tasks_queue)]
  /\ curr' = IF curr = NoTask THEN Head(tasks_queue) ELSE curr
  /\ tasks_queue' = Tail(tasks_queue)
  /\ UNCHANGED <<posted, requests, mutex, armed, expired, updates, stopped,
                 up>>

Take(t) ==
  /\ Goto(t, "take", "arm")
  /\ job' = [job EXCEPT ![t] = Head(tasks_queue)]
  /\ curr' = Head(tasks_queue)
  /\ tasks_queue' = Tail(tasks_queue)
  /\ UNCHANGED <<posted, requests, mutex, armed, expired, updates, stopped,
                 up>>

\* expires_from_now and async_wait, whose handler captures the task.
Arm(t) ==
  /\ Goto(t, "arm", "release")
  /\ armed' = job[t]
  /\ expired' = FALSE
  /\ UNCHANGED <<posted, requests, tasks_queue, curr, mutex, job, updates,
                 stopped, up>>

\* Mutant: the consumer's lambda is a loop.
ReleaseAndLoop(t) ==
  /\ Goto(t, "release", IF t = Consumer THEN "lock" ELSE "idle")
  /\ mutex' = NoThread
  /\ UNCHANGED <<posted, requests, tasks_queue, curr, armed, expired, job,
                 updates, stopped, up>>

\* The lock goes out of scope; the consumer's lambda or the handler returns.
Release(t) ==
  /\ Goto(t, "release", IF t = Consumer THEN "returned" ELSE "idle")
  /\ mutex' = NoThread
  /\ UNCHANGED <<posted, requests, tasks_queue, curr, armed, expired, job,
                 updates, stopped, up>>

-----------------------------------------------------------------------------
PushTask(t) == PushBack(t) \/ PushUnlock(t) \/ PushNotify(t)

ProcessTasks(t) ==
  \/ SendUpdate(t)
  \/ Lock(t)
  \/ TestEmpty(t) \/ TestNonEmpty(t)
  \/ Take(t) \/ Arm(t) \/ Release(t)

Run(t) ==
  \/ \E k \in Tasks : RunPost(t, k) \/ PostThrows(t, k)
  \/ RunTimer(t)
  \/ Return(t)

Next ==
  /\ up
  /\ \/ \E k \in Tasks : Request(k)
     \/ Expire
     \/ Exit
     \/ \E t \in IoThreads : Run(t) \/ RunSignal(t) \/ PushTask(t)
     \/ \E t \in Threads : ProcessTasks(t) \/ SpuriousWakeup(t)

Spec == Init /\ [][Next]_vars

(***************************************************************************)
(* Fairness.  The operating system keeps scheduling every thread that is   *)
(* not blocked, a thread that wants a mutex which is released again and    *)
(* again gets it some day (strong fairness), the clock reaches the timer's *)
(* expiry, and a ready handler is eventually taken by a thread that stays  *)
(* idle (the io_context's queue is first in, first out).  Nothing is       *)
(* assumed of clients, signals or spurious wake-ups.                       *)
(***************************************************************************)
Fairness ==
  /\ WF_vars(up /\ Expire)
  /\ WF_vars(up /\ Exit)
  /\ WF_vars(up /\ \E t \in IoThreads : RunTimer(t))
  /\ \A k \in Tasks :
       WF_vars(up /\ \E t \in IoThreads : RunPost(t, k) \/ PostThrows(t, k))
  /\ \A t \in IoThreads :
       /\ WF_vars(up /\ (Return(t) \/ PushUnlock(t) \/ PushNotify(t)))
       /\ SF_vars(up /\ PushBack(t))
  /\ \A t \in Threads :
       /\ WF_vars(up /\ ProcessTasks(t))
       /\ SF_vars(up /\ (SendUpdate(t) \/ Lock(t)))

FairSpec == Spec /\ Fairness

-----------------------------------------------------------------------------
(* Properties                                                              *)

\* Types; a function that runs with a task local has one, and only a pending
\* wait can have completed.
TypeOK ==
  /\ posted \subseteq Tasks
  /\ requests \subseteq posted
  /\ tasks_queue \in Seq(Tasks)
  /\ curr \in Tasks \cup {NoTask}
  /\ mutex \in Threads \cup {NoThread}
  /\ armed \in Tasks \cup {NoTask}
  /\ expired \in BOOLEAN
  /\ expired => armed # NoTask
  /\ pc \in [Threads -> PCs]
  /\ job \in [Threads -> Tasks \cup {NoTask}]
  /\ \A t \in Threads : pc[t] \in {"push", "arm", "update"} => job[t] \in Tasks
  /\ updates \in Seq(Tasks)
  /\ stopped \in BOOLEAN
  /\ up \in BOOLEAN

\* mutex_ is held by exactly the thread whose place says so: no two threads
\* are ever between a lock and an unlock of push_task or process_tasks.
MutualExclusion ==
  \A t \in Threads : (mutex = t) <=> (pc[t] \in Holding)

\* process_tasks starts itself again from its own timer, so the server has
\* exactly one processor: one thread in process_tasks (or about to call it)
\* or one pending timer, never both, never two and never none.
SingleProcessor ==
  IF armed = NoTask
  THEN \E p \in Threads : \A t \in Threads : pc[t] \in Processing <=> t = p
  ELSE \A t \in Threads : pc[t] \notin Processing

\* When a thread sleeps in cv_.wait although the queue has a task, the
\* notify_one that follows the push is still to come.
NoLostWakeup ==
  (tasks_queue # <<>> /\ Waiting # {})
    => \E t \in Threads : pc[t] \in {"unlock", "notify"}

\* front() and pop_front() in process_tasks never meet an empty list, on
\* which they would throw out of the handler.
NoUnderflow ==
  \A t \in Threads : pc[t] = "take" => tasks_queue # <<>>

\* From its dequeue to its report, curr_ (the "processing" field of GET
\* /api/admin) is the task the processor or the pending timer works on.
CurrIsRunning ==
  /\ armed # NoTask => curr = armed
  /\ \A t \in Threads : pc[t] \in {"arm", "update"} => curr = job[t]

\* The task in progress: captured by the pending wait, or local to a thread
\* between its dequeue and its report.
Running ==
  IF armed # NoTask \/ \E t \in Threads : pc[t] \in {"arm", "update"}
  THEN curr
  ELSE NoTask

\* curr_ is never reset: when nothing is in progress, GET /api/admin still
\* shows the task that was reported last as "processing".
CurrAfterReport ==
  Running = NoTask =>
    curr = IF updates = <<>> THEN NoTask ELSE updates[Len(updates)]

Elements(s) == {s[i] : i \in DOMAIN s}

\* What the server has accepted: queued, in progress or reported.
Accepted == Elements(tasks_queue) \cup {Running} \cup Elements(updates)

\* A submission is in one place only: not handled yet, in one push_task call,
\* or accepted.  No handler runs twice and no task is queued twice, whatever
\* the threads do.
OnePlace ==
  /\ requests \cap Accepted = {}
  /\ \A t \in Threads : pc[t] = "push" => job[t] \in posted \ (requests \cup Accepted)
  /\ \A t, u \in Threads :
       (pc[t] = "push" /\ pc[u] = "push" /\ job[t] = job[u]) => t = u

Service == INSTANCE TaskService WITH
  requested <- posted,
  pending   <- tasks_queue,
  running   <- Running,
  reported  <- updates,
  serving   <- up /\ ~stopped

\* Tasks run one at a time in the order push_task queued them, each is
\* reported once, and as long as the server serves, every submission is
\* queued, started and reported.
ServiceSpec == Service!Spec

\* The safety part of ServiceSpec.
ServiceSteps == Service!Init /\ [][Service!Next]_(Service!vars)

\* After a signal main() gets to its end, unless an io thread is blocked in
\* cv_.wait on an empty queue: then nobody is left to push a task.
ShutdownOrBlocked ==
  stopped ~> \/ ~up
             \/ tasks_queue = <<>> /\ \E t \in IoThreads : pc[t] = "wait"

\* Tasks are enqueued while another thread dequeues: a request that arrived
\* is handled unless the server stops.
EnqueuedConcurrently ==
  \A k \in Tasks : k \in requests ~> (k \notin requests \/ stopped)
=============================================================================
