# GSS, the Generic Service Scheduler: a verification project

GSS is a small C++20 server (Boost.Asio and Beast).  A web front end posts
tasks, each with an assignee and a duration; the server runs them one at a
time, first in first out, and tells the assignee's WebSocket when the time of
its task is over.  The modules here model the code under `src/src/`, TLC
checks them on small instances, and TLAPS proves for every value of the
constants the safety properties of the scheduler, the sessions, the HTTP
front end, the list, the admin view, the server they make up, and the router's
insertion.

Contents: 1 the system; 2 the modules; 3 the runs; 4 fairness; 5 the proofs;
6 what the checks found; 7 what is not modelled; 8 the plan.

## 1. The system

### Components, state, operations

| component | source | state | operations | concurrency |
|---|---|---|---|---|
| task scheduler | `gss-server/shared_state.{hpp,cpp}`, `main.cpp` | `tasks_queue_`, `curr_`, `timer_`, `mutex_`, `cv_` | `push_task`, `process_tasks`, timer handler, (`pop_task`, `peek_task`: no caller) | any io thread pushes; the processor is first the detached consumer thread, then whichever io thread runs the timer handler |
| session registry and fan-out | `shared_state::join/leave/send` | `sessions_` (raw pointers) | join, leave, broadcast, send to one id | under `mutex_`; the fan-out itself without it, over weak pointers |
| WebSocket session | `gss-server/websocket_session.{hpp,cpp}` | `queue_`, `uid_`, `buffer_`, the stream | accept, read, post to the strand, write, destruction | one strand per session, except `uid()` |
| HTTP session | `gss-server/http_session.{hpp,cpp}` | parser, stream, `buffer_` | read, handle, write, upgrade, close | one strand per connection, one operation in flight |
| listener | `gss-server/listener.{hpp,cpp}` | acceptor | accept loop | one accept in flight |
| admin view | `http_session.cpp:176-201`, `shared_state.cpp:61,122` | none of its own | copies the queue and `curr_` | without `mutex_` |
| list | `containers/list.hpp` | nodes, `head_`, `tail_` | push/pop at both ends, copy, move, erase_all, size | none of its own |
| task | `gss-server/Task.{hpp,cpp}` | assignee, description, duration | construct, print, serialize | immutable |
| ticker | `gss-server/Ticker.{hpp,cpp}` | timer | broadcast every interval | not started by `main` |
| router | `router/` (vendored from Boost.URL's examples) | a pool of nodes that forms a tree of path segments | insert, find | constructed by `main`, used by no handler; single-threaded |

### How they interact

* **Calls.**  The listener makes an HTTP session of each connection.  Its
  `on_read` calls `handle_request`, which calls `shared_state::push_task` for
  `POST /api/tasks` and `tasks()` and `current()` for `GET /api/admin`; on an
  upgrade it makes a WebSocket session and hands the socket over.  A WebSocket
  session calls `join` when it is accepted, `send(message)` for what it reads
  and `leave` in its destructor.
* **Callbacks.**  `process_tasks` arms `timer_`; its completion handler calls
  `send(assignee, "update")` and then `process_tasks` again.  The server has
  no loop: the chain of timers is the loop.
* **Messages.**  `send` posts `on_send` to the strand of each session.
* **Shared state.**  `mutex_` guards both `tasks_queue_` and `sessions_`.
  Three accesses do without it: `tasks()`, `current()`, and `uid_`, which is
  assigned on a strand and read under `mutex_`.
* **Ownership.**  Sessions live as long as a pending operation, a posted
  handler or a sender holds a `shared_ptr`; the registry holds raw pointers.

### What is hard, and what makes each part correct

* *Scheduler.*  The consumer and the io threads interleave between lock, test,
  wait, notify and unlock; wake-ups may be spurious or come early.  Correct
  means: exactly one processor, no lost wake-up, no `front()` of an empty
  list, each accepted task run once and in order, every submission reported
  while the server serves, and an orderly end after a signal.
* *Registry and WebSocket sessions.*  A broadcast works on a copy of the
  registry while sessions join, die and broadcast themselves.  Correct means:
  the registry only points to sessions that exist, no handler meets a
  destroyed one, one write at a time, messages once and in order, survivors
  all reached, ended sessions destroyed.
* *HTTP sessions and listener.*  Clients pipeline, give up and ask again;
  reads and writes fail or expire.  Correct means: answers in order, nothing
  after `Connection: close`, an acknowledged task is queued, a task is queued
  twice only when an answer was lost, no session waits for ever.
* *List.*  Pointers in two directions, deletion at both ends, copies and
  moves.  Correct means: consistent chains, each node deleted once, no leak,
  and the results sequences would give.
* *Admin view.*  A copy that runs beside the writers.  Correct would mean that
  it only follows nodes and task objects that exist; section 6 says that it
  does not.
* *Router.*  Templates arrive in any order, share, extend and prune each
  other's nodes, and the search backtracks over optional and many-segment
  fields and dots.  Correct means: one sorted tree that owns each resource
  once, a search that finds what a definition without a tree says it should,
  and an insertion that throws changes nothing; section 6 says that it does.
* *All of it together.*  The scheduler's handlers, the sessions' handlers and
  the timer's handler, which does work for both, share io threads and one
  mutex.  Correct means: two threads suffice, every task is reported, and its
  assignee is told in order.

`PROJECT.json` lists each hazard at its line with the properties about it.

## 2. The modules

| module | models | composed with |
|---|---|---|
| `TaskService` | abstract: what a client is promised about a task | refined by `Scheduler` |
| `TaskServiceProofs` | the proofs about `TaskService` | extends `TaskService` |
| `Scheduler` | queue, `mutex_`, `cv_`, `timer_`, consumer and io threads | `INSTANCE TaskService` |
| `SchedulerProofs` | the proofs about `Scheduler` | extends `Scheduler` |
| `Deque` | abstract: the list's calls on sequences | refined by `DoublyLinkedList` |
| `DoublyLinkedList` | `list.hpp` on a heap | `INSTANCE Deque` |
| `ListProofs` | the proofs about `DoublyLinkedList` | extends `DoublyLinkedList` |
| `AdminSnapshot` | the unlocked copy against the writers, one load or store at a time | |
| `AdminSnapshotProofs` | the proofs about `AdminSnapshot` | extends `AdminSnapshot` |
| `WebSocketSessions` | WebSocket sessions, the registry, both `send`s | |
| `WebSocketProofs` | the proofs about `WebSocketSessions` | extends `WebSocketSessions` |
| `HttpSessions` | listener, HTTP sessions, `handle_request`, clients | |
| `HttpProofs` | the proofs about `HttpSessions` | extends `HttpSessions` |
| `Server` | the server while it is up: io threads, mutex and timer handler shared | `INSTANCE Scheduler`, `INSTANCE WebSocketSessions` |
| `ServerProofs` | the proofs about `Server` | extends `Server`, `INSTANCE SchedulerProofs`, `INSTANCE WebSocketProofs` |
| `RouterTree` | the router's tree: `insert` | |
| `RouterProofs` | the proofs about `RouterTree` | extends `RouterTree` |
| `Router` | the search: `find` | extends `RouterTree` |
| `RouterProperties` | what a router promises, defined without a tree | extends `Router` |
| `MC…` | symmetry and values for TLC | extend the above |

An operator whose comment begins with "Mutant:" is no part of a specification:
it stands before the definition it would replace, and shows that a property
notices a plausible bug there.

### Scheduler

One action per stretch of code between two points where another thread can
interfere.  `pc` holds a thread's place, `job` the task local to its function.

| code | actions |
|---|---|
| request read, handler ready | `Request` |
| handler of `POST /api/tasks` (`http_session.cpp:152-174`) | `RunPost`, `PostThrows` |
| `push_task` (`shared_state.cpp:63-70`) | `PushBack`, `PushUnlock`, `PushNotify` |
| `process_tasks` (86-120) | `Lock`, `TestEmpty`, `TestNonEmpty`, `SpuriousWakeup`, `Take`, `Arm`, `Release` |
| timer (106-110) and its handler (110-119) | `Expire`, `RunTimer`, `SendUpdate`, then `Lock` |
| `main.cpp:69-96` | `Init` (the consumer starts in `process_tasks`), `RunSignal`, `Return`, `Exit` |

`cv_.wait` releases the mutex and blocks in one step, as the standard says;
`notify_one` wakes any one waiting thread; the mutex is free to anybody.
`send(assignee, "update")` is one step that needs the mutex; what it does to
sessions is in `WebSocketSessions`.  A body that does not parse ends the
process, because nothing between the handler and `ioc.run()` catches.  Each
POST is a submission of its own, so a retry is another element of `Tasks`.

The refinement maps `posted` to `requested`, `tasks_queue` to `pending`,
`Running` (what `curr_` names while a task is dequeued, timed or about to be
reported) to `running`, `updates` to `reported`, and `up /\ ~stopped` to
`serving`.

### DoublyLinkedList and AdminSnapshot

`DoublyLinkedList` makes each call one step on `heap`, `head`, `tail`: the
calls of one thread.  `front`, `back` and the removals throw on an empty list
(`Throw`).  `lost` remembers the nodes move assignment abandons.  `Walk`
follows the links and gives up after as many nodes as the heap has, so that a
cycle would show in the chain and not stop the checker.
`AdminSnapshot` splits `push_back`, `pop_front`, the copy constructor, the
assignment of `curr_` (`AssignCurr`, `ReleaseOld`) and its copy in `current()`
(`LoadCurr`, `CountCurr`) into single loads and stores in program order.  That order is the mildest reading
of a data race; compilers and processors may do worse, so what holds there
(`WriterExact`, `CopyExact`) is about the undisturbed copy, the writers and
the use counts, which are atomic, and what fails there (`NoDangling`) fails in any build.

### WebSocketSessions

`Referenced(s)` is the reference count: pending operations, posted handlers,
running handlers, senders.  `Leave` is the destructor, possible when it is
false; until then a sender that copied the registry earlier may fail to lock
the session (`Lock` skips it).  A caller is a session in `on_read` or the timer
handler; `at` is its place in `send`.  The scan of `send(id, message)` is the
only stretch under `mutex_` that is more than one step, because it reads
`uid_`, which `AssignUid` assigns without the lock: a comparison at that time
may go either way.  Strands are `StrandFree`: handlers of one session do not
overlap.  Each message of a client is sent once, each update once.

### HttpSessions

A request is a record of what `handle_request` looks at: method, kind of
target, whether the body parses, keep-alive, upgrade, size.  `Responses(r)` is
its decision table (`http_session.cpp:142-242`); which files exist is left
open.  Note that a POST to any other target and a HEAD of `/api/admin` fall
through to the files.  `on_read` is one step, because handlers of a connection
do not overlap and the only shared effect is one `push_task`.  `wire` holds
what the server has not read, also after the client is gone: a request can be
handled long after its client gave it up and asked again elsewhere.  A response
that is written reaches the client or not (`Deliver`).  Clients ask again only
where every earlier attempt was lost.

### Server

`Server` instantiates `Scheduler` (as `Tasking`) and `WebSocketSessions` (as
`Chat`) over one `up` and adds `serves`, the session whose `on_read` an io
thread runs.  What it adds to the parts is what they share:

* a handler of either part needs a free thread (`Free`, `AnyFree`); `on_read`
  keeps its thread from `StartRead` to `FinishRead`, a handler of the queue
  while `pc` is not idle, a handler of one step for that step;
* `MutexFree` is about both parts: `push_task`, `process_tasks`, `join`,
  `leave`, the copy of a broadcast and the scan of an update wait for it;
* the timer's handler is one handler: `StartUpdate` begins the send of the task
  it carries, `EndScan` is where the task counts as reported (`SendUpdate`), and
  `process_tasks` (`TakeMutex`) has to wait until the send is over (`Sending`).

`Scheduler` alone lets `send(assignee, update)` be one step, and
`WebSocketSessions` alone lets updates come at any time.  Their own runs are
about more behaviours than `Server`'s: stops, spurious wake-ups, two sessions.

### Router

In `RouterTree`, `nodes` is the pool, with the segment, resource, parent and
children of each node; `routes` records the calls of `insert()`.  `Insert` folds
`InsertSegment` over a template (`Descend`, `Extend`, `Ascend` for `..`).
`EraseChild` is what `child_idx_vector::erase` does to the index array, the
misplaced `memmove` included; once it has overwritten an index in use
(`damaged`) nothing more is inserted, for what follows is undefined.  In
`Router`, `Find` is `find` and `find_impl`, which searches a path without segments
as one with a single empty segment (`Searched`), and `TryMatch` is `try_match`
with its branches: `Forth` tries the children in
order (`TryPlain`, `TryOptional`, `TryMany`), each from the captures the caller
has, `RewindTo` resets the number of captures that count, `Back` treats `..`.
Templates and paths are sequences of segments already parsed and decoded.

The same is defined without a tree: in `RouterTree`, `ReducedTemplate` resolves
dots and `Live` are the routes not replaced; in `RouterProperties`, `Matches(p)`
are all ways to share out the names of a path among the segments of a live
template, `Best(p, order)` the first of them, segment by segment.  The order is
not the one the tree is sorted by (`Rank`): `Documented` is taken from the comment
on `operator<`, and `Followed` exchanges star and plus in it, the one place where
the code goes another way (finding 6).

## 3. The runs

| run | instance | checks | states |
|---|---|---|---|
| `scheduler` | 2 io threads, consumer, 3 good submissions, 1 malformed, fairness | all safety invariants, `ServiceSpec` (refinement of `TaskService` with liveness), `ShutdownOrBlocked` | 55 908 |
| `scheduler_one_thread` | 1 io thread (the default) | violation of `EnqueuedConcurrently` | |
| `list` | 2 lists, 4 nodes, 2 values, symmetry | `Linked`, `NothingDangles`, `LeakOnlyByMove`, refinement of `Deque`; no deadlock | 1 097 |
| `admin_snapshot` | 3 tasks, 3 nodes, symmetry | `WriterExact`, `CopyExact` | 7 978 |
| `admin_snapshot_race` | the same | violation of `NoDangling` | |
| `websocket` | 2 sessions, a hello, a message, a malformed one, an update, fairness | registry, lifetime, one writer, delivery, order, `EventuallyWritten`, `EventuallyFreed` | 391 641 |
| `websocket_uid` | 1 session, a hello, an update | violation of `NotAccessedConcurrently` | |
| `http` | 2 connections, 3 submissions (one with `Connection: close`, one malformed), an admin request, an upgrade, fairness | order, keep-alive, acknowledgement, duplicates, `BacklogServed`, `SessionEnds` | 323 276 |
| `http_body_limit` | 1 connection, a long body | violation of `BodyLimited` | |
| `router` | 3 insertions out of 26 templates (`MaxRoutes`), paths of up to 3 names, the empty one included, longer ones, and some with dots | `WellFormed`, `StoredOnce`, `FindsBest`, `CapturesLast`, `DotsResolved` | 16 563 |
| `router_throw` | 2 insertions, one of which throws | violation of `StrongGuarantee` | |
| `server` | 2 io threads, consumer, 2 good submissions of one assignee, 1 malformed, 1 session with a hello and a malformed message, fairness | `NothingStuck`, `ToldInOrder`, `EventuallyTold` | 159 712 |

Why these bounds are enough.  The scheduler's races are between one processor
and pushers: two io threads allow a push beside a push, a push beside the
processor on the other io thread, and both beside the consumer; three tasks
allow one in progress, one queued and one being pushed.  The proofs of section
5 remove the bound for every safety property.  A list of four nodes has a
first, a last and two inner nodes, and two lists are what copies and moves
take.  Three addresses for three tasks let a freed address be used again while
a reader still holds it.  Two sessions give a sender and a receiver that is
also a sender, and the timer handler is a third caller.  Two connections let
a client lose one and ask again on the other while its first request is still
unread, and two pipelined requests are the least that can be answered in the
wrong order (`Pipelined` is the bound).  In the router two routes make a branch
and a third one a branch inside it or a node that is reused; the templates have
every modifier in first, middle and last place, beside and below literals, and
dots that stay, prune and throw.  In the server two tasks of one assignee are
the least that can be told in the wrong order, and one session with the timer
keeps both io threads busy; a malformed body and a malformed message end the
process in the middle of anything.
Sessions, connections, messages and requests are each used once: that is what
bounds the models.

Deadlock is checked for the list and for `admin_snapshot`.  Elsewhere the
server may stop (signal, exception), sessions and connections may all have
ended, and the calls of `insert()` are bounded.

## 4. Fairness

* *Scheduler.*  Weak fairness of every thread's next step, of the timer and of
  the handlers that are ready (the io_context's queue is first in, first out);
  strong fairness of taking `mutex_`, which is free again and again.  Nothing
  is assumed of clients, signals or spurious wake-ups.
* *WebSocketSessions.*  Weak fairness of running handlers, destructors, strands
  and of writes, which complete or fail by the stream's suggested timeouts.
* *HttpSessions.*  Weak fairness of accepting, reading and writing: an
  operation completes or expires after 30 s.  This needs an io thread that does
  not sleep in `process_tasks`, hence two at least; `scheduler_one_thread`
  shows what happens with one.
* *Server.*  Weak fairness of `Progress` as a whole: the program does not stop
  while a running handler can go on, a ready one can be dispatched, or a timer
  or write is due.  It is weaker than the fairness of the parts, and enough,
  because clients ask a bounded number of times and wake-ups are not spurious
  there, so every behaviour ends: `EventuallyTold` and `NothingStuck` say that none
  ends with something left to do and every thread waiting.  With one io thread it fails, as
  `scheduler_one_thread` does.
* *Router* and the lists are sequential: no fairness.
* *TaskService.*  Weak fairness of its steps while it serves; `ServiceSpec`
  shows that the scheduler's fairness implies it.

## 5. The proofs

### Scheduler

`SchedulerProofs` proves, for every finite or infinite set of io threads and
tasks, from `ThreadAssumption` and `TaskAssumption` alone (the consumer is not
an io thread, the null values are not members):

| theorem | says |
|---|---|
| `Invariance` | `Spec => []IInv` |
| `TypeCorrect`, `MutexSafe`, `OneProcessor`, `WakeupKept`, `QueueSafe`, `CurrCorrect`, `CurrStale`, `TaskOnce` | each safety invariant of the run `scheduler` |
| `Implements` | `Spec => ServiceSteps`: under the mapping of section 2, initial states map to initial states and each step to a step of `TaskService` or a stutter |

The argument.  `IInv` is the conjunction of the eight invariants and of
`AcceptedPosted`.  `MutualExclusion` and `SingleProcessor` rest on `TypeOK`
alone; the others need each other:

* `TypeStep` needs `NoUnderflow`, or `Head` of the queue has no type;
* `UnderflowStep` needs `MutualExclusion`: between the test and the dequeue
  nobody else may pop;
* `WakeupStep` needs `SingleProcessor`: `notify_one` wakes *the* waiting
  thread because there is only one, so no second sleeper is left behind;
* `CurrStep` needs it too: `curr_` is assigned by the one processor, while no
  other thread or timer works on a task;
* `ReportStep` needs `CurrIsRunning`: the task reported is the one `curr_`
  names, so `curr_` is the last of `updates` when nothing runs;
* `PlaceStep` needs `AcceptedPosted` (what was accepted had been posted): a
  new request cannot be in the queue already.  `PushAccepts` and
  `AcceptedStep` compute what a step adds to the accepted tasks; they rest on
  `ElementsAppend` and `ElementsHeadTail`, lemmas about sequences.

There is a lemma per conjunct, with a step per action in each.  `StepService`
uses `IInv` before and after: `PushBack` maps to `Accept` (`OnePlace` gives its
guard), `Take` to `Start` (`SingleProcessor`: nothing is running), `SendUpdate`
to `Report` (`CurrIsRunning`), everything else to `Request`, `StopServing` or
a stutter.

### TaskService

`TaskServiceProofs` proves, for every set of submissions of which "no task" is
no member, what a client may rely on: `AcceptedOnce` (`SafeSpec => []AtMostOnce`:
no submission is twice among the reported, running and pending tasks) and
`FirstComeFirstServed` (`SafeSpec => OrderKept`: no step takes a task out of
that line or changes its place in it).  The argument is lemma `LineSteps`: only
`Accept` changes the line, by appending a submission that is not in it
(`LineAccepted`: the line holds exactly the accepted ones); `Start` and `Report`
move its inner borders, which associativity of concatenation (`ConcatAssoc`,
`HeadMoves`) shows to change nothing.  With `Implements` the same holds of the
threads of `Scheduler`.

### WebSocket sessions

`WebSocketProofs` proves every safety property of the run `websocket`, for every
set of sessions and messages, finite or not, from `SessionAssumption` and
`MessageAssumption` (the timer handler is no session, the null values are not
members, ...):

| theorem | says |
|---|---|
| `TypeCorrect`, `RegistryCorrect` | `TypeOK`, `RegistrySound`: the registry names sessions that exist |
| `NoDanglingSession` | `NothingOutlives`: no handler, sender or posted message belongs to a destroyed session |
| `OneWriteAtATime` | `OneWriter`: one write is in flight at most, and `queue_` only waits behind it or behind one that failed |
| `DeliversOnce`, `BroadcastsReach` | `DeliveredOnce`, `BroadcastReaches` |
| `DeliversInOrder` | the action property `DeliveryOrder` |

`NothingOutlives` is inductive only with `CallersSound` (what a caller's place
in `send` says of its message and its copy): `Leave` may run when nothing
refers to the session, and a sender that has locked its weak pointer is one of
the things that refer.  `DeliveredOnce` needs five more: `Taken` (a message a
caller is working on has been read), `NotYet` (the sessions a fan-out has not
come to have not got its message), `OneTarget` (an update goes to one session),
`SnapshotSound` (whom a broadcast copied had joined by then) and `WriterSound`.
Each is a lemma with one step per action.

### HTTP sessions

`HttpProofs` proves the safety properties of the run `http` for every set of
connections, from the assumptions of `HttpSessions`: `TypeCorrect`,
`AnswersOrdered` (`AnswersInOrder`), `ClosesForGood` (`NothingAfterClose`),
`AcknowledgedQueued` (`AcknowledgedIsQueued`) and `DuplicatesNeedLoss`
(`DuplicateNeedsLoss`).

The invariant speaks of one connection at a time first.  `WireSound`: what
`on_read` was not given yet is the end of what the client asked.  `OrderSound`:
the requests it was given (`Taken`) are as many as the answers, one more while a
response is being written, and answer and request agree one by one.
`CloseSound`: only the last answer may be without keep-alive.  `QueueSound`:
"queued" is said only of tasks that were pushed.  `AskedOnce`: a connection
carries a request once.  Then it speaks of one request across connections:
`OneWaits` (all connections it was sent over are lost, except one) and
`CountSound` (each `push_task` for it is that of another connection that was
given it).  The second compares a count with the cardinality of `Seen(r)`,
which is why the invariant also says that the connections made so far are
finitely many, of however many there may be.  Together they give
`DuplicateNeedsLoss`: two copies take two connections, and all but one of them
are lost.

### Server

`ServerProofs` proves `UpdatesInOrder` (`ToldInOrder`).  It reuses the proofs of the parts: it instantiates `SchedulerProofs` and
`WebSocketProofs`, proves their assumptions from its own (`LEMMA Assumptions`),
and cites their lemmas step by step.  Each action of `Server` is a step of
`Scheduler` or a stutter, and the same of `WebSocketSessions`, so that both
inductive invariants hold (`PartsKeep`, `Composes`); what the parts share needs
two conjuncts more: `Serving` (the threads in `on_read` and those in a handler
of the queue are different ones, and a session in `on_read` has one thread) and
`Reported` (no task is reported twice; while the timer scans, its message is the
task about to be reported, and after the scan it is the last one of `updates`).
`ToldInOrder` is kept because the timer then posts the last task reported, to
a session that has not got it, so that it goes behind all others; that no
second task is over meanwhile is `SingleProcessor` of the scheduler.

`ServesTasks` carries the refinement over: `Spec => ServiceSteps` of the
scheduler inside, so that the server as a whole, sessions on the same threads
and under the same mutex included, is one of the task services `TaskService`
describes (without its fairness), and `AcceptedOnce` and `FirstComeFirstServed`
are true of it.  A step of the sessions alone is a stutter of the service, or
stops it when an exception ends the process (`OthersServe`).

### List

`ListProofs` proves for every finite heap (`HeapAssumption`: `Null` is no
address, `Free` is no node) and every set of lists and values:

| theorem | says |
|---|---|
| `TypeCorrect` | `TypeOK` |
| `ChainsLinked` | `Linked`: forwards and backwards each list is the same chain |
| `NodesOwned` | `NothingDangles`: every node in use belongs to one list, once, or is lost |
| `LeaksKnown` | the action property `LeakOnlyByMove` |
| `ImplementsDeque` | `Spec => DequeSpec`: each call does to the sequences what `Deque` says |

The inductive invariant does not mention `Walk`.  It says that there is an
assignment `P` of a chain of addresses to each list such that `head_`, `tail_`
and all links are those of the chains, no address is in two places, and the
nodes in use are those of the chains and the lost ones.  Two lemmas make the
connection: `Walked` (following `next` from the head computes the chain; an
induction by the least place where it would not, since `Walk` is a recursive
function and the chain is no longer than the heap has nodes) and `Update` (what
becomes of the invariant when the chain of one list is replaced).  Each call has
a lemma that names the new chain and shows, from that, both the invariant and
the step of `Deque`; move assignment changes two chains.

### Admin view

`AdminSnapshotProofs` proves `TypeCorrect`, `WritersExact` (`WriterExact`) and
`CopiesExact` (`CopyExact`): between any two stores the writers' list is what
the queue should be, and a copy that no writer disturbed is exact, use counts
included.  `Listed` says what the list looks like inside `push_back` and
`pop_front`: there is a numbering of the nodes in use whose order `next_`
follows, with one link missing or one too many depending on the writer's place,
and an undisturbed reader has copied the first tasks of it.  `Counted` says that
the use count of a task is the number of pointers to it the program counters
imply.

`DanglesDisturbed` is an action property: when a handler follows the pointer to
a freed node or task, a push or a pop was running when its copy began or has run
since.  So `NoDangling`, which `admin_snapshot_race` refutes, has no other cause
than the `mutex_` that `tasks()` and `current()` do not take.

### Router

`RouterProofs` proves for every set of templates (`TemplateAssumption`: they are
sequences of segments) and any number of insertions `RouterWellFormed`
(`WellFormed`), `RouterStoredOnce` (`StoredOnce`) and `ThrowRestores` (the
strong guarantee: an insertion that throws leaves every node, link, resource and
the order of all children as they were).  All three speak of the pool as long as
no `erase()` has overwritten an index in use.  `router_throw` shows that it can,
and that the strong guarantee is lost then; `WholeWithoutDotDot` shows that it
takes a `..`: when no template has one, nothing is ever damaged and the three
hold of every pool.

The invariant gives every node a key, the segments from the root without the ids
of fields, which `operator==` ignores (`SameKey`).  The keys tell the nodes
apart, a child's key is its parent's and one segment more, siblings are sorted,
and the resource of a live insertion is at the node whose key is its template's
(`Stored`).  An insertion is one step of the specification but many of the code:
`Sound` says what is true after each segment, of the pool and of the template so
far, reduced.  The current node has that template's key; the nodes the call has
added are a chain without resources that ends there, which is why a template that
leaves the root, and throws, has added nothing (`ThrowStep`), and why a template
that is stored leaves no leaf without a resource (`StoreStep`).  `StepGood` takes
the four kinds of segments one by one: a step to a child finds the node with the
longer key if there is one, because siblings differ; a new child keeps its
siblings sorted (`Placed`, `ExtendTree`); `..` deletes the newest node only
(`EraseTree`), so that the rest of the pool keeps its indexes.  `InsertedRun` and
`ReducedRun` show that the recursive functions of the model exist and
`InsertedGood` goes along the template, both by the least segment at which they
would fail.

For `ThrowRestores` the invariant of the segments also says what the call has not
touched (`Untouched`): every node it found has its segment and parent, and its
children in their order, but for one link, from the last node found to the first
one added.  Adding a node keeps that (`UntouchedGrows`), taking the newest one
away keeps it (`UntouchedPruned`), and when none is left, as in a call that throws,
it says that all is as it was (`UntouchedSame`, `ThrowSame`).

### Model-checked only

All liveness (fairness is outside the prover): `EventuallyWritten`,
`EventuallyFreed`, `BacklogServed`, `SessionEnds`, `EventuallyTold`,
`ShutdownOrBlocked` and the fairness half of `ServiceSpec`.

`NothingStuck` speaks of `ENABLED Progress`, which the prover does not expand.

The router's search (`FindsBest`, `CapturesLast`, `DotsResolved`): it and the
definition it is compared with are RECURSIVE operators, which the prover does
not take.

## 6. What the checks found

1. **With one io thread the server stops after its first task**
   (`scheduler_one_thread`).  `main.cpp:60` defaults to one thread.  The timer
   handler calls `process_tasks` on it (`shared_state.cpp:118`), which sleeps
   in `cv_.wait` (90) when the queue is empty; no handler can push a task any
   more, against "gets enqueued and dequeued concurrently" (`README.md:7-8`).
2. **`GET /api/admin` follows deleted nodes** (`admin_snapshot_race`).
   `tasks()` (`shared_state.cpp:61`) copies the list without `mutex_`.  The same
   invariant fails for `current()` (122), which copies `curr_` without it: the
   old task object may be deleted before its new reference is counted.
3. **`uid_` is read off its strand** (`websocket_uid`), against the comment at
   `websocket_session.cpp:68-70`.
4. **The body limit does not apply** (`http_body_limit`).  `do_read` sets it on
   `parser_` and reads into `parser_->get()`, a message, which Beast parses
   with another parser (`http_session.cpp:269-279`).
5. **An insertion that throws loses a route** (`router_throw`), against "the
   strong exception safety guarantee" (`router.hpp:42-44`).  After `insert("a")`,
   `insert("b/../..")` throws, and on its way back over `b` the `memmove` in
   `child_idx_vector::erase` (`router.cpp:232`), which starts one element early
   and counts bytes, overwrites the index of `a`.  That is the only way to lose
   the guarantee in the model: `ThrowRestores`.
6. **`{*}` goes before `{+}`** (`router`), against "segments have precedence:
   literal, unique, optional, plus, star" (`router.cpp:78-83`).  `operator<`
   compares the enumeration, which has star before plus (`router.cpp:33-38`), so
   that with the routes `{s*}` and `{p+}` the path `a` finds the first.
   `FindsBest` holds with the comment's order and these two exchanged: the code
   follows the comment everywhere else.  With the comment's own order the run
   finds a counterexample.

More facts hold as the properties state them, and a reader may not expect
them.  After a signal the process may hang: `ShutdownOrBlocked` allows exactly
one way, an io thread asleep on an empty queue, which `main` then joins for
ever.  And `curr_` is never reset: between two tasks the admin view shows the
reported one as "processing" (`CurrAfterReport`).  In the router, captures made below a literal that led
nowhere stay in front of those of the route found (`CapturesLast`); and
children are matched although the path has left the tree, so with the route
`b` the path `x/b/..` finds it (`DotsResolved` is an implication for that
reason).  A path that dots reduce to nothing, such as `.`, ends at the root, and
in a router without routes the assertion in `find_optional_resource`
(`router.cpp:323`) fails there; the model has what a build without assertions
does, which is to find nothing.

Some properties allow for a failure that the code does not prevent, and no run
refutes it: an exception in a handler ends the process with its tasks and sessions
(`ServiceSpec`, `EventuallyWritten`, `EventuallyFreed`), and a failed accept ends
the accept loop (`BacklogServed`).  `PROJECT.json` lists these hazards without a
property.

## 7. What is not modelled

* Formatting, logging, mime types, file contents, command line, build,
  `chat_client.html`.
* HTTP framing (the body of a response to HEAD): responses are values.
* The lifetime of `cv_` and `mutex_` at the end of `main` while the detached
  consumer still waits: undefined behaviour of the end of the process.
* `pop_task` and `peek_task` (no caller), `Ticker` (not started),
  `task::serialize`, whose `duration_.minutes()` is the minutes within the hour.
* In the router: parsing and percent-decoding of templates and paths, the
  lookups of `matches` by name and index, and the storage of captures, whose
  bound N the search never checks.
* In `Server`: HTTP sessions beyond the requests they pass on, a second
  session, stops and spurious wake-ups (each is in a part's own run).
* Orders of memory other than program order (`AdminSnapshot`).

## 8. The plan

Done: a model and a run of every component of section 1 that has a state of
its own, and the proofs of section 5.  Next:

1. *`TaskView`*: `task::serialize` and the arming of `timer_` over bounded
   durations.
