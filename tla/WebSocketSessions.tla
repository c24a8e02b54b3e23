--------------------------- MODULE WebSocketSessions ---------------------------
(***************************************************************************)
(* websocket_session.cpp and the registry of shared_state: how sessions    *)
(* come to life, how a message one client sends reaches the others, how    *)
(* the update of a task reaches its assignee, and when a session dies.     *)
(*                                                                         *)
(* A session lives as long as something holds a shared_ptr to it: a        *)
(* pending read, a pending write, an on_send posted to its strand, its     *)
(* running on_read, or a sender that has locked its weak_ptr.  When the    *)
(* last one goes the destructor takes the session out of the registry.     *)
(*                                                                         *)
(* Handlers of one session run on its strand, one at a time; handlers of   *)
(* different sessions and of the timer run at the same time on the io      *)
(* threads.  One copy of the registry, one lock of a weak_ptr, one post is *)
(* one step, so a broadcast interleaves with everything else.              *)
(***************************************************************************)
EXTENDS Naturals, Sequences, FiniteSets

CONSTANTS
  Sessions,   \* websocket_session objects
  Timer,      \* the caller of send(id, message): shared_state.cpp:116
  Messages,   \* messages clients send, each once
  NameOf,     \* the name in a message of type "hello", or NoName
  Malformed,  \* messages on which json::parse or a conversion throws
  Updates,    \* "update" messages of tasks whose time is over
  Assignee,   \* the assignee of each
  NoName,     \* the initial, empty uid_
  NoMessage,
  Nobody

Callers == Sessions \cup {Timer}

ASSUME SessionAssumption ==
  /\ Timer \notin Sessions
  /\ Nobody \notin Callers
ASSUME MessageAssumption ==
  /\ Messages \cap Updates = {}
  /\ NoMessage \notin Messages \cup Updates
  /\ DOMAIN NameOf = Messages
  /\ DOMAIN Assignee = Updates
  /\ \A u \in Updates : Assignee[u] # NoName

VARIABLES
  life,      \* "none", "accepting", "live" or "freed"
  sessions,  \* shared_state::sessions_, raw pointers
  uid,       \* uid_ of each session
  reading,   \* the session has an async_read pending
  writing,   \* how many async_writes it has pending
  posted,    \* on_send handlers on its strand, oldest first: their messages
  queue,     \* queue_
  sent,      \* messages written to the client, in order (history)
  broken,    \* a write failed (history)
  at,        \* where each caller is
  msg,       \* the message it sends
  fan,       \* the sessions it has still to visit
  held,      \* the session whose weak_ptr it has locked, or Nobody
  found,     \* send(id, message): the session found so far, or Nobody
  snapshot,  \* the sessions each broadcast was meant for (history)
  inbox,     \* messages and updates still to come (bounds the model)
  up         \* FALSE once an exception has ended the process

session == <<life, sessions, uid>>
stream  == <<reading, writing, posted, queue, sent, broken>>
caller  == <<at, msg, fan, held, found, snapshot>>

vars == <<life, sessions, uid, reading, writing, posted, queue, sent, broken,
          at, msg, fan, held, found, snapshot, inbox, up>>

Payloads == Messages \cup Updates
Names == {NameOf[m] : m \in Messages} \cup {Assignee[u] : u \in Updates} \cup {NoName}

(* Where a caller is:                                                      *)
(*   idle      no handler of it runs                                       *)
(*   assign    on_read: assigning uid_                                     *)
(*   copy      send(message): before the registry is copied                *)
(*   scan      send(id, message): under mutex_, comparing uids             *)
(*   fan       before the next weak_ptr is locked                          *)
(*   post      a weak_ptr is locked, before its on_send is posted          *)
Places == {"idle", "assign", "copy", "scan", "fan", "post"}

Elements(s) == {s[i] : i \in DOMAIN s}

\* Somebody holds a shared_ptr to s.
Referenced(s) ==
  \/ life[s] = "accepting"
  \/ reading[s]
  \/ writing[s] > 0
  \/ posted[s] # <<>>
  \/ at[s] # "idle"
  \/ \E c \in Callers : held[c] = s

\* s's weak_ptr can be locked.
Lockable(s) == life[s] \in {"accepting", "live"} /\ Referenced(s)

\* mutex_: only the scan is longer than one step.
MutexFree == at[Timer] # "scan"

\* No handler of s is running.
StrandFree(s) == at[s] = "idle"

Init ==
  /\ life = [s \in Sessions |-> "none"]
  /\ sessions = {}
  /\ uid = [s \in Sessions |-> NoName]
  /\ reading = [s \in Sessions |-> FALSE]
  /\ writing = [s \in Sessions |-> 0]
  /\ posted = [s \in Sessions |-> <<>>]
  /\ queue = [s \in Sessions |-> <<>>]
  /\ sent = [s \in Sessions |-> <<>>]
  /\ broken = [s \in Sessions |-> FALSE]
  /\ at = [c \in Callers |-> "idle"]
  /\ msg = [c \in Callers |-> NoMessage]
  /\ fan = [c \in Callers |-> {}]
  /\ held = [c \in Callers |-> Nobody]
  /\ found = Nobody
  /\ snapshot = [p \in Messages |-> {}]
  /\ inbox = Payloads
  /\ up = TRUE

-----------------------------------------------------------------------------
(* A session's life                                                         *)

\* An http_session hands its socket over: make_shared and run().
Upgrade(s) ==
  /\ life[s] = "none"
  /\ life' = [life EXCEPT ![s] = "accepting"]
  /\ UNCHANGED <<sessions, uid, stream, caller, inbox, up>>

\* on_accept: join(this) and the first async_read.
Accept(s) ==
  /\ life[s] = "accepting"
  /\ MutexFree
  /\ life' = [life EXCEPT ![s] = "live"]
  /\ sessions' = sessions \cup {s}
  /\ reading' = [reading EXCEPT ![s] = TRUE]
  /\ UNCHANGED <<uid, writing, posted, queue, sent, broken, caller, inbox, up>>

\* on_accept with an error: it only reports, and drops the last reference.
AcceptFails(s) ==
  /\ life[s] = "accepting"
  /\ life' = [life EXCEPT ![s] = "live"]
  /\ UNCHANGED <<sessions, uid, stream, caller, inbox, up>>

\* Mutant: the destructor does not leave.
FreeWithoutLeave(s) ==
  /\ life[s] = "live"
  /\ ~Referenced(s)
  /\ life' = [life EXCEPT ![s] = "freed"]
  /\ UNCHANGED <<sessions, uid, stream, caller, inbox, up>>

\* ~websocket_session: leave(this), then the members are destroyed.
Leave(s) ==
  /\ life[s] = "live"
  /\ ~Referenced(s)
  /\ MutexFree
  /\ life' = [life EXCEPT ![s] = "freed"]
  /\ sessions' = sessions \ {s}
  /\ UNCHANGED <<uid, stream, caller, inbox, up>>

-----------------------------------------------------------------------------
(* on_read                                                                  *)

\* A message has arrived and parses; a hello goes on to assign uid_.
ReadMessage(s, m) ==
  /\ reading[s] /\ StrandFree(s)
  /\ m \in (inbox \cap Messages) \ Malformed
  /\ inbox' = inbox \ {m}
  /\ reading' = [reading EXCEPT ![s] = FALSE]
  /\ at' = [at EXCEPT ![s] = IF NameOf[m] = NoName THEN "copy" ELSE "assign"]
  /\ msg' = [msg EXCEPT ![s] = m]
  /\ UNCHANGED <<session, writing, posted, queue, sent, broken, fan, held,
                 found, snapshot, up>>

\* It does not parse: the exception leaves ioc.run() and ends the process.
ReadThrows(s, m) ==
  /\ reading[s] /\ StrandFree(s)
  /\ m \in inbox \cap Malformed
  /\ inbox' = inbox \ {m}
  /\ up' = FALSE
  /\ UNCHANGED <<session, stream, caller>>

\* The connection is closed, fails or times out: on_read only reports.
ReadFails(s) ==
  /\ reading[s] /\ StrandFree(s)
  /\ reading' = [reading EXCEPT ![s] = FALSE]
  /\ UNCHANGED <<session, writing, posted, queue, sent, broken, caller, inbox,
                 up>>

\* uid_ = message["name"], without mutex_.
AssignUid(s) ==
  /\ at[s] = "assign"
  /\ uid' = [uid EXCEPT ![s] = NameOf[msg[s]]]
  /\ at' = [at EXCEPT ![s] = "copy"]
  /\ UNCHANGED <<life, sessions, stream, msg, fan, held, found, snapshot,
                 inbox, up>>

-----------------------------------------------------------------------------
(* shared_state::send(message) and send(id, message)                        *)

\* Copies weak_ptrs of all sessions, under mutex_.
CopySessions(c) ==
  /\ at[c] = "copy"
  /\ MutexFree
  /\ fan' = [fan EXCEPT ![c] = sessions]
  /\ snapshot' = [snapshot EXCEPT ![msg[c]] = sessions]
  /\ at' = [at EXCEPT ![c] = "fan"]
  /\ UNCHANGED <<session, stream, msg, held, found, inbox, up>>

\* The timer handler calls send(assignee, update), which locks mutex_.
Update(u) ==
  /\ at[Timer] = "idle"
  /\ u \in inbox \cap Updates
  /\ inbox' = inbox \ {u}
  /\ msg' = [msg EXCEPT ![Timer] = u]
  /\ fan' = [fan EXCEPT ![Timer] = sessions]
  /\ at' = [at EXCEPT ![Timer] = "scan"]
  /\ UNCHANGED <<session, stream, held, found, snapshot, up>>

\* p->uid() == id for the next session: the last match counts.  What a read
\* during the assignment returns is anybody's guess.
CompareUid(s) ==
  /\ at[Timer] = "scan"
  /\ s \in fan[Timer]
  /\ fan' = [fan EXCEPT ![Timer] = @ \ {s}]
  /\ \E matches \in IF at[s] = "assign" THEN BOOLEAN
                    ELSE {uid[s] = Assignee[msg[Timer]]} :
       found' = IF matches THEN s ELSE found
  /\ UNCHANGED <<session, stream, at, msg, held, snapshot, inbox, up>>

\* mutex_ is released; the session found, if any, is all there is to visit.
EndScan ==
  /\ at[Timer] = "scan"
  /\ fan[Timer] = {}
  /\ at' = [at EXCEPT ![Timer] = "fan"]
  /\ fan' = [fan EXCEPT ![Timer] = {found} \ {Nobody}]
  /\ found' = Nobody
  /\ UNCHANGED <<session, stream, msg, held, snapshot, inbox, up>>

\* Mutant: the senders keep the raw pointers of the registry.
LockRaw(c, s) ==
  /\ at[c] = "fan"
  /\ s \in fan[c]
  /\ fan' = [fan EXCEPT ![c] = @ \ {s}]
  /\ held' = [held EXCEPT ![c] = s]
  /\ at' = [at EXCEPT ![c] = "post"]
  /\ UNCHANGED <<session, stream, msg, found, snapshot, inbox, up>>

\* Mutant: the fan-out stops at the first session that is gone.
LockOrStop(c, s) ==
  /\ at[c] = "fan"
  /\ s \in fan[c]
  /\ IF Lockable(s)
     THEN /\ fan' = [fan EXCEPT ![c] = @ \ {s}]
          /\ held' = [held EXCEPT ![c] = s]
          /\ at' = [at EXCEPT ![c] = "post"]
     ELSE /\ fan' = [fan EXCEPT ![c] = {}]
          /\ UNCHANGED <<at, held>>
  /\ UNCHANGED <<session, stream, msg, found, snapshot, inbox, up>>

\* wp.lock(): a session that is gone is skipped.
Lock(c, s) ==
  /\ at[c] = "fan"
  /\ s \in fan[c]
  /\ fan' = [fan EXCEPT ![c] = @ \ {s}]
  /\ IF Lockable(s)
     THEN /\ held' = [held EXCEPT ![c] = s]
          /\ at' = [at EXCEPT ![c] = "post"]
     ELSE UNCHANGED <<at, held>>
  /\ UNCHANGED <<session, stream, msg, found, snapshot, inbox, up>>

\* Mutant: the sender keeps the shared_ptr it has locked.
PostKeepsReference(c) ==
  /\ at[c] = "post"
  /\ posted' = [posted EXCEPT ![held[c]] = Append(@, msg[c])]
  /\ at' = [at EXCEPT ![c] = "fan"]
  /\ UNCHANGED <<session, reading, writing, queue, sent, broken, msg, fan,
                 held, found, snapshot, inbox, up>>

\* websocket_session::send: on_send is posted to the session's strand; then
\* the shared_ptr goes out of scope.
Post(c) ==
  /\ at[c] = "post"
  /\ posted' = [posted EXCEPT ![held[c]] = Append(@, msg[c])]
  /\ held' = [held EXCEPT ![c] = Nobody]
  /\ at' = [at EXCEPT ![c] = "fan"]
  /\ UNCHANGED <<session, reading, writing, queue, sent, broken, msg, fan,
                 found, snapshot, inbox, up>>

\* Mutant: on_read does not clear the buffer.
FinishKeepsBuffer(c) ==
  /\ at[c] = "fan"
  /\ fan[c] = {}
  /\ at' = [at EXCEPT ![c] = "idle"]
  /\ reading' = IF c = Timer THEN reading ELSE [reading EXCEPT ![c] = TRUE]
  /\ UNCHANGED <<session, writing, posted, queue, sent, broken, msg, fan, held,
                 found, snapshot, inbox, up>>

\* The fan-out is over: on_read clears the buffer and reads again, the timer
\* handler goes on with process_tasks.
Finish(c) ==
  /\ at[c] = "fan"
  /\ fan[c] = {}
  /\ at' = [at EXCEPT ![c] = "idle"]
  /\ msg' = [msg EXCEPT ![c] = NoMessage]
  /\ reading' = IF c = Timer THEN reading ELSE [reading EXCEPT ![c] = TRUE]
  /\ UNCHANGED <<session, writing, posted, queue, sent, broken, fan, held,
                 found, snapshot, inbox, up>>

-----------------------------------------------------------------------------
(* on_send and on_write                                                     *)

\* Mutant: every message is written at once.
OnSendAlways(s) ==
  /\ posted[s] # <<>> /\ StrandFree(s)
  /\ posted' = [posted EXCEPT ![s] = Tail(@)]
  /\ queue' = [queue EXCEPT ![s] = Append(@, Head(posted[s]))]
  /\ writing' = [writing EXCEPT ![s] = @ + 1]
  /\ UNCHANGED <<session, reading, sent, broken, caller, inbox, up>>

\* Adds to queue_, and starts to write if that is the only message there.
OnSend(s) ==
  /\ posted[s] # <<>> /\ StrandFree(s)
  /\ posted' = [posted EXCEPT ![s] = Tail(@)]
  /\ queue' = [queue EXCEPT ![s] = Append(@, Head(posted[s]))]
  /\ writing' = [writing EXCEPT ![s] = IF queue[s] = <<>> THEN @ + 1 ELSE @]
  /\ UNCHANGED <<session, reading, sent, broken, caller, inbox, up>>

\* Mutant: on_write leaves the message in the queue and writes it again.
OnWriteAgain(s) ==
  /\ writing[s] > 0 /\ StrandFree(s)
  /\ Len(sent[s]) < 3
  /\ sent' = [sent EXCEPT ![s] = Append(@, Head(queue[s]))]
  /\ UNCHANGED <<session, reading, writing, posted, queue, broken, caller,
                 inbox, up>>

\* Mutant: on_write erases the newest message.
OnWriteEraseBack(s) ==
  LET rest == SubSeq(queue[s], 1, Len(queue[s]) - 1)
  IN  /\ writing[s] > 0 /\ StrandFree(s)
      /\ sent' = [sent EXCEPT ![s] = Append(@, Head(queue[s]))]
      /\ queue' = [queue EXCEPT ![s] = rest]
      /\ writing' = [writing EXCEPT ![s] = IF rest = <<>> THEN @ - 1 ELSE @]
      /\ UNCHANGED <<session, reading, posted, broken, caller, inbox, up>>

\* Mutant: on_write does not start the next write.
OnWriteOnce(s) ==
  /\ writing[s] > 0 /\ StrandFree(s)
  /\ sent' = [sent EXCEPT ![s] = Append(@, Head(queue[s]))]
  /\ queue' = [queue EXCEPT ![s] = Tail(@)]
  /\ writing' = [writing EXCEPT ![s] = @ - 1]
  /\ UNCHANGED <<session, reading, posted, broken, caller, inbox, up>>

\* The write is done: the message leaves queue_, the next one is written.
OnWrite(s) ==
  LET rest == Tail(queue[s])
  IN  /\ writing[s] > 0 /\ StrandFree(s)
      /\ sent' = [sent EXCEPT ![s] = Append(@, Head(queue[s]))]
      /\ queue' = [queue EXCEPT ![s] = rest]
      /\ writing' = [writing EXCEPT ![s] = IF rest = <<>> THEN @ - 1 ELSE @]
      /\ UNCHANGED <<session, reading, posted, broken, caller, inbox, up>>

\* The write failed: on_write only reports, and queue_ keeps the message.
WriteFails(s) ==
  /\ writing[s] > 0 /\ StrandFree(s)
  /\ writing' = [writing EXCEPT ![s] = @ - 1]
  /\ broken' = [broken EXCEPT ![s] = TRUE]
  /\ UNCHANGED <<session, reading, posted, queue, sent, caller, inbox, up>>

-----------------------------------------------------------------------------
Life(s) == Upgrade(s) \/ Accept(s) \/ AcceptFails(s) \/ Leave(s)

Read(s) ==
  \/ \E m \in Messages : ReadMessage(s, m) \/ ReadThrows(s, m)
  \/ ReadFails(s)

Write(s) == OnWrite(s) \/ WriteFails(s)

\* The steps of a send in progress.
Send(c) ==
  \/ CopySessions(c)
  \/ \E s \in Sessions : Lock(c, s)
  \/ Post(c)
  \/ Finish(c)

Scan == EndScan \/ \E s \in Sessions : CompareUid(s)

Next ==
  /\ up
  /\ \/ \E s \in Sessions :
          Life(s) \/ Read(s) \/ AssignUid(s) \/ OnSend(s) \/ Write(s)
     \/ \E u \in Updates : Update(u)
     \/ Scan
     \/ \E c \in Callers : Send(c)

Spec == Init /\ [][Next]_vars

(***************************************************************************)
(* Fairness.  A handler that runs is not stopped, a destructor ends, a     *)
(* strand runs what was posted to it, and a write completes or fails (the  *)
(* suggested timeouts of the stream see to it).  Nothing is assumed of     *)
(* clients, connections or timers.                                         *)
(***************************************************************************)
Fairness ==
  /\ WF_vars(up /\ Scan)
  /\ \A c \in Callers : WF_vars(up /\ Send(c))
  /\ \A s \in Sessions :
       /\ WF_vars(up /\ AssignUid(s))
       /\ WF_vars(up /\ Leave(s))
       /\ WF_vars(up /\ OnSend(s))
       /\ WF_vars(up /\ Write(s))

FairSpec == Spec /\ Fairness

-----------------------------------------------------------------------------
(* Properties                                                               *)

TypeOK ==
  /\ life \in [Sessions -> {"none", "accepting", "live", "freed"}]
  /\ sessions \subseteq Sessions
  /\ uid \in [Sessions -> Names]
  /\ reading \in [Sessions -> BOOLEAN]
  /\ writing \in [Sessions -> Nat]
  /\ posted \in [Sessions -> Seq(Payloads)]
  /\ queue \in [Sessions -> Seq(Payloads)]
  /\ sent \in [Sessions -> Seq(Payloads)]
  /\ broken \in [Sessions -> BOOLEAN]
  /\ at \in [Callers -> Places]
  /\ msg \in [Callers -> Payloads \cup {NoMessage}]
  /\ \A c \in Callers : at[c] = "idle" <=> msg[c] = NoMessage
  /\ fan \in [Callers -> SUBSET Sessions]
  /\ held \in [Callers -> Sessions \cup {Nobody}]
  /\ found \in Sessions \cup {Nobody}
  /\ snapshot \in [Messages -> SUBSET Sessions]
  /\ inbox \subseteq Payloads
  /\ up \in BOOLEAN

\* The raw pointers of sessions_ point to sessions that exist, and a session
\* that reads, or broadcasts what it has read, is registered.
RegistrySound ==
  \A s \in Sessions :
    /\ s \in sessions => life[s] = "live"
    /\ reading[s] \/ at[s] # "idle" => s \in sessions

\* No handler, no pending operation and no sender refers to a session whose
\* destructor has run.
NothingOutlives ==
  \A s \in Sessions : life[s] = "freed" => ~Referenced(s)

\* A session never has two writes in flight, which the stream forbids, and
\* messages wait in queue_ only behind a write in flight or one that failed.
OneWriter ==
  \A s \in Sessions :
    /\ writing[s] <= 1
    /\ queue[s] # <<>> <=> (writing[s] > 0 \/ broken[s])

\* Everything a session was sent, oldest first.
Line(s) == sent[s] \o queue[s] \o posted[s]

\* A client gets the messages in the order in which they were posted to its
\* session, with none left out: the line only grows at its end.
DeliveryOrder ==
  [][\A s \in Sessions : SubSeq(Line(s)', 1, Len(Line(s))) = Line(s)]_vars

\* No client gets a message twice, and an update reaches one session.
DeliveredOnce ==
  /\ \A s \in Sessions :
       \A i, j \in DOMAIN Line(s) : Line(s)[i] = Line(s)[j] => i = j
  /\ \A u \in Updates, s, t \in Sessions :
       u \in Elements(Line(s)) \cap Elements(Line(t)) => s = t

\* The broadcast of m has yet to get to s.
Underway(m, s) ==
  \E c \in Callers : msg[c] = m /\ (s \in fan[c] \/ held[c] = s)

\* A broadcast reaches every session that was registered when the registry
\* was copied, whatever joins, leaves or broadcasts meanwhile, except for
\* those whose last reference is gone.
BroadcastReaches ==
  \A m \in Messages : \A s \in snapshot[m] :
    Lockable(s) => m \in Elements(Line(s)) \/ Underway(m, s)

\* What was posted to a session is written to its client unless a write to it
\* fails: clients send finitely many messages here, so the backlog drains.
EventuallyWritten ==
  \A s \in Sessions :
    posted[s] # <<>> ~> \/ posted[s] = <<>> /\ queue[s] = <<>>
                        \/ broken[s] \/ ~up

\* A session whose read has failed is destroyed, although others may still be
\* sending to it: no cycle of references keeps it.
EventuallyFreed ==
  \A s \in Sessions :
    (life[s] = "live" /\ ~reading[s] /\ at[s] = "idle")
      ~> (life[s] = "freed" \/ ~up)

\* No two threads are at the same member of a session at the same time: uid_
\* is not compared while it is assigned.
NotAccessedConcurrently ==
  \A s \in Sessions :
    ~(at[s] = "assign" /\ at[Timer] = "scan" /\ s \in fan[Timer])
=============================================================================
