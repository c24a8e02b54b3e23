------------------------------ MODULE HttpSessions ------------------------------
(***************************************************************************)
(* listener.cpp and http_session.cpp: how a connection is accepted, its    *)
(* requests are read one after the other, handled and answered, and how it *)
(* ends; and clients that ask again when a connection ended without an     *)
(* answer.                                                                 *)
(*                                                                         *)
(* A session has one operation in flight, a read or a write, and handlers  *)
(* of a connection run on its strand.  handle_request touches nothing that *)
(* is shared except through push_task (module Scheduler) and the copies of *)
(* GET /api/admin (module AdminSnapshot), so on_read is one step.          *)
(***************************************************************************)
EXTENDS Naturals, Sequences, FiniteSets, SequencesExt

CONSTANTS
  Connections, \* TCP connections, each used once
  Requests,    \* what clients want, each wanted once
  Pipelined,   \* bound: requests sent over one connection
  NoReply

Targets ==
  {"illegal", \* empty, not absolute, or with ".." in it
   "tasks",   \* contains /api/tasks
   "admin",   \* contains /api/admin
   "file"}    \* any other
Statuses == {"bad_request", "queued", "admin", "file", "not_found", "server_error"}

ASSUME RequestAssumption ==
  \A r \in Requests :
    /\ r.method \in {"get", "head", "post", "other"}
    /\ r.target \in Targets
    /\ r.parses \in BOOLEAN  \* the body is JSON with the three fields of a task
    /\ r.large \in BOOLEAN   \* the body is longer than body_limit(10000)
    /\ r.keep_alive \in BOOLEAN
    /\ r.upgrade \in BOOLEAN \* a WebSocket upgrade
ASSUME BoundAssumption == Pipelined \in Nat
ASSUME ReplyAssumption == NoReply \notin [request : Requests, status : Statuses]

VARIABLES
  listener,  \* "accepting" while async_accept is pending, "failed" after an error
  phase,     \* where the connection or its http_session is
  gone,      \* the client has given the connection up or lost it
  asked,     \* requests the client has sent over it, in order (history)
  wire,      \* those on_read has not been given yet (socket and buffer_)
  reply,     \* the response being written, or NoReply
  answers,   \* responses the client has received, in order (history)
  queued,    \* how many times push_task was called for a request (history)
  up         \* FALSE once an exception or a signal ended the handlers

vars == <<listener, phase, gone, asked, wire, reply, answers, queued, up>>

(*   none      the client has not connected                                *)
(*   backlog   connected, not accepted                                     *)
(*   reading   http_session: async_read pending                            *)
(*   writing   http_session: async_write pending                           *)
(*   upgraded  the socket belongs to a websocket_session                   *)
(*   closed    the session and its socket are gone                         *)
Phases == {"none", "backlog", "reading", "writing", "upgraded", "closed"}

Goto(c, from, to) == phase[c] = from /\ phase' = [phase EXCEPT ![c] = to]

Init ==
  /\ listener = "accepting"
  /\ phase = [c \in Connections |-> "none"]
  /\ gone = [c \in Connections |-> FALSE]
  /\ asked = [c \in Connections |-> <<>>]
  /\ wire = [c \in Connections |-> <<>>]
  /\ reply = [c \in Connections |-> NoReply]
  /\ answers = [c \in Connections |-> <<>>]
  /\ queued = [r \in Requests |-> 0]
  /\ up = TRUE

-----------------------------------------------------------------------------
(* handle_request                                                           *)

Submits(r) == r.method = "post" /\ r.target = "tasks"

\* json::parse, or a conversion to the members of a task, throws.
Throws(r) == Submits(r) /\ ~r.parses

\* What the response may be; whether the file is there is up to doc_root.  A
\* POST to any other target, and a HEAD of the API, are served from files.
Responses(r) ==
  CASE r.method = "other" \/ r.target = "illegal"  -> {"bad_request"}
    [] Submits(r)                                  -> {"queued"}
    [] r.method = "get" /\ r.target = "admin"      -> {"admin"}
    [] OTHER                      -> {"file", "not_found", "server_error"}

-----------------------------------------------------------------------------
(* Clients and the network                                                  *)

Open(c) == phase[c] \in {"backlog", "reading", "writing"} /\ ~gone[c]

Answered(c, r) == \E i \in DOMAIN answers[c] : answers[c][i].request = r

Sent(c, r) == r \in ToSet(asked[c])

\* The client sent r over c and the connection ended without an answer.
Lost(c, r) == Sent(c, r) /\ ~Answered(c, r) /\ ~Open(c)

\* A request is sent, and sent again only where all earlier ones were lost.
Wanted(r) == \A c \in Connections : Sent(c, r) => Lost(c, r)

\* The kernel completes connections as long as the acceptor exists.
Connect(c) ==
  /\ Goto(c, "none", "backlog")
  /\ UNCHANGED <<listener, gone, asked, wire, reply, answers, queued, up>>

Send(c, r) ==
  /\ Open(c)
  /\ Wanted(r)
  /\ Len(asked[c]) < Pipelined
  /\ \A i \in DOMAIN asked[c] : ~asked[c][i].upgrade
  /\ asked' = [asked EXCEPT ![c] = Append(@, r)]
  /\ wire' = [wire EXCEPT ![c] = Append(@, r)]
  /\ UNCHANGED <<listener, phase, gone, reply, answers, queued, up>>

\* The client closes, gives up waiting, or the network fails; what it has
\* sent may still be read.
GiveUp(c) ==
  /\ Open(c)
  /\ gone' = [gone EXCEPT ![c] = TRUE]
  /\ UNCHANGED <<listener, phase, asked, wire, reply, answers, queued, up>>

-----------------------------------------------------------------------------
(* listener                                                                 *)

\* Mutant: on_accept does not accept the next connection.
AcceptOne(c) ==
  /\ listener = "accepting"
  /\ Goto(c, "backlog", "reading")
  /\ listener' = "idle"
  /\ UNCHANGED <<gone, asked, wire, reply, answers, queued, up>>

\* on_accept: a session for the connection, whose run() starts to read; then
\* the next async_accept.
Accept(c) ==
  /\ listener = "accepting"
  /\ Goto(c, "backlog", "reading")
  /\ UNCHANGED <<listener, gone, asked, wire, reply, answers, queued, up>>

\* on_accept with an error (the first accept has one when the constructor
\* could not open, bind or listen): it returns without another async_accept.
AcceptFails ==
  /\ listener = "accepting"
  /\ listener' = "failed"
  /\ UNCHANGED <<phase, gone, asked, wire, reply, answers, queued, up>>

-----------------------------------------------------------------------------
(* http_session                                                             *)

\* async_read has a request to give to on_read.
Arrived(c) == phase[c] = "reading" /\ wire[c] # <<>>

\* on_read of an upgrade: the socket goes to a websocket_session, and what
\* buffer_ holds of later requests is dropped.
Upgrade(c) ==
  /\ Arrived(c)
  /\ Head(wire[c]).upgrade
  /\ Goto(c, "reading", "upgraded")
  /\ wire' = [wire EXCEPT ![c] = Tail(@)]
  /\ UNCHANGED <<listener, gone, asked, reply, answers, queued, up>>

\* handle_request throws, nothing catches it before ioc.run().
HandleThrows(c) ==
  /\ Arrived(c)
  /\ Throws(Head(wire[c]))
  /\ wire' = [wire EXCEPT ![c] = Tail(@)]
  /\ up' = FALSE
  /\ UNCHANGED <<listener, phase, gone, asked, reply, answers, queued>>

\* Mutant: what on_read has handled stays in buffer_.
HandleKeepsRequest(c) ==
  LET r == Head(wire[c])
  IN  /\ Arrived(c)
      /\ ~r.upgrade /\ ~Throws(r)
      /\ queued[r] < 3
      /\ Goto(c, "reading", "writing")
      /\ \E status \in Responses(r) :
           reply' = [reply EXCEPT ![c] = [request |-> r, status |-> status]]
      /\ queued' = [queued EXCEPT ![r] = @ + (IF Submits(r) THEN 1 ELSE 0)]
      /\ UNCHANGED <<listener, gone, asked, wire, answers, up>>

\* Mutant: only the first task of a kept-alive connection is pushed.
HandleFirstOnly(c) ==
  LET r == Head(wire[c])
  IN  /\ Arrived(c)
      /\ ~r.upgrade /\ ~Throws(r)
      /\ Goto(c, "reading", "writing")
      /\ \E status \in Responses(r) :
           reply' = [reply EXCEPT ![c] = [request |-> r, status |-> status]]
      /\ wire' = [wire EXCEPT ![c] = Tail(@)]
      /\ queued' = [queued EXCEPT ![r] =
                      IF Submits(r) /\ answers[c] = <<>> THEN @ + 1 ELSE @]
      /\ UNCHANGED <<listener, gone, asked, answers, up>>

\* on_read of any other request: handle_request, which pushes the task of a
\* POST /api/tasks, then async_write of its response.
Handle(c) ==
  LET r == Head(wire[c])
  IN  /\ Arrived(c)
      /\ ~r.upgrade /\ ~Throws(r)
      /\ Goto(c, "reading", "writing")
      /\ \E status \in Responses(r) :
           reply' = [reply EXCEPT ![c] = [request |-> r, status |-> status]]
      /\ wire' = [wire EXCEPT ![c] = Tail(@)]
      /\ queued' = [queued EXCEPT ![r] = IF Submits(r) THEN @ + 1 ELSE @]
      /\ UNCHANGED <<listener, gone, asked, answers, up>>

\* Mutant: only the end of the stream ends a read, nothing expires.
ReadEndsOnly(c) ==
  /\ gone[c]
  /\ wire[c] = <<>>
  /\ Goto(c, "reading", "closed")
  /\ UNCHANGED <<listener, gone, asked, wire, reply, answers, queued, up>>

\* The client closed its end, the connection failed, or 30 s went by:
\* on_read returns and with it goes the last reference to the session.
ReadFails(c) ==
  /\ Goto(c, "reading", "closed")
  /\ UNCHANGED <<listener, gone, asked, wire, reply, answers, queued, up>>

\* Does a response get to the client?  If not, its connection is lost.
Deliver(c) ==
  \/ /\ ~gone[c]
     /\ answers' = [answers EXCEPT ![c] = Append(@, reply[c])]
     /\ UNCHANGED gone
  \/ /\ gone' = [gone EXCEPT ![c] = TRUE]
     /\ UNCHANGED answers

\* Mutant: on_write takes keep_alive for close, the name its declaration has.
WriteKeepAliveNegated(c) ==
  /\ Goto(c, "writing", IF reply[c].request.keep_alive THEN "closed" ELSE "reading")
  /\ Deliver(c)
  /\ reply' = [reply EXCEPT ![c] = NoReply]
  /\ UNCHANGED <<listener, asked, wire, queued, up>>

\* Mutant: the response stays with the session that has written it.
WriteKeepsReply(c) ==
  /\ Goto(c, "writing", IF reply[c].request.keep_alive THEN "reading" ELSE "closed")
  /\ Deliver(c)
  /\ UNCHANGED <<listener, asked, wire, reply, queued, up>>

\* The response is in the socket.  on_write reads again if the connection is
\* kept alive, and shuts it down otherwise.
Write(c) ==
  /\ Goto(c, "writing", IF reply[c].request.keep_alive THEN "reading" ELSE "closed")
  /\ Deliver(c)
  /\ reply' = [reply EXCEPT ![c] = NoReply]
  /\ UNCHANGED <<listener, asked, wire, queued, up>>

\* Mutant: on_write reads on after an error.
WriteFailsReadsOn(c) ==
  /\ Goto(c, "writing", "reading")
  /\ reply' = [reply EXCEPT ![c] = NoReply]
  /\ UNCHANGED <<listener, gone, asked, wire, answers, queued, up>>

\* An error, or the rest of the 30 s that do_read had set went by.
WriteFails(c) ==
  /\ Goto(c, "writing", "closed")
  /\ reply' = [reply EXCEPT ![c] = NoReply]
  /\ UNCHANGED <<listener, gone, asked, wire, answers, queued, up>>

\* SIGINT or SIGTERM: ioc.stop(), no handler runs any more.
Stop ==
  /\ up' = FALSE
  /\ UNCHANGED <<listener, phase, gone, asked, wire, reply, answers, queued>>

-----------------------------------------------------------------------------
OnRead(c) == Upgrade(c) \/ HandleThrows(c) \/ Handle(c) \/ ReadFails(c)

OnWrite(c) == Write(c) \/ WriteFails(c)

Next ==
  /\ up
  /\ \/ \E c \in Connections :
          \/ Connect(c) \/ GiveUp(c) \/ \E r \in Requests : Send(c, r)
          \/ Accept(c) \/ OnRead(c) \/ OnWrite(c)
     \/ AcceptFails
     \/ Stop

Spec == Init /\ [][Next]_vars

(***************************************************************************)
(* Fairness.  A connection in the backlog is given to a pending accept, and *)
(* every read and write completes, with an error after 30 s at the latest; *)
(* both need an io thread that is not asleep in process_tasks, so two at   *)
(* least (see Scheduler).  Nothing is assumed of clients.                  *)
(***************************************************************************)
Fairness ==
  \A c \in Connections :
    /\ WF_vars(up /\ Accept(c))
    /\ WF_vars(up /\ OnRead(c))
    /\ WF_vars(up /\ OnWrite(c))

FairSpec == Spec /\ Fairness

-----------------------------------------------------------------------------
(* Properties                                                               *)

TypeOK ==
  /\ listener \in {"accepting", "idle", "failed"}
  /\ phase \in [Connections -> Phases]
  /\ gone \in [Connections -> BOOLEAN]
  /\ asked \in [Connections -> Seq(Requests)]
  /\ wire \in [Connections -> Seq(Requests)]
  /\ reply \in [Connections -> [request : Requests, status : Statuses] \cup {NoReply}]
  /\ \A c \in Connections : reply[c] # NoReply <=> phase[c] = "writing"
  /\ answers \in [Connections -> Seq([request : Requests, status : Statuses])]
  /\ queued \in [Requests -> Nat]
  /\ up \in BOOLEAN

\* The responses a client gets over a connection answer its requests one by
\* one, in the order in which it sent them, also when it pipelines them and
\* writes fail: a response is never taken for the answer to another request.
AnswersInOrder ==
  \A c \in Connections :
    /\ Len(answers[c]) <= Len(asked[c])
    /\ \A i \in DOMAIN answers[c] : answers[c][i].request = asked[c][i]

\* After the answer to a request without keep-alive nothing more of that
\* connection is handled, whatever was pipelined behind it.
NothingAfterClose ==
  \A c \in Connections : \A i \in DOMAIN answers[c] :
    ~answers[c][i].request.keep_alive
      => phase[c] = "closed" /\ i = Len(answers[c])

\* A client that has read "queued" can rely on it.
AcknowledgedIsQueued ==
  \A c \in Connections : \A i \in DOMAIN answers[c] :
    answers[c][i].status = "queued" => queued[answers[c][i].request] > 0

\* push_task comes before the response, so a client that asks again after it
\* lost a connection may have its task queued twice: but only then, and not
\* more often than it has sent it.
DuplicateNeedsLoss ==
  \A r \in Requests :
    LET lost == {c \in Connections : Lost(c, r)}
    IN  queued[r] <= Cardinality(lost) + 1

\* A client that has connected is served while the listener accepts: one
\* session, or its end, does not keep the next connection waiting.
BacklogServed ==
  \A c \in Connections :
    phase[c] = "backlog" ~> (phase[c] # "backlog" \/ listener = "failed" \/ ~up)

\* No session waits for ever: when its client has no more requests it comes to
\* an end, by Connection: close, an error or the expiry, or is handed over to
\* a WebSocket.
SessionEnds ==
  \A c \in Connections :
    phase[c] = "reading" ~> (phase[c] \in {"closed", "upgraded"} \/ ~up)

\* "Apply a reasonable limit to the allowed size of the body": the parser
\* that has the limit is not the one that reads.  async_read gets the message
\* inside it and parses with a parser, and a limit, of its own.
BodyLimited ==
  \A c \in Connections : reply[c] # NoReply => ~reply[c].request.large
=============================================================================
