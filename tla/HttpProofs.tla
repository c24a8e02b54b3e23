------------------------------- MODULE HttpProofs -------------------------------
(***************************************************************************)
(* What HttpSessions promises, proved for every set of connections and     *)
(* requests and every bound on pipelining.                                 *)
(*                                                                         *)
(* That answers come in order rests on an equation: the requests of a      *)
(* connection that on_read was given (asked without wire) are as many as   *)
(* its answers, and one more while a response is being written.  That a    *)
(* task is queued twice only after a loss is a matter of counting: each    *)
(* push_task for a request is that of another connection, all of which     *)
(* but one have lost it.                                                   *)
(***************************************************************************)
EXTENDS HttpSessions, Integers, FiniteSetTheorems, SequenceTheorems, TLAPS

-----------------------------------------------------------------------------
(* The inductive invariant                                                  *)

\* Responses a client can get.
Responded == [request : Requests, status : Statuses]

\* How many requests of c were given to on_read.
Taken(c) == Len(asked[c]) - Len(wire[c])

\* w is the end of a.
Ends(w, a) ==
  Len(w) <= Len(a) /\ \A i \in 1 .. Len(w) : w[i] = a[Len(a) - Len(w) + i]

\* What on_read has not been given is the end of what the client has sent.
WireSound(c) ==
  /\ Ends(wire[c], asked[c])
  /\ phase[c] = "none" => asked[c] = <<>>

\* Answers come one by one and in order: each but the last request that on_read
\* was given is answered, the last one too unless it is being answered, was
\* upgraded or made handle_request throw, or the connection is lost.
OrderSound(c) ==
  /\ Len(answers[c]) <= Taken(c)
  /\ phase[c] = "writing" /\ ~gone[c] =>
       Taken(c) = Len(answers[c]) + 1 /\ reply[c].request = asked[c][Taken(c)]
  /\ phase[c] \in {"none", "backlog", "reading"} /\ ~gone[c] /\ up => Taken(c) = Len(answers[c])
  /\ \A i \in DOMAIN answers[c] : answers[c][i].request = asked[c][i]

\* The last answer is the only one that may be without keep-alive.
CloseSound(c) ==
  \A i \in DOMAIN answers[c] :
    ~answers[c][i].request.keep_alive => phase[c] = "closed" /\ i = Len(answers[c])

\* "queued" is said, or about to be said, of tasks only that were pushed.
QueueSound(c) ==
  /\ phase[c] = "writing" /\ reply[c].status = "queued" => queued[reply[c].request] > 0
  /\ \A i \in DOMAIN answers[c] :
       answers[c][i].status = "queued" => queued[answers[c][i].request] > 0

\* Over one connection a request is sent once.
AskedOnce(c) == \A i, j \in DOMAIN asked[c] : asked[c][i] = asked[c][j] => i = j

\* The connections that were made: finitely many in every state, of however many.
Used == {c \in Connections : phase[c] # "none"}

\* The connections that r was sent over.
Askers(r) == {c \in Connections : Sent(c, r)}

\* Those of them whose on_read was given it.
Seen(r) == {c \in Askers(r) : r \notin ToSet(wire[c])}

\* A request is lost wherever it was sent, except over one connection.
OneWaits(r) ==
  \A c, d \in Askers(r) : ~Lost(c, r) /\ ~Lost(d, r) => c = d

\* Every push_task for r is that of another connection.
CountSound(r) == queued[r] <= Cardinality(Seen(r))

\* The inductive invariant.
HInv ==
  /\ TypeOK
  /\ \A c \in Connections :
       WireSound(c) /\ OrderSound(c) /\ CloseSound(c) /\ QueueSound(c) /\ AskedOnce(c)
  /\ IsFiniteSet(Used)
  /\ \A r \in Requests : OneWaits(r) /\ CountSound(r)

-----------------------------------------------------------------------------
(* Types, and whose step it is                                              *)

\* What handle_request may answer is a response.
LEMMA ReplyType ==
  ASSUME NEW r \in Requests, NEW status \in Responses(r)
  PROVE  [request |-> r, status |-> status] \in Responded
BY DEF Responses, Responded, Statuses

\* Every step keeps the types: Write appends what is being written, which is a
\* response for as long as the session writes.
LEMMA TypeStep ==
  ASSUME TypeOK, [Next]_vars
  PROVE  TypeOK'
<1>. USE DEF TypeOK, Phases, Goto
<1>1. ASSUME NEW c \in Connections, Connect(c) PROVE TypeOK'
  BY <1>1 DEF Connect
<1>2. ASSUME NEW c \in Connections, NEW r \in Requests, Send(c, r) PROVE TypeOK'
  <2>1. Append(asked[c], r) \in Seq(Requests) /\ Append(wire[c], r) \in Seq(Requests)
    BY AppendProperties
  <2>. QED  BY <1>2, <2>1 DEF Send
<1>3. ASSUME NEW c \in Connections, GiveUp(c) PROVE TypeOK'
  BY <1>3 DEF GiveUp
<1>4. ASSUME NEW c \in Connections, Accept(c) PROVE TypeOK'
  BY <1>4 DEF Accept
<1>5. CASE AcceptFails
  BY <1>5 DEF AcceptFails
<1>6. ASSUME NEW c \in Connections, Upgrade(c) PROVE TypeOK'
  <2>1. Tail(wire[c]) \in Seq(Requests)
    BY <1>6 DEF Upgrade, Arrived
  <2>. QED  BY <1>6, <2>1 DEF Upgrade
<1>7. ASSUME NEW c \in Connections, HandleThrows(c) PROVE TypeOK'
  <2>1. Tail(wire[c]) \in Seq(Requests)
    BY <1>7 DEF HandleThrows, Arrived
  <2>. QED  BY <1>7, <2>1 DEF HandleThrows
<1>8. ASSUME NEW c \in Connections, Handle(c) PROVE TypeOK'
  <2>1. Head(wire[c]) \in Requests /\ Tail(wire[c]) \in Seq(Requests)
    BY <1>8 DEF Handle, Arrived
  <2>2. PICK status \in Responses(Head(wire[c])) :
          reply' = [reply EXCEPT ![c] = [request |-> Head(wire[c]), status |-> status]]
    BY <1>8 DEF Handle
  <2>3. /\ reply' \in [Connections -> Responded \cup {NoReply}]
        /\ reply'[c] # NoReply /\ \A d \in Connections \ {c} : reply'[d] = reply[d]
    BY <2>1, <2>2, ReplyType, ReplyAssumption DEF Responded
  <2>4. queued' \in [Requests -> Nat]
    BY <1>8, <2>1 DEF Handle
  <2>. QED  BY <1>8, <2>1, <2>3, <2>4 DEF Handle, Responded
<1>9. ASSUME NEW c \in Connections, ReadFails(c) PROVE TypeOK'
  BY <1>9 DEF ReadFails
<1>10. ASSUME NEW c \in Connections, Write(c) PROVE TypeOK'
  <2>1. reply[c] \in Responded
    BY <1>10 DEF Write, Responded
  <2>2. Append(answers[c], reply[c]) \in Seq(Responded)
    BY <2>1, AppendProperties DEF Responded
  <2>3. answers' \in [Connections -> Seq(Responded)] /\ gone' \in [Connections -> BOOLEAN]
    BY <1>10, <2>2 DEF Write, Deliver, Responded
  <2>4. reply' \in [Connections -> Responded \cup {NoReply}] /\ phase' \in [Connections -> Phases]
    BY <1>10 DEF Write, Responded
  <2>5. \A d \in Connections : reply'[d] # NoReply <=> phase'[d] = "writing"
    BY <1>10 DEF Write
  <2>. QED  BY <1>10, <2>3, <2>4, <2>5 DEF Write, Responded
<1>11. ASSUME NEW c \in Connections, WriteFails(c) PROVE TypeOK'
  BY <1>11 DEF WriteFails
<1>12. CASE Stop
  BY <1>12 DEF Stop
<1>13. CASE UNCHANGED vars
  BY <1>13 DEF vars
<1>. QED
  BY <1>1, <1>2, <1>3, <1>4, <1>5, <1>6, <1>7, <1>8, <1>9, <1>10, <1>11, <1>12, <1>13
     DEF Next, OnRead, OnWrite

\* The variables of connection c.
Own(c) == <<phase[c], gone[c], asked[c], wire[c], reply[c], answers[c]>>

\* The steps of connection c, of its client and of its session.
ConnectionStep(c) ==
  \/ Connect(c) \/ GiveUp(c) \/ \E r \in Requests : Send(c, r)
  \/ Accept(c) \/ OnRead(c) \/ OnWrite(c)

\* What belongs to a connection is changed by its own steps alone, nothing
\* starts the server again, and no task leaves the queue's history.
LEMMA Steps ==
  ASSUME TypeOK, [Next]_vars, NEW c \in Connections
  PROVE  /\ ConnectionStep(c) \/ UNCHANGED Own(c)
         /\ up' => up
         /\ \A r \in Requests : queued'[r] >= queued[r]
<1>1. ASSUME NEW d \in Connections, ConnectionStep(d), d # c
      PROVE  UNCHANGED Own(c)
  <2>. USE <1>1 DEF Goto, Own, TypeOK
  <2>1. CASE Connect(d) \/ GiveUp(d) \/ Accept(d)
    BY <2>1 DEF Connect, GiveUp, Accept
  <2>2. ASSUME NEW r \in Requests, Send(d, r) PROVE UNCHANGED Own(c)
    BY <2>2 DEF Send
  <2>3. CASE Upgrade(d) \/ HandleThrows(d) \/ ReadFails(d)
    BY <2>3 DEF Upgrade, HandleThrows, ReadFails
  <2>4. CASE Handle(d)
    BY <2>4 DEF Handle
  <2>5. CASE Write(d)
    BY <2>5 DEF Write, Deliver
  <2>6. CASE WriteFails(d)
    BY <2>6 DEF WriteFails
  <2>. QED  BY <2>1, <2>2, <2>3, <2>4, <2>5, <2>6 DEF ConnectionStep, OnRead, OnWrite
<1>2. ASSUME AcceptFails \/ Stop \/ UNCHANGED vars PROVE UNCHANGED Own(c)
  <2>1. CASE AcceptFails
    BY <2>1 DEF AcceptFails, Own
  <2>2. CASE Stop
    BY <2>2 DEF Stop, Own
  <2>3. CASE UNCHANGED vars
    BY <2>3 DEF vars, Own
  <2>. QED  BY <1>2, <2>1, <2>2, <2>3
<1>3. ConnectionStep(c) \/ UNCHANGED Own(c)
  <2>1. (\E d \in Connections : ConnectionStep(d)) \/ AcceptFails \/ Stop \/ UNCHANGED vars
    BY DEF Next, ConnectionStep
  <2>. QED  BY <1>1, <1>2, <2>1
<1>4. up' => up
  BY DEF Next, vars
<1>5. ASSUME NEW d \in Connections, Handle(d), NEW r \in Requests
      PROVE  queued'[r] >= queued[r]
  BY <1>5 DEF Handle, TypeOK
<1>6. (\E d \in Connections : Handle(d)) \/ queued' = queued
  BY DEF Next, vars, AcceptFails, Stop, Connect, GiveUp, Send, Accept, OnRead, OnWrite, Upgrade,
       HandleThrows, ReadFails, Write, WriteFails
<1>7. \A r \in Requests : queued'[r] >= queued[r]
  BY <1>5, <1>6 DEF TypeOK
<1>. QED  BY <1>3, <1>4, <1>7

-----------------------------------------------------------------------------
(* Answers come in order                                                    *)

\* Arithmetic that the provers are to find done.
LEMMA Subtract ==
  /\ \A m, n \in Nat : m <= n => n - m \in Nat /\ n - m <= n
  /\ \A m \in Nat \ {0}, n \in Nat : n - (m - 1) = (n - m) + 1
  /\ \A m, n \in Nat : (n + 1) - (m + 1) = n - m
OBVIOUS

\* A request that is sent goes to the end of both.
LEMMA EndsAppend ==
  \A w, a \in Seq(Requests), r \in Requests : Ends(w, a) => Ends(Append(w, r), Append(a, r))
<1>. SUFFICES ASSUME NEW w \in Seq(Requests), NEW a \in Seq(Requests), NEW r \in Requests, Ends(w, a)
              PROVE  Ends(Append(w, r), Append(a, r))
  OBVIOUS
<1>. DEFINE m == Len(w)
            n == Len(a)
<1>1. /\ m \in Nat /\ n \in Nat /\ m <= n
      /\ Len(Append(w, r)) = m + 1 /\ Len(Append(a, r)) = n + 1
      /\ Append(w, r)[m + 1] = r /\ Append(a, r)[n + 1] = r
      /\ \A i \in 1 .. m : Append(w, r)[i] = w[i]
      /\ \A j \in 1 .. n : Append(a, r)[j] = a[j]
      /\ \A i \in 1 .. m : w[i] = a[n - m + i]
  BY LenProperties, AppendProperties DEF Ends
<1>. HIDE DEF m, n
<1>2. ASSUME NEW i \in 1 .. m + 1
      PROVE  Append(w, r)[i] = Append(a, r)[n - m + i]
  <2>1. CASE i = m + 1
    BY <1>1, <2>1
  <2>2. CASE i \in 1 .. m
    <3>1. w[i] = a[n - m + i] /\ n - m + i \in 1 .. n
      BY <1>1, <2>2
    <3>. QED  BY <1>1, <2>2, <3>1
  <2>3. i = m + 1 \/ i \in 1 .. m
    BY <1>1
  <2>. QED  BY <2>1, <2>2, <2>3
<1>3. m + 1 <= n + 1 /\ (n + 1) - (m + 1) = n - m
  BY <1>1
<1>. QED  BY <1>1, <1>2, <1>3 DEF Ends

\* What is read is the request after those that were taken.
LEMMA EndsTail ==
  \A w, a \in Seq(Requests) : Ends(w, a) /\ w # <<>> =>
     Ends(Tail(w), a) /\ Len(Tail(w)) = Len(w) - 1 /\ Head(w) = a[Len(a) - Len(w) + 1]
<1>. SUFFICES ASSUME NEW w \in Seq(Requests), NEW a \in Seq(Requests), Ends(w, a), w # <<>>
              PROVE  Ends(Tail(w), a) /\ Len(Tail(w)) = Len(w) - 1 /\ Head(w) = a[Len(a) - Len(w) + 1]
  OBVIOUS
<1>1. /\ Len(w) \in Nat \ {0} /\ Len(a) \in Nat /\ Len(Tail(w)) = Len(w) - 1
      /\ Head(w) = w[1] /\ \A i \in 1 .. Len(w) - 1 : Tail(w)[i] = w[i + 1]
  BY LenProperties, HeadTailProperties, EmptySeq
<1>2. ASSUME NEW i \in 1 .. Len(w) - 1
      PROVE  Tail(w)[i] = a[Len(a) - (Len(w) - 1) + i]
  <2>1. w[i + 1] = a[Len(a) - Len(w) + (i + 1)]
    BY <1>1 DEF Ends
  <2>2. Len(a) - Len(w) + (i + 1) = Len(a) - (Len(w) - 1) + i
    BY <1>1
  <2>. QED  BY <1>1, <2>1, <2>2
<1>. QED  BY <1>1, <1>2 DEF Ends

\* Every step keeps the wire the end of what was asked.
LEMMA WireStep ==
  ASSUME TypeOK, NEW c \in Connections, WireSound(c), [Next]_vars
  PROVE  WireSound(c)'
<1>. USE DEF WireSound
<1>0. asked[c] \in Seq(Requests) /\ wire[c] \in Seq(Requests)
  BY DEF TypeOK
<1>1. CASE UNCHANGED Own(c)
  BY <1>1 DEF Own
<1>2. ASSUME NEW r \in Requests, Send(c, r) PROVE WireSound(c)'
  <2>1. asked'[c] = Append(asked[c], r) /\ wire'[c] = Append(wire[c], r) /\ phase'[c] # "none"
    BY <1>2 DEF Send, Open, TypeOK
  <2>. QED  BY <1>0, <2>1, EndsAppend
<1>3. CASE Upgrade(c) \/ HandleThrows(c) \/ Handle(c)
  <2>1. wire'[c] = Tail(wire[c]) /\ wire[c] # <<>> /\ asked'[c] = asked[c] /\ phase'[c] # "none"
    BY <1>3 DEF Upgrade, HandleThrows, Handle, Arrived, Goto, TypeOK
  <2>. QED  BY <1>0, <2>1, EndsTail
<1>4. CASE Connect(c)
  BY <1>4 DEF Connect, Goto, TypeOK
<1>5. CASE GiveUp(c) \/ Accept(c) \/ ReadFails(c) \/ Write(c) \/ WriteFails(c)
  <2>1. asked'[c] = asked[c] /\ wire'[c] = wire[c] /\ phase'[c] # "none"
    BY <1>5 DEF GiveUp, Accept, ReadFails, Write, WriteFails, Goto, Open, TypeOK
  <2>. QED  BY <2>1
<1>. QED
  BY <1>1, <1>2, <1>3, <1>4, <1>5, Steps DEF ConnectionStep, OnRead, OnWrite

\* How many were taken is a number, and not more than were asked.
LEMMA TakenType ==
  ASSUME TypeOK, NEW c \in Connections, WireSound(c)
  PROVE  /\ Taken(c) \in Nat /\ Taken(c) <= Len(asked[c])
         /\ Taken(c) = Len(asked[c]) - Len(wire[c])
         /\ Len(asked[c]) \in Nat /\ Len(wire[c]) \in Nat
<1>1. Len(asked[c]) \in Nat /\ Len(wire[c]) \in Nat /\ Len(wire[c]) <= Len(asked[c])
  BY LenProperties DEF TypeOK, WireSound, Ends
<1>. QED  BY <1>1, Subtract DEF Taken

\* Every step keeps the equation: on_read takes one request and starts its answer,
\* and Write ends the answer that was started.
LEMMA OrderStep ==
  ASSUME TypeOK, NEW c \in Connections, WireSound(c), OrderSound(c), [Next]_vars
  PROVE  OrderSound(c)'
<1>. USE DEF OrderSound
<1>. HIDE DEF Ends
<1>0. /\ asked[c] \in Seq(Requests) /\ wire[c] \in Seq(Requests) /\ answers[c] \in Seq(Responded)
      /\ Len(asked[c]) \in Nat /\ Len(wire[c]) \in Nat /\ Len(answers[c]) \in Nat
      /\ DOMAIN answers[c] = 1 .. Len(answers[c])
      /\ Taken(c) \in Nat /\ Taken(c) <= Len(asked[c])
  BY TakenType, LenProperties DEF TypeOK, Responded
<1>1. up' => up
  BY Steps
<1>2. CASE UNCHANGED Own(c)
  BY <1>1, <1>2 DEF Own, Taken
<1>3. ASSUME NEW r \in Requests, Send(c, r) PROVE OrderSound(c)'
  <2>1. /\ asked'[c] = Append(asked[c], r) /\ wire'[c] = Append(wire[c], r)
        /\ UNCHANGED <<phase, gone, reply, answers, up>>
    BY <1>3 DEF Send, TypeOK
  <2>2. /\ Len(Append(asked[c], r)) = Len(asked[c]) + 1
        /\ Len(Append(wire[c], r)) = Len(wire[c]) + 1
        /\ \A i \in 1 .. Len(asked[c]) : Append(asked[c], r)[i] = asked[c][i]
    BY <1>0, AppendProperties
  <2>3. Taken(c)' = Taken(c)
    BY <1>0, <2>1, <2>2 DEF Taken
  <2>4. \A i \in 1 .. Taken(c) : asked'[c][i] = asked[c][i]
    BY <1>0, <2>1, <2>2
  <2>. QED  BY <1>0, <2>1, <2>3, <2>4
<1>4. CASE Upgrade(c) \/ HandleThrows(c) \/ Handle(c)
  <2>1. /\ wire[c] # <<>> /\ wire'[c] = Tail(wire[c]) /\ phase[c] = "reading" /\ up
        /\ UNCHANGED <<asked, gone, answers>>
        /\ \/ phase'[c] = "upgraded"
           \/ ~up' /\ phase'[c] = "reading"
           \/ phase'[c] = "writing" /\ reply'[c].request = Head(wire[c])
    BY <1>4 DEF Upgrade, HandleThrows, Handle, Arrived, Goto, TypeOK, Next, vars
  <2>2. Len(Tail(wire[c])) = Len(wire[c]) - 1 /\ Head(wire[c]) = asked[c][Taken(c) + 1]
    BY <1>0, <2>1, EndsTail DEF WireSound, Taken
  <2>3. Taken(c)' = Taken(c) + 1
    <3>1. Len(wire[c]) # 0
      BY <1>0, <2>1, EmptySeq
    <3>2. Taken(c)' = Len(asked[c]) - (Len(wire[c]) - 1)
      BY <2>1, <2>2 DEF Taken
    <3>. QED  BY <1>0, <3>1, <3>2, Subtract DEF Taken
  <2>4. Len(answers'[c]) <= Taken(c)' /\ \A i \in DOMAIN answers'[c] : answers'[c][i].request = asked'[c][i]
    BY <1>0, <2>1, <2>3
  <2>5. ASSUME phase'[c] = "writing", ~gone'[c]
        PROVE  Taken(c)' = Len(answers'[c]) + 1 /\ reply'[c].request = asked'[c][Taken(c)']
    BY <2>1, <2>2, <2>3, <2>5
  <2>. QED  BY <2>1, <2>4, <2>5
<1>5. CASE Write(c)
  <2>1. /\ Taken(c)' = Taken(c) /\ asked' = asked
        /\ phase[c] = "writing" /\ phase'[c] \in {"reading", "closed"}
    BY <1>5 DEF Write, Goto, TypeOK, Taken
  <2>2. CASE answers' = answers /\ gone'[c]
    BY <1>0, <2>1, <2>2
  <2>3. CASE ~gone[c] /\ gone' = gone /\ answers'[c] = Append(answers[c], reply[c])
    <3>1. reply[c] \in Responded
      BY <2>1 DEF TypeOK, Responded
    <3>2. /\ Len(answers'[c]) = Len(answers[c]) + 1
          /\ DOMAIN answers'[c] = 1 .. Len(answers[c]) + 1
          /\ \A i \in 1 .. Len(answers[c]) : answers'[c][i] = answers[c][i]
          /\ answers'[c][Len(answers[c]) + 1] = reply[c]
      BY <1>0, <2>3, <3>1, AppendProperties, LenProperties
    <3>3. Taken(c) = Len(answers[c]) + 1 /\ reply[c].request = asked[c][Taken(c)]
      BY <2>1, <2>3
    <3>. QED  BY <1>0, <2>1, <2>3, <3>2, <3>3
  <2>. QED  BY <1>5, <2>2, <2>3 DEF Write, Deliver, TypeOK
<1>6. CASE Connect(c) \/ GiveUp(c) \/ Accept(c) \/ ReadFails(c) \/ WriteFails(c)
  <2>1. /\ UNCHANGED <<asked, wire, answers>>
        /\ \/ phase'[c] = phase[c] /\ gone'[c] /\ reply' = reply
           \/ gone' = gone /\ phase'[c] = "closed"
           \/ gone' = gone /\ phase[c] \in {"none", "backlog"} /\ phase'[c] \in {"backlog", "reading"}
    BY <1>6 DEF Connect, GiveUp, Accept, ReadFails, WriteFails, Goto, TypeOK
  <2>2. Taken(c)' = Taken(c)
    BY <2>1 DEF Taken
  <2>. QED  BY <1>0, <1>1, <2>1, <2>2
<1>. QED
  BY <1>2, <1>3, <1>4, <1>5, <1>6, Steps DEF ConnectionStep, OnRead, OnWrite

-----------------------------------------------------------------------------
(* The end of a connection, the queue, and requests sent once               *)

\* After an answer without keep-alive the session is closed and answers no more.
LEMMA CloseStep ==
  ASSUME TypeOK, NEW c \in Connections, CloseSound(c), [Next]_vars
  PROVE  CloseSound(c)'
<1>. USE DEF CloseSound
<1>1. CASE UNCHANGED Own(c)
  BY <1>1 DEF Own
<1>2. CASE Write(c)
  <2>1. /\ phase[c] = "writing" /\ reply[c] \in Responded /\ answers[c] \in Seq(Responded)
        /\ phase'[c] = IF reply[c].request.keep_alive THEN "reading" ELSE "closed"
    BY <1>2 DEF Write, Goto, TypeOK, Responded
  <2>2. CASE answers' = answers
    BY <2>1, <2>2
  <2>3. CASE answers'[c] = Append(answers[c], reply[c])
    <3>1. /\ Len(answers[c]) \in Nat /\ DOMAIN answers[c] = 1 .. Len(answers[c])
          /\ Len(answers'[c]) = Len(answers[c]) + 1
          /\ DOMAIN answers'[c] = 1 .. Len(answers[c]) + 1
          /\ \A i \in 1 .. Len(answers[c]) : answers'[c][i] = answers[c][i]
          /\ answers'[c][Len(answers[c]) + 1] = reply[c]
      BY <2>1, <2>3, AppendProperties, LenProperties
    <3>2. ASSUME NEW i \in DOMAIN answers'[c], ~answers'[c][i].request.keep_alive
          PROVE  i = Len(answers[c]) + 1
      <4>1. CASE i \in DOMAIN answers[c]
        BY <2>1, <3>1, <3>2, <4>1
      <4>. QED  BY <3>1, <4>1
    <3>. QED  BY <2>1, <3>1, <3>2
  <2>. QED  BY <1>2, <2>2, <2>3 DEF Write, Deliver, TypeOK
<1>3. CASE ConnectionStep(c) /\ ~Write(c)
  <2>1. answers' = answers /\ (phase[c] = "closed" => phase'[c] = "closed")
    BY <1>3 DEF ConnectionStep, Connect, GiveUp, Send, Accept, OnRead, OnWrite, Upgrade,
         HandleThrows, Handle, ReadFails, WriteFails, Goto, Open
  <2>. QED  BY <2>1
<1>. QED  BY <1>1, <1>2, <1>3, Steps

\* Handle pushes the task before it says so, and nothing pops the history.
LEMMA QueueStep ==
  ASSUME TypeOK, NEW c \in Connections, QueueSound(c), [Next]_vars
  PROVE  QueueSound(c)'
<1>. USE DEF QueueSound
<1>1. /\ \A r \in Requests : queued[r] > 0 => queued'[r] > 0
      /\ phase[c] = "writing" => reply[c] \in Responded
      /\ answers[c] \in Seq(Responded) /\ DOMAIN answers[c] = 1 .. Len(answers[c])
      /\ \A i \in DOMAIN answers[c] : answers[c][i] \in Responded
  <2>1. \A r \in Requests : queued[r] \in Nat /\ queued'[r] \in Nat
    BY TypeStep DEF TypeOK
  <2>2. \A r \in Requests : queued[r] > 0 => queued'[r] > 0
    BY <2>1, Steps
  <2>3. answers[c] \in Seq(Responded) /\ (phase[c] = "writing" => reply[c] \in Responded)
    BY DEF TypeOK, Responded
  <2>. QED  BY <2>2, <2>3, LenProperties, ElementOfSeq
<1>2. CASE UNCHANGED Own(c)
  BY <1>1, <1>2 DEF Own, Responded
<1>3. CASE Handle(c)
  <2>1. Head(wire[c]) \in Requests
    BY <1>3, HeadTailProperties DEF Handle, Arrived, TypeOK
  <2>2. answers' = answers
    BY <1>3 DEF Handle
  <2>3. PICK status \in Responses(Head(wire[c])) : reply'[c] = [request |-> Head(wire[c]), status |-> status]
    BY <1>3 DEF Handle, TypeOK
  <2>4. status = "queued" => Submits(Head(wire[c]))
    BY DEF Responses
  <2>5. status = "queued" => queued'[Head(wire[c])] > 0
    BY <1>3, <2>1, <2>4 DEF Handle, TypeOK
  <2>. QED  BY <1>1, <2>2, <2>3, <2>5 DEF Responded
<1>4. CASE Write(c)
  <2>1. phase[c] = "writing" /\ phase'[c] # "writing" /\ queued' = queued
    BY <1>4 DEF Write, Goto, TypeOK
  <2>2. CASE answers' = answers
    BY <2>1, <2>2
  <2>3. CASE answers'[c] = Append(answers[c], reply[c])
    <3>1. /\ DOMAIN answers'[c] = 1 .. Len(answers[c]) + 1 /\ Len(answers[c]) \in Nat
          /\ \A i \in 1 .. Len(answers[c]) : answers'[c][i] = answers[c][i]
          /\ answers'[c][Len(answers[c]) + 1] = reply[c]
      BY <1>1, <2>1, <2>3, AppendProperties, LenProperties
    <3>2. ASSUME NEW i \in DOMAIN answers'[c], answers'[c][i].status = "queued"
          PROVE  queued[answers'[c][i].request] > 0
      <4>1. CASE i \in DOMAIN answers[c]
        BY <1>1, <3>1, <3>2, <4>1
      <4>2. CASE i = Len(answers[c]) + 1
        BY <2>1, <3>1, <3>2, <4>2
      <4>. QED  BY <1>1, <3>1, <4>1, <4>2
    <3>. QED  BY <2>1, <3>2
  <2>. QED  BY <1>4, <2>2, <2>3 DEF Write, Deliver, TypeOK
<1>5. CASE ConnectionStep(c) /\ ~Write(c) /\ ~Handle(c)
  <2>1. answers' = answers /\ queued' = queued
        /\ (phase'[c] = "writing" => phase[c] = "writing" /\ reply'[c] = reply[c])
    BY <1>5 DEF ConnectionStep, Connect, GiveUp, Send, Accept, OnRead, OnWrite, Upgrade,
         HandleThrows, ReadFails, WriteFails, Goto, TypeOK
  <2>. QED  BY <2>1
<1>. QED  BY <1>2, <1>3, <1>4, <1>5, Steps

\* A client sends nothing again over the same connection.
LEMMA AskedOnceStep ==
  ASSUME TypeOK, NEW c \in Connections, AskedOnce(c), [Next]_vars
  PROVE  AskedOnce(c)'
<1>. USE DEF AskedOnce
<1>1. CASE UNCHANGED Own(c)
  BY <1>1 DEF Own
<1>2. ASSUME NEW r \in Requests, Send(c, r) PROVE AskedOnce(c)'
  <2>1. asked'[c] = Append(asked[c], r) /\ asked[c] \in Seq(Requests)
    BY <1>2 DEF Send, TypeOK
  <2>2. \A i \in DOMAIN asked[c] : asked[c][i] # r
    <3>1. r \notin ToSet(asked[c])
      BY <1>2 DEF Send, Wanted, Lost, Sent
    <3>. QED  BY <3>1 DEF ToSet
  <2>3. /\ Len(asked[c]) \in Nat /\ DOMAIN asked[c] = 1 .. Len(asked[c])
        /\ DOMAIN asked'[c] = 1 .. Len(asked[c]) + 1
        /\ \A i \in 1 .. Len(asked[c]) : asked'[c][i] = asked[c][i]
        /\ asked'[c][Len(asked[c]) + 1] = r
    BY <2>1, AppendProperties, LenProperties
  <2>. QED  BY <2>2, <2>3
<1>3. CASE ConnectionStep(c) /\ asked' = asked
  BY <1>3
<1>4. ConnectionStep(c) => asked' = asked \/ \E r \in Requests : Send(c, r)
  BY DEF ConnectionStep, Connect, GiveUp, Accept, OnRead, OnWrite, Upgrade, HandleThrows, Handle,
         ReadFails, Write, WriteFails
<1>. QED  BY <1>1, <1>2, <1>3, <1>4, Steps

-----------------------------------------------------------------------------
(* Counting the connections of a request                                    *)

\* One step makes one connection at most.
LEMMA UsedStep ==
  ASSUME TypeOK, IsFiniteSet(Used), [Next]_vars
  PROVE  IsFiniteSet(Used')
<1>1. ASSUME NEW c \in Connections, Connect(c) PROVE IsFiniteSet(Used')
  <2>1. Used' = Used \cup {c}
    BY <1>1 DEF Connect, Goto, Used, TypeOK
  <2>. QED  BY <2>1, FS_AddElement
<1>2. CASE \A c \in Connections : ~Connect(c)
  <2>1. ASSUME NEW c \in Connections, phase[c] = "none" PROVE phase'[c] = "none"
    <3>1. CASE UNCHANGED Own(c)
      BY <2>1, <3>1 DEF Own
    <3>2. CASE ConnectionStep(c)
      BY <1>2, <2>1, <3>2 DEF ConnectionStep, GiveUp, Send, Open, Accept, OnRead, OnWrite, Upgrade,
           HandleThrows, Handle, Arrived, ReadFails, Write, WriteFails, Goto
    <3>. QED  BY <3>1, <3>2, Steps
  <2>2. Used' \subseteq Used
    BY <2>1 DEF Used
  <2>. QED  BY <2>2, FS_Subset
<1>. QED  BY <1>1, <1>2

\* What was sent stays sent, and it takes a Send to send it.
LEMMA SentStep ==
  ASSUME TypeOK, NEW c \in Connections, NEW r \in Requests, [Next]_vars
  PROVE  /\ Sent(c, r) => Sent(c, r)'
         /\ Sent(c, r)' /\ ~Sent(c, r) => Send(c, r)
<1>. USE DEF Sent
<1>1. CASE UNCHANGED asked[c]
  BY <1>1
<1>2. ASSUME NEW q \in Requests, Send(c, q)
      PROVE  ToSet(asked[c])' = ToSet(asked[c]) \cup {q}
  <2>1. asked'[c] = Append(asked[c], q) /\ asked[c] \in Seq(Requests)
    BY <1>2 DEF Send, TypeOK
  <2>. QED  BY <2>1, AppendProperties, LenProperties DEF ToSet
<1>3. ConnectionStep(c) => UNCHANGED asked[c] \/ \E q \in Requests : Send(c, q)
  BY DEF ConnectionStep, Connect, GiveUp, Accept, OnRead, OnWrite, Upgrade, HandleThrows, Handle,
         ReadFails, Write, WriteFails
<1>. QED  BY <1>1, <1>2, <1>3, Steps DEF Own

\* A request that was lost on a connection is never answered there.
LEMMA LostStays ==
  ASSUME TypeOK, NEW c \in Connections, WireSound(c), NEW r \in Requests, Lost(c, r), [Next]_vars
  PROVE  Lost(c, r)'
<1>1. Sent(c, r)'
  BY SentStep DEF Lost
<1>2. phase[c] # "none"
  BY DEF Lost, Sent, WireSound, ToSet
<1>3. ~Open(c)' /\ answers'[c] = answers[c]
  <2>1. CASE UNCHANGED Own(c)
    BY <2>1 DEF Own, Lost, Open
  <2>2. CASE ConnectionStep(c)
    BY <1>2, <2>2 DEF ConnectionStep, Connect, GiveUp, Send, Accept, OnRead, OnWrite, Upgrade,
         HandleThrows, Handle, Arrived, ReadFails, Write, WriteFails, Deliver, Goto, Lost, Open,
         TypeOK
  <2>. QED  BY <2>1, <2>2, Steps
<1>. QED  BY <1>1, <1>3 DEF Lost, Answered

\* A client sends again only when it has lost what it sent.
LEMMA OneWaitsStep ==
  ASSUME TypeOK, \A c \in Connections : WireSound(c), NEW r \in Requests, OneWaits(r), [Next]_vars
  PROVE  OneWaits(r)'
<1>1. ASSUME NEW c \in Connections, NEW d \in Connections, Send(c, r), Sent(d, r)', ~Lost(d, r)'
      PROVE  c = d
  <2>1. ~Sent(d, r)
    BY <1>1, LostStays DEF Send, Wanted
  <2>2. Send(d, r)
    BY <1>1, <2>1, SentStep
  <2>. QED  BY <1>1, <2>1, <2>2 DEF Send, Sent, TypeOK
<1>2. ASSUME NEW c \in Connections, NEW d \in Connections,
             Sent(c, r)', Sent(d, r)', ~Lost(c, r)', ~Lost(d, r)'
      PROVE  c = d
  <2>1. CASE Sent(c, r) /\ Sent(d, r)
    BY <1>2, <2>1, LostStays DEF OneWaits, Askers
  <2>2. CASE ~Sent(c, r)
    BY <1>1, <1>2, <2>2, SentStep
  <2>3. CASE ~Sent(d, r)
    BY <1>1, <1>2, <2>3, SentStep
  <2>. QED  BY <2>1, <2>2, <2>3
<1>. QED  BY <1>2 DEF OneWaits, Askers

\* What on_read was given it was given for good: it is not sent there again.
LEMMA SeenStays ==
  ASSUME TypeOK, NEW c \in Connections, NEW r \in Requests, c \in Seen(r), [Next]_vars
  PROVE  c \in Seen(r)'
<1>1. Sent(c, r)' /\ Sent(c, r) /\ r \notin ToSet(wire[c]) /\ wire[c] \in Seq(Requests)
  BY SentStep DEF Seen, Askers, TypeOK
<1>2. r \notin ToSet(wire'[c])
  <2>1. CASE wire'[c] = wire[c]
    BY <1>1, <2>1
  <2>2. CASE wire[c] # <<>> /\ wire'[c] = Tail(wire[c])
    BY <1>1, <2>2, HeadTailProperties, LenProperties DEF ToSet
  <2>3. ASSUME NEW q \in Requests, Send(c, q) PROVE r \notin ToSet(wire'[c])
    <3>1. q # r
      BY <1>1, <2>3 DEF Send, Wanted, Lost
    <3>2. wire'[c] = Append(wire[c], q)
      BY <2>3 DEF Send, TypeOK
    <3>. QED  BY <1>1, <3>1, <3>2, AppendProperties, LenProperties DEF ToSet
  <2>4. ConnectionStep(c) => \/ wire'[c] = wire[c]
                             \/ wire[c] # <<>> /\ wire'[c] = Tail(wire[c])
                             \/ \E q \in Requests : Send(c, q)
    BY DEF ConnectionStep, Connect, GiveUp, Accept, OnRead, OnWrite, Upgrade, HandleThrows, Handle,
         Arrived, ReadFails, Write, WriteFails, TypeOK
  <2>. QED  BY <2>1, <2>2, <2>3, <2>4, Steps DEF Own
<1>. QED  BY <1>1, <1>2 DEF Seen, Askers

\* The request that Handle takes was not taken on that connection before.
LEMMA HandledSeen ==
  ASSUME TypeOK, NEW c \in Connections, WireSound(c), AskedOnce(c), Handle(c),
         NEW r \in Requests, r = Head(wire[c])
  PROVE  c \notin Seen(r) /\ c \in Seen(r)'
<1>. DEFINE w == wire[c]
            a == asked[c]
            m == Len(w)
            n == Len(a)
<1>1. /\ w # <<>> /\ w \in Seq(Requests) /\ a \in Seq(Requests)
      /\ wire'[c] = Tail(w) /\ asked'[c] = a
  BY DEF Handle, Arrived, TypeOK
<1>2. /\ m \in Nat \ {0} /\ n \in Nat /\ m <= n
      /\ DOMAIN w = 1 .. m /\ DOMAIN a = 1 .. n
      /\ \A i \in 1 .. m : w[i] = a[n - m + i]
      /\ \A i, j \in 1 .. n : a[i] = a[j] => i = j
  <2>1. m \in Nat \ {0} /\ n \in Nat /\ DOMAIN w = 1 .. m /\ DOMAIN a = 1 .. n
    BY <1>1, LenProperties, EmptySeq
  <2>2. m <= n /\ \A i \in 1 .. m : w[i] = a[n - m + i]
    BY DEF WireSound, Ends
  <2>3. \A i, j \in DOMAIN a : a[i] = a[j] => i = j
    BY DEF AskedOnce
  <2>4. \A i, j \in 1 .. n : a[i] = a[j] => i = j
    BY <2>1, <2>3
  <2>. HIDE DEF m, n, w, a
  <2>. QED  BY <2>1, <2>2, <2>4
<1>3. r = w[1] /\ DOMAIN Tail(w) = 1 .. m - 1 /\ \A i \in 1 .. m - 1 : Tail(w)[i] = w[i + 1]
  BY <1>1, HeadTailProperties, LenProperties
<1>. HIDE DEF m, n
<1>4. r \in ToSet(w)
  BY <1>2, <1>3 DEF ToSet
<1>5. r \in ToSet(a)
  <2>1. n - m + 1 \in 1 .. n /\ r = a[n - m + 1]
    BY <1>2, <1>3
  <2>. QED  BY <1>2, <2>1 DEF ToSet
<1>6. ASSUME NEW i \in 1 .. m - 1 PROVE Tail(w)[i] # r
  <2>1. i + 1 \in 1 .. m /\ 1 \in 1 .. m
    BY <1>2
  <2>2. PICK j : j = n - m + (i + 1)
    OBVIOUS
  <2>3. PICK k : k = n - m + 1
    OBVIOUS
  <2>4. w[i + 1] = a[j] /\ w[1] = a[k]
    BY <1>2, <2>1, <2>2, <2>3
  <2>5. j \in 1 .. n /\ k \in 1 .. n /\ j # k
    BY <1>2, <2>2, <2>3
  <2>6. a[j] # a[k]
    BY <1>2, <2>5, Zenon
  <2>. QED  BY <1>3, <2>4, <2>6, Zenon
<1>7. r \notin ToSet(Tail(w))
  BY <1>3, <1>6 DEF ToSet
<1>. QED  BY <1>1, <1>4, <1>5, <1>7 DEF Seen, Askers, Sent

\* Nothing is sent over a connection that was not made.
LEMMA AskersUsed ==
  ASSUME \A c \in Connections : WireSound(c), NEW r \in Requests
  PROVE  Askers(r) \subseteq Used
BY DEF Askers, Used, Sent, ToSet, WireSound

\* Each push_task counts one connection more.
LEMMA CountStep ==
  ASSUME TypeOK, \A c \in Connections : WireSound(c) /\ AskedOnce(c),
         IsFiniteSet(Used), IsFiniteSet(Used'), NEW r \in Requests, CountSound(r), [Next]_vars
  PROVE  CountSound(r)'
<1>1. IsFiniteSet(Seen(r)) /\ IsFiniteSet(Seen(r)')
  <2>1. Seen(r) \subseteq Used
    BY AskersUsed DEF Seen
  <2>2. Seen(r)' \subseteq Used'
    <3>1. TypeOK' /\ \A c \in Connections : WireSound(c)'
      BY TypeStep, WireStep
    <3>. QED  BY <3>1 DEF Seen, Askers, Used, Sent, ToSet, WireSound
  <2>. QED  BY <2>1, <2>2, FS_Subset
<1>2. Seen(r) \subseteq Seen(r)'
  BY SeenStays DEF Seen, Askers
<1>3. Cardinality(Seen(r)) \in Nat /\ Cardinality(Seen(r)') \in Nat
      /\ Cardinality(Seen(r)) <= Cardinality(Seen(r)')
  BY <1>1, <1>2, FS_Subset, FS_CardinalityType
<1>4. CASE queued'[r] = queued[r]
  BY <1>3, <1>4 DEF CountSound, TypeOK
<1>5. ASSUME NEW c \in Connections, Handle(c), Head(wire[c]) = r PROVE CountSound(r)'
  <2>1. c \notin Seen(r) /\ c \in Seen(r)'
    BY <1>5, HandledSeen
  <2>2. IsFiniteSet(Seen(r) \cup {c}) /\ Cardinality(Seen(r) \cup {c}) = Cardinality(Seen(r)) + 1
    BY <1>1, <2>1, FS_AddElement
  <2>3. Cardinality(Seen(r) \cup {c}) <= Cardinality(Seen(r)')
    BY <1>1, <1>2, <2>1, FS_Subset
  <2>4. queued[r] \in Nat /\ queued'[r] \in {queued[r], queued[r] + 1}
    BY <1>5 DEF Handle, TypeOK
  <2>. QED  BY <1>3, <2>2, <2>3, <2>4 DEF CountSound
<1>6. queued'[r] = queued[r] \/ \E c \in Connections : Handle(c) /\ Head(wire[c]) = r
  <2>1. ASSUME NEW c \in Connections, Handle(c), Head(wire[c]) # r PROVE queued'[r] = queued[r]
    BY <2>1 DEF Handle, TypeOK
  <2>2. (\E c \in Connections : Handle(c)) \/ queued' = queued
    BY DEF Next, vars, AcceptFails, Stop, Connect, GiveUp, Send, Accept, OnRead, OnWrite, Upgrade,
         HandleThrows, ReadFails, Write, WriteFails
  <2>. QED  BY <2>1, <2>2
<1>. QED  BY <1>4, <1>5, <1>6

-----------------------------------------------------------------------------
(* The theorems                                                             *)

\* The invariant holds at the start.
LEMMA HInvInit == Init => HInv
<1>. SUFFICES ASSUME Init PROVE HInv
  OBVIOUS
<1>1. TypeOK
  BY DEF Init, TypeOK, Phases
<1>2. ASSUME NEW c \in Connections
      PROVE  WireSound(c) /\ OrderSound(c) /\ CloseSound(c) /\ QueueSound(c) /\ AskedOnce(c)
  <2>1. /\ asked[c] = <<>> /\ wire[c] = <<>> /\ answers[c] = <<>> /\ phase[c] = "none"
    BY DEF Init
  <2>. QED  BY <2>1 DEF WireSound, Ends, OrderSound, Taken, CloseSound, QueueSound, AskedOnce
<1>3. Used = {}
  BY DEF Init, Used
<1>4. ASSUME NEW r \in Requests PROVE OneWaits(r) /\ CountSound(r)
  <2>1. Askers(r) = {} /\ Seen(r) = {}
    BY DEF Init, Askers, Seen, Sent, ToSet
  <2>. QED  BY <2>1, FS_EmptySet DEF OneWaits, CountSound, Init
<1>. QED  BY <1>1, <1>2, <1>3, <1>4, FS_EmptySet DEF HInv

\* Every step keeps it.
LEMMA HInvStep == HInv /\ [Next]_vars => HInv'
<1>. SUFFICES ASSUME HInv, [Next]_vars PROVE HInv'
  OBVIOUS
<1>1. TypeOK'
  BY TypeStep DEF HInv
<1>2. ASSUME NEW c \in Connections
      PROVE  (WireSound(c) /\ OrderSound(c) /\ CloseSound(c) /\ QueueSound(c) /\ AskedOnce(c))'
  BY WireStep, OrderStep, CloseStep, QueueStep, AskedOnceStep DEF HInv
<1>3. IsFiniteSet(Used')
  BY UsedStep DEF HInv
<1>4. ASSUME NEW r \in Requests PROVE OneWaits(r)' /\ CountSound(r)'
  BY <1>3, OneWaitsStep, CountStep DEF HInv
<1>. QED  BY <1>1, <1>2, <1>3, <1>4 DEF HInv

\* So it holds in every reachable state.
LEMMA HInvHolds == Spec => []HInv
BY HInvInit, HInvStep, PTL DEF Spec

\* Every variable keeps its type, and a session has a response exactly while it
\* writes it.
THEOREM TypeCorrect == Spec => []TypeOK
BY HInvHolds, PTL DEF HInv

\* The i-th response that a client gets over a connection answers its i-th
\* request.
THEOREM AnswersOrdered == Spec => []AnswersInOrder
<1>1. HInv => AnswersInOrder
  <2>. SUFFICES ASSUME HInv, NEW c \in Connections
                PROVE  /\ Len(answers[c]) <= Len(asked[c])
                       /\ \A i \in DOMAIN answers[c] : answers[c][i].request = asked[c][i]
    BY DEF AnswersInOrder
  <2>1. Taken(c) \in Nat /\ Taken(c) <= Len(asked[c]) /\ Len(asked[c]) \in Nat
    BY TakenType DEF HInv
  <2>2. Len(answers[c]) \in Nat /\ Len(answers[c]) <= Taken(c)
    BY LenProperties DEF HInv, OrderSound, TypeOK
  <2>3. Len(answers[c]) <= Len(asked[c])
    BY <2>1, <2>2
  <2>. QED  BY <2>3 DEF HInv, OrderSound
<1>. QED  BY <1>1, HInvHolds, PTL

\* Nothing comes after the answer to a request without keep-alive.
THEOREM ClosesForGood == Spec => []NothingAfterClose
<1>1. HInv => NothingAfterClose
  BY DEF HInv, CloseSound, NothingAfterClose
<1>. QED  BY <1>1, HInvHolds, PTL

\* A client that has read "queued" has its task queued.
THEOREM AcknowledgedQueued == Spec => []AcknowledgedIsQueued
<1>1. HInv => AcknowledgedIsQueued
  BY DEF HInv, QueueSound, AcknowledgedIsQueued
<1>. QED  BY <1>1, HInvHolds, PTL

\* A task is queued at most once more than its request was lost: of the
\* connections that it was sent over, one at most has not lost it.
THEOREM DuplicatesNeedLoss == Spec => []DuplicateNeedsLoss
<1>1. HInv => DuplicateNeedsLoss
  <2>. SUFFICES ASSUME HInv, NEW r \in Requests
                PROVE  queued[r] <= Cardinality({c \in Connections : Lost(c, r)}) + 1
    BY DEF DuplicateNeedsLoss
  <2>. DEFINE lost == {c \in Connections : Lost(c, r)}
  <2>1. IsFiniteSet(Askers(r))
    BY AskersUsed, FS_Subset DEF HInv
  <2>2. lost \subseteq Askers(r) /\ Seen(r) \subseteq Askers(r)
    BY DEF Lost, Askers, Seen
  <2>3. IsFiniteSet(lost) /\ IsFiniteSet(Seen(r))
    BY <2>1, <2>2, FS_Subset
  <2>4. \E x : Askers(r) \subseteq lost \cup {x}
    BY DEF HInv, OneWaits, Askers
  <2>5. PICK x : Seen(r) \subseteq lost \cup {x}
    BY <2>2, <2>4
  <2>. HIDE DEF lost
  <2>6. IsFiniteSet(lost \cup {x}) /\ Cardinality(lost \cup {x}) <= Cardinality(lost) + 1
        /\ Cardinality(lost) \in Nat /\ Cardinality(lost \cup {x}) \in Nat
    BY <2>3, FS_AddElement, FS_CardinalityType
  <2>7. Cardinality(Seen(r)) <= Cardinality(lost \cup {x}) /\ Cardinality(Seen(r)) \in Nat
    BY <2>3, <2>5, <2>6, FS_Subset, FS_CardinalityType
  <2>8. queued[r] \in Nat /\ queued[r] <= Cardinality(Seen(r))
    BY DEF HInv, CountSound, TypeOK
  <2>9. queued[r] <= Cardinality(lost) + 1
    BY <2>6, <2>7, <2>8
  <2>. QED  BY <2>9 DEF lost
<1>. QED  BY <1>1, HInvHolds, PTL
=============================================================================
