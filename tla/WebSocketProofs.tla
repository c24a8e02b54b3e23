---------------------------- MODULE WebSocketProofs ----------------------------
(***************************************************************************)
(* What WebSocketSessions promises, proved for every set of sessions,      *)
(* messages and updates.                                                   *)
(*                                                                         *)
(* The line of a session (sent, waiting in queue_, posted) is changed by a *)
(* post alone, which appends.  That it never appends a message twice needs *)
(* where every sender is: the sessions it has still to visit have not been *)
(* sent its message, and a message is sent by one caller.  That none is    *)
(* left out needs that a session the sender cannot lock can never be       *)
(* locked again.                                                           *)
(***************************************************************************)
EXTENDS WebSocketSessions, SequenceTheorems, TLAPS

-----------------------------------------------------------------------------
(* The inductive invariant                                                  *)

\* Where each caller can be, and what it holds there: a weak_ptr is locked
\* exactly while its message is being posted, the lists of sessions to visit
\* are empty outside a send, and only the timer compares uids.
CallersSound ==
  /\ \A c \in Callers :
       /\ at[c] = "post" <=> held[c] # Nobody
       /\ at[c] \in {"idle", "assign", "copy"} => fan[c] = {}
       /\ held[c] \notin fan[c]
  /\ \A s \in Sessions : at[s] # "scan" /\ (at[s] # "idle" => msg[s] \in Messages)
  /\ at[Timer] \notin {"assign", "copy"}
  /\ at[Timer] # "idle" => msg[Timer] \in Updates
  /\ found # Nobody => at[Timer] = "scan"

\* A failed write is the last one of its session.
WriterSound ==
  OneWriter /\ \A s \in Sessions : broken[s] => writing[s] = 0

\* What a session was sent.
Told(s) == Elements(Line(s))

\* Messages come once: a message that a caller sends, or that a session was
\* sent, is not in the inbox, and no two callers send the same.
Taken ==
  /\ \A c \in Callers : msg[c] \notin inbox
  /\ \A c, d \in Callers : msg[c] = msg[d] /\ msg[c] # NoMessage => c = d
  /\ \A s \in Sessions : Told(s) \cap inbox = {}

\* After the scan the timer has one session to visit at most.
OneTarget ==
  /\ at[Timer] = "fan" => \A s, t \in fan[Timer] : s = t
  /\ at[Timer] = "post" => fan[Timer] = {}

\* A session that was sent the message a caller is still sending has been
\* visited; the timer has no other to visit then.
NotYet ==
  \A s \in Sessions, c \in Callers : msg[c] \in Told(s) =>
     /\ at[c] \in {"fan", "post"}
     /\ s \notin fan[c] /\ held[c] # s
     /\ c = Timer => fan[c] = {} /\ held[c] = Nobody

\* The sessions a broadcast is meant for have been accepted.
SnapshotSound ==
  \A m \in Messages : \A s \in snapshot[m] : life[s] \in {"live", "freed"}

\* The inductive invariant.
IInv ==
  /\ TypeOK /\ CallersSound /\ WriterSound
  /\ RegistrySound /\ NothingOutlives
  /\ Taken /\ OneTarget /\ NotYet /\ DeliveredOnce
  /\ SnapshotSound /\ BroadcastReaches

-----------------------------------------------------------------------------
(* Types, callers, lives and writers                                        *)

\* Every step keeps the types: the message that leaves posted or queue_ is
\* there, for on_write runs only while a write is pending.
LEMMA TypeStep ==
  ASSUME TypeOK, CallersSound, WriterSound, [Next]_vars
  PROVE  TypeOK'
<1>. USE DEF TypeOK, CallersSound, session, stream, caller, Callers, Payloads, Places, Names
<1>1. ASSUME NEW s \in Sessions, Upgrade(s) PROVE TypeOK'
  BY <1>1 DEF Upgrade
<1>2. ASSUME NEW s \in Sessions, Accept(s) PROVE TypeOK'
  BY <1>2 DEF Accept
<1>3. ASSUME NEW s \in Sessions, AcceptFails(s) PROVE TypeOK'
  BY <1>3 DEF AcceptFails
<1>4. ASSUME NEW s \in Sessions, Leave(s) PROVE TypeOK'
  BY <1>4 DEF Leave
<1>5. ASSUME NEW s \in Sessions, NEW m \in Messages, ReadMessage(s, m)
      PROVE  TypeOK'
  <2>1. at' \in [Callers -> Places] /\ msg' \in [Callers -> Payloads \cup {NoMessage}]
    BY <1>5, SessionAssumption DEF ReadMessage
  <2>2. \A c \in Callers : at'[c] = "idle" <=> msg'[c] = NoMessage
    BY <1>5, SessionAssumption, MessageAssumption DEF ReadMessage
  <2>. QED  BY <1>5, <2>1, <2>2 DEF ReadMessage
<1>6. ASSUME NEW s \in Sessions, NEW m \in Messages, ReadThrows(s, m)
      PROVE  TypeOK'
  BY <1>6 DEF ReadThrows
<1>7. ASSUME NEW s \in Sessions, ReadFails(s) PROVE TypeOK'
  BY <1>7 DEF ReadFails
<1>8. ASSUME NEW s \in Sessions, AssignUid(s) PROVE TypeOK'
  <2>1. uid' \in [Sessions -> Names]
    <3>1. NameOf[msg[s]] \in Names
      BY <1>8, SessionAssumption DEF AssignUid
    <3>. QED  BY <1>8, <3>1 DEF AssignUid
  <2>. QED  BY <1>8, <2>1, SessionAssumption DEF AssignUid
<1>9. ASSUME NEW s \in Sessions, OnSend(s) PROVE TypeOK'
  <2>1. Head(posted[s]) \in Payloads /\ Tail(posted[s]) \in Seq(Payloads)
    BY <1>9, HeadTailProperties DEF OnSend
  <2>2. Append(queue[s], Head(posted[s])) \in Seq(Payloads)
    BY <2>1, AppendProperties
  <2>3. writing' \in [Sessions -> Nat]
    BY <1>9 DEF OnSend
  <2>. QED  BY <1>9, <2>1, <2>2, <2>3 DEF OnSend
<1>10. ASSUME NEW s \in Sessions, OnWrite(s) PROVE TypeOK'
  <2>1. queue[s] # <<>>
    BY <1>10 DEF OnWrite, WriterSound, OneWriter
  <2>2. Head(queue[s]) \in Payloads /\ Tail(queue[s]) \in Seq(Payloads)
    BY <2>1, HeadTailProperties
  <2>3. Append(sent[s], Head(queue[s])) \in Seq(Payloads)
    BY <2>2, AppendProperties
  <2>4. writing' \in [Sessions -> Nat]
    BY <1>10 DEF OnWrite
  <2>. QED  BY <1>10, <2>2, <2>3, <2>4 DEF OnWrite
<1>11. ASSUME NEW s \in Sessions, WriteFails(s) PROVE TypeOK'
  <2>1. writing' \in [Sessions -> Nat] /\ broken' \in [Sessions -> BOOLEAN]
    BY <1>11 DEF WriteFails
  <2>. QED  BY <1>11, <2>1 DEF WriteFails
<1>12. ASSUME NEW u \in Updates, Update(u) PROVE TypeOK'
  <2>1. at' \in [Callers -> Places] /\ msg' \in [Callers -> Payloads \cup {NoMessage}]
    BY <1>12, SessionAssumption DEF Update
  <2>2. \A c \in Callers : at'[c] = "idle" <=> msg'[c] = NoMessage
    BY <1>12, SessionAssumption, MessageAssumption DEF Update
  <2>. QED  BY <1>12, <2>1, <2>2 DEF Update
<1>13. ASSUME NEW s \in Sessions, CompareUid(s) PROVE TypeOK'
  <2>1. /\ fan' \in [Callers -> SUBSET Sessions] /\ found' \in Sessions \cup {Nobody}
        /\ UNCHANGED <<session, stream, at, msg, held, snapshot, inbox, up>>
    BY <1>13 DEF CompareUid
  <2>. QED  BY <2>1
<1>14. CASE EndScan
  <2>1. /\ fan' \in [Callers -> SUBSET Sessions] /\ found' = Nobody
        /\ at' \in [Callers -> Places] /\ \A c \in Callers : at'[c] = "idle" <=> at[c] = "idle"
        /\ UNCHANGED <<session, stream, msg, held, snapshot, inbox, up>>
    BY <1>14 DEF EndScan
  <2>. QED  BY <2>1
<1>15. ASSUME NEW c \in Callers, CopySessions(c) PROVE TypeOK'
  BY <1>15 DEF CopySessions
<1>16. ASSUME NEW c \in Callers, NEW s \in Sessions, Lock(c, s) PROVE TypeOK'
  <2>1. at' \in [Callers -> Places] /\ held' \in [Callers -> Sessions \cup {Nobody}]
    <3>. HIDE DEF TypeOK, CallersSound, stream, session, caller
    <3>1. at \in [Callers -> Places] /\ held \in [Callers -> Sessions \cup {Nobody}]
      BY DEF TypeOK
    <3>. QED  BY <1>16, <3>1 DEF Lock
  <2>2. \A d \in Callers : at'[d] = "idle" <=> at[d] = "idle"
    BY <1>16 DEF Lock
  <2>. QED  BY <1>16, <2>1, <2>2 DEF Lock
<1>17. ASSUME NEW c \in Callers, Post(c) PROVE TypeOK'
  <2>1. held[c] \in Sessions /\ msg[c] \in Payloads
    BY <1>17, SessionAssumption, MessageAssumption DEF Post
  <2>2. Append(posted[held[c]], msg[c]) \in Seq(Payloads)
    BY <2>1, AppendProperties
  <2>3. posted' \in [Sessions -> Seq(Payloads)]
    BY <1>17, <2>1, <2>2 DEF Post
  <2>. QED  BY <1>17, <2>3 DEF Post
<1>18. ASSUME NEW c \in Callers, Finish(c) PROVE TypeOK'
  BY <1>18 DEF Finish
<1>19. CASE UNCHANGED vars
  BY <1>19 DEF vars
<1>. QED
  BY <1>1, <1>2, <1>3, <1>4, <1>5, <1>6, <1>7, <1>8, <1>9,
     <1>10, <1>11, <1>12, <1>13, <1>14, <1>15, <1>16, <1>17, <1>18, <1>19
     DEF Next, Life, Read, Write, Scan, Send

\* Every step keeps the callers where their handlers can be.
LEMMA CallersStep ==
  ASSUME TypeOK, CallersSound, [Next]_vars
  PROVE  CallersSound'
<1>. USE DEF TypeOK, CallersSound, session, stream, caller, Callers, Payloads, Places
<1>1. ASSUME NEW s \in Sessions, Upgrade(s) PROVE CallersSound'
  BY <1>1 DEF Upgrade
<1>2. ASSUME NEW s \in Sessions, Accept(s) PROVE CallersSound'
  BY <1>2 DEF Accept
<1>3. ASSUME NEW s \in Sessions, AcceptFails(s) PROVE CallersSound'
  BY <1>3 DEF AcceptFails
<1>4. ASSUME NEW s \in Sessions, Leave(s) PROVE CallersSound'
  BY <1>4 DEF Leave
<1>5. ASSUME NEW s \in Sessions, NEW m \in Messages, ReadMessage(s, m)
      PROVE  CallersSound'
  <2>1. fan'[s] = {} /\ msg'[s] \in Messages /\ at'[s] \in {"assign", "copy"}
    BY <1>5, SessionAssumption DEF ReadMessage, StrandFree
  <2>2. \A c \in Callers \ {s} : at'[c] = at[c] /\ msg'[c] = msg[c]
    BY <1>5 DEF ReadMessage
  <2>3. fan' = fan /\ held' = held /\ found' = found /\ held[s] = Nobody /\ s # Timer
    BY <1>5, SessionAssumption DEF ReadMessage, StrandFree
  <2>. HIDE DEF TypeOK, session, stream, caller, Callers
  <2>4. \A c \in Callers \ {s} : /\ at'[c] = at[c] /\ msg'[c] = msg[c]
                                 /\ fan'[c] = fan[c] /\ held'[c] = held[c]
    BY <2>2, <2>3
  <2>5. fan'[s] = {} /\ held'[s] = Nobody
    BY <2>1, <2>3
  <2>6. Timer \in Callers
    BY DEF Callers
  <2>7. Sessions \subseteq Callers
    BY DEF Callers
  <2>. QED  BY <2>1, <2>3, <2>4, <2>5, <2>6, <2>7
<1>6. ASSUME NEW s \in Sessions, NEW m \in Messages, ReadThrows(s, m)
      PROVE  CallersSound'
  BY <1>6 DEF ReadThrows
<1>7. ASSUME NEW s \in Sessions, ReadFails(s) PROVE CallersSound'
  BY <1>7 DEF ReadFails
<1>8. ASSUME NEW s \in Sessions, AssignUid(s) PROVE CallersSound'
  BY <1>8, SessionAssumption DEF AssignUid
<1>9. ASSUME NEW s \in Sessions, OnSend(s) PROVE CallersSound'
  BY <1>9 DEF OnSend
<1>10. ASSUME NEW s \in Sessions, OnWrite(s) PROVE CallersSound'
  BY <1>10 DEF OnWrite
<1>11. ASSUME NEW s \in Sessions, WriteFails(s) PROVE CallersSound'
  BY <1>11 DEF WriteFails
<1>12. ASSUME NEW u \in Updates, Update(u) PROVE CallersSound'
  BY <1>12, SessionAssumption DEF Update
<1>13. ASSUME NEW s \in Sessions, CompareUid(s) PROVE CallersSound'
  BY <1>13, SessionAssumption DEF CompareUid
<1>14. CASE EndScan
  BY <1>14, SessionAssumption DEF EndScan
<1>15. ASSUME NEW c \in Callers, CopySessions(c) PROVE CallersSound'
  BY <1>15, SessionAssumption DEF CopySessions
<1>16. ASSUME NEW c \in Callers, NEW s \in Sessions, Lock(c, s)
       PROVE  CallersSound'
  <2>1. DOMAIN at = Callers /\ DOMAIN held = Callers /\ DOMAIN fan = Callers
    OBVIOUS
  <2>2. /\ at[c] = "fan" /\ s \in fan[c] /\ s # Nobody
        /\ fan' = [fan EXCEPT ![c] = @ \ {s}] /\ UNCHANGED <<msg, found>>
    BY <1>16, SessionAssumption DEF Lock
  <2>3. CASE Lockable(s)
    <3>1. held' = [held EXCEPT ![c] = s] /\ at' = [at EXCEPT ![c] = "post"]
      BY <1>16, <2>3 DEF Lock
    <3>. QED  BY <2>1, <2>2, <3>1
  <2>4. CASE ~Lockable(s)
    <3>1. held' = held /\ at' = at
      BY <1>16, <2>4 DEF Lock
    <3>. QED  BY <2>1, <2>2, <3>1
  <2>. QED  BY <2>3, <2>4
<1>17. ASSUME NEW c \in Callers, Post(c) PROVE CallersSound'
  BY <1>17, SessionAssumption DEF Post
<1>18. ASSUME NEW c \in Callers, Finish(c) PROVE CallersSound'
  BY <1>18, SessionAssumption DEF Finish
<1>19. CASE UNCHANGED vars
  BY <1>19 DEF vars
<1>. QED
  BY <1>1, <1>2, <1>3, <1>4, <1>5, <1>6, <1>7, <1>8, <1>9,
     <1>10, <1>11, <1>12, <1>13, <1>14, <1>15, <1>16, <1>17, <1>18, <1>19
     DEF Next, Life, Read, Write, Scan, Send

\* Every step keeps the registry and the sessions' lives in agreement.
LEMMA RegistryStep ==
  ASSUME TypeOK, RegistrySound, [Next]_vars
  PROVE  RegistrySound'
<1>. USE DEF TypeOK, RegistrySound, Referenced, session, stream, caller, Callers
<1>1. ASSUME NEW s \in Sessions, Upgrade(s) PROVE RegistrySound'
  BY <1>1 DEF Upgrade
<1>2. ASSUME NEW s \in Sessions, Accept(s) PROVE RegistrySound'
  BY <1>2 DEF Accept
<1>3. ASSUME NEW s \in Sessions, AcceptFails(s) PROVE RegistrySound'
  BY <1>3 DEF AcceptFails
<1>4. ASSUME NEW s \in Sessions, Leave(s) PROVE RegistrySound'
  BY <1>4 DEF Leave
<1>5. ASSUME NEW s \in Sessions, NEW m \in Messages, ReadMessage(s, m)
      PROVE  RegistrySound'
  BY <1>5, SessionAssumption DEF ReadMessage
<1>6. ASSUME NEW s \in Sessions, NEW m \in Messages, ReadThrows(s, m)
      PROVE  RegistrySound'
  BY <1>6 DEF ReadThrows
<1>7. ASSUME NEW s \in Sessions, ReadFails(s) PROVE RegistrySound'
  BY <1>7 DEF ReadFails
<1>8. ASSUME NEW s \in Sessions, AssignUid(s) PROVE RegistrySound'
  BY <1>8, SessionAssumption DEF AssignUid
<1>9. ASSUME NEW s \in Sessions, OnSend(s) PROVE RegistrySound'
  BY <1>9 DEF OnSend
<1>10. ASSUME NEW s \in Sessions, OnWrite(s) PROVE RegistrySound'
  BY <1>10 DEF OnWrite
<1>11. ASSUME NEW s \in Sessions, WriteFails(s) PROVE RegistrySound'
  BY <1>11 DEF WriteFails
<1>12. ASSUME NEW u \in Updates, Update(u) PROVE RegistrySound'
  BY <1>12, SessionAssumption DEF Update
<1>13. ASSUME NEW s \in Sessions, CompareUid(s) PROVE RegistrySound'
  BY <1>13, SessionAssumption DEF CompareUid
<1>14. CASE EndScan
  BY <1>14, SessionAssumption DEF EndScan
<1>15. ASSUME NEW c \in Callers, CopySessions(c) PROVE RegistrySound'
  BY <1>15, SessionAssumption DEF CopySessions
<1>16. ASSUME NEW c \in Callers, NEW s \in Sessions, Lock(c, s)
       PROVE  RegistrySound'
  BY <1>16, SessionAssumption DEF Lock
<1>17. ASSUME NEW c \in Callers, Post(c) PROVE RegistrySound'
  BY <1>17, SessionAssumption DEF Post
<1>18. ASSUME NEW c \in Callers, Finish(c) PROVE RegistrySound'
  BY <1>18, SessionAssumption DEF Finish
<1>19. CASE UNCHANGED vars
  BY <1>19 DEF vars
<1>. QED
  BY <1>1, <1>2, <1>3, <1>4, <1>5, <1>6, <1>7, <1>8, <1>9,
     <1>10, <1>11, <1>12, <1>13, <1>14, <1>15, <1>16, <1>17, <1>18, <1>19
     DEF Next, Life, Read, Write, Scan, Send

\* No step refers to a session whose destructor has run.
LEMMA OutliveStep ==
  ASSUME TypeOK, CallersSound, NothingOutlives, [Next]_vars
  PROVE  NothingOutlives'
<1>. USE DEF TypeOK, CallersSound, NothingOutlives, Referenced, Lockable, session, stream, caller, Callers
<1>1. ASSUME NEW s \in Sessions, Upgrade(s) PROVE NothingOutlives'
  BY <1>1 DEF Upgrade
<1>2. ASSUME NEW s \in Sessions, Accept(s) PROVE NothingOutlives'
  BY <1>2 DEF Accept
<1>3. ASSUME NEW s \in Sessions, AcceptFails(s) PROVE NothingOutlives'
  BY <1>3 DEF AcceptFails
<1>4. ASSUME NEW s \in Sessions, Leave(s) PROVE NothingOutlives'
  BY <1>4 DEF Leave
<1>5. ASSUME NEW s \in Sessions, NEW m \in Messages, ReadMessage(s, m)
      PROVE  NothingOutlives'
  BY <1>5, SessionAssumption DEF ReadMessage
<1>6. ASSUME NEW s \in Sessions, NEW m \in Messages, ReadThrows(s, m)
      PROVE  NothingOutlives'
  BY <1>6 DEF ReadThrows
<1>7. ASSUME NEW s \in Sessions, ReadFails(s) PROVE NothingOutlives'
  BY <1>7 DEF ReadFails
<1>8. ASSUME NEW s \in Sessions, AssignUid(s) PROVE NothingOutlives'
  BY <1>8, SessionAssumption DEF AssignUid
<1>9. ASSUME NEW s \in Sessions, OnSend(s) PROVE NothingOutlives'
  BY <1>9 DEF OnSend
<1>10. ASSUME NEW s \in Sessions, OnWrite(s) PROVE NothingOutlives'
  BY <1>10 DEF OnWrite
<1>11. ASSUME NEW s \in Sessions, WriteFails(s) PROVE NothingOutlives'
  BY <1>11 DEF WriteFails
<1>12. ASSUME NEW u \in Updates, Update(u) PROVE NothingOutlives'
  BY <1>12, SessionAssumption DEF Update
<1>13. ASSUME NEW s \in Sessions, CompareUid(s) PROVE NothingOutlives'
  BY <1>13, SessionAssumption DEF CompareUid
<1>14. CASE EndScan
  BY <1>14, SessionAssumption DEF EndScan
<1>15. ASSUME NEW c \in Callers, CopySessions(c) PROVE NothingOutlives'
  BY <1>15, SessionAssumption DEF CopySessions
<1>16. ASSUME NEW c \in Callers, NEW s \in Sessions, Lock(c, s)
       PROVE  NothingOutlives'
  BY <1>16, SessionAssumption DEF Lock
<1>17. ASSUME NEW c \in Callers, Post(c) PROVE NothingOutlives'
  BY <1>17, SessionAssumption DEF Post
<1>18. ASSUME NEW c \in Callers, Finish(c) PROVE NothingOutlives'
  BY <1>18, SessionAssumption DEF Finish
<1>19. CASE UNCHANGED vars
  BY <1>19 DEF vars
<1>. QED
  BY <1>1, <1>2, <1>3, <1>4, <1>5, <1>6, <1>7, <1>8, <1>9,
     <1>10, <1>11, <1>12, <1>13, <1>14, <1>15, <1>16, <1>17, <1>18, <1>19
     DEF Next, Life, Read, Write, Scan, Send

\* on_send and on_write keep at most one write pending, and none after one
\* that failed.
LEMMA WriterStep ==
  ASSUME TypeOK, WriterSound, [Next]_vars
  PROVE  WriterSound'
<1>. USE DEF TypeOK, WriterSound, OneWriter, session, stream, caller
<1>1. ASSUME NEW s \in Sessions, Upgrade(s) PROVE WriterSound'
  BY <1>1 DEF Upgrade
<1>2. ASSUME NEW s \in Sessions, Accept(s) PROVE WriterSound'
  BY <1>2 DEF Accept
<1>3. ASSUME NEW s \in Sessions, AcceptFails(s) PROVE WriterSound'
  BY <1>3 DEF AcceptFails
<1>4. ASSUME NEW s \in Sessions, Leave(s) PROVE WriterSound'
  BY <1>4 DEF Leave
<1>5. ASSUME NEW s \in Sessions, NEW m \in Messages, ReadMessage(s, m)
      PROVE  WriterSound'
  BY <1>5 DEF ReadMessage
<1>6. ASSUME NEW s \in Sessions, NEW m \in Messages, ReadThrows(s, m)
      PROVE  WriterSound'
  BY <1>6 DEF ReadThrows
<1>7. ASSUME NEW s \in Sessions, ReadFails(s) PROVE WriterSound'
  BY <1>7 DEF ReadFails
<1>8. ASSUME NEW s \in Sessions, AssignUid(s) PROVE WriterSound'
  BY <1>8 DEF AssignUid
<1>9. ASSUME NEW s \in Sessions, OnSend(s) PROVE WriterSound'
  <2>. HIDE DEF TypeOK
  <2>1. queue[s] \in Seq(Payloads) /\ posted[s] \in Seq(Payloads) /\ posted[s] # <<>>
    BY <1>9 DEF OnSend, TypeOK
  <2>2. Append(queue[s], Head(posted[s])) # <<>>
    BY <2>1, HeadTailProperties, AppendProperties
  <2>3. queue'[s] # <<>> /\ broken' = broken /\ writing[s] \in Nat
    BY <1>9, <2>2 DEF OnSend, TypeOK
  <2>4. writing'[s] = IF queue[s] = <<>> THEN writing[s] + 1 ELSE writing[s]
    BY <1>9 DEF OnSend, TypeOK
  <2>5. \A t \in Sessions \ {s} : queue'[t] = queue[t] /\ writing'[t] = writing[t]
    BY <1>9 DEF OnSend, TypeOK
  <2>6. writing'[s] <= 1 /\ (writing'[s] > 0 \/ broken'[s]) /\ (broken'[s] => writing'[s] = 0)
    BY <2>3, <2>4
  <2>. QED  BY <2>3, <2>5, <2>6
<1>10. ASSUME NEW s \in Sessions, OnWrite(s) PROVE WriterSound'
  <2>. HIDE DEF TypeOK
  <2>1. DOMAIN queue = Sessions /\ DOMAIN writing = Sessions /\ writing[s] \in Nat
    BY DEF TypeOK
  <2>2. /\ writing[s] > 0 /\ broken' = broken
        /\ queue' = [queue EXCEPT ![s] = Tail(queue[s])]
        /\ writing' = [writing EXCEPT ![s] = IF Tail(queue[s]) = <<>> THEN writing[s] - 1 ELSE writing[s]]
    BY <1>10, <2>1 DEF OnWrite
  <2>3. writing[s] = 1 /\ ~broken[s]
    BY <2>1, <2>2
  <2>4. \A t \in Sessions \ {s} : queue'[t] = queue[t] /\ writing'[t] = writing[t]
    BY <2>1, <2>2
  <2>5. writing'[s] <= 1 /\ (queue'[s] # <<>> <=> writing'[s] > 0)
    BY <2>1, <2>2, <2>3
  <2>6. broken' = broken
    BY <2>2
  <2>. QED  BY <2>3, <2>4, <2>5, <2>6
<1>11. ASSUME NEW s \in Sessions, WriteFails(s) PROVE WriterSound'
  BY <1>11 DEF WriteFails
<1>12. ASSUME NEW u \in Updates, Update(u) PROVE WriterSound'
  BY <1>12 DEF Update
<1>13. ASSUME NEW s \in Sessions, CompareUid(s) PROVE WriterSound'
  BY <1>13 DEF CompareUid
<1>14. CASE EndScan
  BY <1>14 DEF EndScan
<1>15. ASSUME NEW c \in Callers, CopySessions(c) PROVE WriterSound'
  BY <1>15 DEF CopySessions
<1>16. ASSUME NEW c \in Callers, NEW s \in Sessions, Lock(c, s)
       PROVE  WriterSound'
  BY <1>16 DEF Lock
<1>17. ASSUME NEW c \in Callers, Post(c) PROVE WriterSound'
  BY <1>17 DEF Post
<1>18. ASSUME NEW c \in Callers, Finish(c) PROVE WriterSound'
  BY <1>18 DEF Finish
<1>19. CASE UNCHANGED vars
  BY <1>19 DEF vars
<1>. QED
  BY <1>1, <1>2, <1>3, <1>4, <1>5, <1>6, <1>7, <1>8, <1>9,
     <1>10, <1>11, <1>12, <1>13, <1>14, <1>15, <1>16, <1>17, <1>18, <1>19
     DEF Next, Life, Read, Write, Scan, Send

-----------------------------------------------------------------------------
(* Lines                                                                    *)

\* The steps of a session that no sender sees.
OwnStep(s) == Life(s) \/ ReadFails(s) \/ OnSend(s) \/ Write(s)

\* What a session was sent are messages and updates.
LEMMA LineType ==
  ASSUME TypeOK, NEW s \in Sessions
  PROVE  Line(s) \in Seq(Payloads) /\ Told(s) \subseteq Payloads
<1>1. sent[s] \in Seq(Payloads) /\ queue[s] \in Seq(Payloads) /\ posted[s] \in Seq(Payloads)
  BY DEF TypeOK
<1>2. sent[s] \o queue[s] \in Seq(Payloads)
  BY <1>1, ConcatProperties
<1>3. Line(s) \in Seq(Payloads)
  BY <1>1, <1>2, ConcatProperties DEF Line
<1>. QED  BY <1>3, ElementOfSeq, LenProperties DEF Told, Elements

\* Moving the first element of a sequence to the end of the one before it
\* changes nothing in what they are together.
LEMMA HeadMoves ==
  \A q, r \in Seq(Payloads) : r # <<>> => Append(q, Head(r)) \o Tail(r) = q \o r
<1>. SUFFICES ASSUME NEW q \in Seq(Payloads), NEW r \in Seq(Payloads), r # <<>>
              PROVE  Append(q, Head(r)) \o Tail(r) = q \o r
  OBVIOUS
<1>1. Head(r) \in Payloads /\ Tail(r) \in Seq(Payloads) /\ <<Head(r)>> \in Seq(Payloads)
  BY HeadTailProperties
<1>2. Append(q, Head(r)) = q \o <<Head(r)>>
  BY <1>1, AppendIsConcat
<1>3. (q \o <<Head(r)>>) \o Tail(r) = q \o (<<Head(r)>> \o Tail(r))
  BY <1>1, ConcatAssociative
<1>4. <<Head(r)>> \o Tail(r) = r
  OBVIOUS
<1>. QED  BY <1>2, <1>3, <1>4

\* Concatenation is associative.
LEMMA ConcatAssoc ==
  ASSUME NEW p \in Seq(Payloads), NEW q \in Seq(Payloads), NEW r \in Seq(Payloads)
  PROVE  (p \o q) \o r = p \o (q \o r)
OBVIOUS

\* Appending to the last part of a concatenation appends to the whole.
LEMMA ConcatAppend ==
  \A p, q, r \in Seq(Payloads), e \in Payloads : (p \o q) \o Append(r, e) = Append((p \o q) \o r, e)
<1>. SUFFICES ASSUME NEW p \in Seq(Payloads), NEW q \in Seq(Payloads),
                     NEW r \in Seq(Payloads), NEW e \in Payloads
              PROVE  (p \o q) \o Append(r, e) = Append((p \o q) \o r, e)
  OBVIOUS
<1>1. p \o q \in Seq(Payloads)
  OBVIOUS
<1>. QED  BY <1>1

\* The steps of a session that no sender sees leave alone what it was sent: a
\* message only moves from posted to queue_ and on to the client.
LEMMA OwnFrame ==
  ASSUME TypeOK, WriterSound, NEW s \in Sessions, OwnStep(s)
  PROVE  UNCHANGED <<caller, inbox>> /\ \A t \in Sessions : Line(t)' = Line(t) /\ Told(t)' = Told(t)
<1>. SUFFICES UNCHANGED <<caller, inbox>> /\ \A t \in Sessions : Line(t)' = Line(t)
  BY DEF Told
<1>1. CASE Life(s) \/ ReadFails(s) \/ WriteFails(s)
  BY <1>1 DEF Life, Upgrade, Accept, AcceptFails, Leave, ReadFails, WriteFails, Line, stream, caller
<1>2. CASE OnSend(s)
  <2>1. /\ sent[s] \in Seq(Payloads) /\ queue[s] \in Seq(Payloads)
        /\ posted[s] \in Seq(Payloads) /\ posted[s] # <<>>
    BY <1>2 DEF OnSend, TypeOK
  <2>2. Append(queue[s], Head(posted[s])) \o Tail(posted[s]) = queue[s] \o posted[s]
    BY <2>1, HeadMoves
  <2>3. Append(queue[s], Head(posted[s])) \in Seq(Payloads) /\ Tail(posted[s]) \in Seq(Payloads)
    BY <2>1, HeadTailProperties, AppendProperties
  <2>4. Line(s)' = (sent[s] \o Append(queue[s], Head(posted[s]))) \o Tail(posted[s])
    BY <1>2 DEF OnSend, Line, TypeOK
  <2>5. (sent[s] \o Append(queue[s], Head(posted[s]))) \o Tail(posted[s])
        = sent[s] \o (Append(queue[s], Head(posted[s])) \o Tail(posted[s]))
    <3>1. PICK e : e = Append(queue[s], Head(posted[s]))
      OBVIOUS
    <3>2. PICK r : r = Tail(posted[s])
      OBVIOUS
    <3>3. sent[s] \in Seq(Payloads) /\ e \in Seq(Payloads) /\ r \in Seq(Payloads)
      BY <2>1, <2>3, <3>1, <3>2
    <3>4. (sent[s] \o e) \o r = sent[s] \o (e \o r)
      BY <3>3, ConcatAssoc
    <3>. QED  BY <3>1, <3>2, <3>4
  <2>6. (sent[s] \o queue[s]) \o posted[s] = sent[s] \o (queue[s] \o posted[s])
    BY <2>1, ConcatAssoc
  <2>7. Line(s)' = Line(s)
    BY <2>2, <2>4, <2>5, <2>6 DEF Line
  <2>8. \A t \in Sessions \ {s} : Line(t)' = Line(t)
    BY <1>2 DEF OnSend, Line, TypeOK
  <2>. QED  BY <1>2, <2>7, <2>8 DEF OnSend, caller
<1>3. CASE OnWrite(s)
  <2>1. queue[s] # <<>>
    BY <1>3 DEF OnWrite, WriterSound, OneWriter, TypeOK
  <2>2. sent[s] \in Seq(Payloads) /\ queue[s] \in Seq(Payloads)
    BY DEF TypeOK
  <2>3. Append(sent[s], Head(queue[s])) \o Tail(queue[s]) = sent[s] \o queue[s]
    BY <2>1, <2>2, HeadMoves
  <2>4. Line(s)' = (Append(sent[s], Head(queue[s])) \o Tail(queue[s])) \o posted[s]
    BY <1>3 DEF OnWrite, Line, TypeOK
  <2>5. Line(s)' = Line(s)
    BY <2>3, <2>4 DEF Line
  <2>6. \A t \in Sessions \ {s} : Line(t)' = Line(t)
    BY <1>3 DEF OnWrite, Line, TypeOK
  <2>. QED  BY <1>3, <2>5, <2>6 DEF OnWrite, caller
<1>. QED  BY <1>1, <1>2, <1>3 DEF OwnStep, Write

\* A post appends the sender's message to the line of the session it holds,
\* and to no other.
LEMMA PostLine ==
  ASSUME TypeOK, NEW c \in Callers, NEW t \in Sessions, held[c] = t, Post(c)
  PROVE  /\ msg[c] \in Payloads
         /\ Line(t)' = Append(Line(t), msg[c]) /\ Told(t)' = Told(t) \cup {msg[c]}
         /\ \A s \in Sessions \ {t} : Line(s)' = Line(s) /\ Told(s)' = Told(s)
<1>1. msg[c] \in Payloads
  BY DEF Post, TypeOK
<1>2. sent[t] \in Seq(Payloads) /\ queue[t] \in Seq(Payloads) /\ posted[t] \in Seq(Payloads)
  BY DEF TypeOK
<1>4. sent' = sent /\ queue' = queue /\ posted'[t] = Append(posted[t], msg[c])
  BY DEF Post, TypeOK
<1>5. Line(t)' = (sent[t] \o queue[t]) \o Append(posted[t], msg[c])
  BY <1>4 DEF Line
<1>6. Line(t)' = Append(Line(t), msg[c])
  <2>1. (sent[t] \o queue[t]) \o Append(posted[t], msg[c]) = Append((sent[t] \o queue[t]) \o posted[t], msg[c])
    <3>1. PICK p \in Seq(Payloads) : p = sent[t]
      BY <1>2
    <3>2. PICK q \in Seq(Payloads) : q = queue[t]
      BY <1>2
    <3>3. PICK r \in Seq(Payloads) : r = posted[t]
      BY <1>2
    <3>4. (p \o q) \o Append(r, msg[c]) = Append((p \o q) \o r, msg[c])
      BY <1>1, ConcatAppend
    <3>. QED  BY <3>1, <3>2, <3>3, <3>4
  <2>. QED  BY <1>5, <2>1 DEF Line
<1>7. Elements(Append(Line(t), msg[c])) = Elements(Line(t)) \cup {msg[c]}
  BY <1>1, LineType, AppendProperties, LenProperties DEF Elements
<1>8. \A s \in Sessions \ {t} : Line(s)' = Line(s)
  BY DEF Post, Line, TypeOK
<1>. QED  BY <1>1, <1>6, <1>7, <1>8 DEF Told
\* Only posts, on_send and on_write can change a line.
LEMMA LineFrame ==
  ASSUME UNCHANGED <<queue, sent, posted>>
  PROVE  \A s \in Sessions : Line(s)' = Line(s) /\ Told(s)' = Told(s)
BY DEF Line, Told

\* A step is the post of a sender to the session it holds, or leaves every
\* line alone.
LEMMA LineSteps ==
  ASSUME TypeOK, CallersSound, WriterSound, [Next]_vars
  PROVE  \/ \A s \in Sessions : Line(s)' = Line(s) /\ Told(s)' = Told(s)
         \/ \E c \in Callers, t \in Sessions : held[c] = t /\ Post(c)
<1>1. ASSUME NEW t \in Sessions, OwnStep(t)
      PROVE  \A s \in Sessions : Line(s)' = Line(s) /\ Told(s)' = Told(s)
  BY <1>1, OwnFrame
<1>2. ASSUME NEW c \in Callers, Post(c)
      PROVE  held[c] \in Sessions
  BY <1>2 DEF Post, TypeOK, CallersSound
<1>3. CASE UNCHANGED <<queue, sent, posted>>
  BY <1>3, LineFrame
<1>4. \/ \E t \in Sessions : OwnStep(t)
      \/ \E c \in Callers : Post(c)
      \/ UNCHANGED <<queue, sent, posted>>
  BY DEF Next, vars, stream, OwnStep, Life, Read, Write, Scan, Send, ReadMessage, ReadThrows, AssignUid,
         Update, CompareUid, EndScan, CopySessions, Lock, Finish
<1>. QED  BY <1>1, <1>2, <1>3, <1>4

-----------------------------------------------------------------------------
(* Delivery, once                                                           *)

\* A message on its way is never to come again.
LEMMA TakenStep ==
  ASSUME TypeOK, CallersSound, WriterSound, Taken, [Next]_vars
  PROVE  Taken'
<1>. USE DEF TypeOK, Taken, stream, session, caller, Callers
<1>1. ASSUME NEW s \in Sessions, OwnStep(s) PROVE Taken'
  <2>. HIDE DEF TypeOK, Taken, stream, session, caller, Callers
  <2>1. UNCHANGED <<caller, inbox>> /\ \A t \in Sessions : Told(t)' = Told(t)
    BY <1>1, OwnFrame
  <2>. QED  BY <2>1 DEF Taken, caller
<1>2. ASSUME NEW s \in Sessions, NEW m \in Messages, ReadMessage(s, m)
      PROVE  Taken'
  BY <1>2, LineFrame, SessionAssumption, MessageAssumption DEF ReadMessage
<1>3. ASSUME NEW s \in Sessions, NEW m \in Messages, ReadThrows(s, m)
      PROVE  Taken'
  BY <1>3, LineFrame, SessionAssumption, MessageAssumption DEF ReadThrows
<1>4. ASSUME NEW s \in Sessions, AssignUid(s) PROVE Taken'
  BY <1>4, LineFrame, SessionAssumption, MessageAssumption DEF AssignUid
<1>5. ASSUME NEW u \in Updates, Update(u) PROVE Taken'
  BY <1>5, LineFrame, SessionAssumption, MessageAssumption DEF Update
<1>6. ASSUME NEW s \in Sessions, CompareUid(s) PROVE Taken'
  BY <1>6, LineFrame, SessionAssumption, MessageAssumption DEF CompareUid
<1>7. CASE EndScan
  BY <1>7, LineFrame, SessionAssumption, MessageAssumption DEF EndScan
<1>8. ASSUME NEW c \in Callers, CopySessions(c) PROVE Taken'
  BY <1>8, LineFrame, SessionAssumption, MessageAssumption DEF CopySessions
<1>9. ASSUME NEW c \in Callers, NEW s \in Sessions, Lock(c, s) PROVE Taken'
  <2>. HIDE DEF TypeOK, Taken, stream, session, caller, Callers
  <2>1. UNCHANGED <<msg, inbox, stream>>
    BY <1>9 DEF Lock
  <2>2. \A t \in Sessions : Told(t)' = Told(t)
    BY <2>1, LineFrame DEF stream
  <2>. QED  BY <2>1, <2>2 DEF Taken
<1>10. ASSUME NEW c \in Callers, Post(c) PROVE Taken'
  <2>. HIDE DEF TypeOK, Taken, stream, session, caller
  <2>1. PICK t \in Sessions : held[c] = t
    BY <1>10 DEF Post, TypeOK, CallersSound
  <2>2. Told(t)' = Told(t) \cup {msg[c]} /\ \A s \in Sessions \ {t} : Told(s)' = Told(s)
    BY <1>10, <2>1, PostLine
  <2>3. msg' = msg /\ inbox' = inbox
    BY <1>10 DEF Post
  <2>. QED  BY <2>2, <2>3 DEF Taken
<1>11. ASSUME NEW c \in Callers, Finish(c) PROVE Taken'
  <2>1. NoMessage \notin inbox /\ \A d \in Callers : msg'[d] = IF d = c THEN NoMessage ELSE msg[d]
    BY <1>11, MessageAssumption DEF Finish, Payloads
  <2>2. inbox' = inbox /\ \A s \in Sessions : Told(s)' = Told(s)
    BY <1>11, LineFrame DEF Finish
  <2>. HIDE DEF TypeOK, stream, session, caller
  <2>3. \A d \in Callers : msg'[d] = msg[d] \/ msg'[d] = NoMessage
    BY <2>1
  <2>4. \A d, e \in Callers : msg'[d] = msg'[e] /\ msg'[d] # NoMessage => msg[d] = msg[e] /\ msg[d] # NoMessage
    BY <2>3
  <2>. QED  BY <2>1, <2>2, <2>3, <2>4
<1>12. CASE UNCHANGED vars
  BY <1>12, LineFrame, SessionAssumption, MessageAssumption DEF vars
<1>. QED
  BY <1>1, <1>2, <1>3, <1>4, <1>5, <1>6, <1>7, <1>8, <1>9, <1>10, <1>11, <1>12
     DEF Next, OwnStep, Life, Read, Write, Scan, Send

\* The scan leaves at most one session to visit.
LEMMA TargetStep ==
  ASSUME TypeOK, CallersSound, WriterSound, OneTarget, [Next]_vars
  PROVE  OneTarget'
<1>. USE DEF TypeOK, CallersSound, OneTarget, stream, session, caller, Callers
<1>1. ASSUME NEW s \in Sessions, OwnStep(s) PROVE OneTarget'
  <2>. HIDE DEF TypeOK, CallersSound, OneTarget, stream, session, caller, Callers
  <2>1. UNCHANGED <<caller, inbox>> /\ \A t \in Sessions : Told(t)' = Told(t)
    BY <1>1, OwnFrame
  <2>. QED  BY <2>1 DEF OneTarget, caller
<1>2. ASSUME NEW s \in Sessions, NEW m \in Messages, ReadMessage(s, m)
      PROVE  OneTarget'
  BY <1>2, SessionAssumption DEF ReadMessage
<1>3. ASSUME NEW s \in Sessions, NEW m \in Messages, ReadThrows(s, m)
      PROVE  OneTarget'
  BY <1>3, SessionAssumption DEF ReadThrows
<1>4. ASSUME NEW s \in Sessions, AssignUid(s) PROVE OneTarget'
  BY <1>4, SessionAssumption DEF AssignUid
<1>5. ASSUME NEW u \in Updates, Update(u) PROVE OneTarget'
  BY <1>5, SessionAssumption DEF Update
<1>6. ASSUME NEW s \in Sessions, CompareUid(s) PROVE OneTarget'
  BY <1>6, SessionAssumption DEF CompareUid
<1>7. CASE EndScan
  BY <1>7, SessionAssumption DEF EndScan
<1>8. ASSUME NEW c \in Callers, CopySessions(c) PROVE OneTarget'
  BY <1>8, SessionAssumption DEF CopySessions
<1>9. ASSUME NEW c \in Callers, NEW s \in Sessions, Lock(c, s)
      PROVE  OneTarget'
  BY <1>9, SessionAssumption DEF Lock
<1>10. ASSUME NEW c \in Callers, Post(c) PROVE OneTarget'
  BY <1>10, SessionAssumption DEF Post
<1>11. ASSUME NEW c \in Callers, Finish(c) PROVE OneTarget'
  BY <1>11, SessionAssumption DEF Finish
<1>12. CASE UNCHANGED vars
  BY <1>12, SessionAssumption DEF vars
<1>. QED
  BY <1>1, <1>2, <1>3, <1>4, <1>5, <1>6, <1>7, <1>8, <1>9, <1>10, <1>11, <1>12
     DEF Next, OwnStep, Life, Read, Write, Scan, Send

\* A session that has been sent a message is behind its sender.
LEMMA NotYetStep ==
  ASSUME TypeOK, CallersSound, WriterSound, OneTarget, Taken, NotYet, [Next]_vars
  PROVE  NotYet'
<1>. USE DEF TypeOK, CallersSound, OneTarget, Taken, NotYet, stream, session, caller, Callers
<1>1. ASSUME NEW s \in Sessions, OwnStep(s) PROVE NotYet'
  <2>. HIDE DEF TypeOK, CallersSound, OneTarget, Taken, NotYet, stream, session, caller, Callers
  <2>1. UNCHANGED <<caller, inbox>> /\ \A t \in Sessions : Told(t)' = Told(t)
    BY <1>1, OwnFrame
  <2>. QED  BY <2>1 DEF NotYet, caller
<1>2. ASSUME NEW s \in Sessions, NEW m \in Messages, ReadMessage(s, m)
      PROVE  NotYet'
  BY <1>2, LineFrame, SessionAssumption, MessageAssumption DEF ReadMessage
<1>3. ASSUME NEW s \in Sessions, NEW m \in Messages, ReadThrows(s, m)
      PROVE  NotYet'
  BY <1>3, LineFrame, SessionAssumption, MessageAssumption DEF ReadThrows
<1>4. ASSUME NEW s \in Sessions, AssignUid(s) PROVE NotYet'
  BY <1>4, LineFrame, SessionAssumption, MessageAssumption DEF AssignUid
<1>5. ASSUME NEW u \in Updates, Update(u) PROVE NotYet'
  BY <1>5, LineFrame, SessionAssumption, MessageAssumption DEF Update
<1>6. ASSUME NEW s \in Sessions, CompareUid(s) PROVE NotYet'
  BY <1>6, LineFrame, SessionAssumption, MessageAssumption DEF CompareUid
<1>7. CASE EndScan
  BY <1>7, LineFrame, SessionAssumption, MessageAssumption DEF EndScan
<1>8. ASSUME NEW c \in Callers, CopySessions(c) PROVE NotYet'
  BY <1>8, LineFrame, SessionAssumption, MessageAssumption DEF CopySessions
<1>9. ASSUME NEW c \in Callers, NEW s \in Sessions, Lock(c, s) PROVE NotYet'
  <2>. HIDE DEF TypeOK, CallersSound, OneTarget, Taken, NotYet, stream, session, caller, Callers
  <2>1. UNCHANGED <<msg, stream>> /\ at[c] = "fan" /\ s \in fan[c]
    BY <1>9 DEF Lock
  <2>2. \A t \in Sessions : Told(t)' = Told(t)
    BY <2>1, LineFrame DEF stream
  <2>3. \A d \in Callers : /\ at'[d] = at[d] \/ (d = c /\ at'[d] = "post")
                           /\ held'[d] = held[d] \/ (d = c /\ held'[d] = s)
                           /\ fan'[d] \subseteq fan[d]
    <3>1. DOMAIN at = Callers /\ DOMAIN held = Callers /\ DOMAIN fan = Callers
      BY DEF TypeOK
    <3>2. \A d \in Callers : fan'[d] \subseteq fan[d]
      BY <1>9, <3>1 DEF Lock
    <3>3. CASE Lockable(s)
      <4>1. held' = [held EXCEPT ![c] = s] /\ at' = [at EXCEPT ![c] = "post"]
        BY <1>9, <3>3 DEF Lock
      <4>. QED  BY <3>1, <3>2, <4>1
    <3>4. CASE ~Lockable(s)
      BY <1>9, <3>2, <3>4 DEF Lock
    <3>. QED  BY <3>3, <3>4
  <2>4. ASSUME NEW t \in Sessions, NEW d \in Callers, msg'[d] \in Told(t)'
        PROVE  /\ at'[d] \in {"fan", "post"} /\ t \notin fan'[d] /\ held'[d] # t
               /\ d = Timer => fan'[d] = {} /\ held'[d] = Nobody
    <3>1. /\ at[d] \in {"fan", "post"} /\ t \notin fan[d] /\ held[d] # t
          /\ d = Timer => fan[d] = {} /\ held[d] = Nobody
      BY <2>1, <2>2, <2>4 DEF NotYet
    <3>. QED  BY <2>1, <2>3, <3>1
  <2>. QED  BY <2>4 DEF NotYet
<1>10. ASSUME NEW c \in Callers, Post(c) PROVE NotYet'
  <2>. HIDE DEF TypeOK, CallersSound, OneTarget, Taken, NotYet, stream, session, caller
  <2>1. PICK t \in Sessions : held[c] = t
    BY <1>10 DEF Post, TypeOK, CallersSound
  <2>2. Told(t)' = Told(t) \cup {msg[c]} /\ \A s \in Sessions \ {t} : Told(s)' = Told(s)
    BY <1>10, <2>1, PostLine
  <2>3. msg' = msg /\ fan' = fan /\ at[c] = "post" /\ held[c] # Nobody /\ msg[c] # NoMessage
        /\ held[c] \notin fan[c]
    BY <1>10 DEF Post, TypeOK, CallersSound
  <2>4. \A d \in Callers : /\ at'[d] = IF d = c THEN "fan" ELSE at[d]
                           /\ held'[d] = IF d = c THEN Nobody ELSE held[d]
    BY <1>10 DEF Post, TypeOK
  <2>5. ASSUME NEW s \in Sessions, NEW d \in Callers, msg[d] \in Told(s)'
        PROVE  /\ at'[d] \in {"fan", "post"} /\ s \notin fan[d] /\ held'[d] # s
               /\ d = Timer => fan[d] = {} /\ held'[d] = Nobody
    <3>1. CASE msg[d] \in Told(s)
      <4>1. /\ at[d] \in {"fan", "post"} /\ s \notin fan[d] /\ held[d] # s
            /\ d = Timer => fan[d] = {} /\ held[d] = Nobody
        BY <3>1 DEF NotYet
      <4>2. s # Nobody
        BY SessionAssumption
      <4>. QED  BY <2>4, <4>1, <4>2
    <3>2. CASE msg[d] \notin Told(s)
      <4>1. s = t /\ d = c
        BY <2>2, <2>3, <2>5, <3>2 DEF Taken
      <4>. QED  BY <2>1, <2>3, <2>4, <4>1, SessionAssumption DEF OneTarget
    <3>. QED  BY <3>1, <3>2
  <2>. QED  BY <2>3, <2>5 DEF NotYet
<1>11. ASSUME NEW c \in Callers, Finish(c) PROVE NotYet'
  <2>. HIDE DEF TypeOK, CallersSound, OneTarget, Taken, NotYet, stream, session, caller
  <2>1. \A s \in Sessions : NoMessage \notin Told(s)
    BY LineType, MessageAssumption DEF Payloads
  <2>2. \A d \in Callers : /\ msg'[d] = IF d = c THEN NoMessage ELSE msg[d]
                           /\ d # c => at'[d] = at[d]
    BY <1>11 DEF Finish, TypeOK
  <2>3. fan' = fan /\ held' = held
    BY <1>11 DEF Finish
  <2>4. ASSUME NEW s \in Sessions, NEW d \in Callers, msg'[d] \in Told(s)'
        PROVE  d # c /\ msg[d] \in Told(s) /\ at'[d] = at[d]
    <3>1. msg'[d] \in Told(s)
      BY <1>11, <2>4, LineFrame DEF Finish
    <3>2. d # c
      <4>1. msg'[c] = NoMessage
        BY <2>2
      <4>. QED  BY <2>1, <3>1, <4>1
    <3>. QED  BY <2>2, <3>1, <3>2
  <2>. QED  BY <2>3, <2>4 DEF NotYet
<1>12. CASE UNCHANGED vars
  BY <1>12, LineFrame, SessionAssumption, MessageAssumption DEF vars
<1>. QED
  BY <1>1, <1>2, <1>3, <1>4, <1>5, <1>6, <1>7, <1>8, <1>9, <1>10, <1>11, <1>12
     DEF Next, OwnStep, Life, Read, Write, Scan, Send

\* Appending an element that is not there repeats none.
LEMMA AppendOnce ==
  ASSUME NEW q \in Seq(Payloads), NEW e \in Payloads \ Elements(q),
         \A i, j \in DOMAIN q : q[i] = q[j] => i = j
  PROVE  LET r == Append(q, e) IN \A i, j \in DOMAIN r : r[i] = r[j] => i = j
<1> DEFINE r == Append(q, e)
<1>1. /\ DOMAIN r = 1 .. Len(q) + 1 /\ DOMAIN q = 1 .. Len(q) /\ Len(q) \in Nat
      /\ r[Len(q) + 1] = e /\ \A i \in DOMAIN q : r[i] = q[i] /\ q[i] # e
  BY AppendProperties, LenProperties DEF Elements
<1>. HIDE DEF r
<1>2. \A i, j \in DOMAIN r : r[i] = r[j] => i = j
  BY <1>1
<1>. QED  BY <1>2 DEF r

\* Only a post could deliver a second time, and it posts to a session that has
\* not been sent the message yet.
LEMMA OnceStep ==
  ASSUME TypeOK, CallersSound, WriterSound, NotYet, DeliveredOnce, [Next]_vars
  PROVE  DeliveredOnce'
<1>1. CASE \A s \in Sessions : Line(s)' = Line(s) /\ Told(s)' = Told(s)
  BY <1>1, Zenon DEF DeliveredOnce, Told
<1>2. ASSUME NEW c \in Callers, NEW t \in Sessions, held[c] = t, Post(c)
      PROVE  DeliveredOnce'
  <2>1. /\ msg[c] \in Payloads
        /\ Line(t)' = Append(Line(t), msg[c]) /\ Told(t)' = Told(t) \cup {msg[c]}
        /\ \A s \in Sessions \ {t} : Line(s)' = Line(s) /\ Told(s)' = Told(s)
    BY <1>2, PostLine
  <2>2. msg[c] \notin Told(t)
    BY <1>2 DEF NotYet
  <2>3. ASSUME NEW s \in Sessions
        PROVE  (\A i, j \in DOMAIN Line(s) : Line(s)[i] = Line(s)[j] => i = j)'
    <3>1. CASE s = t
      BY <2>1, <2>2, <3>1, LineType, AppendOnce DEF DeliveredOnce, Told
    <3>2. CASE s # t
      BY <2>1, <3>2 DEF DeliveredOnce
    <3>. QED  BY <3>1, <3>2
  <2>4. msg[c] \in Updates => \A s \in Sessions : msg[c] \notin Told(s)
    <3>1. msg[c] \in Updates => c = Timer
      BY <1>2, MessageAssumption DEF Post, CallersSound, Callers
    <3>2. t # Nobody
      BY SessionAssumption DEF Callers
    <3>. QED  BY <1>2, <3>1, <3>2 DEF NotYet
  <2>5. ASSUME NEW u \in Updates, NEW r \in Sessions, NEW s \in Sessions,
               u \in Told(r)', u \in Told(s)'
        PROVE  r = s
    <3>1. CASE u = msg[c]
      BY <2>1, <2>4, <2>5, <3>1
    <3>2. CASE u # msg[c]
      <4>1. u \in Told(r) /\ u \in Told(s)
        BY <2>1, <2>5, <3>2
      <4>. QED  BY <4>1 DEF DeliveredOnce, Told
    <3>. QED  BY <3>1, <3>2
  <2>. QED  BY <2>3, <2>5 DEF DeliveredOnce, Told
<1>. QED  BY <1>1, <1>2, LineSteps

-----------------------------------------------------------------------------
(* Broadcasts                                                               *)

\* A session that has ended, or that nothing refers to any more, cannot be
\* locked again.
LEMMA LockableStep ==
  ASSUME TypeOK, CallersSound, [Next]_vars, NEW r \in Sessions
  PROVE  life[r] \in {"live", "freed"} /\ Lockable(r)' => Lockable(r)
<1>. USE DEF TypeOK, CallersSound, Lockable, Referenced, stream, session, caller, Callers
<1>1. ASSUME NEW s \in Sessions, Upgrade(s)
      PROVE  life[r] \in {"live", "freed"} /\ Lockable(r)' => Lockable(r)
  BY <1>1 DEF Upgrade
<1>2. ASSUME NEW s \in Sessions, Accept(s)
      PROVE  life[r] \in {"live", "freed"} /\ Lockable(r)' => Lockable(r)
  BY <1>2 DEF Accept
<1>3. ASSUME NEW s \in Sessions, AcceptFails(s)
      PROVE  life[r] \in {"live", "freed"} /\ Lockable(r)' => Lockable(r)
  BY <1>3 DEF AcceptFails
<1>4. ASSUME NEW s \in Sessions, Leave(s)
      PROVE  life[r] \in {"live", "freed"} /\ Lockable(r)' => Lockable(r)
  BY <1>4 DEF Leave
<1>5. ASSUME NEW s \in Sessions, NEW m \in Messages, ReadMessage(s, m)
      PROVE  life[r] \in {"live", "freed"} /\ Lockable(r)' => Lockable(r)
  BY <1>5, SessionAssumption DEF ReadMessage
<1>6. ASSUME NEW s \in Sessions, NEW m \in Messages, ReadThrows(s, m)
      PROVE  life[r] \in {"live", "freed"} /\ Lockable(r)' => Lockable(r)
  BY <1>6 DEF ReadThrows
<1>7. ASSUME NEW s \in Sessions, ReadFails(s)
      PROVE  life[r] \in {"live", "freed"} /\ Lockable(r)' => Lockable(r)
  BY <1>7 DEF ReadFails
<1>8. ASSUME NEW s \in Sessions, AssignUid(s)
      PROVE  life[r] \in {"live", "freed"} /\ Lockable(r)' => Lockable(r)
  BY <1>8, SessionAssumption DEF AssignUid
<1>9. ASSUME NEW s \in Sessions, OnSend(s)
      PROVE  life[r] \in {"live", "freed"} /\ Lockable(r)' => Lockable(r)
  BY <1>9 DEF OnSend
<1>10. ASSUME NEW s \in Sessions, OnWrite(s)
       PROVE  life[r] \in {"live", "freed"} /\ Lockable(r)' => Lockable(r)
  BY <1>10 DEF OnWrite
<1>11. ASSUME NEW s \in Sessions, WriteFails(s)
       PROVE  life[r] \in {"live", "freed"} /\ Lockable(r)' => Lockable(r)
  BY <1>11 DEF WriteFails
<1>12. ASSUME NEW u \in Updates, Update(u)
       PROVE  life[r] \in {"live", "freed"} /\ Lockable(r)' => Lockable(r)
  BY <1>12, SessionAssumption DEF Update
<1>13. ASSUME NEW s \in Sessions, CompareUid(s)
       PROVE  life[r] \in {"live", "freed"} /\ Lockable(r)' => Lockable(r)
  BY <1>13, SessionAssumption DEF CompareUid
<1>14. CASE EndScan
  BY <1>14, SessionAssumption DEF EndScan
<1>15. ASSUME NEW c \in Callers, CopySessions(c)
       PROVE  life[r] \in {"live", "freed"} /\ Lockable(r)' => Lockable(r)
  BY <1>15, SessionAssumption DEF CopySessions
<1>16. ASSUME NEW c \in Callers, NEW s \in Sessions, Lock(c, s)
       PROVE  life[r] \in {"live", "freed"} /\ Lockable(r)' => Lockable(r)
  BY <1>16, SessionAssumption DEF Lock
<1>17. ASSUME NEW c \in Callers, Post(c)
       PROVE  life[r] \in {"live", "freed"} /\ Lockable(r)' => Lockable(r)
  BY <1>17, SessionAssumption DEF Post
<1>18. ASSUME NEW c \in Callers, Finish(c)
       PROVE  life[r] \in {"live", "freed"} /\ Lockable(r)' => Lockable(r)
  BY <1>18, SessionAssumption DEF Finish
<1>19. CASE UNCHANGED vars
  BY <1>19 DEF vars
<1>. QED
  BY <1>1, <1>2, <1>3, <1>4, <1>5, <1>6, <1>7, <1>8, <1>9,
     <1>10, <1>11, <1>12, <1>13, <1>14, <1>15, <1>16, <1>17, <1>18, <1>19
     DEF Next, Life, Read, Write, Scan, Send

\* A broadcast on its way to a session that lives stays on its way, or gets
\* there.
LEMMA UnderwayStep ==
  ASSUME TypeOK, CallersSound, WriterSound, [Next]_vars,
         NEW m \in Messages, NEW r \in Sessions, Lockable(r),
         NEW d \in Callers, msg[d] = m, r \in fan[d] \/ held[d] = r
  PROVE  m \in Told(r)' \/ Underway(m, r)'
<1>. USE DEF TypeOK, CallersSound, Underway, stream, session, caller, Callers
<1>1. ASSUME NEW s \in Sessions, OwnStep(s)
      PROVE  m \in Told(r)' \/ Underway(m, r)'
  BY <1>1, OwnFrame
<1>2. ASSUME NEW s \in Sessions, NEW n \in Messages, ReadMessage(s, n)
      PROVE  m \in Told(r)' \/ Underway(m, r)'
  <2>1. d # s
    BY <1>2, SessionAssumption DEF ReadMessage, StrandFree
  <2>2. msg'[d] = m /\ fan'[d] = fan[d] /\ held'[d] = held[d]
    BY <1>2, <2>1 DEF ReadMessage
  <2>. QED  BY <2>2
<1>3. ASSUME NEW s \in Sessions, NEW n \in Messages, ReadThrows(s, n)
      PROVE  m \in Told(r)' \/ Underway(m, r)'
  BY <1>3, SessionAssumption, MessageAssumption DEF ReadThrows
<1>4. ASSUME NEW s \in Sessions, AssignUid(s)
      PROVE  m \in Told(r)' \/ Underway(m, r)'
  BY <1>4, SessionAssumption, MessageAssumption DEF AssignUid
<1>5. ASSUME NEW u \in Updates, Update(u)
      PROVE  m \in Told(r)' \/ Underway(m, r)'
  BY <1>5, SessionAssumption, MessageAssumption DEF Update
<1>6. ASSUME NEW s \in Sessions, CompareUid(s)
      PROVE  m \in Told(r)' \/ Underway(m, r)'
  BY <1>6, SessionAssumption, MessageAssumption DEF CompareUid
<1>7. CASE EndScan
  BY <1>7, SessionAssumption, MessageAssumption DEF EndScan
<1>8. ASSUME NEW c \in Callers, CopySessions(c)
      PROVE  m \in Told(r)' \/ Underway(m, r)'
  BY <1>8, SessionAssumption, MessageAssumption DEF CopySessions
<1>9. ASSUME NEW c \in Callers, NEW s \in Sessions, Lock(c, s)
      PROVE  m \in Told(r)' \/ Underway(m, r)'
  BY <1>9, SessionAssumption, MessageAssumption DEF Lock
<1>10. ASSUME NEW c \in Callers, Post(c)
       PROVE  m \in Told(r)' \/ Underway(m, r)'
  <2>1. CASE d = c /\ held[d] = r
    <3>. HIDE DEF TypeOK, CallersSound, Underway, stream, session, caller
    <3>1. Told(r)' = Told(r) \cup {msg[c]}
      BY <1>10, <2>1, PostLine
    <3>. QED  BY <2>1, <3>1
  <2>2. CASE ~(d = c /\ held[d] = r)
    BY <1>10, <2>2 DEF Post
  <2>. QED  BY <2>1, <2>2
<1>11. ASSUME NEW c \in Callers, Finish(c)
       PROVE  m \in Told(r)' \/ Underway(m, r)'
  BY <1>11, SessionAssumption, MessageAssumption DEF Finish
<1>12. CASE UNCHANGED vars
  BY <1>12, SessionAssumption, MessageAssumption DEF vars
<1>. QED
  BY <1>1, <1>2, <1>3, <1>4, <1>5, <1>6, <1>7, <1>8, <1>9, <1>10, <1>11, <1>12
     DEF Next, OwnStep, Life, Read, Write, Scan, Send

\* The sessions of a snapshot were live when it was taken.
LEMMA SnapshotStep ==
  ASSUME TypeOK, RegistrySound, SnapshotSound, [Next]_vars
  PROVE  SnapshotSound'
<1>1. ASSUME NEW s \in Sessions, Life(s) PROVE SnapshotSound'
  <2>1. snapshot' = snapshot
    BY <1>1 DEF Life, Upgrade, Accept, AcceptFails, Leave, caller
  <2>2. \A r \in Sessions : life[r] \in {"live", "freed"} => life'[r] \in {"live", "freed"}
    <3>1. life \in [Sessions -> {"none", "accepting", "live", "freed"}]
      BY DEF TypeOK
    <3>2. CASE Upgrade(s)
      BY <3>1, <3>2 DEF Upgrade
    <3>3. CASE Accept(s) \/ AcceptFails(s)
      BY <3>1, <3>3 DEF Accept, AcceptFails
    <3>4. CASE Leave(s)
      BY <3>1, <3>4 DEF Leave
    <3>. QED  BY <1>1, <3>2, <3>3, <3>4 DEF Life
  <2>3. \A m \in Messages : snapshot[m] \subseteq Sessions
    BY DEF TypeOK
  <2>. QED  BY <2>1, <2>2, <2>3 DEF SnapshotSound
<1>2. ASSUME NEW c \in Callers, CopySessions(c) PROVE SnapshotSound'
  BY <1>2 DEF CopySessions, SnapshotSound, RegistrySound, TypeOK, session
<1>3. CASE UNCHANGED <<life, snapshot>>
  BY <1>3 DEF SnapshotSound
<1>4. \/ \E s \in Sessions : Life(s)
      \/ \E c \in Callers : CopySessions(c)
      \/ UNCHANGED <<life, snapshot>>
  BY DEF Next, vars, session, caller, Read, Write, Scan, Send, ReadMessage, ReadThrows, ReadFails, AssignUid,
         OnSend, OnWrite, WriteFails, Update, CompareUid, EndScan, Lock, Post, Finish
<1>. QED  BY <1>1, <1>2, <1>3, <1>4

\* A copy of the registry starts the broadcast to every session in it, and the
\* step that skips a session finds it gone.
LEMMA ReachesStep ==
  ASSUME TypeOK, CallersSound, WriterSound, SnapshotSound, BroadcastReaches, [Next]_vars
  PROVE  BroadcastReaches'
<1>. SUFFICES ASSUME NEW m \in Messages, NEW s \in snapshot'[m], Lockable(s)', s \in Sessions
              PROVE  m \in Told(s)' \/ Underway(m, s)'
  BY TypeStep DEF BroadcastReaches, Told, TypeOK
<1>1. s \in snapshot[m] \/ \E c \in Callers : CopySessions(c) /\ msg[c] = m
  <2>1. snapshot' = snapshot \/ \E c \in Callers : CopySessions(c)
    BY DEF Next, vars, caller, Life, Read, Write, Scan, Send, Upgrade, Accept, AcceptFails, Leave, ReadMessage,
           ReadThrows, ReadFails, AssignUid, OnSend, OnWrite, WriteFails, Update, CompareUid, EndScan,
           Lock, Post, Finish
  <2>2. ASSUME NEW c \in Callers, CopySessions(c), msg[c] # m PROVE snapshot'[m] = snapshot[m]
    BY <2>2 DEF CopySessions, TypeOK
  <2>. QED  BY <2>1, <2>2
<1>2. CASE s \in snapshot[m]
  <2>1. Lockable(s)
    BY <1>2, LockableStep DEF SnapshotSound
  <2>2. CASE m \in Told(s)
    BY <2>2, LineSteps, PostLine
  <2>3. CASE Underway(m, s)
    BY <2>1, <2>3, UnderwayStep DEF Underway
  <2>. QED  BY <1>2, <2>1, <2>2, <2>3 DEF BroadcastReaches, Told
<1>3. ASSUME NEW c \in Callers, CopySessions(c), msg[c] = m
      PROVE  s \in snapshot[m] \/ Underway(m, s)'
  BY <1>3 DEF CopySessions, Underway, TypeOK
<1>. QED  BY <1>1, <1>2, <1>3

-----------------------------------------------------------------------------
(* The theorems                                                             *)

\* The invariant holds at the start.
LEMMA IInvInit == Init => IInv
<1>. SUFFICES ASSUME Init PROVE IInv
  OBVIOUS
<1>. USE DEF Init
<1>1. TypeOK /\ CallersSound /\ WriterSound
  BY SessionAssumption, MessageAssumption DEF TypeOK, CallersSound, WriterSound, OneWriter, Callers, Payloads, Places, Names
<1>2. RegistrySound /\ NothingOutlives
  BY DEF RegistrySound, NothingOutlives, Callers
<1>3. \A s \in Sessions : Line(s) = <<>> /\ Told(s) = {}
  BY DEF Line, Told, Elements
<1>4. Taken /\ OneTarget /\ NotYet
  BY <1>3, MessageAssumption DEF Taken, OneTarget, NotYet, Payloads, Callers
<1>5. DeliveredOnce
  BY <1>3 DEF DeliveredOnce, Told
<1>6. SnapshotSound /\ BroadcastReaches
  BY DEF SnapshotSound, BroadcastReaches
<1>. QED  BY <1>1, <1>2, <1>4, <1>5, <1>6 DEF IInv

\* Every step keeps the invariant.
LEMMA IInvStep == IInv /\ [Next]_vars => IInv'
<1>. SUFFICES ASSUME IInv, [Next]_vars PROVE IInv'
  OBVIOUS
<1>. USE DEF IInv
<1>1. TypeOK' /\ CallersSound' /\ WriterSound'
  BY TypeStep, CallersStep, WriterStep
<1>2. RegistrySound' /\ NothingOutlives'
  BY RegistryStep, OutliveStep
<1>3. Taken' /\ OneTarget' /\ NotYet' /\ DeliveredOnce'
  BY TakenStep, TargetStep, NotYetStep, OnceStep
<1>4. SnapshotSound' /\ BroadcastReaches'
  BY SnapshotStep, ReachesStep
<1>. QED  BY <1>1, <1>2, <1>3, <1>4

\* The invariant holds in every state.
LEMMA IInvHolds == Spec => []IInv
BY IInvInit, IInvStep, PTL DEF Spec

\* The types hold in every state.
THEOREM TypeCorrect == Spec => []TypeOK
BY IInvHolds, PTL DEF IInv

\* sessions_ holds no pointer to a session that has been destroyed, and every
\* session that reads or broadcasts is in it, however many there are.
THEOREM RegistryCorrect == Spec => []RegistrySound
BY IInvHolds, PTL DEF IInv

\* No handler, pending operation or sender is left with a session after its
\* destructor: what the weak_ptrs of shared_state::send are for.
THEOREM NoDanglingSession == Spec => []NothingOutlives
BY IInvHolds, PTL DEF IInv

\* A session has one write in flight at a time, and its queue_ is empty unless
\* one is or has failed.
THEOREM OneWriteAtATime == Spec => []OneWriter
<1>1. IInv => OneWriter
  BY DEF IInv, WriterSound
<1>. QED  BY <1>1, IInvHolds, PTL

\* No client gets a message twice, whatever joins, leaves or sends meanwhile,
\* and an update goes to one session.
THEOREM DeliversOnce == Spec => []DeliveredOnce
BY IInvHolds, PTL DEF IInv

\* A broadcast reaches every session that was registered when it began and
\* still lives.
THEOREM BroadcastsReach == Spec => []BroadcastReaches
BY IInvHolds, PTL DEF IInv

\* A client gets messages in the order they were posted to its session.
THEOREM DeliversInOrder == Spec => DeliveryOrder
<1>1. IInv /\ [Next]_vars => [\A s \in Sessions : SubSeq(Line(s)', 1, Len(Line(s))) = Line(s)]_vars
  <2>. SUFFICES ASSUME IInv, [Next]_vars, NEW s \in Sessions
                PROVE  SubSeq(Line(s)', 1, Len(Line(s))) = Line(s)
    OBVIOUS
  <2>1. Line(s) \in Seq(Payloads)
    BY LineType DEF IInv
  <2>2. Line(s)' = Line(s) \/ \E e \in Payloads : Line(s)' = Append(Line(s), e)
    <3>1. ASSUME NEW c \in Callers, NEW t \in Sessions, held[c] = t, Post(c)
          PROVE  Line(s)' = Line(s) \/ \E e \in Payloads : Line(s)' = Append(Line(s), e)
      BY <3>1, PostLine DEF IInv
    <3>. QED  BY <3>1, LineSteps DEF IInv
  <2>3. \A q \in Seq(Payloads) : SubSeq(q, 1, Len(q)) = q
    OBVIOUS
  <2>4. \A q \in Seq(Payloads), e \in Payloads : SubSeq(Append(q, e), 1, Len(q)) = q
    OBVIOUS
  <2>. QED  BY <2>1, <2>2, <2>3, <2>4
<1>. QED  BY <1>1, IInvHolds, PTL DEF Spec, DeliveryOrder
=============================================================================
