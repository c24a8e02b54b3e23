-------------------------- MODULE AdminSnapshotProofs --------------------------
(***************************************************************************)
(* What AdminSnapshot promises, proved for every set of tasks and every    *)
(* heap.                                                                   *)
(*                                                                         *)
(* The invariant says what the list looks like between any two stores of   *)
(* push_back and pop_front: there is a numbering p of the nodes in use     *)
(* such that head_, tail_, the links and the values are those of the list  *)
(* p[1], p[2], ..., but for the pointers that the function in progress has *)
(* still to set.  A handler nobody has disturbed has copied the values of  *)
(* the first nodes of p and stands at the next.                            *)
(***************************************************************************)
EXTENDS AdminSnapshot, FiniteSetTheorems, SequenceTheorems, TLAPS

-----------------------------------------------------------------------------
(* The inductive invariant                                                  *)

\* A node<task>.
Cell == [value : Tasks \cup {Moved}, prev : Nodes \cup {Null}, next : Nodes \cup {Null}]
\* Where a writer may be, by what it is doing.
Popping == {"assign", "release", "pop", "pop_prev", "pop_delete"}
Appending == {"append", "append_prev", "append_next"}
Clearing == {"clear_tail", "clear_head"}
Starting == {"first", "first_head"}
\* The addresses of nodes that exist.
Used == {n \in Nodes : heap[n] # Free}

\* Types, and that a reader in the list has an address in its iterator.
TypeOK ==
  /\ heap \in [Nodes -> Cell \cup {Free}]
  /\ head \in Nodes \cup {Null} /\ tail \in Nodes \cup {Null}
  /\ new \in Nodes \cup {Null} /\ old \in Nodes \cup {Null} /\ cursor \in Nodes \cup {Null}
  /\ curr \in Tasks \cup {Null} /\ temp \in Tasks \cup {Null} /\ shown \in Tasks \cup {Null}
  /\ refs \in [Tasks -> Nat]
  /\ todo \subseteq Tasks
  /\ queue \in Seq(Tasks) /\ copy \in Seq(Tasks \cup {Moved})
  /\ wpc \in Popping \cup Appending \cup Clearing \cup Starting \cup {"out"}
  /\ rpc \in {"idle", "value", "next", "copied", "count", "answer"}
  /\ rpc \in {"value", "next"} => cursor \in Nodes
  /\ disturbed \in BOOLEAN /\ dangling \in BOOLEAN

\* Nodes in use whose task has been moved out: the first, until it is deleted.
Offset == IF wpc \in Popping THEN 1 ELSE 0
\* How many nodes are in use.
Size == Len(queue) + Offset

\* p numbers the n nodes in use, of which there are as many as the function in
\* progress needs.
Numbered(p, n) ==
  /\ wpc \in Starting => n = 1
  /\ wpc \in Appending \cup {"pop_prev", "pop_delete"} => n >= 2
  /\ wpc \in Clearing => n = 0
  /\ \A i \in 1 .. n : p[i] \in Nodes /\ heap[p[i]] \in Cell
  /\ \A i, j \in 1 .. n : p[i] = p[j] => i = j
  /\ \A m \in Used : \E i \in 1 .. n : p[i] = m

\* prev_ and next_ of the i-th node: its neighbours, but for a link that is still
\* to be set (push_back) or that is already cleared (pop_front).
PrevAt(p, n, i) ==
  IF i = 1 \/ (wpc \in {"append", "append_prev"} /\ i = n) \/ (wpc = "pop_delete" /\ i = 2)
  THEN Null ELSE p[i - 1]

NextAt(p, n, i) ==
  IF i = n \/ (wpc \in Appending /\ i = n - 1) THEN Null ELSE p[i + 1]

\* The nodes hold the queue, and are linked.
Chained(p, n) ==
  \A i \in 1 .. n :
    /\ i > Offset => heap[p[i]].value = queue[i - Offset]
    /\ heap[p[i]].prev = PrevAt(p, n, i)
    /\ heap[p[i]].next = NextAt(p, n, i)

\* head_ and tail_, and the local variables of the function in progress.
Pointed(p, n) ==
  /\ wpc \in Starting => head = Null
  /\ wpc \in {"pop_prev", "pop_delete"} => head = p[2]
  /\ wpc \in {"out", "assign", "release", "pop"} \cup Appending =>
       head = IF n = 0 THEN Null ELSE p[1]
  /\ wpc = "first" => tail = Null
  /\ wpc = "append" => tail = p[n - 1]
  /\ wpc = "clear_head" => tail = Null
  /\ wpc \in {"out", "first_head", "append_prev", "append_next"} \cup Popping =>
       tail = IF n = 0 THEN Null ELSE p[n]
  /\ wpc \in Appending \cup Starting => new = p[n]
  /\ wpc \in {"append_prev", "append_next"} => old = p[n - 1]
  /\ wpc \in {"pop_prev", "pop_delete"} => old = p[1]

\* An undisturbed reader has copied the first tasks of the queue.
Reading(p, n) ==
  ~disturbed =>
    /\ wpc = "out"
    /\ rpc # "idle" => Len(copy) <= n /\ \A i \in 1 .. Len(copy) : copy[i] = queue[i]
    /\ rpc = "value" => Len(copy) < n /\ cursor = p[Len(copy) + 1]
    /\ rpc = "next" => Len(copy) > 0 /\ cursor = p[Len(copy)]
    /\ rpc \in {"copied", "count", "answer"} => Len(copy) = n
    /\ rpc \in {"count", "answer"} => shown = curr

Shape(p, n) == Numbered(p, n) /\ Chained(p, n) /\ Pointed(p, n) /\ Reading(p, n)

Listed == \E p \in [1 .. Size -> Nodes] : Shape(p, Size)

\* k has not become the current task yet.
Fresh(k) ==
  \/ k \in todo
  \/ \E i \in DOMAIN queue : queue[i] = k
  \/ wpc = "assign" /\ k = temp

\* The use count of the object of k: one for every pointer that shares it.
One(b) == IF b THEN 1 ELSE 0
Count(k) ==
  One(curr = k) + One(wpc = "release" /\ temp = k) + One(rpc = "answer" /\ shown = k)

\* A task is pushed once and becomes current once, so the object made for it is
\* new, and every object has as many owners as it counts.
Counted ==
  /\ \A i, j \in DOMAIN queue : queue[i] = queue[j] => i = j
  /\ \A i \in DOMAIN queue : queue[i] \notin todo
  /\ wpc = "assign" => temp \in Tasks \ todo /\ \A i \in DOMAIN queue : queue[i] # temp
  /\ ~Fresh(curr) /\ ~Fresh(shown)
  /\ wpc = "release" => ~Fresh(temp) /\ temp # curr
  /\ rpc = "count" => shown # Null
  /\ \A k \in Tasks : refs[k] = Count(k)

IInv == TypeOK /\ Listed /\ Counted

-----------------------------------------------------------------------------
(* Lemmas                                                                   *)

\* Null is no address and no task, and a free address holds no node.
LEMMA NullKinds == Null \notin Nodes /\ Null \notin Tasks /\ Free \notin Cell
BY HeapAssumption DEF Cell

\* A set of at most three names counted name by name.
LEMMA HoldersCounted ==
  ASSUME NEW A \in BOOLEAN, NEW B \in BOOLEAN, NEW C \in BOOLEAN
  PROVE  Cardinality({h \in {"curr", "temporary", "reader"} :
                        (h = "curr" /\ A) \/ (h = "temporary" /\ B) \/ (h = "reader" /\ C)})
           = One(A) + One(B) + One(C)
<1> DEFINE SA == IF A THEN {} \cup {"curr"} ELSE {}
           SB == IF B THEN SA \cup {"temporary"} ELSE SA
           SC == IF C THEN SB \cup {"reader"} ELSE SB
<1>1. IsFiniteSet(SA) /\ Cardinality(SA) = One(A) /\ SA \subseteq {"curr"}
  BY FS_EmptySet, FS_AddElement, SMT DEF One
<1>2. IsFiniteSet(SB) /\ Cardinality(SB) = One(A) + One(B) /\ SB \subseteq {"curr", "temporary"}
  <2> HIDE DEF SA
  <2>1. One(A) \in Nat BY DEF One
  <2>2. "temporary" \notin SA BY <1>1
  <2> QED BY <1>1, <2>1, <2>2, FS_AddElement, SMT DEF One
<1>3. IsFiniteSet(SC) /\ Cardinality(SC) = One(A) + One(B) + One(C)
  <2>1. One(A) + One(B) \in Nat BY DEF One
  <2>2. "reader" \notin SB BY <1>2
  <2> HIDE DEF SB
  <2> QED BY <1>2, <2>1, <2>2, FS_AddElement, SMT DEF One
<1>4. {h \in {"curr", "temporary", "reader"} :
         (h = "curr" /\ A) \/ (h = "temporary" /\ B) \/ (h = "reader" /\ C)} = SC
  BY Zenon
<1> QED BY <1>3, <1>4

\* The invariant holds of the empty list.
LEMMA InitInv == Init => IInv
<1> SUFFICES ASSUME Init PROVE IInv OBVIOUS
<1>1. TypeOK BY EmptySeq, NullKinds DEF Init, TypeOK
<1>2. Listed
  <2>1. Size = 0 BY DEF Size, Offset, Init, Popping
  <2> DEFINE p == [i \in 1 .. 0 |-> CHOOSE n \in Nodes : TRUE]
  <2>2. p \in [1 .. 0 -> Nodes] OBVIOUS
  <2>3. Shape(p, 0)
    BY DEF Shape, Numbered, Chained, Pointed, Reading, Init, Appending, Clearing, Starting,
         Popping, Used, TypeOK
  <2> QED BY <2>1, <2>2, <2>3 DEF Listed
<1>3. Counted BY NullKinds DEF Init, Counted, Fresh, Count, One
<1> QED BY <1>1, <1>2, <1>3 DEF IInv

-----------------------------------------------------------------------------
(* The step: types                                                          *)

\* A store into one member of a node leaves the others alone.
LEMMA CellUpdate ==
  ASSUME NEW c \in Cell
  PROVE  /\ \A v \in Nodes \cup {Null} :
              /\ [c EXCEPT !.prev = v] \in Cell
              /\ [c EXCEPT !.prev = v].value = c.value
              /\ [c EXCEPT !.prev = v].prev = v
              /\ [c EXCEPT !.prev = v].next = c.next
         /\ \A v \in Nodes \cup {Null} :
              /\ [c EXCEPT !.next = v] \in Cell
              /\ [c EXCEPT !.next = v].value = c.value
              /\ [c EXCEPT !.next = v].prev = c.prev
              /\ [c EXCEPT !.next = v].next = v
         /\ /\ [c EXCEPT !.value = Moved] \in Cell
            /\ [c EXCEPT !.value = Moved].prev = c.prev
            /\ [c EXCEPT !.value = Moved].next = c.next
BY DEF Cell

\* The number of nodes is that of the queue, or one more.
LEMMA Sized ==
  ASSUME TypeOK
  PROVE  Size \in Nat /\ Len(queue) \in Nat /\ Offset \in {0, 1} /\ Size = Len(queue) + Offset
BY LenProperties DEF TypeOK, Size, Offset

\* The pointers that the writers dereference point to nodes.
LEMMA Dereferenced ==
  ASSUME TypeOK, Listed
  PROVE  /\ wpc = "out" /\ head # Null =>
              heap[head] \in Cell /\ queue # <<>> /\ heap[head].value = queue[1] /\ head \in Nodes
         /\ wpc = "pop" => heap[head] \in Cell /\ head \in Nodes
         /\ wpc = "pop_prev" => heap[head] \in Cell /\ head \in Nodes
         /\ wpc = "append_prev" => heap[tail] \in Cell /\ tail \in Nodes
         /\ wpc = "append_next" => heap[old] \in Cell /\ old \in Nodes
<1> DEFINE n == Size
<1>n. n \in Nat /\ Len(queue) \in Nat /\ n = Len(queue) + Offset BY Sized
<1>1. PICK p \in [1 .. n -> Nodes] : Shape(p, n) BY DEF Listed
<1> HIDE DEF n
<1>2. \A i \in 1 .. n : p[i] \in Nodes /\ heap[p[i]] \in Cell BY <1>1 DEF Shape, Numbered
<1>3. ASSUME wpc = "out", head # Null
      PROVE  heap[head] \in Cell /\ queue # <<>> /\ heap[head].value = queue[1] /\ head \in Nodes
  <2>1. head = IF n = 0 THEN Null ELSE p[1] BY <1>1, <1>3 DEF Shape, Pointed
  <2>2. n > 0 /\ head = p[1] BY <2>1, <1>3, <1>n
  <2>3. Offset = 0 BY <1>3 DEF Offset, Popping
  <2>4. heap[p[1]].value = queue[1] BY <1>1, <1>n, <2>2, <2>3 DEF Shape, Chained
  <2>5. queue # <<>> BY <1>n, <2>2, <2>3, EmptySeq
  <2> QED BY <1>2, <1>n, <2>2, <2>4, <2>5
<1>4. ASSUME wpc = "pop" PROVE heap[head] \in Cell /\ head \in Nodes
  <2>1. n > 0 BY <1>n, <1>4 DEF Offset, Popping
  <2>2. head = p[1] BY <1>1, <1>4, <2>1 DEF Shape, Pointed
  <2> QED BY <1>2, <1>n, <2>1, <2>2
<1>5. ASSUME wpc = "pop_prev" PROVE heap[head] \in Cell /\ head \in Nodes
  BY <1>1, <1>2, <1>5, <1>n DEF Shape, Pointed, Numbered
<1>6. ASSUME wpc = "append_prev" PROVE heap[tail] \in Cell /\ tail \in Nodes
  BY <1>1, <1>2, <1>6, <1>n DEF Shape, Pointed, Numbered, Appending
<1>7. ASSUME wpc = "append_next" PROVE heap[old] \in Cell /\ old \in Nodes
  BY <1>1, <1>2, <1>7, <1>n DEF Shape, Pointed, Numbered, Appending
<1> QED BY <1>3, <1>4, <1>5, <1>6, <1>7

\* Every step keeps the types.
LEMMA TypeStep == TypeOK /\ Listed /\ Counted /\ [Next]_vars => TypeOK'
<1> SUFFICES ASSUME TypeOK, Listed, Counted, [Next]_vars PROVE TypeOK' OBVIOUS
<1> USE NullKinds DEF Popping, Appending, Clearing, Starting
<1>a. \A n \in Nodes, c \in Cell \cup {Free} :
        [heap EXCEPT ![n] = c] \in [Nodes -> Cell \cup {Free}]
  BY DEF TypeOK
<1>b. \A n \in Nodes, v \in Nodes \cup {Null} : heap[n] \in Cell =>
        /\ [heap EXCEPT ![n].prev = v] \in [Nodes -> Cell \cup {Free}]
        /\ [heap EXCEPT ![n].next = v] \in [Nodes -> Cell \cup {Free}]
        /\ [heap EXCEPT ![n].value = Moved] \in [Nodes -> Cell \cup {Free}]
  BY <1>a, CellUpdate
<1>1. ASSUME NEW k \in Tasks, Push(k) PROVE TypeOK'
  <2>1. PICK n \in {m \in Nodes : heap[m] = Free} :
          /\ heap' = [heap EXCEPT ![n] = [value |-> k, prev |-> Null, next |-> Null]]
          /\ new' = n
    BY <1>1 DEF Push
  <2>2. [value |-> k, prev |-> Null, next |-> Null] \in Cell BY DEF Cell
  <2>3. heap' \in [Nodes -> Cell \cup {Free}] BY <2>1, <2>2, <1>a
  <2>4. queue' \in Seq(Tasks) BY <1>1, AppendProperties DEF Push, TypeOK
  <2> QED BY <1>1, <2>1, <2>3, <2>4 DEF Push, Goto, TypeOK, shared, reader
<1>2. ASSUME FirstTail \/ FirstHead \/ AppendTail PROVE TypeOK'
  <2>1. /\ wpc' \in {"first_head", "out", "append_prev"} /\ head' \in Nodes \cup {Null}
        /\ tail' \in Nodes \cup {Null} /\ old' \in Nodes \cup {Null} /\ disturbed' \in BOOLEAN
        /\ UNCHANGED <<heap, new, rest>>
    BY <1>2 DEF FirstTail, FirstHead, AppendTail, Goto, TypeOK, shared, reader, rest
  <2> QED BY <2>1 DEF TypeOK, shared, reader, rest
<1>3. ASSUME AppendPrev PROVE TypeOK'
  <2>1. heap' \in [Nodes -> Cell \cup {Free}]
    BY <1>3, <1>b, Dereferenced DEF AppendPrev, Goto, TypeOK
  <2> QED BY <1>3, <2>1 DEF AppendPrev, Goto, TypeOK, shared, reader, rest
<1>4. ASSUME AppendNext PROVE TypeOK'
  <2>1. heap' \in [Nodes -> Cell \cup {Free}]
    BY <1>4, <1>b, Dereferenced DEF AppendNext, Goto, TypeOK
  <2> QED BY <1>4, <2>1 DEF AppendNext, Goto, TypeOK, shared, reader, rest
<1>5. ASSUME MoveFront PROVE TypeOK'
  <2>1. wpc = "out" /\ head # Null BY <1>5 DEF MoveFront, Goto
  <2>2. heap' \in [Nodes -> Cell \cup {Free}]
    BY <1>5, <1>b, <2>1, Dereferenced DEF MoveFront
  <2>3. temp' = queue[1] /\ queue # <<>> BY <1>5, <2>1, Dereferenced DEF MoveFront
  <2>4. temp' \in Tasks BY <2>3, EmptySeq, ElementOfSeq DEF TypeOK
  <2>5. queue' \in Seq(Tasks) BY <1>5, <2>3, HeadTailProperties DEF MoveFront, TypeOK
  <2> QED BY <1>5, <2>2, <2>4, <2>5 DEF MoveFront, Goto, TypeOK, shared, reader
<1>6. ASSUME AssignCurr PROVE TypeOK'
  BY <1>6 DEF AssignCurr, Goto, TypeOK, list, reader, Counted
<1>7. ASSUME ReleaseOld PROVE TypeOK'
  <2>1. wpc = "release" BY <1>7 DEF ReleaseOld, Goto
  <2>2. temp # Null => refs[temp] = Count(temp) BY DEF Counted, TypeOK
  <2>3. Count(temp) \in Nat /\ Count(temp) >= 1 BY <2>1 DEF Count, One
  <2>4. temp # Null => refs[temp] - 1 \in Nat BY <2>2, <2>3
  <2>5. refs' \in [Tasks -> Nat] BY <1>7, <2>4 DEF ReleaseOld, TypeOK
  <2> QED BY <1>7, <2>5 DEF ReleaseOld, Goto, TypeOK, list, reader
<1>8. ASSUME PopOnly PROVE TypeOK'
  <2>1. heap' \in [Nodes -> Cell \cup {Free}] BY <1>8, <1>a, Dereferenced DEF PopOnly, Goto
  <2> QED BY <1>8, <2>1 DEF PopOnly, Goto, TypeOK, shared, reader, rest
<1>9. ASSUME ClearTail \/ ClearHead PROVE TypeOK'
  <2>1. /\ wpc' \in {"clear_head", "out"} /\ head' \in Nodes \cup {Null}
        /\ tail' \in Nodes \cup {Null} /\ disturbed' \in BOOLEAN
        /\ UNCHANGED <<heap, new, old, rest>>
    BY <1>9 DEF ClearTail, ClearHead, Goto, TypeOK, rest
  <2> QED BY <2>1 DEF TypeOK, shared, reader, rest
<1>10. ASSUME PopHead PROVE TypeOK'
  <2>1. heap[head].next \in Nodes \cup {Null}
    BY <1>10, Dereferenced DEF PopHead, Goto, Cell
  <2> QED BY <1>10, <2>1 DEF PopHead, Goto, TypeOK, shared, reader, rest
<1>11. ASSUME PopPrev PROVE TypeOK'
  <2>1. heap' \in [Nodes -> Cell \cup {Free}] BY <1>11, <1>b, Dereferenced DEF PopPrev, Goto
  <2> QED BY <1>11, <2>1 DEF PopPrev, Goto, TypeOK, shared, reader, rest
<1>12. ASSUME PopDelete PROVE TypeOK'
  <2>1. heap' \in [Nodes -> Cell \cup {Free}] BY <1>12 DEF PopDelete, TypeOK
  <2> QED BY <1>12, <2>1 DEF PopDelete, Goto, TypeOK, shared, reader, rest
<1>13. ASSUME Begin PROVE TypeOK'
  BY <1>13, EmptySeq DEF Begin, At, TypeOK, list, shared
<1>14. ASSUME CopyValue PROVE TypeOK'
  <2>1. heap[cursor].value \in Tasks \cup {Moved}
    <3>1. cursor \in Nodes => heap[cursor] \in Cell BY <1>14 DEF CopyValue, TypeOK
    <3>2. cursor \in Nodes BY <1>14 DEF CopyValue, TypeOK
    <3> QED BY <3>1, <3>2 DEF Cell
  <2>2. copy' \in Seq(Tasks \cup {Moved}) BY <1>14, <2>1, AppendProperties DEF CopyValue, TypeOK
  <2> QED BY <1>14, <2>2 DEF CopyValue, TypeOK, list, shared, writer
<1>15. ASSUME Advance PROVE TypeOK'
  <2>1. heap[cursor] \in Cell BY <1>15 DEF Advance, TypeOK
  <2>2. heap[cursor].next \in Nodes \cup {Null} BY <2>1 DEF Cell
  <2>3. cursor' \in Nodes \cup {Null} /\ rpc' = At(cursor') BY <1>15, <2>2 DEF Advance
  <2>4. rpc' \in {"value", "copied"} /\ (rpc' = "value" => cursor' \in Nodes) BY <2>3 DEF At
  <2> QED BY <1>15, <2>3, <2>4 DEF Advance, TypeOK, list, shared, writer
<1>16. ASSUME LoadCurr \/ Dereference PROVE TypeOK'
  <2>1. /\ UNCHANGED <<heap, head, tail, curr, refs, todo, queue, wpc, new, old, temp, disturbed, cursor, copy>>
        /\ shown' = shown \/ shown' = curr
        /\ rpc' \in {"idle", "count", "answer"} /\ dangling' \in BOOLEAN
    BY <1>16 DEF LoadCurr, Dereference, TypeOK, list, shared, writer
  <2> QED BY <2>1 DEF TypeOK
<1>17. ASSUME CountCurr PROVE TypeOK'
  <2>1. shown \in Tasks BY <1>17 DEF CountCurr, Counted, TypeOK
  <2>2. refs' \in [Tasks -> Nat] BY <1>17, <2>1 DEF CountCurr, TypeOK
  <2> QED BY <1>17, <2>2 DEF CountCurr, TypeOK, list, writer
<1>18. ASSUME Respond PROVE TypeOK'
  <2>1. rpc = "answer" BY <1>18 DEF Respond
  <2>2. shown # Null => refs[shown] = Count(shown) BY DEF Counted, TypeOK
  <2>3. Count(shown) \in Nat /\ Count(shown) >= 1 BY <2>1 DEF Count, One
  <2>4. shown # Null => refs[shown] - 1 \in Nat BY <2>2, <2>3
  <2>5. refs' \in [Tasks -> Nat] BY <1>18, <2>4 DEF Respond, TypeOK
  <2> QED BY <1>18, <2>5 DEF Respond, TypeOK, list, writer
<1>19. CASE UNCHANGED vars BY <1>19 DEF vars, TypeOK
<1> QED
  BY <1>1, <1>2, <1>3, <1>4, <1>5, <1>6, <1>7, <1>8, <1>9, <1>10, <1>11, <1>12, <1>13, <1>14,
     <1>15, <1>16, <1>17, <1>18, <1>19 DEF Next, Write, Read

-----------------------------------------------------------------------------
(* The step: use counts                                                     *)

\* Every step keeps the use counts exact.
LEMMA CountedStep == TypeOK /\ Listed /\ Counted /\ [Next]_vars => Counted'
<1> SUFFICES ASSUME TypeOK, Listed, Counted, [Next]_vars PROVE Counted' OBVIOUS
<1> USE NullKinds
<1>q. /\ Len(queue) \in Nat /\ DOMAIN queue = 1 .. Len(queue)
      /\ \A i \in DOMAIN queue : queue[i] \in Tasks
  BY LenProperties, ElementOfSeq DEF TypeOK
<1>1. ASSUME NEW k \in Tasks, Push(k) PROVE Counted'
  <2>1. queue' = Append(queue, k) /\ todo' = todo \ {k} /\ k \in todo BY <1>1 DEF Push
  <2>2. /\ DOMAIN queue' = 1 .. Len(queue) + 1 /\ Len(queue') = Len(queue) + 1
        /\ \A i \in 1 .. Len(queue) : queue'[i] = queue[i]
        /\ queue'[Len(queue) + 1] = k
    BY <2>1, <1>q, AppendProperties, LenProperties DEF TypeOK
  <2>3. wpc = "out" /\ wpc' \in {"first", "append"} /\ UNCHANGED <<curr, refs, temp, rpc, shown>>
    BY <1>1 DEF Push, Goto, shared, reader
  <2>4. \A j : Fresh(j)' <=> Fresh(j)
    BY <2>1, <2>2, <2>3, <1>q DEF Fresh
  <2>5. \A j : Count(j)' = Count(j) BY <2>3 DEF Count, One
  <2>6. \A i, j \in DOMAIN queue' : queue'[i] = queue'[j] => i = j
    BY <2>1, <2>2, <1>q DEF Counted
  <2>7. \A i \in DOMAIN queue' : queue'[i] \notin todo' BY <2>1, <2>2, <1>q DEF Counted
  <2>8. ~Fresh(curr) /\ ~Fresh(shown) /\ (rpc = "count" => shown # Null)
        /\ \A j \in Tasks : refs[j] = Count(j)
    BY DEF Counted
  <2>9. ~Fresh(curr)' /\ ~Fresh(shown)' BY <2>8, <2>4, <2>3 DEF Fresh
  <2> QED BY <2>3, <2>5, <2>6, <2>7, <2>8, <2>9 DEF Counted
<1>2. ASSUME FirstTail \/ FirstHead \/ AppendTail \/ AppendPrev \/ AppendNext
             \/ PopOnly \/ ClearTail \/ ClearHead \/ PopHead \/ PopPrev \/ PopDelete
      PROVE  Counted'
  <2>1. /\ UNCHANGED <<curr, refs, temp, rpc, shown, todo, queue>>
        /\ wpc # "assign" /\ wpc # "release" /\ wpc' # "assign" /\ wpc' # "release"
    BY <1>2 DEF FirstTail, FirstHead, AppendTail, AppendPrev, AppendNext, PopOnly, ClearTail,
         ClearHead, PopHead, PopPrev, PopDelete, Goto, rest, shared, reader
  <2> QED BY <2>1 DEF Counted, Fresh, Count, One
<1>5. ASSUME MoveFront PROVE Counted'
  <2>1. wpc = "out" /\ head # Null /\ wpc' = "assign" /\ UNCHANGED <<curr, refs, rpc, shown, todo>>
    BY <1>5 DEF MoveFront, Goto, shared, reader
  <2>2. temp' = queue[1] /\ queue # <<>> /\ queue' = Tail(queue) BY <1>5, <2>1, Dereferenced DEF MoveFront
  <2>3. /\ DOMAIN queue' = 1 .. Len(queue) - 1 /\ Len(queue) > 0
        /\ \A i \in 1 .. Len(queue) - 1 : queue'[i] = queue[i + 1]
    BY <2>2, <1>q, HeadTailProperties, LenProperties, EmptySeq DEF TypeOK
  <2>4. \A j : Fresh(j)' <=> Fresh(j)
    <3> SUFFICES ASSUME NEW j PROVE Fresh(j)' <=> Fresh(j) OBVIOUS
    <3>1. Fresh(j)' => Fresh(j)
      BY <2>1, <2>2, <2>3, <1>q DEF Fresh
    <3>2. ASSUME NEW i \in DOMAIN queue, queue[i] = j PROVE Fresh(j)'
      <4>1. CASE i = 1 BY <4>1, <3>2, <2>1, <2>2 DEF Fresh
      <4>2. CASE i # 1
        <5>1. i - 1 \in DOMAIN queue' /\ queue'[i - 1] = j BY <3>2, <4>2, <2>3, <1>q
        <5> QED BY <5>1 DEF Fresh
      <4> QED BY <4>1, <4>2
    <3> QED BY <3>1, <3>2, <2>1 DEF Fresh
  <2>5. \A j : Count(j)' = Count(j) BY <2>1 DEF Count, One
  <2>6. \A i, j \in DOMAIN queue' : queue'[i] = queue'[j] => i = j
    BY <2>3, <1>q DEF Counted
  <2>7. \A i \in DOMAIN queue' : queue'[i] \notin todo' BY <2>1, <2>3, <1>q DEF Counted
  <2>8. ~Fresh(curr) /\ ~Fresh(shown) /\ (rpc = "count" => shown # Null)
        /\ \A j \in Tasks : refs[j] = Count(j)
    BY DEF Counted
  <2>9. ~Fresh(curr)' /\ ~Fresh(shown)' BY <2>8, <2>4, <2>1 DEF Fresh
  <2>10. temp' \in Tasks \ todo' BY <2>1, <2>2, <2>3, <1>q DEF Counted
  <2>11. \A i \in DOMAIN queue' : queue'[i] # temp' BY <2>2, <2>3, <1>q DEF Counted
  <2> QED BY <2>1, <2>5, <2>6, <2>7, <2>8, <2>9, <2>10, <2>11 DEF Counted
<1>6. ASSUME AssignCurr PROVE Counted'
  <2>1. /\ wpc = "assign" /\ wpc' = "release" /\ curr' = temp /\ temp' = curr
        /\ refs' = [refs EXCEPT ![temp] = 1] /\ UNCHANGED <<rpc, shown, todo, queue>>
    BY <1>6 DEF AssignCurr, Goto, reader, list
  <2>2. temp \in Tasks /\ curr # temp /\ shown # temp /\ Fresh(temp) BY <2>1 DEF Counted, Fresh
  <2>3. \A j \in Tasks : refs'[j] = Count(j)'
    <3> SUFFICES ASSUME NEW j \in Tasks PROVE refs'[j] = Count(j)' OBVIOUS
    <3>1. refs[j] = Count(j) BY DEF Counted
    <3>2. refs'[j] = IF j = temp THEN 1 ELSE refs[j] BY <2>1 DEF TypeOK
    <3> QED BY <3>1, <3>2, <2>1, <2>2 DEF Count, One
  <2>4. ~Fresh(curr)' /\ ~Fresh(shown)' /\ ~Fresh(temp)' BY <2>1, <2>2 DEF Counted, Fresh
  <2> QED BY <2>1, <2>2, <2>3, <2>4 DEF Counted
<1>7. ASSUME ReleaseOld PROVE Counted'
  <2>1. /\ wpc = "release" /\ wpc' = "pop" /\ temp' = Null
        /\ refs' = IF temp = Null THEN refs ELSE [refs EXCEPT ![temp] = @ - 1]
        /\ UNCHANGED <<curr, rpc, shown, todo, queue>>
    BY <1>7 DEF ReleaseOld, Goto, reader, list
  <2>3. \A j \in Tasks : refs'[j] = Count(j)'
    <3> SUFFICES ASSUME NEW j \in Tasks PROVE refs'[j] = Count(j)' OBVIOUS
    <3>1. refs[j] = Count(j) BY DEF Counted
    <3>2. refs'[j] = IF j = temp THEN refs[j] - 1 ELSE refs[j] BY <2>1 DEF TypeOK
    <3> QED BY <3>1, <3>2, <2>1 DEF Count, One
  <2> QED BY <2>1, <2>3 DEF Counted, Fresh
<1>13. ASSUME Begin \/ CopyValue \/ Advance \/ Dereference PROVE Counted'
  <2>1. /\ UNCHANGED <<curr, refs, temp, shown, todo, queue, wpc>>
        /\ rpc # "answer" /\ rpc' # "answer" /\ rpc' # "count"
    BY <1>13 DEF Begin, CopyValue, Advance, Dereference, At, list, shared, writer
  <2> QED BY <2>1 DEF Counted, Fresh, Count, One
<1>16. ASSUME LoadCurr PROVE Counted'
  <2>1. /\ UNCHANGED <<curr, refs, temp, todo, queue, wpc>> /\ rpc = "copied" /\ shown' = curr
        /\ rpc' = IF curr = Null THEN "answer" ELSE "count"
    BY <1>16 DEF LoadCurr, list, shared, writer
  <2>3. \A j \in Tasks : Count(j)' = Count(j) BY <2>1 DEF Count, One
  <2> QED BY <2>1, <2>3 DEF Counted, Fresh
<1>17. ASSUME CountCurr PROVE Counted'
  <2>1. /\ UNCHANGED <<curr, shown, temp, todo, queue, wpc>> /\ rpc = "count" /\ rpc' = "answer"
        /\ refs' = [refs EXCEPT ![shown] = @ + 1]
    BY <1>17 DEF CountCurr, list, writer
  <2>3. \A j \in Tasks : refs'[j] = Count(j)'
    <3> SUFFICES ASSUME NEW j \in Tasks PROVE refs'[j] = Count(j)' OBVIOUS
    <3>1. refs[j] = Count(j) BY DEF Counted
    <3>2. refs'[j] = IF j = shown THEN refs[j] + 1 ELSE refs[j] BY <2>1 DEF TypeOK
    <3> QED BY <3>1, <3>2, <2>1 DEF Count, One
  <2> QED BY <2>1, <2>3 DEF Counted, Fresh
<1>18. ASSUME Respond PROVE Counted'
  <2>1. /\ UNCHANGED <<curr, temp, todo, queue, wpc>> /\ rpc = "answer" /\ rpc' = "idle"
        /\ shown' = Null
        /\ refs' = IF shown = Null THEN refs ELSE [refs EXCEPT ![shown] = @ - 1]
    BY <1>18 DEF Respond, list, writer
  <2>3. \A j \in Tasks : refs'[j] = Count(j)'
    <3> SUFFICES ASSUME NEW j \in Tasks PROVE refs'[j] = Count(j)' OBVIOUS
    <3>1. refs[j] = Count(j) BY DEF Counted
    <3>2. refs'[j] = IF j = shown THEN refs[j] - 1 ELSE refs[j] BY <2>1 DEF TypeOK
    <3> QED BY <3>1, <3>2, <2>1 DEF Count, One
  <2>4. ~Fresh(Null) BY <1>q DEF Fresh, Counted, TypeOK
  <2> QED BY <2>1, <2>3, <2>4 DEF Counted, Fresh
<1>19. CASE UNCHANGED vars BY <1>19 DEF vars, Counted, Fresh, Count, One
<1> QED
  BY <1>1, <1>2, <1>5, <1>6, <1>7, <1>13, <1>16, <1>17, <1>18, <1>19 DEF Next, Write, Read

-----------------------------------------------------------------------------
(* The step: the list                                                       *)

\* Every store of a writer, and every step of the reader, keeps the numbering.
LEMMA ListedStep == TypeOK /\ Listed /\ Counted /\ [Next]_vars => Listed'
<1> SUFFICES ASSUME TypeOK, Listed, Counted, [Next]_vars PROVE Listed' OBVIOUS
<1> USE NullKinds
<1>q. /\ Len(queue) \in Nat /\ DOMAIN queue = 1 .. Len(queue)
      /\ \A i \in DOMAIN queue : queue[i] \in Tasks
  BY LenProperties, ElementOfSeq DEF TypeOK
<1>n. PICK n \in Nat : n = Size /\ Offset \in {0, 1} /\ n = Len(queue) + Offset BY Sized
<1>p. PICK p \in [1 .. n -> Nodes] : Shape(p, n) BY <1>n DEF Listed
<1>h. heap \in [Nodes -> Cell \cup {Free}] BY DEF TypeOK
<1>s. /\ \A i \in 1 .. n : p[i] \in Nodes /\ heap[p[i]] \in Cell
      /\ \A i, j \in 1 .. n : p[i] = p[j] => i = j
      /\ \A m \in Used : \E i \in 1 .. n : p[i] = m
  BY <1>p DEF Shape, Numbered
<1>t. TypeOK' BY TypeStep
\* It is enough to give the nodes of the next state.
<1>w. ASSUME NEW CONSTANT m \in Nat, Size' = m, NEW CONSTANT r \in [1 .. m -> Nodes], Shape(r, m)' 
      PROVE  Listed'
  BY <1>w DEF Listed
<1>1. ASSUME NEW k \in Tasks, Push(k) PROVE Listed'
  <2>1. PICK x \in {m \in Nodes : heap[m] = Free} :
          /\ heap' = [heap EXCEPT ![x] = [value |-> k, prev |-> Null, next |-> Null]]
          /\ new' = x
    BY <1>1 DEF Push
  <2> DEFINE c == [value |-> k, prev |-> Null, next |-> Null]
  <2>2. c \in Cell /\ c.value = k /\ c.prev = Null /\ c.next = Null BY DEF Cell
  <2>3. /\ wpc = "out" /\ wpc' = (IF head = Null THEN "first" ELSE "append") /\ disturbed' = TRUE
        /\ queue' = Append(queue, k) /\ UNCHANGED <<head, tail>>
    BY <1>1 DEF Push, Goto
  <2>4. /\ Len(queue') = Len(queue) + 1
        /\ \A i \in 1 .. Len(queue) : queue'[i] = queue[i]
        /\ queue'[Len(queue) + 1] = k
    BY <2>3, AppendProperties DEF TypeOK
  <2>5. Offset = 0 /\ Offset' = 0 /\ n = Len(queue) /\ Size' = n + 1
    BY <2>3, <2>4, <1>n DEF Offset, Popping, Size
  <2>6. head = (IF n = 0 THEN Null ELSE p[1]) /\ tail = (IF n = 0 THEN Null ELSE p[n])
    BY <1>p, <2>3 DEF Shape, Pointed
  <2> DEFINE r == [i \in 1 .. n + 1 |-> IF i = n + 1 THEN x ELSE p[i]]
  <2>7. /\ r \in [1 .. n + 1 -> Nodes] /\ r[n + 1] = x /\ \A i \in 1 .. n : r[i] = p[i]
    BY <1>s, <1>n
  <2>8. /\ heap'[x] = c
        /\ \A m \in Nodes : m # x => heap'[m] = heap[m]
        /\ \A i \in 1 .. n : p[i] # x
    BY <2>1, <1>h, <1>s
  <2>9. Used' = Used \cup {x} BY <2>1, <2>2, <2>8, <1>h DEF Used
  <2>10. wpc' = (IF n = 0 THEN "first" ELSE "append")
    BY <2>3, <2>6, <1>s, <1>n
  <2> HIDE DEF r, c
  <2>11. Numbered(r, n + 1)'
    <3>1. \A i \in 1 .. n + 1 : r[i] \in Nodes /\ heap'[r[i]] \in Cell
      BY <2>7, <2>8, <2>2, <1>s, <1>n
    <3>2. \A i, j \in 1 .. n + 1 : r[i] = r[j] => i = j BY <2>7, <2>8, <1>s, <1>n
    <3>3. \A m \in Used' : \E i \in 1 .. n + 1 : r[i] = m
      <4> SUFFICES ASSUME NEW m \in Used' PROVE \E i \in 1 .. n + 1 : r[i] = m OBVIOUS
      <4>1. CASE m = x BY <4>1, <2>7, <1>n
      <4>2. CASE m \in Used BY <4>2, <2>7, <1>s, <1>n
      <4> QED BY <4>1, <4>2, <2>9
    <3> QED BY <3>1, <3>2, <3>3, <2>10, <1>n DEF Numbered, Starting, Appending, Clearing
  <2>12. Chained(r, n + 1)'
    <3> SUFFICES ASSUME NEW i \in 1 .. n + 1
                 PROVE  /\ heap'[r[i]].value = queue'[i]
                        /\ heap'[r[i]].prev = PrevAt(r, n + 1, i)'
                        /\ heap'[r[i]].next = NextAt(r, n + 1, i)'
      BY <2>5 DEF Chained
    <3>1. CASE i = n + 1
      BY <3>1, <2>7, <2>8, <2>2, <2>4, <2>5, <2>10 DEF PrevAt, NextAt
    <3>2. CASE i \in 1 .. n
      <4>1. heap'[r[i]] = heap[p[i]] BY <3>2, <2>7, <2>8, <1>s
      <4>2. /\ heap[p[i]].value = queue[i]
            /\ heap[p[i]].prev = PrevAt(p, n, i)
            /\ heap[p[i]].next = NextAt(p, n, i)
        BY <3>2, <1>p, <1>q, <1>n, <2>5 DEF Shape, Chained
      <4>3. PrevAt(r, n + 1, i)' = PrevAt(p, n, i)
        BY <3>2, <2>3, <2>10, <2>7, <1>n DEF PrevAt
      <4>4. NextAt(r, n + 1, i)' = NextAt(p, n, i)
        BY <3>2, <2>3, <2>10, <2>7, <1>n DEF NextAt, Appending
      <4>5. queue'[i] = queue[i] BY <3>2, <2>4, <2>5
      <4> QED BY <4>1, <4>2, <4>3, <4>4, <4>5
    <3> QED BY <3>1, <3>2, <1>n
  <2>13. Pointed(r, n + 1)'
    BY <2>10, <2>6, <2>3, <2>1, <2>7, <1>n DEF Pointed, Starting, Appending, Popping
  <2>14. Reading(r, n + 1)' BY <2>3 DEF Reading
  <2>15. n + 1 \in Nat BY <1>n
  <2> QED BY <1>w, <2>5, <2>7, <2>11, <2>12, <2>13, <2>14, <2>15 DEF Shape
\* After a store that keeps as many nodes: the same nodes.
<1>k. ASSUME /\ disturbed' = TRUE /\ Len(queue') + Offset' = n
             /\ Numbered(p, n)' /\ Chained(p, n)' /\ Pointed(p, n)'
      PROVE  Listed'
  <2>1. Size' = n BY <1>k DEF Size
  <2>2. Reading(p, n)' BY <1>k DEF Reading
  <2> QED BY <1>w, <1>k, <2>1, <2>2 DEF Shape
\* ... and a store to one cell changes that cell alone.
<1>e. ASSUME NEW j \in 1 .. n, NEW CONSTANT c \in Cell, heap' = [heap EXCEPT ![p[j]] = c]
      PROVE  /\ heap'[p[j]] = c
             /\ \A i \in 1 .. n : i # j => heap'[p[i]] = heap[p[i]]
             /\ \A i \in 1 .. n : p[i] \in Nodes /\ heap'[p[i]] \in Cell
             /\ Used' = Used
  <2>1. p[j] \in Nodes /\ heap[p[j]] \in Cell BY <1>s
  <2>2. heap'[p[j]] = c BY <1>e, <2>1, <1>h
  <2>3. \A i \in 1 .. n : i # j => heap'[p[i]] = heap[p[i]] BY <1>e, <1>s, <1>h
  <2>4. \A i \in 1 .. n : p[i] \in Nodes /\ heap'[p[i]] \in Cell BY <2>2, <2>3, <1>s
  <2>5. \A m \in Nodes : m # p[j] => heap'[m] = heap[m] BY <1>e, <1>h
  <2>6. Used' = Used BY <2>1, <2>2, <2>5 DEF Used
  <2> QED BY <2>2, <2>3, <2>4, <2>6
<1>u. ASSUME UNCHANGED heap PROVE Used' = Used BY <1>u DEF Used
<1>c. \A i \in 1 .. n :
        /\ i > Offset => heap[p[i]].value = queue[i - Offset]
        /\ heap[p[i]].prev = PrevAt(p, n, i)
        /\ heap[p[i]].next = NextAt(p, n, i)
  BY <1>p DEF Shape, Chained
<1>2. ASSUME FirstTail PROVE Listed'
  <2>1. /\ wpc = "first" /\ wpc' = "first_head" /\ tail' = new /\ disturbed' = TRUE
        /\ UNCHANGED <<heap, head, new, old, queue>>
    BY <1>2 DEF FirstTail, Goto, rest
  <2>2. Offset' = Offset BY <2>1 DEF Offset, Popping
  <2>3. Numbered(p, n)' BY <2>1, <1>p, <1>u DEF Shape, Numbered, Starting, Appending, Clearing
  <2>4. Chained(p, n)' BY <2>1, <2>2, <1>c DEF Chained, PrevAt, NextAt, Appending
  <2>5. Pointed(p, n)' BY <2>1, <1>p DEF Shape, Numbered, Pointed, Starting, Appending, Popping
  <2> QED BY <1>k, <1>n, <2>1, <2>2, <2>3, <2>4, <2>5
<1>3. ASSUME FirstHead PROVE Listed'
  <2>1. /\ wpc = "first_head" /\ wpc' = "out" /\ head' = tail /\ disturbed' = TRUE
        /\ UNCHANGED <<heap, tail, new, old, queue>>
    BY <1>3 DEF FirstHead, Goto, rest
  <2>2. Offset' = Offset BY <2>1 DEF Offset, Popping
  <2>3. Numbered(p, n)' BY <2>1, <1>p, <1>u DEF Shape, Numbered, Starting, Appending, Clearing
  <2>4. Chained(p, n)' BY <2>1, <2>2, <1>c DEF Chained, PrevAt, NextAt, Appending
  <2>5. Pointed(p, n)' BY <2>1, <1>p DEF Shape, Numbered, Pointed, Starting, Appending, Popping
  <2> QED BY <1>k, <1>n, <2>1, <2>2, <2>3, <2>4, <2>5
<1>4. ASSUME AppendTail PROVE Listed'
  <2>1. /\ wpc = "append" /\ wpc' = "append_prev" /\ old' = tail /\ tail' = new /\ disturbed' = TRUE
        /\ UNCHANGED <<heap, head, new, queue>>
    BY <1>4 DEF AppendTail, Goto, rest
  <2>2. Offset' = Offset BY <2>1 DEF Offset, Popping
  <2>3. Numbered(p, n)' BY <2>1, <1>p, <1>u DEF Shape, Numbered, Starting, Appending, Clearing
  <2>4. Chained(p, n)' BY <2>1, <2>2, <1>c DEF Chained, PrevAt, NextAt, Appending
  <2>5. Pointed(p, n)' BY <2>1, <1>p DEF Shape, Numbered, Pointed, Starting, Appending, Popping
  <2> QED BY <1>k, <1>n, <2>1, <2>2, <2>3, <2>4, <2>5
<1>5. ASSUME AppendPrev PROVE Listed'
  <2>1. /\ wpc = "append_prev" /\ wpc' = "append_next" /\ heap' = [heap EXCEPT ![tail].prev = old]
        /\ disturbed' = TRUE /\ UNCHANGED <<head, tail, new, old, queue>>
    BY <1>5 DEF AppendPrev, Goto, rest
  <2>2. Offset' = Offset BY <2>1 DEF Offset, Popping
  <2>a. n >= 2 /\ n \in 1 .. n /\ tail = p[n] /\ old = p[n - 1] /\ old \in Nodes
    BY <2>1, <1>p, <1>s DEF Shape, Numbered, Pointed, Appending
  <2> DEFINE c == [heap[p[n]] EXCEPT !.prev = p[n - 1]]
  <2>b. c \in Cell /\ c.value = heap[p[n]].value /\ c.prev = p[n - 1] /\ c.next = heap[p[n]].next
    <3>1. heap[p[n]] \in Cell /\ p[n - 1] \in Nodes \cup {Null} BY <2>a, <1>s
    <3> QED BY ONLY <3>1, CellUpdate
  <2>c. heap' = [heap EXCEPT ![p[n]] = c] BY <2>1, <2>a
  <2> HIDE DEF c
  <2>d. /\ heap'[p[n]] = c
        /\ \A i \in 1 .. n : i # n => heap'[p[i]] = heap[p[i]]
        /\ \A i \in 1 .. n : p[i] \in Nodes /\ heap'[p[i]] \in Cell
        /\ Used' = Used
    BY <1>e, <2>a, <2>b, <2>c
  <2>3. Numbered(p, n)' BY <2>1, <2>a, <2>d, <1>s DEF Numbered, Starting, Appending, Clearing
  <2>4. Chained(p, n)'
    <3> SUFFICES ASSUME NEW i \in 1 .. n
                 PROVE  /\ i > Offset => heap'[p[i]].value = queue[i - Offset]
                        /\ heap'[p[i]].prev = PrevAt(p, n, i)'
                        /\ heap'[p[i]].next = NextAt(p, n, i)'
      BY <2>1, <2>2 DEF Chained
    <3>1. CASE i = n BY <3>1, <2>1, <2>a, <2>b, <2>d, <1>c DEF PrevAt, NextAt, Appending
    <3>2. CASE i # n
      <4>1. heap'[p[i]] = heap[p[i]] BY <3>2, <2>d
      <4>2. PrevAt(p, n, i)' = PrevAt(p, n, i) BY <3>2, <2>1 DEF PrevAt
      <4>3. NextAt(p, n, i)' = NextAt(p, n, i) BY <3>2, <2>1 DEF NextAt, Appending
      <4> QED BY <4>1, <4>2, <4>3, <1>c
    <3> QED BY <3>1, <3>2
  <2>5. Pointed(p, n)' BY <2>1, <1>p DEF Shape, Numbered, Pointed, Starting, Appending, Popping
  <2> QED BY <1>k, <1>n, <2>1, <2>2, <2>3, <2>4, <2>5
<1>6. ASSUME AppendNext PROVE Listed'
  <2>1. /\ wpc = "append_next" /\ wpc' = "out" /\ heap' = [heap EXCEPT ![old].next = tail]
        /\ disturbed' = TRUE /\ UNCHANGED <<head, tail, new, old, queue>>
    BY <1>6 DEF AppendNext, Goto, rest
  <2>2. Offset' = Offset BY <2>1 DEF Offset, Popping
  <2>a. n >= 2 /\ n - 1 \in 1 .. n /\ tail = p[n] /\ old = p[n - 1] /\ p[n] \in Nodes
    BY <2>1, <1>p, <1>s DEF Shape, Numbered, Pointed, Appending
  <2> DEFINE c == [heap[p[n - 1]] EXCEPT !.next = p[n]]
  <2>b. /\ c \in Cell /\ c.next = p[n]
        /\ c.value = heap[p[n - 1]].value /\ c.prev = heap[p[n - 1]].prev
    <3>1. heap[p[n - 1]] \in Cell /\ p[n] \in Nodes \cup {Null} BY <2>a, <1>s
    <3> QED BY ONLY <3>1, CellUpdate
  <2>c. heap' = [heap EXCEPT ![p[n - 1]] = c] BY <2>1, <2>a
  <2> HIDE DEF c
  <2>d. /\ heap'[p[n - 1]] = c
        /\ \A i \in 1 .. n : i # n - 1 => heap'[p[i]] = heap[p[i]]
        /\ \A i \in 1 .. n : p[i] \in Nodes /\ heap'[p[i]] \in Cell
        /\ Used' = Used
    BY <1>e, <2>a, <2>b, <2>c
  <2>3. Numbered(p, n)' BY <2>1, <2>a, <2>d, <1>s DEF Numbered, Starting, Appending, Clearing
  <2>4. Chained(p, n)'
    <3> SUFFICES ASSUME NEW i \in 1 .. n
                 PROVE  /\ i > Offset => heap'[p[i]].value = queue[i - Offset]
                        /\ heap'[p[i]].prev = PrevAt(p, n, i)'
                        /\ heap'[p[i]].next = NextAt(p, n, i)'
      BY <2>1, <2>2 DEF Chained
    <3>1. CASE i = n - 1 BY <3>1, <2>1, <2>a, <2>b, <2>d, <1>c DEF PrevAt, NextAt, Appending
    <3>2. CASE i # n - 1
      <4>1. heap'[p[i]] = heap[p[i]] BY <3>2, <2>d
      <4>2. PrevAt(p, n, i)' = PrevAt(p, n, i) BY <3>2, <2>1 DEF PrevAt
      <4>3. NextAt(p, n, i)' = NextAt(p, n, i) BY <3>2, <2>1 DEF NextAt, Appending
      <4> QED BY <4>1, <4>2, <4>3, <1>c
    <3> QED BY <3>1, <3>2
  <2>5. Pointed(p, n)' BY <2>1, <2>a, <1>p DEF Shape, Numbered, Pointed, Starting, Appending, Popping
  <2> QED BY <1>k, <1>n, <2>1, <2>2, <2>3, <2>4, <2>5
<1>7. ASSUME MoveFront PROVE Listed'
  <2>1. /\ wpc = "out" /\ wpc' = "assign" /\ heap' = [heap EXCEPT ![head].value = Moved] 
        /\ head # Null /\ disturbed' = TRUE /\ queue' = Tail(queue) /\ UNCHANGED <<head, tail, new, old>>
    BY <1>7 DEF MoveFront, Goto
  <2>2. Offset = 0 /\ Offset' = 1 BY <2>1 DEF Offset, Popping
  <2>a. n >= 1 /\ 1 \in 1 .. n /\ head = p[1]
    BY <2>1, <1>p DEF Shape, Numbered, Pointed
  <2>e. /\ Len(queue') = n - 1
        /\ \A i \in 1 .. n - 1 : queue'[i] = queue[i + 1]
    BY <2>1, <2>2, <2>a, <1>n, <1>q, HeadTailProperties, EmptySeq DEF TypeOK
  <2> DEFINE c == [heap[p[1]] EXCEPT !.value = Moved]
  <2>b. c \in Cell /\ c.prev = heap[p[1]].prev /\ c.next = heap[p[1]].next
    <3>1. heap[p[1]] \in Cell BY <2>a, <1>s
    <3> QED BY ONLY <3>1, CellUpdate
  <2>c. heap' = [heap EXCEPT ![p[1]] = c] BY <2>1, <2>a
  <2> HIDE DEF c
  <2>d. /\ heap'[p[1]] = c
        /\ \A i \in 1 .. n : i # 1 => heap'[p[i]] = heap[p[i]]
        /\ \A i \in 1 .. n : p[i] \in Nodes /\ heap'[p[i]] \in Cell
        /\ Used' = Used
    BY <1>e, <2>a, <2>b, <2>c
  <2>3. Numbered(p, n)' BY <2>1, <2>a, <2>d, <1>s DEF Numbered, Starting, Appending, Clearing
  <2>4. Chained(p, n)'
    <3> SUFFICES ASSUME NEW i \in 1 .. n
                 PROVE  /\ i > 1 => heap'[p[i]].value = queue'[i - 1]
                        /\ heap'[p[i]].prev = PrevAt(p, n, i)'
                        /\ heap'[p[i]].next = NextAt(p, n, i)'
      BY <2>1, <2>2 DEF Chained
    <3>1. CASE i = 1 BY <3>1, <2>1, <2>a, <2>b, <2>d, <1>c DEF PrevAt, NextAt, Appending
    <3>2. CASE i # 1
      <4>1. heap'[p[i]] = heap[p[i]] BY <3>2, <2>d
      <4>2. queue'[i - 1] = queue[i] BY <3>2, <2>e
      <4>3. heap[p[i]].value = queue[i] BY <2>2, <1>c
      <4>4. PrevAt(p, n, i)' = PrevAt(p, n, i) BY <2>1 DEF PrevAt
      <4>5. NextAt(p, n, i)' = NextAt(p, n, i) BY <2>1 DEF NextAt, Appending
      <4> QED BY <4>1, <4>2, <4>3, <4>4, <4>5, <1>c
    <3> QED BY <3>1, <3>2
  <2>5. Pointed(p, n)' BY <2>1, <2>a, <1>p DEF Shape, Numbered, Pointed, Starting, Appending, Popping
  <2> QED BY <1>k, <2>e, <2>1, <2>2, <2>3, <2>4, <2>5
<1>8. ASSUME AssignCurr \/ ReleaseOld PROVE Listed'
  <2>1. /\ wpc \in {"assign", "release"} /\ wpc' \in {"release", "pop"}
        /\ disturbed' = TRUE /\ UNCHANGED <<heap, head, tail, new, old, queue>>
    BY <1>8 DEF AssignCurr, ReleaseOld, Goto, list
  <2>2. Offset' = Offset BY <2>1 DEF Offset, Popping
  <2>3. Numbered(p, n)' BY <2>1, <1>p, <1>u DEF Shape, Numbered, Starting, Appending, Clearing
  <2>4. Chained(p, n)' BY <2>1, <2>2, <1>c DEF Chained, PrevAt, NextAt, Appending
  <2>5. Pointed(p, n)' BY <2>1, <1>p DEF Shape, Numbered, Pointed, Starting, Appending, Popping
  <2> QED BY <1>k, <1>n, <2>1, <2>2, <2>3, <2>4, <2>5
<1>9. ASSUME PopOnly PROVE Listed'
  <2>1. /\ wpc = "pop" /\ wpc' = "clear_tail" /\ head = tail /\ heap' = [heap EXCEPT ![head] = Free]
        /\ disturbed' = TRUE /\ UNCHANGED <<head, tail, queue>>
    BY <1>9 DEF PopOnly, Goto, rest
  <2>2. Offset = 1 /\ Offset' = 0 BY <2>1 DEF Offset, Popping
  <2>3. n >= 1 BY <2>2, <1>n, <1>q
  <2>4. head = p[1] /\ tail = p[n] BY <2>1, <2>3, <1>p DEF Shape, Pointed, Popping
  <2>5. n = 1
    <3>1. p[1] = p[n] BY <2>1, <2>4
    <3>2. 1 \in 1 .. n /\ n \in 1 .. n BY <2>3
    <3> QED BY <3>1, <3>2, <1>s
  <2>6. Size' = 0 BY <2>1, <2>2, <2>5, <1>n, <1>q DEF Size
  <2>7. Used' = {}
    <3>1. Used \subseteq {head} BY <2>4, <2>5, <1>s
    <3>2. \A m \in Nodes : m # head => heap'[m] = heap[m] BY <2>1, <1>h
    <3>3. heap'[head] = Free BY <2>1, <2>3, <2>4, <1>s, <1>h
    <3> QED BY <3>1, <3>2, <3>3 DEF Used
  <2> DEFINE r == [i \in 1 .. 0 |-> CHOOSE m \in Nodes : TRUE]
  <2>8. r \in [1 .. 0 -> Nodes] OBVIOUS
  <2> HIDE DEF r
  <2>9. Numbered(r, 0)' /\ Chained(r, 0)' /\ Pointed(r, 0)' /\ Reading(r, 0)'
    BY <2>1, <2>7
    DEF Numbered, Chained, Pointed, Reading, Appending, Clearing, Starting, Popping
  <2> QED BY <1>w, <2>6, <2>8, <2>9 DEF Shape
<1>10. ASSUME ClearTail \/ ClearHead PROVE Listed'
  <2>1. /\ wpc \in Clearing /\ wpc' = (IF wpc = "clear_tail" THEN "clear_head" ELSE "out")
        /\ disturbed' = TRUE /\ UNCHANGED <<heap, queue>>
        /\ wpc = "clear_tail" => tail' = Null
        /\ wpc = "clear_head" => head' = Null /\ tail' = tail
    BY <1>10 DEF ClearTail, ClearHead, Goto, rest, Clearing
  <2>2. Offset' = Offset BY <2>1 DEF Offset, Popping, Clearing
  <2>3. n = 0 BY <2>1, <1>p DEF Shape, Numbered
  <2>4. Numbered(p, n)' BY <2>1, <2>3, <1>s, <1>u DEF Numbered, Starting, Appending, Clearing
  <2>5. Chained(p, n)' BY <2>3 DEF Chained
  <2>6. Pointed(p, n)' BY <2>1, <2>3, <1>p DEF Shape, Pointed, Starting, Appending, Popping, Clearing
  <2> QED BY <1>k, <1>n, <2>1, <2>2, <2>4, <2>5, <2>6
<1>11. ASSUME PopHead PROVE Listed'
  <2>1. /\ wpc = "pop" /\ wpc' = "pop_prev" /\ head # tail /\ old' = head /\ head' = heap[head].next
        /\ disturbed' = TRUE /\ UNCHANGED <<heap, tail, queue>>
    BY <1>11 DEF PopHead, Goto, rest
  <2>2. Offset = 1 /\ Offset' = 1 BY <2>1 DEF Offset, Popping
  <2>a. n >= 1 BY <2>2, <1>n, <1>q
  <2>b. head = p[1] /\ tail = p[n] BY <2>1, <2>a, <1>p DEF Shape, Pointed, Popping
  <2>c. n >= 2 BY <2>1, <2>a, <2>b
  <2>d. heap[p[1]].next = p[2] BY <2>1, <2>c, <1>c DEF NextAt, Appending
  <2>3. Numbered(p, n)' BY <2>1, <2>c, <1>s, <1>u DEF Numbered, Starting, Appending, Clearing
  <2>4. Chained(p, n)' BY <2>1, <2>2, <1>c DEF Chained, PrevAt, NextAt, Appending
  <2>5. Pointed(p, n)' BY <2>1, <2>b, <2>c, <2>d DEF Pointed, Starting, Appending, Popping
  <2> QED BY <1>k, <1>n, <2>1, <2>2, <2>3, <2>4, <2>5
<1>12. ASSUME PopPrev PROVE Listed'
  <2>1. /\ wpc = "pop_prev" /\ wpc' = "pop_delete" /\ heap' = [heap EXCEPT ![head].prev = Null]
        /\ disturbed' = TRUE /\ UNCHANGED <<head, tail, new, old, queue>>
    BY <1>12 DEF PopPrev, Goto, rest
  <2>2. Offset' = Offset BY <2>1 DEF Offset, Popping
  <2>a. n >= 2 /\ 2 \in 1 .. n /\ head = p[2]
    BY <2>1, <1>p, <1>s DEF Shape, Numbered, Pointed
  <2> DEFINE c == [heap[p[2]] EXCEPT !.prev = Null]
  <2>b. c \in Cell /\ c.value = heap[p[2]].value /\ c.prev = Null /\ c.next = heap[p[2]].next
    <3>1. PICK x \in Cell : x = heap[p[2]] BY <2>a, <1>s
    <3>2. /\ [x EXCEPT !.prev = Null] \in Cell /\ [x EXCEPT !.prev = Null].value = x.value
          /\ [x EXCEPT !.prev = Null].prev = Null /\ [x EXCEPT !.prev = Null].next = x.next
      BY ONLY x \in Cell DEF Cell
    <3> QED BY <3>1, <3>2, Zenon
  <2>c. heap' = [heap EXCEPT ![p[2]] = c] BY <2>1, <2>a
  <2> HIDE DEF c
  <2>d. /\ heap'[p[2]] = c
        /\ \A i \in 1 .. n : i # 2 => heap'[p[i]] = heap[p[i]]
        /\ \A i \in 1 .. n : p[i] \in Nodes /\ heap'[p[i]] \in Cell
        /\ Used' = Used
    BY <1>e, <2>a, <2>b, <2>c
  <2>3. Numbered(p, n)' BY <2>1, <2>a, <2>d, <1>s DEF Numbered, Starting, Appending, Clearing
  <2>4. Chained(p, n)'
    <3> SUFFICES ASSUME NEW i \in 1 .. n
                 PROVE  /\ i > Offset => heap'[p[i]].value = queue[i - Offset]
                        /\ heap'[p[i]].prev = PrevAt(p, n, i)'
                        /\ heap'[p[i]].next = NextAt(p, n, i)'
      BY <2>1, <2>2 DEF Chained
    <3>1. CASE i = 2 BY <3>1, <2>1, <2>a, <2>b, <2>d, <1>c DEF PrevAt, NextAt, Appending
    <3>2. CASE i # 2
      <4>1. heap'[p[i]] = heap[p[i]] BY <3>2, <2>d
      <4>2. PrevAt(p, n, i)' = PrevAt(p, n, i) BY <3>2, <2>1 DEF PrevAt
      <4>3. NextAt(p, n, i)' = NextAt(p, n, i) BY <3>2, <2>1 DEF NextAt, Appending
      <4> QED BY <4>1, <4>2, <4>3, <1>c
    <3> QED BY <3>1, <3>2
  <2>5. Pointed(p, n)' BY <2>1, <2>a, <1>p DEF Shape, Numbered, Pointed, Starting, Appending, Popping
  <2> QED BY <1>k, <1>n, <2>1, <2>2, <2>3, <2>4, <2>5
<1>13. ASSUME PopDelete PROVE Listed'
  <2>1. /\ wpc = "pop_delete" /\ wpc' = "out" /\ heap' = [heap EXCEPT ![old] = Free]
        /\ disturbed' = TRUE /\ UNCHANGED <<head, tail, queue>>
    BY <1>13 DEF PopDelete, Goto, rest
  <2>2. Offset = 1 /\ Offset' = 0 BY <2>1 DEF Offset, Popping
  <2>3. n >= 2 /\ old = p[1] /\ head = p[2] /\ tail = p[n]
    BY <2>1, <1>p DEF Shape, Numbered, Pointed, Popping
  <2>4. PICK m \in Nat : m = n - 1 /\ m >= 1 BY <2>3
  <2>5. Size' = m BY <2>1, <2>2, <2>4, <1>n, <1>q DEF Size
  <2> DEFINE r == [i \in 1 .. m |-> p[i + 1]]
  <2>6. r \in [1 .. m -> Nodes] /\ \A i \in 1 .. m : r[i] = p[i + 1] /\ i + 1 \in 1 .. n
    BY <2>4, <1>s
  <2> HIDE DEF r
  <2>7. /\ heap'[p[1]] = Free
        /\ \A x \in Nodes : x # p[1] => heap'[x] = heap[x]
        /\ p[1] \in Nodes
    BY <2>1, <2>3, <1>h, <1>s
  <2>8. \A i \in 1 .. m : r[i] # p[1] BY <2>3, <2>6, <1>s
  <2>9. \A i \in 1 .. m : heap'[r[i]] = heap[p[i + 1]] BY <2>6, <2>7, <2>8
  <2>10. Numbered(r, m)'
    <3>1. \A i \in 1 .. m : r[i] \in Nodes /\ heap'[r[i]] \in Cell BY <2>6, <2>9, <1>s
    <3>2. \A i, j \in 1 .. m : r[i] = r[j] => i = j
      <4> SUFFICES ASSUME NEW i \in 1 .. m, NEW j \in 1 .. m, r[i] = r[j] PROVE i = j OBVIOUS
      <4>1. i + 1 = j + 1 BY <2>6, <1>s
      <4> QED BY <4>1
    <3>3. \A x \in Used' : \E i \in 1 .. m : r[i] = x
      <4> SUFFICES ASSUME NEW x \in Used' PROVE \E i \in 1 .. m : r[i] = x OBVIOUS
      <4>1. x \in Used /\ x # p[1] BY <2>7 DEF Used
      <4>2. PICK i \in 1 .. n : p[i] = x BY <4>1, <1>s
      <4>3. i # 1 /\ i - 1 \in 1 .. m /\ r[i - 1] = p[i] BY <4>1, <4>2, <2>4, <2>6
      <4> QED BY <4>2, <4>3
    <3> QED BY <3>1, <3>2, <3>3, <2>1 DEF Numbered, Starting, Appending, Clearing
  <2>11. Chained(r, m)'
    <3> SUFFICES ASSUME NEW i \in 1 .. m
                 PROVE  /\ heap'[r[i]].value = queue[i]
                        /\ heap'[r[i]].prev = PrevAt(r, m, i)'
                        /\ heap'[r[i]].next = NextAt(r, m, i)'
      BY <2>1, <2>2 DEF Chained
    <3>1. /\ heap[p[i + 1]].value = queue[i]
          /\ heap[p[i + 1]].prev = PrevAt(p, n, i + 1)
          /\ heap[p[i + 1]].next = NextAt(p, n, i + 1)
      <4>1. PICK j \in 1 .. n : j = i + 1 BY <2>6
      <4>2. j > Offset /\ queue[j - Offset] = queue[i] BY <2>2, <4>1
      <4>3. heap[p[j]].value = queue[i] BY <1>c, <4>2
      <4> QED BY <1>c, <4>1, <4>3, Zenon
    <3>2. PrevAt(r, m, i)' = PrevAt(p, n, i + 1)
      <4>1. i # 1 => r[i - 1] = p[i] BY <2>6
      <4> QED BY <4>1, <2>1 DEF PrevAt
    <3>3. NextAt(r, m, i)' = NextAt(p, n, i + 1)
      <4>1. i # m => r[i + 1] = p[i + 2] BY <2>6
      <4> QED BY <4>1, <2>1, <2>4 DEF NextAt, Appending
    <3> QED BY <3>1, <3>2, <3>3, <2>9
  <2>12. Pointed(r, m)'
    BY <2>1, <2>3, <2>4, <2>6 DEF Pointed, Starting, Appending, Popping
  <2>13. Reading(r, m)' BY <2>1 DEF Reading
  <2> QED BY <1>w, <2>5, <2>6, <2>10, <2>11, <2>12, <2>13 DEF Shape
\* The reader leaves the list alone.
<1>r. ASSUME UNCHANGED list, UNCHANGED <<queue, wpc, new, old>>, Reading(p, n)'
      PROVE  Listed'
  <2>1. Numbered(p, n)' /\ Chained(p, n)' /\ Pointed(p, n)' /\ Size' = n
    BY <1>r, <1>n, <1>p DEF list, Shape, Numbered, Chained, Pointed, PrevAt, NextAt, Used, Size,
         Offset
  <2> QED BY <1>w, <1>r, <2>1 DEF Shape
<1>14. ASSUME Begin PROVE Listed'
  <2>1. /\ cursor' = head /\ rpc' = At(head) /\ copy' = <<>> /\ disturbed' = (wpc # "out")
        /\ UNCHANGED <<list, queue, wpc, new, old>>
    BY <1>14 DEF Begin
  <2>2. wpc = "out" => head = IF n = 0 THEN Null ELSE p[1] BY <1>p DEF Shape, Pointed
  <2>3. wpc = "out" => (head = Null <=> n = 0) BY <2>2, <1>s
  <2>4. Len(copy') = 0 BY <2>1
  <2>5. ~disturbed' => /\ wpc' = "out" /\ rpc' \in {"copied", "value"}
                       /\ rpc' = "value" => 0 < n /\ cursor' = p[0 + 1]
                       /\ rpc' = "copied" => 0 = n
    <3> SUFFICES ASSUME ~disturbed'
                 PROVE  /\ wpc' = "out" /\ rpc' \in {"copied", "value"}
                        /\ rpc' = "value" => 0 < n /\ cursor' = p[0 + 1]
                        /\ rpc' = "copied" => 0 = n
      OBVIOUS
    <3>1. wpc = "out" BY <2>1, Zenon
    <3>2. /\ wpc' = "out" /\ cursor' = head
          /\ rpc' = IF head = Null THEN "copied" ELSE "value"
      BY <2>1, <3>1 DEF At
    <3>3. 0 + 1 = 1 OBVIOUS
    <3> QED BY <3>1, <3>2, <3>3, <2>2, <2>3
  <2>6. Reading(p, n)' BY <2>4, <2>5 DEF Reading
  <2> QED BY <1>r, <2>1, <2>6
<1>l. Len(copy) \in Nat BY DEF TypeOK
<1>o. ~disturbed => wpc = "out" /\ Offset = 0 /\ n = Len(queue)
  <2>1. ~disturbed => wpc = "out" BY <1>p DEF Shape, Reading
  <2>2. wpc = "out" => Offset = 0 BY DEF Offset, Popping
  <2> QED BY <2>1, <2>2, <1>n, <1>q
<1>15. ASSUME CopyValue PROVE Listed'
  <2>1. /\ rpc = "value" /\ heap[cursor] # Free /\ copy' = Append(copy, heap[cursor].value)
        /\ rpc' = "next" /\ UNCHANGED <<list, queue, wpc, new, old, cursor, disturbed, shown, curr>>
    BY <1>15 DEF CopyValue, writer, shared
  <2>2. heap[cursor].value \in Tasks \cup {Moved} BY <2>1, <1>h DEF TypeOK, Cell
  <2>3. /\ Len(copy') = Len(copy) + 1
        /\ \A i \in 1 .. Len(copy) : copy'[i] = copy[i]
        /\ copy'[Len(copy) + 1] = heap[cursor].value
    BY <2>1, <2>2, AppendProperties DEF TypeOK
  <2>4. ASSUME ~disturbed
        PROVE  /\ Len(copy) < n /\ cursor = p[Len(copy) + 1]
               /\ \A i \in 1 .. Len(copy) : copy[i] = queue[i]
               /\ heap[cursor].value = queue[Len(copy) + 1]
    <3>1. /\ Len(copy) < n /\ cursor = p[Len(copy) + 1]
          /\ \A i \in 1 .. Len(copy) : copy[i] = queue[i]
      BY <2>4, <2>1, <1>p DEF Shape, Reading
    <3> QED BY <2>4, <3>1, <1>c, <1>o, <1>l
  <2>5. ~disturbed' => \A i \in 1 .. Len(copy') : copy'[i] = queue[i]
    <3> SUFFICES ASSUME ~disturbed, NEW i \in 1 .. Len(copy') PROVE copy'[i] = queue[i] BY <2>1
    <3>1. i = Len(copy) + 1 \/ i \in 1 .. Len(copy) BY <2>3, <1>l
    <3> QED BY <3>1, <2>3, <2>4
  <2>6. Reading(p, n)' BY <2>1, <2>3, <2>4, <2>5, <1>o, <1>l DEF Reading
  <2> QED BY <1>r, <2>1, <2>6
<1>16. ASSUME Advance PROVE Listed'
  <2>1. /\ rpc = "next" /\ cursor' = heap[cursor].next /\ rpc' = At(cursor')
        /\ UNCHANGED <<list, queue, wpc, new, old, copy, disturbed, shown, curr>>
    BY <1>16 DEF Advance, writer, shared
  <2>2. ASSUME ~disturbed
        PROVE  /\ Len(copy) <= n /\ Len(copy) > 0
               /\ \A i \in 1 .. Len(copy) : copy[i] = queue[i]
               /\ cursor' = IF Len(copy) = n THEN Null ELSE p[Len(copy) + 1]
    <3>1. /\ Len(copy) <= n /\ Len(copy) > 0 /\ cursor = p[Len(copy)]
          /\ \A i \in 1 .. Len(copy) : copy[i] = queue[i]
      BY <2>2, <2>1, <1>p DEF Shape, Reading
    <3> QED BY <2>1, <2>2, <3>1, <1>c, <1>o, <1>l DEF NextAt, Appending
  <2>3. ~disturbed => (rpc' = IF Len(copy) = n THEN "copied" ELSE "value")
    BY <2>1, <2>2, <1>s, <1>l DEF At
  <2>4. Reading(p, n)' BY <2>1, <2>2, <2>3, <1>o, <1>l DEF Reading
  <2> QED BY <1>r, <2>1, <2>4
<1>17. ASSUME LoadCurr \/ CountCurr \/ Dereference \/ Respond PROVE Listed'
  <2>1. /\ UNCHANGED <<list, queue, wpc, new, old, copy, disturbed, curr>>
        /\ \/ rpc = "copied" /\ shown' = curr /\ rpc' \in {"answer", "count"}
           \/ rpc = "count" /\ shown' = shown /\ rpc' = "answer"
           \/ rpc' = "idle"
    BY <1>17 DEF LoadCurr, CountCurr, Dereference, Respond, writer, shared
  <2>2. Reading(p, n)' BY <2>1, <1>p DEF Shape, Reading
  <2> QED BY <1>r, <2>1, <2>2
<1>19. CASE UNCHANGED vars
  <2>1. UNCHANGED <<list, queue, wpc, new, old, disturbed, rpc, copy, cursor, shown, curr>>
    BY <1>19 DEF vars, list
  <2>2. Reading(p, n)' BY <2>1, <1>p DEF Shape, Reading
  <2> QED BY <1>r, <2>1, <2>2
<1> QED
  BY <1>1, <1>2, <1>3, <1>4, <1>5, <1>6, <1>7, <1>8, <1>9, <1>10, <1>11, <1>12, <1>13, <1>14, <1>15,
     <1>16, <1>17, <1>19 DEF Next, Write, Read

-----------------------------------------------------------------------------
(* Theorems                                                                 *)

\* What has been shown of the steps: the invariant holds in every behaviour.
LEMMA Invariant == Spec => []IInv
<1>1. IInv /\ [Next]_vars => IInv' BY TypeStep, ListedStep, CountedStep DEF IInv
<1> QED BY InitInv, <1>1, PTL DEF Spec

\* Every variable has its type: no store goes through a pointer to no node.
THEOREM TypeCorrect == Spec => []TypeOK
<1>1. IInv => TypeOK BY DEF IInv
<1> QED BY Invariant, <1>1, PTL

\* The stores of push_back and of pop_front add up to the call: with mutex_ free,
\* the list holds, forwards and backwards, the tasks pushed and not popped, and
\* no node beside those of the list exists.
THEOREM WritersExact == Spec => []WriterExact
<1>1. IInv => WriterExact
  <2> SUFFICES ASSUME IInv, wpc = "out"
               PROVE  \E path \in [DOMAIN queue -> Nodes] :
                        LET size == Len(queue)
                        IN  /\ head = IF size = 0 THEN Null ELSE path[1]
                            /\ tail = IF size = 0 THEN Null ELSE path[size]
                            /\ \A i \in DOMAIN queue :
                                 heap[path[i]] =
                                   [value |-> queue[i],
                                    prev  |-> IF i = 1 THEN Null ELSE path[i - 1],
                                    next  |-> IF i = size THEN Null ELSE path[i + 1]]
                            /\ Cardinality({n \in Nodes : heap[n] # Free}) = size
    BY DEF WriterExact
  <2>q. Len(queue) \in Nat /\ DOMAIN queue = 1 .. Len(queue)
    <3>1. queue \in Seq(Tasks) BY DEF IInv, TypeOK
    <3> QED BY ONLY <3>1, LenProperties
  <2>1. PICK n \in Nat : n = Size /\ n = Len(queue) /\ Offset = 0
    <3>1. Offset = 0 BY DEF Offset, Popping
    <3>2. Size = Len(queue) BY <2>q, <3>1 DEF Size
    <3> QED BY <2>q, <3>1, <3>2, Zenon
  <2>2. PICK p \in [1 .. n -> Nodes] : Shape(p, n) BY <2>1 DEF IInv, Listed
  <2>3. /\ head = IF n = 0 THEN Null ELSE p[1]
        /\ tail = IF n = 0 THEN Null ELSE p[n]
    BY <2>2 DEF Shape, Pointed
  <2>4. \A i \in 1 .. n :
          heap[p[i]] = [value |-> queue[i],
                        prev  |-> IF i = 1 THEN Null ELSE p[i - 1],
                        next  |-> IF i = n THEN Null ELSE p[i + 1]]
    <3> SUFFICES ASSUME NEW i \in 1 .. n
                 PROVE  heap[p[i]] = [value |-> queue[i],
                                      prev  |-> IF i = 1 THEN Null ELSE p[i - 1],
                                      next  |-> IF i = n THEN Null ELSE p[i + 1]]
      OBVIOUS
    <3>1. heap[p[i]] \in Cell BY <2>2 DEF Shape, Numbered
    <3>2. heap[p[i]].value = queue[i] BY <2>1, <2>2 DEF Shape, Chained
    <3>3. heap[p[i]].prev = IF i = 1 THEN Null ELSE p[i - 1] BY <2>2 DEF Shape, Chained, PrevAt
    <3>4. heap[p[i]].next = IF i = n THEN Null ELSE p[i + 1]
      BY <2>2 DEF Shape, Chained, NextAt, Appending
    <3> HIDE <2>1
    <3> QED BY <3>1, <3>2, <3>3, <3>4 DEF Cell
  <2>5. Cardinality(Used) = n
    <3>1. \A i \in 1 .. n : p[i] \in Used
      BY <2>2, NullKinds DEF Shape, Numbered, Used
    <3>2. p \in [1 .. n -> Used] BY <3>1
    <3>3. p \in Bijection(1 .. n, Used)
      BY <2>2, <3>2 DEF Shape, Numbered, Bijection, Injection, IsInjective, Surjection
    <3>4. ExistsBijection(1 .. n, Used) BY <3>3 DEF ExistsBijection
    <3> QED BY <3>4, FS_CountingElements
  <2> QED BY <2>1, <2>q, <2>3, <2>4, <2>5 DEF Used
<1> QED BY Invariant, <1>1, PTL

\* A handler of GET /api/admin that no push and no pop disturbs shows the queue
\* and the current task, and use counts are exact, disturbed or not.
THEOREM CopiesExact == Spec => []CopyExact
<1>1. IInv => CopyExact
  <2> SUFFICES ASSUME IInv PROVE CopyExact OBVIOUS
  <2>q. Len(queue) \in Nat BY DEF IInv, TypeOK
  <2>1. PICK n \in Nat : n = Size BY <2>q DEF Size, Offset
  <2>2. PICK p \in [1 .. n -> Nodes] : Shape(p, n) BY <2>1 DEF IInv, Listed
  <2>3. ~disturbed => n = Len(queue)
    BY <2>1, <2>2, <2>q DEF Shape, Reading, Size, Offset, Popping
  <2>4. (rpc \in {"copied", "count", "answer"} /\ ~disturbed) => copy = queue
    <3> SUFFICES ASSUME rpc \in {"copied", "count", "answer"}, ~disturbed PROVE copy = queue OBVIOUS
    <3>1. Len(copy) = Len(queue) /\ \A i \in 1 .. Len(copy) : copy[i] = queue[i]
      BY <2>2, <2>3 DEF Shape, Reading
    <3>2. copy \in Seq(Tasks \cup {Moved}) /\ queue \in Seq(Tasks \cup {Moved})
      BY SeqMonotonic DEF IInv, TypeOK
    <3> QED BY <3>1, <3>2, SeqEqual
  <2>5. (rpc = "answer" /\ ~disturbed) => shown = curr BY <2>2 DEF Shape, Reading
  <2>6. ASSUME NEW k \in Tasks PROVE refs[k] = Cardinality(Holders(k))
    <3>1. Cardinality(Holders(k)) = Count(k)
      BY HoldersCounted DEF Holders, Count
    <3> QED BY <3>1 DEF IInv, Counted
  <2> QED BY <2>4, <2>5, <2>6 DEF CopyExact
<1> QED BY Invariant, <1>1, PTL

\* A handler follows a pointer to freed memory only when a push or a pop was
\* running when its copy began or ran since: a handler alone meets nodes and a
\* current task that exist, at any size of the queue and whatever earlier handlers
\* have met.
THEOREM DanglesDisturbed == Spec => [][dangling' # dangling => disturbed]_vars
<1>1. ASSUME IInv, Next, dangling' # dangling, ~disturbed PROVE FALSE
  <2>1. Dereference
    BY <1>1 DEF Next, Write, Read, Push, FirstTail, FirstHead, AppendTail, AppendPrev, AppendNext,
                MoveFront, AssignCurr, ReleaseOld, PopOnly, ClearTail, ClearHead, PopHead, PopPrev,
                PopDelete, Begin, CopyValue, Advance, LoadCurr, CountCurr, Respond, rest, reader
  <2>q. Len(queue) \in Nat /\ Len(copy) \in Nat BY <1>1 DEF IInv, TypeOK
  <2>2. PICK n \in Nat : n = Size BY <2>q DEF Size, Offset
  <2>3. PICK p \in [1 .. n -> Nodes] : Shape(p, n) BY <1>1, <2>2 DEF IInv, Listed
  <2>4. CASE rpc \in {"value", "next"} /\ heap[cursor] = Free
    <3>1. \E i \in 1 .. n : cursor = p[i]
      <4>1. CASE rpc = "value"
        <5>1. Len(copy) < n /\ cursor = p[Len(copy) + 1] BY <1>1, <2>3, <4>1 DEF Shape, Reading
        <5> QED BY <5>1, <2>q
      <4>2. CASE rpc = "next"
        <5>1. Len(copy) > 0 /\ Len(copy) <= n /\ cursor = p[Len(copy)]
          BY <1>1, <2>3, <4>2 DEF Shape, Reading
        <5> QED BY <5>1, <2>q
      <4> QED BY <2>4, <4>1, <4>2
    <3>2. heap[cursor] \in Cell BY <2>3, <3>1 DEF Shape, Numbered
    <3> QED BY <2>4, <3>2, NullKinds
  <2>5. CASE rpc = "count" /\ refs[shown] = 0
    <3>1. shown = curr BY <1>1, <2>3, <2>5 DEF Shape, Reading
    <3>2. shown \in Tasks BY <1>1, <2>5 DEF IInv, TypeOK, Counted
    <3>3. refs[shown] = Count(shown) BY <1>1, <3>2 DEF IInv, Counted
    <3>4. Count(shown) >= 1 BY <3>1 DEF Count, One
    <3> QED BY <2>5, <3>3, <3>4
  <2> QED BY <2>1, <2>4, <2>5 DEF Dereference
<1>2. IInv /\ [Next]_vars => [dangling' # dangling => disturbed]_vars BY <1>1
<1> QED BY Invariant, <1>2, PTL DEF Spec
=============================================================================
