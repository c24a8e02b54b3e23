----------------------------- MODULE AdminSnapshot -----------------------------
(***************************************************************************)
(* GET /api/admin copies tasks_queue_ through shared_state::tasks() and    *)
(* the shared_ptr curr_ through current().  Neither locks mutex_, while    *)
(* push_task and process_tasks change both with mutex_ held.  Here the     *)
(* functions of list.hpp and of shared_ptr involved run one load or store  *)
(* of a pointer or a count at a time, in program order; that order is the  *)
(* mildest outcome of the race, a build may do worse.  The object that     *)
(* make_shared creates for a task is named by the task.                    *)
(***************************************************************************)
EXTENDS Naturals, Sequences, FiniteSets

CONSTANTS Tasks,  \* tasks to push, each once
          Nodes,  \* addresses operator new can return
          Moved,  \* what std::move leaves of a task
          Null,
          Free    \* what an address that holds no node contains

ASSUME HeapAssumption ==
  /\ Null \notin Nodes \cup Tasks
  /\ Free \notin [value : Tasks \cup {Moved}, prev : Nodes \cup {Null},
                 next : Nodes \cup {Null}]

VARIABLES heap, head, tail, \* the list; heap[n] is a node<task> or Free
          curr, refs,       \* curr_, and the use count of each task object
          todo,             \* tasks not pushed yet (bounds the model)
          queue,            \* the list's contents by completed calls (history)
          wpc, new, old,    \* the writer: where it is, new_node, old_tail or old_head
          temp,             \* its t, then what the temporary shared_ptr holds
          rpc, cursor,      \* the reader: where it is, its iterator
          copy,             \* the copy it has made so far
          shown,            \* the object its copy of curr_ points to
          disturbed,        \* a writer ran since the copy began (history)
          dangling          \* the reader has dereferenced freed memory

list   == <<heap, head, tail>>
shared == <<curr, refs>>
writer == <<todo, queue, wpc, new, old, temp, disturbed>>
reader == <<rpc, cursor, copy, shown, dangling>>

\* What a store into the list leaves alone.
rest == <<todo, queue, temp, shared, reader>>
vars == <<heap, head, tail, curr, refs, todo, queue, wpc, new, old, temp,
          rpc, cursor, copy, shown, disturbed, dangling>>

Init ==
  /\ heap = [n \in Nodes |-> Free]
  /\ head = Null /\ tail = Null
  /\ curr = Null
  /\ refs = [k \in Tasks |-> 0]
  /\ todo = Tasks
  /\ queue = <<>>
  /\ wpc = "out" /\ new = Null /\ old = Null /\ temp = Null
  /\ rpc = "idle" /\ cursor = Null
  /\ copy = <<>>
  /\ shown = Null
  /\ disturbed = FALSE
  /\ dangling = FALSE

-----------------------------------------------------------------------------
(* The writers.  mutex_ lets one in at a time: "out" is where none is.     *)

Goto(from, to) == wpc = from /\ wpc' = to /\ disturbed' = TRUE

\* push_back: new node<T>(value).
Push(k) ==
  /\ k \in todo
  /\ Goto("out", IF head = Null THEN "first" ELSE "append")
  /\ \E n \in {m \in Nodes : heap[m] = Free} :
       /\ heap' = [heap EXCEPT ![n] = [value |-> k, prev |-> Null, next |-> Null]]
       /\ new' = n
  /\ todo' = todo \ {k}
  /\ queue' = Append(queue, k)
  /\ UNCHANGED <<head, tail, old, temp, shared, reader>>

\* head_ = tail_ = new_node: tail_ is assigned, then head_.
FirstTail ==
  /\ Goto("first", "first_head")
  /\ tail' = new
  /\ UNCHANGED <<heap, head, new, old, rest>>

FirstHead ==
  /\ Goto("first_head", "out")
  /\ head' = tail
  /\ UNCHANGED <<heap, tail, new, old, rest>>

\* old_tail = tail_; tail_ = new_node.
AppendTail ==
  /\ Goto("append", "append_prev")
  /\ old' = tail
  /\ tail' = new
  /\ UNCHANGED <<heap, head, new, rest>>

AppendPrev ==
  /\ Goto("append_prev", "append_next")
  /\ heap' = [heap EXCEPT ![tail].prev = old]
  /\ UNCHANGED <<head, tail, new, old, rest>>

\* Mutant: the old tail is not linked to the new one.
AppendNoNext ==
  /\ Goto("append_next", "out")
  /\ UNCHANGED <<heap, head, tail, new, old, rest>>

AppendNext ==
  /\ Goto("append_next", "out")
  /\ heap' = [heap EXCEPT ![old].next = tail]
  /\ UNCHANGED <<head, tail, new, old, rest>>

\* process_tasks: task t = std::move(tasks_queue_.front()).
MoveFront ==
  /\ head # Null
  /\ Goto("out", "assign")
  /\ heap' = [heap EXCEPT ![head].value = Moved]
  /\ queue' = Tail(queue)
  /\ temp' = heap[head].value
  /\ UNCHANGED <<head, tail, todo, new, old, shared, reader>>

\* curr_ = make_shared<task>(t): the new pointer and the old one are swapped,
\* and the temporary that holds the old one is destroyed.
AssignCurr ==
  /\ Goto("assign", "release")
  /\ curr' = temp
  /\ temp' = curr
  /\ refs' = [refs EXCEPT ![temp] = 1]
  /\ UNCHANGED <<list, todo, queue, new, old, reader>>

ReleaseOld ==
  /\ Goto("release", "pop")
  /\ refs' = IF temp = Null THEN refs ELSE [refs EXCEPT ![temp] = @ - 1]
  /\ temp' = Null
  /\ UNCHANGED <<list, curr, todo, queue, new, old, reader>>

\* pop_front of the only node deletes it while head_ and tail_ point to it.
PopOnly ==
  /\ head = tail
  /\ Goto("pop", "clear_tail")
  /\ heap' = [heap EXCEPT ![head] = Free]
  /\ UNCHANGED <<head, tail, new, old, rest>>

ClearTail ==
  /\ Goto("clear_tail", "clear_head")
  /\ tail' = Null
  /\ UNCHANGED <<heap, head, new, old, rest>>

ClearHead ==
  /\ Goto("clear_head", "out")
  /\ head' = Null
  /\ UNCHANGED <<heap, tail, new, old, rest>>

\* old_head = head_; head_ = head_->next_.
PopHead ==
  /\ head # tail
  /\ Goto("pop", "pop_prev")
  /\ old' = head
  /\ head' = heap[head].next
  /\ UNCHANGED <<heap, tail, new, rest>>

PopPrev ==
  /\ Goto("pop_prev", "pop_delete")
  /\ heap' = [heap EXCEPT ![head].prev = Null]
  /\ UNCHANGED <<head, tail, new, old, rest>>

PopDelete ==
  /\ Goto("pop_delete", "out")
  /\ heap' = [heap EXCEPT ![old] = Free]
  /\ UNCHANGED <<head, tail, new, old, rest>>

-----------------------------------------------------------------------------
(* The reader: return tasks_queue_, which is list<T>::list(list<T> &other). *)

At(n) == IF n = Null THEN "copied" ELSE "value"

\* it = other.begin()
Begin ==
  /\ rpc = "idle"
  /\ cursor' = head
  /\ rpc' = At(head)
  /\ copy' = <<>>
  /\ disturbed' = (wpc # "out")
  /\ UNCHANGED <<list, shared, todo, queue, wpc, new, old, temp, shown, dangling>>

\* elem = *it; push_back(elem) on the copy.
CopyValue ==
  /\ rpc = "value"
  /\ heap[cursor] # Free
  /\ copy' = Append(copy, heap[cursor].value)
  /\ rpc' = "next"
  /\ UNCHANGED <<list, shared, writer, cursor, shown, dangling>>

\* Mutant: the loop ends at tail_ instead of behind it.
AdvanceToTail ==
  /\ rpc = "next"
  /\ heap[cursor] # Free
  /\ cursor' = heap[cursor].next
  /\ rpc' = IF cursor' = tail THEN "copied" ELSE At(cursor')
  /\ UNCHANGED <<list, shared, writer, copy, shown, dangling>>

\* ++it; it != other.end()
Advance ==
  /\ rpc = "next"
  /\ heap[cursor] # Free
  /\ cursor' = heap[cursor].next
  /\ rpc' = At(cursor')
  /\ UNCHANGED <<list, shared, writer, copy, shown, dangling>>

\* current(), called when the copy is made: copies the pointer ...
LoadCurr ==
  /\ rpc = "copied"
  /\ shown' = curr
  /\ rpc' = IF curr = Null THEN "answer" ELSE "count"
  /\ UNCHANGED <<list, shared, writer, cursor, copy, dangling>>

\* ... and counts the new reference.
CountCurr ==
  /\ rpc = "count"
  /\ refs[shown] > 0
  /\ refs' = [refs EXCEPT ![shown] = @ + 1]
  /\ rpc' = "answer"
  /\ UNCHANGED <<list, curr, writer, cursor, copy, shown, dangling>>

\* The iterator's node, or the object curr_ pointed to, has been deleted: what
\* follows is undefined, and the model does not follow this reader further.
Dereference ==
  /\ \/ rpc \in {"value", "next"} /\ heap[cursor] = Free
     \/ rpc = "count" /\ refs[shown] = 0
  /\ dangling' = TRUE
  /\ rpc' = "idle"
  /\ UNCHANGED <<list, shared, writer, cursor, copy, shown>>

\* The handler serializes both copies and destroys them.
Respond ==
  /\ rpc = "answer"
  /\ rpc' = "idle"
  /\ refs' = IF shown = Null THEN refs ELSE [refs EXCEPT ![shown] = @ - 1]
  /\ shown' = Null
  /\ UNCHANGED <<list, curr, writer, cursor, copy, dangling>>

Write ==
  \/ \E k \in Tasks : Push(k)
  \/ FirstTail \/ FirstHead
  \/ AppendTail \/ AppendPrev \/ AppendNext
  \/ MoveFront \/ AssignCurr \/ ReleaseOld
  \/ PopOnly \/ ClearTail \/ ClearHead
  \/ PopHead \/ PopPrev \/ PopDelete

Read ==
  \/ Begin \/ CopyValue \/ Advance
  \/ LoadCurr \/ CountCurr \/ Dereference
  \/ Respond

Next == Write \/ Read

Spec == Init /\ [][Next]_vars

-----------------------------------------------------------------------------
(* Properties                                                               *)

\* The list, walked from head_ to tail_ and back, holds the tasks pushed and
\* not popped whenever mutex_ is free: the stores of a call, in the order the
\* code makes them, add up to the call.
WriterExact ==
  wpc = "out" =>
    \E path \in [DOMAIN queue -> Nodes] :
      LET size == Len(queue)
      IN  /\ head = IF size = 0 THEN Null ELSE path[1]
          /\ tail = IF size = 0 THEN Null ELSE path[size]
          /\ \A i \in DOMAIN queue :
               heap[path[i]] =
                 [value |-> queue[i],
                  prev  |-> IF i = 1 THEN Null ELSE path[i - 1],
                  next  |-> IF i = size THEN Null ELSE path[i + 1]]
          /\ Cardinality({n \in Nodes : heap[n] # Free}) = size

\* The pointers that share the object of task k.
Holders(k) ==
  {h \in {"curr", "temporary", "reader"} :
     \/ h = "curr" /\ curr = k
     \/ h = "temporary" /\ wpc = "release" /\ temp = k
     \/ h = "reader" /\ rpc = "answer" /\ shown = k}

\* A handler that no push and no pop disturbs shows the queue and the current
\* task; and, disturbed or not, the use counts of the task objects are exact:
\* an object lives until its last holder, the handler included, lets go of it.
CopyExact ==
  /\ (rpc \in {"copied", "count", "answer"} /\ ~disturbed) => copy = queue
  /\ (rpc = "answer" /\ ~disturbed) => shown = curr
  /\ \A k \in Tasks : refs[k] = Cardinality(Holders(k))

\* The queue may be read while it is enqueued and dequeued: a handler only
\* meets nodes and task objects that exist.
NoDangling == ~dangling
=============================================================================
