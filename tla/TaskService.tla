------------------------------ MODULE TaskService ------------------------------
(***************************************************************************)
(* What gss promises about a task, without threads, locks or timers: a     *)
(* client requests a task, the server accepts it, tasks run one at a time  *)
(* in the order they were accepted, and the assignee of each is told once  *)
(* when its time is over.  Scheduler implements this specification.        *)
(***************************************************************************)
EXTENDS Naturals, Sequences

CONSTANTS Tasks,     \* submissions: each is a POST /api/tasks of its own
          NoTask     \* none of them

VARIABLES requested, \* submissions clients have made
          pending,   \* accepted and not started, oldest first
          running,   \* the task whose time is running, or NoTask
          reported,  \* tasks whose completion was reported, in order
          serving    \* FALSE once the server was told to stop or died

vars == <<requested, pending, running, reported, serving>>

Elements(s) == {s[i] : i \in DOMAIN s}

Accepted == Elements(pending) \cup {running} \cup Elements(reported)

Init ==
  /\ requested = {}
  /\ pending = <<>>
  /\ running = NoTask
  /\ reported = <<>>
  /\ serving = TRUE

Request(k) ==
  /\ k \notin requested
  /\ requested' = requested \cup {k}
  /\ UNCHANGED <<pending, running, reported, serving>>

Accept(k) ==
  /\ k \in requested \ Accepted
  /\ pending' = Append(pending, k)
  /\ UNCHANGED <<requested, running, reported, serving>>

Start ==
  /\ running = NoTask
  /\ pending # <<>>
  /\ running' = Head(pending)
  /\ pending' = Tail(pending)
  /\ UNCHANGED <<requested, reported, serving>>

Report ==
  /\ running # NoTask
  /\ reported' = Append(reported, running)
  /\ running' = NoTask
  /\ UNCHANGED <<requested, pending, serving>>

StopServing ==
  /\ serving' = FALSE
  /\ UNCHANGED <<requested, pending, running, reported>>

Next ==
  \/ \E k \in Tasks : Request(k) \/ Accept(k)
  \/ Start
  \/ Report
  \/ StopServing

\* While it serves, the server keeps accepting, starting and reporting.
Fairness ==
  /\ \A k \in Tasks : WF_vars(serving /\ Accept(k))
  /\ WF_vars(serving /\ Start)
  /\ WF_vars(serving /\ Report)

SafeSpec == Init /\ [][Next]_vars

Spec == SafeSpec /\ Fairness

-----------------------------------------------------------------------------
(* What a client may rely on                                               *)

\* Every accepted submission, oldest first.
Line ==
  reported \o (IF running = NoTask THEN <<>> ELSE <<running>>) \o pending

\* A submission is accepted once: it never shows up twice among the pending,
\* running and reported tasks, so no assignee is told twice.
AtMostOnce ==
  \A i, j \in DOMAIN Line : Line[i] = Line[j] => i = j

\* The history of the service only grows: what was reported stays, and the
\* tasks in the server keep the order in which they were accepted.
OrderKept ==
  [][\A i \in DOMAIN Line : i \in DOMAIN Line' /\ Line'[i] = Line[i]]_vars
=============================================================================
