----------------------------- MODULE MCHttpSessions -----------------------------
(* HttpSessions for TLC: what the clients of each run want.                *)
EXTENDS HttpSessions

Request(method, target, parses, keep_alive, upgrade, large) ==
  [method |-> method, target |-> target, parses |-> parses,
   keep_alive |-> keep_alive, upgrade |-> upgrade, large |-> large]

Submission == Request("post", "tasks", TRUE, TRUE, FALSE, FALSE)
LastSubmission == Request("post", "tasks", TRUE, FALSE, FALSE, FALSE)
BadSubmission == Request("post", "tasks", FALSE, TRUE, FALSE, FALSE)
LargeSubmission == Request("post", "tasks", TRUE, TRUE, FALSE, TRUE)
Admin == Request("get", "admin", TRUE, TRUE, FALSE, FALSE)
WebSocket == Request("get", "file", TRUE, TRUE, TRUE, FALSE)

\* Every way on_read can go.
Visitors == {Submission, LastSubmission, BadSubmission, Admin, WebSocket}

\* A task whose description is longer than body_limit.
Uploaders == {Submission, LargeSubmission}
=============================================================================
