--------------------------- MODULE ConnectionPool ---------------------------
(***************************************************************************)
(* The database connections of the API process: the engine's bounded pool, *)
(* the session of a request, which holds a connection from its first       *)
(* statement to the end of the transaction, and the routes that use both.  *)
(*                                                                         *)
(* What the statements do is the business of FileExchange; here a step of  *)
(* a route only needs a connection, gives it back or does neither.         *)
(***************************************************************************)
EXTENDS Integers, Sequences, FiniteSets

CONSTANTS
  Requests,  \* slots for concurrent HTTP requests of one API process
  PoolSize   \* connections the engine opens at most: pool_size + max_overflow

ASSUME RequestsAssumption == IsFiniteSet(Requests)
ASSUME PoolAssumption == PoolSize \in Nat \ {0}

VARIABLES
  req,      \* request slot -> the route it runs and the step it is at
  held,     \* the sessions that have a connection: <<request slot, session>>
  closing,  \* sessions of failed requests that are still being closed
  out       \* the pool's own count of the connections it has given away

vars == <<req, held, closing, out>>

-----------------------------------------------------------------------------
(* The routes.                                                             *)

\* The steps of every route, from the first await to the answer.  "read" is
\* GET /files, GET /files/{id} and GET /alerts.
Steps ==
  [read     |-> <<"select", "send">>,
   create   |-> <<"store", "commit", "refresh", "enqueue", "send">>,
   patch    |-> <<"select", "commit", "refresh", "send">>,
   delete   |-> <<"select", "unlink", "commit", "send">>,
   download |-> <<"select", "send">>]

Route == DOMAIN Steps
Idle == [route |-> "none", at |-> 0]

Active(r) == req[r] # Idle
Step(r) == IF Active(r) THEN Steps[req[r].route][req[r].at] ELSE "none"
LastStep(r) == req[r].at = Len(Steps[req[r].route])

\* A response that goes out as fast as its client reads it.
Streaming(r) == req[r].route = "download" /\ Step(r) = "send"

\* Mutant of SessionOf: the service and the router with a session each.
TwoSessions(step) == IF step \in {"commit", "refresh"} THEN "router" ELSE "service"

\* FastAPI calls get_db_session once per request, so that the service and the
\* router work in the same session.
SessionOf(step) == "request"

Session == {SessionOf(step) : step \in {"select", "commit", "refresh"}}

\* A statement of a session without a transaction has to wait for a connection.
Waits(r) ==
  /\ Step(r) \in {"select", "commit", "refresh"}
  /\ <<r, SessionOf(Step(r))>> \notin held

HeldBy(r) == {h \in held : h[1] = r}

GiveBack(connections) ==
  /\ held' = held \ connections
  /\ out' = out - Cardinality(connections)

-----------------------------------------------------------------------------
Init ==
  /\ req = [r \in Requests |-> Idle]
  /\ held = {}
  /\ closing = 0
  /\ out = 0

Arrives(r, route) ==
  /\ ~Active(r)
  /\ req' = [req EXCEPT ![r] = [route |-> route, at |-> 1]]
  /\ UNCHANGED <<held, closing, out>>

\* Mutant of Acquires: overflow without a limit.
AcquiresAnyway(r) ==
  /\ Waits(r)
  /\ held' = held \cup {<<r, SessionOf(Step(r))>>}
  /\ out' = out + 1
  /\ UNCHANGED <<req, closing>>

\* Whoever asks while a connection is there gets one; waiting requests are not
\* served in order.
Acquires(r) ==
  /\ Waits(r) /\ out < PoolSize
  /\ held' = held \cup {<<r, SessionOf(Step(r))>>}
  /\ out' = out + 1
  /\ UNCHANGED <<req, closing>>

\* Mutant of Abandon: nobody finalises the generator.
AbandonForGood(r) ==
  /\ req' = [req EXCEPT ![r] = Idle]
  /\ held' = held \ HeldBy(r)
  /\ UNCHANGED <<closing, out>>

\* An exception leaves get_db_session without a word to the generator it
\* iterates over.  The event loop finalises that generator in a task of its
\* own, which closes the session; the error response does not wait for it.
Abandon(r) ==
  /\ req' = [req EXCEPT ![r] = Idle]
  /\ held' = held \ HeldBy(r)
  /\ closing' = closing + Cardinality(HeldBy(r))
  /\ UNCHANGED out

\* Mutant of TimesOut: a pool that lets its callers wait for ever.
WaitsForEver(r) == FALSE

\* pool_timeout: a request that has found all connections taken is answered 500.
TimesOut(r) == Waits(r) /\ out = PoolSize /\ Abandon(r)

\* Any step may raise: no such row, no such blob, an empty upload, a failing
\* statement, disk or broker.
Fails(r) == Active(r) /\ Abandon(r)

\* A commit gives the connection back at once; what follows it begins a new
\* transaction.
Advances(r) ==
  /\ Active(r) /\ ~LastStep(r) /\ ~Waits(r)
  /\ req' = [req EXCEPT ![r].at = @ + 1]
  /\ GiveBack(IF Step(r) = "commit" THEN {<<r, SessionOf("commit")>>} ELSE {})
  /\ UNCHANGED closing

\* Mutant of Answers: the session is not closed.
AnswersOnly(r) ==
  /\ Active(r) /\ LastStep(r)
  /\ req' = [req EXCEPT ![r] = Idle]
  /\ UNCHANGED <<held, closing, out>>

\* The session of a request is closed after its response has been sent.
Answers(r) ==
  /\ Active(r) /\ LastStep(r)
  /\ req' = [req EXCEPT ![r] = Idle]
  /\ GiveBack(HeldBy(r))
  /\ UNCHANGED closing

Closes ==
  /\ closing > 0
  /\ closing' = closing - 1
  /\ out' = out - 1
  /\ UNCHANGED <<req, held>>

Next ==
  \/ \E r \in Requests :
       \/ \E route \in Route : Arrives(r, route)
       \/ Acquires(r) \/ TimesOut(r) \/ Fails(r) \/ Advances(r) \/ Answers(r)
  \/ Closes

\* The event loop resumes whoever can run, a wait for a connection ends within
\* pool_timeout one way or the other; a client that downloads owes nothing.
Fairness ==
  /\ \A r \in Requests :
       /\ WF_vars(Acquires(r) \/ TimesOut(r))
       /\ WF_vars(Advances(r))
       /\ WF_vars(~Streaming(r) /\ Answers(r))
  /\ WF_vars(Closes)

Spec == Init /\ [][Next]_vars
FairSpec == Spec /\ Fairness

-----------------------------------------------------------------------------
(* Properties.                                                             *)

\* Every variable has its type; the pool never gives away more than it has.
PoolTypeOK ==
  /\ \A r \in Requests :
       \/ req[r] = Idle
       \/ req[r].route \in Route /\ req[r].at \in 1..Len(Steps[req[r].route])
  /\ DOMAIN req = Requests
  /\ held \subseteq Requests \X Session
  /\ closing \in 0..PoolSize /\ out \in 0..PoolSize

\* Connections are not leaked: those the pool misses belong to a session of a
\* request under way or to one that is being closed, also after an exception.
NoneLeaked ==
  /\ out = Cardinality(held) + closing
  /\ \A h \in held : Active(h[1])

\* No hold-and-wait: when all connections are taken one of them is in use or
\* on its way back; its holders never all wait for another.
FullPoolMovesOn ==
  out = PoolSize => closing > 0 \/ \E h \in held : ~Waits(h[1])

\* Downloads at the pace of their clients may hold every connection for good;
\* any other request is answered all the same, if only with an error.
RequestsAnswered ==
  \A r \in Requests : Active(r) ~> ~Active(r) \/ Streaming(r)

\* If every client reads what it has asked for, a full pool has a connection
\* to give again.
PoolRecovers ==
  (\A r \in Requests : WF_vars(Answers(r))) => (out = PoolSize ~> out < PoolSize)
=============================================================================
