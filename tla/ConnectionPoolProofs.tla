------------------------ MODULE ConnectionPoolProofs ------------------------
(***************************************************************************)
(* The pool's safety for every number of requests and connections: its     *)
(* count is right, nothing is leaked, and a full pool is never all held by *)
(* requests that wait for it.                                              *)
(***************************************************************************)
EXTENDS ConnectionPool, FiniteSetTheorems, TLAPS

\* PoolTypeOK and NoneLeaked are inductive with the shapes of the variables,
\* which the arithmetic of the pool's count needs.
PoolInv ==
  /\ req \in [Requests -> [route : Route \cup {"none"}, at : Nat]]
  /\ \A r \in Requests :
       \/ req[r] = Idle
       \/ req[r].route \in Route /\ req[r].at \in 1..Len(Steps[req[r].route])
  /\ IsFiniteSet(held) /\ held \subseteq Requests \X {"request"}
  /\ closing \in Nat /\ out \in 0..PoolSize
  /\ out = Cardinality(held) + closing
  /\ \A h \in held : Active(h[1])

-----------------------------------------------------------------------------
\* The session of every step is that of the request.
LEMMA OneSession == Session = {"request"}
BY DEF Session, SessionOf

\* Every route has a first step.
LEMMA RoutesHaveSteps ==
  \A route \in Route : Len(Steps[route]) \in Nat \ {0}
<1>1. Route = {"read", "create", "patch", "delete", "download"}
  BY DEF Route, Steps
<1>2. /\ Steps["read"] = <<"select", "send">>
      /\ Steps["create"] = <<"store", "commit", "refresh", "enqueue", "send">>
      /\ Steps["patch"] = <<"select", "commit", "refresh", "send">>
      /\ Steps["delete"] = <<"select", "unlink", "commit", "send">>
      /\ Steps["download"] = <<"select", "send">>
  BY DEF Steps
<1>3. /\ Len(Steps["read"]) = 2 /\ Len(Steps["create"]) = 5
      /\ Len(Steps["patch"]) = 4 /\ Len(Steps["delete"]) = 4
      /\ Len(Steps["download"]) = 2
  BY <1>2
<1>4. ASSUME NEW route \in Route PROVE Len(Steps[route]) \in {2, 4, 5}
  BY <1>1, <1>3
<1>5. {2, 4, 5} \subseteq Nat \ {0}
  OBVIOUS
<1>. QED
  BY <1>4, <1>5

\* What a set that gives up some of its elements has left.
LEMMA Remaining ==
  ASSUME NEW T, T \subseteq held, IsFiniteSet(held)
  PROVE  /\ IsFiniteSet(held \ T) /\ IsFiniteSet(T)
         /\ Cardinality(T) \in Nat /\ Cardinality(held) \in Nat
         /\ Cardinality(held \ T) \in Nat
         /\ Cardinality(held \ T) = Cardinality(held) - Cardinality(T)
<1>1. IsFiniteSet(T)
  BY FS_Subset
<1>2. IsFiniteSet(held \ T) /\ Cardinality(held \ T) = Cardinality(held) - Cardinality(held \cap T)
  BY FS_Difference
<1>3. held \cap T = T
  OBVIOUS
<1>. QED
  BY <1>1, <1>2, <1>3, FS_CardinalityType

-----------------------------------------------------------------------------
\* A step that ends the request in slot r and gives up its connections, whether
\* to the pool or to the tasks that close sessions.
LEMMA EndsRequest ==
  ASSUME PoolInv, NEW r \in Requests,
         req' = [req EXCEPT ![r] = Idle], held' = held \ HeldBy(r),
         closing' \in Nat, out' \in 0..PoolSize,
         out' - closing' = out - closing - Cardinality(HeldBy(r))
  PROVE  PoolInv'
<1>1. HeldBy(r) \subseteq held
  BY DEF HeldBy
<1>2. /\ IsFiniteSet(held') /\ Cardinality(held') = Cardinality(held) - Cardinality(HeldBy(r))
      /\ Cardinality(HeldBy(r)) \in Nat /\ Cardinality(held) \in Nat
      /\ Cardinality(held') \in Nat
  BY <1>1, Remaining DEF PoolInv
<1>3. req' \in [Requests -> [route : Route \cup {"none"}, at : Nat]]
  BY DEF PoolInv, Idle
<1>4. \A s \in Requests :
        \/ req'[s] = Idle
        \/ req'[s].route \in Route /\ req'[s].at \in 1..Len(Steps[req'[s].route])
  BY DEF PoolInv
<1>5. out' = Cardinality(held') + closing'
  BY <1>2, PoolAssumption DEF PoolInv
<1>6. \A h \in held' : Active(h[1])'
  BY DEF PoolInv, HeldBy, Active
<1>. QED
  BY <1>2, <1>3, <1>4, <1>5, <1>6 DEF PoolInv

\* The invariant survives every step.
LEMMA PoolNext == PoolInv /\ [Next]_vars => PoolInv'
<1>. SUFFICES ASSUME PoolInv, [Next]_vars PROVE PoolInv'
  OBVIOUS
<1>. USE RequestsAssumption, PoolAssumption
<1>a. ASSUME NEW r \in Requests, NEW route \in Route, Arrives(r, route) PROVE PoolInv'
  <2>1. [route |-> route, at |-> 1] # Idle
    BY DEF Idle
  <2>2. 1 \in 1..Len(Steps[route])
    BY RoutesHaveSteps
  <2>. QED
    BY <1>a, <2>1, <2>2 DEF PoolInv, Arrives, Active, Idle
<1>b. ASSUME NEW r \in Requests, Acquires(r) PROVE PoolInv'
  <2>1. Active(r) /\ <<r, "request">> \notin held
    BY <1>b DEF Acquires, Waits, Step, SessionOf
  <2>2. held' = held \cup {<<r, "request">>} /\ out' = out + 1 /\ UNCHANGED <<req, closing>>
    BY <1>b DEF Acquires, SessionOf
  <2>3. IsFiniteSet(held') /\ Cardinality(held') = Cardinality(held) + 1
    BY <2>1, <2>2, FS_AddElement DEF PoolInv
  <2>4. Cardinality(held) \in Nat
    BY FS_CardinalityType DEF PoolInv
  <2>5. out' \in 0..PoolSize
    BY <1>b, <2>2 DEF PoolInv, Acquires
  <2>. QED
    BY <2>1, <2>2, <2>3, <2>4, <2>5 DEF PoolInv, Active
<1>c. ASSUME NEW r \in Requests, Abandon(r) PROVE PoolInv'
  <2>1. Cardinality(HeldBy(r)) \in Nat
    BY Remaining DEF PoolInv, HeldBy
  <2>2. out' = out /\ closing' = closing + Cardinality(HeldBy(r))
        /\ held' = held \ HeldBy(r) /\ req' = [req EXCEPT ![r] = Idle]
    BY <1>c DEF Abandon
  <2>3. /\ closing' \in Nat /\ out' \in 0..PoolSize
        /\ out' - closing' = out - closing - Cardinality(HeldBy(r))
    BY <2>1, <2>2 DEF PoolInv
  <2>. QED
    BY <2>2, <2>3, EndsRequest
<1>d. ASSUME NEW r \in Requests, Advances(r) PROVE PoolInv'
  <2>. DEFINE T == IF Step(r) = "commit" THEN {<<r, SessionOf("commit")>>} ELSE {}
  <2>1. T \subseteq held
    BY <1>d DEF Advances, Waits
  <2>2. /\ IsFiniteSet(held') /\ Cardinality(held') = Cardinality(held) - Cardinality(T)
        /\ Cardinality(T) \in Nat /\ Cardinality(held) \in Nat /\ Cardinality(held') \in Nat
    BY <1>d, <2>1, Remaining DEF PoolInv, Advances, GiveBack
  <2>3. out' = out - Cardinality(T) /\ held' = held \ T /\ closing' = closing
    BY <1>d DEF Advances, GiveBack
  <2>4. req' = [req EXCEPT ![r].at = @ + 1] /\ req[r].at # Len(Steps[req[r].route])
        /\ req[r].route \in Route /\ req[r].at \in 1..Len(Steps[req[r].route])
    BY <1>d DEF PoolInv, Advances, Active, LastStep
  <2>5. req[r].at + 1 \in 1..Len(Steps[req[r].route])
    BY <2>4, RoutesHaveSteps
  <2>6. /\ req' \in [Requests -> [route : Route \cup {"none"}, at : Nat]]
        /\ \A s \in Requests :
             \/ req'[s] = Idle
             \/ req'[s].route \in Route /\ req'[s].at \in 1..Len(Steps[req'[s].route])
        /\ \A s \in Requests : Active(s) => Active(s)'
    BY <2>4, <2>5 DEF PoolInv, Active, Idle, Route, Steps
  <2>7. out' \in 0..PoolSize /\ out' = Cardinality(held') + closing'
    BY <2>2, <2>3 DEF PoolInv
  <2>. QED
    BY <2>2, <2>3, <2>6, <2>7 DEF PoolInv
<1>e. ASSUME NEW r \in Requests, Answers(r) PROVE PoolInv'
  <2>1. /\ Cardinality(HeldBy(r)) \in Nat /\ Cardinality(held) \in Nat
        /\ Cardinality(held \ HeldBy(r)) \in Nat
        /\ Cardinality(held \ HeldBy(r)) = Cardinality(held) - Cardinality(HeldBy(r))
    BY Remaining DEF PoolInv, HeldBy
  <2>2. out' = out - Cardinality(HeldBy(r)) /\ closing' = closing
        /\ held' = held \ HeldBy(r) /\ req' = [req EXCEPT ![r] = Idle]
    BY <1>e DEF Answers, GiveBack
  <2>3. out' \in 0..PoolSize /\ out' - closing' = out - closing - Cardinality(HeldBy(r))
    BY <2>1, <2>2 DEF PoolInv
  <2>. QED
    BY <2>2, <2>3, EndsRequest DEF PoolInv
<1>f. CASE Closes
  BY <1>f, FS_CardinalityType DEF PoolInv, Closes, Active
<1>g. CASE UNCHANGED vars
  BY <1>g DEF PoolInv, vars, Active
<1>. QED
  BY <1>a, <1>b, <1>c, <1>d, <1>e, <1>f, <1>g DEF Next, TimesOut, Fails

\* The invariant holds in every reachable state.
THEOREM PoolInductive == Spec => []PoolInv
<1>1. Init => PoolInv
  BY FS_EmptySet, PoolAssumption DEF Init, PoolInv, Idle, Active
<1>. QED
  BY <1>1, PoolNext, PTL DEF Spec

\* Every variable keeps its type, and get_engine's pool never gives away more
\* connections than it has, for every number of requests and connections.
THEOREM PoolTypeCorrect == Spec => []PoolTypeOK
<1>1. PoolInv => PoolTypeOK
  BY OneSession, FS_CardinalityType, PoolAssumption DEF PoolInv, PoolTypeOK
<1>. QED
  BY <1>1, PoolInductive, PTL

\* However requests end, no connection is lost to the pool: each belongs to a
\* session of a request under way or to one being closed.
THEOREM NothingLeaks == Spec => []NoneLeaked
<1>1. PoolInv => NoneLeaked
  BY DEF PoolInv, NoneLeaked
<1>. QED
  BY <1>1, PoolInductive, PTL

\* Because service and router share a session, whoever holds a connection does
\* not wait for one, however many requests meet a full pool.
THEOREM FullPoolAlwaysMovesOn == Spec => []FullPoolMovesOn
<1>1. PoolInv => FullPoolMovesOn
  <2>. SUFFICES ASSUME PoolInv, out = PoolSize, closing = 0
                PROVE  \E h \in held : ~Waits(h[1])
    BY DEF FullPoolMovesOn, PoolInv
  <2>1. held # {}
    BY FS_EmptySet, PoolAssumption DEF PoolInv
  <2>2. PICK h \in held : TRUE
    BY <2>1
  <2>3. h = <<h[1], "request">>
    BY DEF PoolInv
  <2>. QED
    BY <2>2, <2>3 DEF Waits, SessionOf
<1>. QED
  BY <1>1, PoolInductive, PTL
=============================================================================
