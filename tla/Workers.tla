------------------------------ MODULE Workers ------------------------------
(***************************************************************************)
(* How the requests of each container share its worker threads and the     *)
(* connections of its pool, shown on /advertisers and the health checks.   *)
(*                                                                         *)
(* All route handlers are `def' functions: FastAPI runs each in a thread   *)
(* of anyio's limiter, and validates the response of each in a thread of   *)
(* the same limiter afterwards; a dependency is closed in one of its own.  *)
(* A session takes a connection from the pool at its first statement and   *)
(* holds it, with the rows it has written, until get_session ends.  An     *)
(* insert of a unique key that another session has inserted and not        *)
(* committed waits in the database, without a timeout.                     *)
(*                                                                         *)
(* FastAPI closes dependencies before it sends the reply, or from 0.118 on *)
(* after it.  The project asks for 0.115 or later, so that images built at *)
(* different times, serving side by side, may do either.                   *)
(***************************************************************************)
EXTENDS Integers, FiniteSets

CONSTANTS
  Request,
  Container,
  Home,         \* request |-> the container that serves it
  Probe,        \* the health checks among the requests
  ExternalRef,
  external_ref, \* what a POST /advertisers creates, None for a GET
  total_tokens, \* threads of anyio's limiter
  database_pool_size,
  database_max_overflow,
  ReplyFirst,   \* containers whose FastAPI sends the reply before the commit
  None

ASSUME RequestAssumption ==
  /\ IsFiniteSet(Request) /\ Probe \subseteq Request
  /\ Home \in [Request -> Container]
  /\ external_ref \in [Request -> ExternalRef \cup {None}]
  /\ \A r \in Probe : external_ref[r] = None
  /\ ReplyFirst \subseteq Container
ASSUME NoneAssumption == None \notin ExternalRef
ASSUME SettingsAssumption ==
  /\ total_tokens \in Nat \ {0}
  /\ database_pool_size \in Nat \ {0} /\ database_max_overflow \in Nat

VARIABLES
  pc,          \* where each request is
  threads,     \* requests that occupy a worker thread
  connections, \* requests whose session has a connection
  inserted,    \* requests whose session has inserted and not committed
  stored,      \* requests whose row is committed
  created      \* requests whose 201 has been sent

rows == <<inserted, stored>>
vars == <<pc, threads, connections, rows, created>>

Label == {"idle", "call", "connect", "work", "busy", "reply", "commit",
          "send", "rollback", "done", "conflict", "failed"}

InFlight == {r \in Request : pc[r] \notin {"idle", "done", "conflict", "failed"}}

Goto(r, l) == pc' = [pc EXCEPT ![r] = l]

At(S, c) == {r \in S : Home[r] = c}

FreeThread(r) == Cardinality(At(threads, Home[r])) < total_tokens

\* Mutation: the pool is not bounded.
FreeConnection_Always(r) == TRUE

FreeConnection(r) ==
  Cardinality(At(connections, Home[r])) < database_pool_size + database_max_overflow

Writes(r) == external_ref[r] # None

Exists(ref) == \E q \in stored : external_ref[q] = ref

\* Another session has inserted the same external_ref.
Locked(r) == \E q \in inserted \ {r} : external_ref[q] = external_ref[r]
-----------------------------------------------------------------------------
Init ==
  /\ pc = [r \in Request |-> "idle"]
  /\ threads = {} /\ connections = {} /\ inserted = {} /\ stored = {} /\ created = {}

Receive(r) ==
  /\ pc[r] = "idle"
  /\ Goto(r, "call")
  /\ UNCHANGED <<threads, connections, rows, created>>

\* healthz and readyz neither wait for anything nor need a session.
Health(r) ==
  /\ r \in Probe
  /\ pc[r] = "call"
  /\ FreeThread(r)
  /\ Goto(r, "reply")
  /\ UNCHANGED <<threads, connections, rows, created>>

\* The handler starts, and its first statement asks the pool.
Call(r) ==
  /\ r \notin Probe
  /\ pc[r] = "call"
  /\ FreeThread(r)
  /\ threads' = threads \cup {r}
  /\ Goto(r, "connect")
  /\ UNCHANGED <<connections, rows, created>>

Connect(r) ==
  /\ pc[r] = "connect"
  /\ FreeConnection(r)
  /\ connections' = connections \cup {r}
  /\ Goto(r, "work")
  /\ UNCHANGED <<threads, rows, created>>

\* The pool gives up after its timeout, or the database refuses the connection:
\* a 500, and no session to end.
ConnectFails(r) ==
  /\ pc[r] = "connect"
  /\ threads' = threads \ {r}
  /\ Goto(r, "failed")
  /\ UNCHANGED <<connections, rows, created>>

PoolTimeout(r) == ~FreeConnection(r) /\ ConnectFails(r)

\* Mutation: no unique key on external_ref.
Insert_NoUniqueKey(r) ==
  /\ pc[r] = "work"
  /\ Writes(r)
  /\ inserted' = inserted \cup {r}
  /\ Goto(r, "busy")
  /\ UNCHANGED <<threads, connections, stored, created>>

Insert(r) ==
  /\ pc[r] = "work"
  /\ Writes(r)
  /\ ~Locked(r)
  /\ ~Exists(external_ref[r])
  /\ inserted' = inserted \cup {r}
  /\ Goto(r, "busy")
  /\ UNCHANGED <<threads, connections, stored, created>>

\* IntegrityError: the service rolls back at once and raises ConflictError.
InsertConflicts(r) ==
  /\ pc[r] = "work"
  /\ Writes(r)
  /\ ~Locked(r)
  /\ Exists(external_ref[r])
  /\ threads' = threads \ {r}
  /\ connections' = connections \ {r}
  /\ Goto(r, "conflict")
  /\ UNCHANGED <<rows, created>>

\* An exception leaves the handler; get_session gets it as soon as it can.
Raise(r) ==
  /\ threads' = threads \ {r}
  /\ Goto(r, "rollback")
  /\ UNCHANGED <<connections, rows, created>>

\* A GET.
Select(r) ==
  /\ pc[r] = "work"
  /\ ~Writes(r)
  /\ Goto(r, "busy")
  /\ UNCHANGED <<threads, connections, rows, created>>

\* NotFoundError.
Misses(r) ==
  /\ pc[r] = "work"
  /\ ~Writes(r)
  /\ Raise(r)

\* The database drops the session under a statement, waiting ones included.
StatementFails(r) ==
  /\ pc[r] \in {"work", "busy"}
  /\ Raise(r)

\* The handler returns; connection and row stay with the open session.
Return(r) ==
  /\ pc[r] = "busy"
  /\ threads' = threads \ {r}
  /\ Goto(r, "reply")
  /\ UNCHANGED <<connections, rows, created>>

\* The response is validated, in a thread again.
Validate(r) ==
  /\ pc[r] = "reply"
  /\ FreeThread(r)
  /\ \/ r \in Probe /\ Goto(r, "done")
     \/ r \notin Probe /\ Goto(r, IF Home[r] \in ReplyFirst THEN "send" ELSE "commit")
  /\ UNCHANGED <<threads, connections, rows, created>>

\* The reply leaves, after the commit or before it.
SendReply(r) ==
  /\ pc[r] = "send"
  /\ created' = IF Writes(r) THEN created \cup {r} ELSE created
  /\ Goto(r, IF Home[r] \in ReplyFirst THEN "commit" ELSE "done")
  /\ UNCHANGED <<threads, connections, rows>>

\* The database has committed the session's row.
Committed(r) ==
  /\ pc[r] = "commit"
  /\ stored' = IF Writes(r) THEN stored \cup {r} ELSE stored
  /\ inserted' = inserted \ {r}
  /\ UNCHANGED <<threads, created>>

Commit(r) ==
  /\ Committed(r)
  /\ connections' = connections \ {r}
  /\ Goto(r, IF Home[r] \in ReplyFirst THEN "done" ELSE "send")

\* The commit raises, although its row is stored if only the database's answer
\* to it was lost.  A 201 that has been sent stays sent.
CommitUnacknowledged(r) ==
  /\ Committed(r)
  /\ Goto(r, "rollback")
  /\ UNCHANGED connections

CommitFails(r) ==
  /\ pc[r] = "commit"
  /\ Goto(r, "rollback")
  /\ UNCHANGED <<threads, connections, rows, created>>

\* Mutation: get_session has no finally.
Rollback_Leaks(r) ==
  /\ pc[r] = "rollback"
  /\ Goto(r, "failed")
  /\ UNCHANGED <<threads, connections, rows, created>>

Rollback(r) ==
  /\ pc[r] = "rollback"
  /\ connections' = connections \ {r}
  /\ inserted' = inserted \ {r}
  /\ Goto(r, "failed")
  /\ UNCHANGED <<threads, stored, created>>

\* The container dies with all it serves, and Postgres aborts its sessions.
Crash(c) ==
  /\ At(InFlight, c) # {}
  /\ pc' = [r \in Request |-> IF r \in At(InFlight, c) THEN "failed" ELSE pc[r]]
  /\ threads' = threads \ At(Request, c)
  /\ connections' = connections \ At(Request, c)
  /\ inserted' = inserted \ At(Request, c)
  /\ UNCHANGED <<stored, created>>

Step(r) ==
  \/ Health(r) \/ Call(r) \/ Connect(r) \/ PoolTimeout(r)
  \/ Insert(r) \/ InsertConflicts(r) \/ Select(r) \/ Misses(r)
  \/ Return(r) \/ Validate(r) \/ SendReply(r) \/ Commit(r) \/ Rollback(r)

Fault(r) ==
  ConnectFails(r) \/ StatementFails(r) \/ CommitUnacknowledged(r) \/ CommitFails(r)

Terminating == InFlight = {} /\ UNCHANGED vars

Next ==
  \/ \E r \in Request : Receive(r) \/ Step(r) \/ Fault(r)
  \/ \E c \in Container : Crash(c)
  \/ Terminating

Spec == Init /\ [][Next]_vars

\* Threads run and the pool's timeout passes; nothing else ends a wait.
FairSpec == Spec /\ \A r \in Request : WF_vars(Step(r))
-----------------------------------------------------------------------------
\* Every variable stays within its type, and no limit is exceeded.
TypeOK ==
  /\ pc \in [Request -> Label]
  /\ threads \subseteq Request /\ connections \subseteq Request
  /\ inserted \subseteq Request /\ stored \subseteq Request
  /\ created \subseteq Request
  /\ \A c \in Container :
       /\ Cardinality(At(threads, c)) <= total_tokens
       /\ Cardinality(At(connections, c)) <= database_pool_size + database_max_overflow

\* Requests that cannot take a step of their own, unless the pool gives up.
Blocked(r) ==
  \/ pc[r] \in {"call", "reply"} /\ ~FreeThread(r)
  \/ pc[r] = "connect" /\ ~FreeConnection(r)
  \/ pc[r] = "work" /\ Writes(r) /\ Locked(r)

Stalled == InFlight # {} /\ \A r \in InFlight : Blocked(r)

\* A request that has done its work keeps its connection and its row while it
\* waits for a thread, and the threads may all wait for that row.  As long as
\* the pool is no larger than the limiter, one of them waits for a connection
\* instead, and the pool's timeout frees its thread.
StallsTimeOut ==
  database_pool_size + database_max_overflow <= total_tokens /\ Stalled =>
    \E r \in InFlight : pc[r] = "connect"

\* As long as no container serves more requests than it has threads, nothing
\* waits for a timeout to pass: whoever holds what others wait for gets on.
NoStallBelowThreads ==
  (\A c \in Container : Cardinality(At(InFlight, c)) <= total_tokens) => ~Stalled

\* An advertiser is stored once, and every 409 says so truly.  A 201 from a
\* container that commits first is as good as the row; one that was sent first
\* may turn out false, so that two requests may be answered 201 for one
\* external_ref, but only if the commit of one of them has failed since, or its
\* container has died before it.
OneCreator ==
  /\ \A r, q \in stored : external_ref[r] = external_ref[q] => r = q
  /\ \A r \in Request : pc[r] = "conflict" => Exists(external_ref[r])
  /\ \A r \in created : Home[r] \notin ReplyFirst => r \in stored
  /\ \A r, q \in created : external_ref[r] = external_ref[q] /\ r # q =>
       \E l \in {r, q} \ stored :
         Home[l] \in ReplyFirst /\ pc[l] \in {"rollback", "failed"}

\* Every request that was received ends, health checks included.  (A request is
\* received once, so the containers run empty again and again.)
EveryRequestEnds == []<>(InFlight = {})
=============================================================================
