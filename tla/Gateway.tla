------------------------------ MODULE Gateway ------------------------------
(***************************************************************************)
(* Admission of HTTP requests: handle_mcp, simple_response and the worker   *)
(* of streaming_response (mcp_http.rs) with the three semaphores and the    *)
(* principal limiter (mcp_http_rate.rs).                                    *)
(*                                                                         *)
(* A request is a handler (pc) and, once it is dispatched, a blocking task  *)
(* (task).  The handler answers, times out or is dropped with its           *)
(* connection; the task it started goes on and keeps the permits.  What a   *)
(* task does is abstracted to the database connections it opens.            *)
(*                                                                         *)
(* Tokens are counted in units: Unit of them make one request's token and   *)
(* Rate of them are refilled per tick of the clock, so that the arithmetic  *)
(* of the bucket is exact (the code's is in 64-bit floating point).         *)
(***************************************************************************)
EXTENDS Naturals, FiniteSets

CONSTANTS
    Requests,          \* HTTP requests
    Principals,        \* authority ids
    Owner,             \* the principal of a request
    Needs,             \* database connections of a request's method: 0, 1 or 2
    MaxPreAuth,        \* max_pre_auth_concurrent_requests
    MaxAuthenticated,  \* max_concurrent_requests
    MaxDatabase,       \* max_database_connections
    MaxConcurrent,     \* a principal's max_concurrent
    Burst,             \* a principal's burst
    Rate,              \* units refilled per tick (requests_per_minute)
    Unit,              \* units of one token
    MaxTime            \* bound on the clock

ASSUME LimitsAssumption ==
    /\ IsFiniteSet(Requests)
    /\ Owner \in [Requests -> Principals]
    /\ Needs \in [Requests -> 0 .. 2]
    /\ MaxPreAuth \in Nat /\ MaxAuthenticated \in Nat /\ MaxDatabase \in Nat
    /\ MaxConcurrent \in Nat /\ Burst \in Nat
    /\ Rate \in Nat /\ Unit \in Nat /\ MaxTime \in Nat

VARIABLES
    now,            \* the clock
    pc,             \* where the handler is
    task,           \* the blocking task of a dispatched request
    conns,          \* open database connections: a request and a number
    preAuth,        \* free permits of the pre-auth semaphore
    authenticated,  \* free permits of the request semaphore
    database,       \* free permits of the database semaphore
    tokens,         \* units in a principal's bucket
    refilled,       \* last_refill of the bucket
    active,         \* the bucket's count of active requests
    admitted        \* history: requests of a principal admitted so far

vars == <<now, pc, task, conns, preAuth, authenticated, database, tokens,
          refilled, active, admitted>>
bucket == <<tokens, refilled, admitted>>

Handling == {"screen", "limit", "seat", "body", "parse", "connect", "respond"}

TypeOK ==
    /\ now \in Nat
    /\ pc \in [Requests -> Handling \cup {"idle", "done"}]
    /\ task \in [Requests -> {"none", "queued", "running", "ended"}]
    /\ conns \subseteq Requests \X {1, 2}
    /\ preAuth \in 0 .. MaxPreAuth
    /\ authenticated \in 0 .. MaxAuthenticated
    /\ database \in 0 .. MaxDatabase
    /\ tokens \in [Principals -> 0 .. Burst * Unit]
    /\ refilled \in [Principals -> 0 .. now]
    /\ active \in [Principals -> 0 .. MaxConcurrent]
    /\ admitted \in [Principals -> Nat]

\* A bucket is created full by its first request.
Init ==
    /\ now = 0
    /\ pc = [r \in Requests |-> "idle"]
    /\ task = [r \in Requests |-> "none"]
    /\ conns = {}
    /\ preAuth = MaxPreAuth
    /\ authenticated = MaxAuthenticated
    /\ database = MaxDatabase
    /\ tokens = [p \in Principals |-> Burst * Unit]
    /\ refilled = [p \in Principals |-> 0]
    /\ active = [p \in Principals |-> 0]
    /\ admitted = [p \in Principals |-> 0]

Goto(r, label) == pc' = [pc EXCEPT ![r] = label]

Tick ==
    /\ now < MaxTime
    /\ now' = now + 1
    /\ UNCHANGED <<pc, task, conns, preAuth, authenticated, database, bucket,
                   active>>

-----------------------------------------------------------------------------
(* The handler up to its dispatch.  Nothing is awaited before the body, so  *)
(* that a lost client is noticed there at the earliest.                     *)

Arrive(r) ==
    /\ pc[r] = "idle"
    /\ \/ preAuth > 0 /\ preAuth' = preAuth - 1 /\ Goto(r, "screen")
       \/ preAuth = 0 /\ UNCHANGED preAuth /\ Goto(r, "done")
    /\ UNCHANGED <<now, task, conns, authenticated, database, bucket, active>>

\* Host, origin, headers, bearer token and scope are in order.
Screen(r) ==
    /\ pc[r] = "screen"
    /\ Goto(r, "limit")
    /\ UNCHANGED <<now, task, conns, preAuth, authenticated, database, bucket,
                   active>>

\* One of them is not.
ScreenFails(r) ==
    /\ pc[r] = "screen"
    /\ preAuth' = preAuth + 1
    /\ Goto(r, "done")
    /\ UNCHANGED <<now, task, conns, authenticated, database, bucket, active>>

\* The bucket's content at the time of the call.
Refill(p) ==
    LET full == Burst * Unit
        sum == tokens[p] + (now - refilled[p]) * Rate
    IN  IF sum > full THEN full ELSE sum

\* Variant: a part of a token admits a request.
LimitRoundsUp(r) ==
    LET p == Owner[r] IN
    /\ pc[r] = "limit"
    /\ refilled' = [refilled EXCEPT ![p] = now]
    /\ IF active[p] >= MaxConcurrent \/ Refill(p) = 0
       THEN /\ tokens' = [tokens EXCEPT ![p] = Refill(p)]
            /\ preAuth' = preAuth + 1
            /\ Goto(r, "done")
            /\ UNCHANGED <<active, admitted>>
       ELSE /\ tokens' = [tokens EXCEPT ![p] = Refill(p) - Unit]
            /\ active' = [active EXCEPT ![p] = @ + 1]
            /\ admitted' = [admitted EXCEPT ![p] = @ + 1]
            /\ Goto(r, "seat")
            /\ UNCHANGED preAuth
    /\ UNCHANGED <<now, task, conns, authenticated, database>>

\* Variant: a refused request leaves last_refill alone.
LimitKeepsClock(r) ==
    LET p == Owner[r] IN
    /\ pc[r] = "limit"
    /\ IF active[p] >= MaxConcurrent \/ Refill(p) < Unit
       THEN /\ tokens' = [tokens EXCEPT ![p] = Refill(p)]
            /\ preAuth' = preAuth + 1
            /\ Goto(r, "done")
            /\ UNCHANGED <<refilled, active, admitted>>
       ELSE /\ tokens' = [tokens EXCEPT ![p] = Refill(p) - Unit]
            /\ refilled' = [refilled EXCEPT ![p] = now]
            /\ active' = [active EXCEPT ![p] = @ + 1]
            /\ admitted' = [admitted EXCEPT ![p] = @ + 1]
            /\ Goto(r, "seat")
            /\ UNCHANGED preAuth
    /\ UNCHANGED <<now, task, conns, authenticated, database>>

\* PrincipalLimiter::acquire, under its mutex.
Limit(r) ==
    LET p == Owner[r] IN
    /\ pc[r] = "limit"
    /\ refilled' = [refilled EXCEPT ![p] = now]
    /\ IF active[p] >= MaxConcurrent \/ Refill(p) < Unit
       THEN /\ tokens' = [tokens EXCEPT ![p] = Refill(p)]
            /\ preAuth' = preAuth + 1
            /\ Goto(r, "done")
            /\ UNCHANGED <<active, admitted>>
       ELSE /\ tokens' = [tokens EXCEPT ![p] = Refill(p) - Unit]
            /\ active' = [active EXCEPT ![p] = @ + 1]
            /\ admitted' = [admitted EXCEPT ![p] = @ + 1]
            /\ Goto(r, "seat")
            /\ UNCHANGED preAuth
    /\ UNCHANGED <<now, task, conns, authenticated, database>>

\* PrincipalPermit::drop.
LeavePrincipal(r) ==
    active' = [active EXCEPT ![Owner[r]] = IF @ = 0 THEN 0 ELSE @ - 1]

Seat(r) ==
    /\ pc[r] = "seat"
    /\ IF authenticated > 0
       THEN /\ authenticated' = authenticated - 1
            /\ Goto(r, "body")
            /\ UNCHANGED <<preAuth, active>>
       ELSE /\ LeavePrincipal(r)
            /\ preAuth' = preAuth + 1
            /\ Goto(r, "done")
            /\ UNCHANGED authenticated
    /\ UNCHANGED <<now, task, conns, database, bucket>>

\* The whole body arrived within its time and size limits.
Body(r) ==
    /\ pc[r] = "body"
    /\ preAuth' = preAuth + 1
    /\ Goto(r, "parse")
    /\ UNCHANGED <<now, task, conns, authenticated, database, bucket, active>>

\* The body is too large or too slow, or the client is gone.
BodyFails(r) ==
    /\ pc[r] = "body"
    /\ preAuth' = preAuth + 1
    /\ authenticated' = authenticated + 1
    /\ LeavePrincipal(r)
    /\ Goto(r, "done")
    /\ UNCHANGED <<now, task, conns, database, bucket>>

\* The body is a request for a known method.
Parse(r) ==
    /\ pc[r] = "parse"
    /\ Goto(r, "connect")
    /\ UNCHANGED <<now, task, conns, preAuth, authenticated, database, bucket,
                   active>>

\* It is not, or its headers disagree with it.
ParseFails(r) ==
    /\ pc[r] = "parse"
    /\ authenticated' = authenticated + 1
    /\ LeavePrincipal(r)
    /\ Goto(r, "done")
    /\ UNCHANGED <<now, task, conns, preAuth, database, bucket>>

\* Variant: one permit per request.
DatabasePermitsOne(r) == IF Needs[r] > 0 THEN 1 ELSE 0

\* The permits that handle_mcp takes for a method that uses the database,
\* whichever tool it names.
DatabasePermits(r) == IF Needs[r] > 0 THEN 2 ELSE 0

\* try_acquire_many_owned finds too few permits.
Refuse(r) ==
    /\ pc[r] = "connect"
    /\ database < DatabasePermits(r)
    /\ authenticated' = authenticated + 1
    /\ LeavePrincipal(r)
    /\ Goto(r, "done")
    /\ UNCHANGED <<now, task, conns, preAuth, database, bucket>>

\* server_for_principal fails; the permits just taken are dropped.
Deny(r) ==
    /\ pc[r] = "connect"
    /\ database >= DatabasePermits(r)
    /\ authenticated' = authenticated + 1
    /\ LeavePrincipal(r)
    /\ Goto(r, "done")
    /\ UNCHANGED <<now, task, conns, preAuth, database, bucket>>

\* The permits move into the closure that spawn_blocking queues.
Dispatch(r) ==
    /\ pc[r] = "connect"
    /\ database >= DatabasePermits(r)
    /\ database' = database - DatabasePermits(r)
    /\ task' = [task EXCEPT ![r] = "queued"]
    /\ Goto(r, "respond")
    /\ UNCHANGED <<now, conns, preAuth, authenticated, bucket, active>>

-----------------------------------------------------------------------------
(* The task and the response.                                              *)

\* Variant: a task whose response is gone is not started any more.
StartAttached(r) ==
    /\ task[r] = "queued"
    /\ pc[r] = "respond"
    /\ task' = [task EXCEPT ![r] = "running"]
    /\ UNCHANGED <<now, pc, conns, preAuth, authenticated, database, bucket,
                   active>>

Start(r) ==
    /\ task[r] = "queued"
    /\ task' = [task EXCEPT ![r] = "running"]
    /\ UNCHANGED <<now, pc, conns, preAuth, authenticated, database, bucket,
                   active>>

\* A call connects to the source and, if it executes, to the audit schema.
Connect(r) ==
    /\ task[r] = "running"
    /\ \E k \in 1 .. Needs[r] :
          /\ <<r, k>> \notin conns
          /\ k = 2 => <<r, 1>> \in conns
          /\ conns' = conns \cup {<<r, k>>}
    /\ UNCHANGED <<now, pc, task, preAuth, authenticated, database, bucket,
                   active>>

\* The closure returns or unwinds: its connections close, its permits drop.
End(r) ==
    /\ task[r] = "running"
    /\ task' = [task EXCEPT ![r] = "ended"]
    /\ conns' = {c \in conns : c[1] # r}
    /\ authenticated' = authenticated + 1
    /\ database' = database + DatabasePermits(r)
    /\ LeavePrincipal(r)
    /\ UNCHANGED <<now, pc, preAuth, bucket>>

\* The task's result is the response.
Respond(r) ==
    /\ pc[r] = "respond"
    /\ task[r] = "ended"
    /\ Goto(r, "done")
    /\ UNCHANGED <<now, task, conns, preAuth, authenticated, database, bucket,
                   active>>

\* Variant: the response owns the permits and drops them.
AbandonFrees(r) ==
    /\ pc[r] = "respond"
    /\ task[r] # "ended"
    /\ Goto(r, "done")
    /\ authenticated' = authenticated + 1
    /\ database' = database + DatabasePermits(r)
    /\ LeavePrincipal(r)
    /\ UNCHANGED <<now, task, conns, preAuth, bucket>>

\* The execution or stream deadline passes, or the client is gone: the
\* response ends and the task goes on with its permits.
Abandon(r) ==
    /\ pc[r] = "respond"
    /\ Goto(r, "done")
    /\ UNCHANGED <<now, task, conns, preAuth, authenticated, database, bucket,
                   active>>

-----------------------------------------------------------------------------
Handler(r) ==
    \/ Screen(r) \/ ScreenFails(r) \/ Limit(r) \/ Seat(r)
    \/ Body(r) \/ BodyFails(r) \/ Parse(r) \/ ParseFails(r)
    \/ Refuse(r) \/ Deny(r) \/ Dispatch(r) \/ Respond(r) \/ Abandon(r)

Worker(r) == Start(r) \/ Connect(r) \/ End(r)

Next ==
    \/ Tick
    \/ \E r \in Requests : Arrive(r) \/ Handler(r) \/ Worker(r)

Spec == Init /\ [][Next]_vars

\* The body and the response have deadlines, and every wait of a task on the
\* database is bounded by a connect, lock or statement timeout.
FairSpec ==
    /\ Spec
    /\ \A r \in Requests : WF_vars(Handler(r)) /\ WF_vars(Worker(r))

-----------------------------------------------------------------------------
(* Properties.                                                            *)

Live(r) == task[r] \in {"queued", "running"}
PreAuthHolders == {r \in Requests : pc[r] \in {"screen", "limit", "seat", "body"}}
SeatHolders ==
    {r \in Requests : pc[r] \in {"body", "parse", "connect"} \/ Live(r)}
DatabaseHolders == {r \in Requests : Needs[r] > 0 /\ Live(r)}
PrincipalHolders(p) ==
    {r \in Requests : Owner[r] = p /\ (pc[r] = "seat" \/ r \in SeatHolders)}

\* Every permit is free or with exactly one request, on every path through
\* handle_mcp and its task, and a permit that a response left behind stays
\* with the task (ExecutionPermits): none is lost and none returned twice.
PermitsAccounted ==
    /\ preAuth + Cardinality(PreAuthHolders) = MaxPreAuth
    /\ authenticated + Cardinality(SeatHolders) = MaxAuthenticated
    /\ database + 2 * Cardinality(DatabaseHolders) = MaxDatabase
    /\ \A p \in Principals : active[p] = Cardinality(PrincipalHolders(p))

\* The gateway never has more database connections open than
\* max_database_connections, tasks whose response timed out included.
ConnectionsBounded == Cardinality(conns) <= MaxDatabase

\* A principal is admitted at most `burst` requests plus those its rate allows
\* for the elapsed time, however refused requests and idle times interleave
\* with them (PrincipalLimiter::acquire).
RateBound ==
    \A p \in Principals : Unit * admitted[p] <= Unit * Burst + Rate * now

\* A request that took a permit ends and gives back all it took, even if its
\* client left before its task was started.
PermitsReturn ==
    \A r \in Requests :
        pc[r] = "screen" ~> r \notin PreAuthHolders \cup SeatHolders /\ pc[r] = "done"

-----------------------------------------------------------------------------
(* The inductive invariant.                                                *)

\* A handler has no task before it dispatches one.
StageInv == \A r \in Requests : pc[r] \notin {"respond", "done"} => task[r] = "none"

\* Only a running task that holds database permits has connections.
ConnectionInv ==
    \A c \in conns : task[c[1]] = "running" /\ c[2] <= Needs[c[1]]

\* Admissions and the tokens left are paid for by the first fill of the bucket
\* and by the time up to its last refill.
BucketInv ==
    \A p \in Principals :
        Unit * admitted[p] + tokens[p] <= Unit * Burst + Rate * refilled[p]

\* What handle_mcp, its task and the limiter keep together: the accounts of the
\* permits hold because a permit has one owner at each stage, and the bound on
\* admissions because a refill is never counted twice.
GatewayInv ==
    /\ TypeOK
    /\ StageInv
    /\ ConnectionInv
    /\ PermitsAccounted
    /\ BucketInv

=============================================================================
