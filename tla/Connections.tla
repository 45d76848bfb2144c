----------------------------- MODULE Connections -----------------------------
(***************************************************************************)
(* What the requests of one process share: the pool of DB_CONNECTION_LIMIT *)
(* database connections and the one Redis client, which dials at the first *)
(* call, queues what it cannot send, dials again when the link is lost,    *)
(* and is closed while the server still listens.  REDIS_ENABLED is true.   *)
(*                                                                         *)
(* A request is the list of what it waits for; what it reads and writes is *)
(* in the other modules.  ioredis and the pool are modelled by what their  *)
(* callers rely on, with the options that the source gives them.           *)
(***************************************************************************)
EXTENDS Naturals, Sequences, FiniteSets

CONSTANTS Request,
          Limit  \* DB_CONNECTION_LIMIT

ASSUME ConnectionsAssumption == Limit \in Nat \ {0}

VARIABLES
    up,       \* Redis can be reached
    status,   \* of the client, as RedisClient.connect reads it
    tries,    \* failed attempts since the link was last ready, mod Patience
    closing,  \* onModuleDestroy has been called
    plan, at, \* what each request does, and which step of it is next
    doing,
    leased,   \* the connections in use: whose, and for what
    queue,    \* the requests that wait for a connection, the first one first
    troubled  \* history: Redis was down, or closing, at an instant of the stay

redisVars == <<up, status, tries, closing>>
poolVars  == <<leased, queue>>
vars == <<redisVars, plan, at, doing, poolVars, troubled>>

-----------------------------------------------------------------------------
(* A Mutant is what the definition after it would be with a plausible bug; *)
(* put in its place, it must break one of the properties below.            *)

(* A "query" takes a connection for itself, several in a row one; "begin"  *)
(* takes one and keeps it to the "commit".                                 *)

\* LoginUseCase: the user, the cache, and the row of the refresh token.
LoginSteps == <<"query", "redis", "query">>

\* JwtStrategy: the blacklist, the user, and a hit of the cache; then LogoutUseCase:
\* the blacklist, and the row of the refresh token found and revoked.
LogoutSteps == <<"redis", "query", "redis", "redis", "query">>

\* JwtStrategy, and UpdateRoleUseCase with the transaction of replacePermissions.
UpdateRoleSteps == <<"redis", "query", "redis",
                     "query", "begin", "within", "commit", "query">>

\* The ping of the readiness probe; the one of the database goes beside it.
ReadySteps == <<"redis">>

Plan == [login |-> LoginSteps, logout |-> LogoutSteps,
         updateRole |-> UpdateRoleSteps, ready |-> ReadySteps]

Step(r) == Plan[plan[r]][at[r]]

\* The statements of replacePermissions go through the transaction's manager.
MutantTakes(step) == step \in {"query", "begin", "within"}  \* ... a repository
Takes(step) == step \in {"query", "begin"}

\* The limit is passed on to the pool.
MutantFree == TRUE                            \* ... under a name it does not know
Free == Cardinality(leased) < Limit

Use(step) == IF step \in {"begin", "commit"} THEN "transaction" ELSE "statement"

\* maxRetriesPerRequest: 3; at each fourth failure in a row all that is queued fails.
Patience == 4
MutantFlushes == FALSE                        \* maxRetriesPerRequest: null
Flushes == tries' = 0

\* RedisClient.connect: only a client that was never connected is.
MutantDials == TRUE
Dials == status = "wait"

TypeOK == /\ up \in BOOLEAN /\ closing \in BOOLEAN
          /\ status \in {"wait", "connecting", "ready", "reconnecting", "end"}
          /\ tries \in 0 .. Patience - 1
          /\ plan \in [Request -> DOMAIN Plan]
          /\ at \in [Request -> Nat] /\ \A r \in Request : at[r] \in DOMAIN Plan[plan[r]]
          /\ doing \in [Request -> {"out", "next", "asking", "running", "dialling",
                                    "pending", "unserved"}]
          /\ leased \subseteq Request \X {"statement", "transaction"}
          /\ Cardinality(leased) <= Limit
          /\ queue \in Seq(Request)
          /\ \A r \in Request : doing[r] = "asking" <=> \E i \in DOMAIN queue : queue[i] = r
          /\ troubled \in [Request -> BOOLEAN]

-----------------------------------------------------------------------------
Init == /\ up \in BOOLEAN /\ status = "wait" /\ tries = 0 /\ closing = FALSE
        /\ plan \in [Request -> DOMAIN Plan] /\ at = [r \in Request |-> 1]
        /\ doing = [r \in Request |-> "out"]
        /\ leased = {} /\ queue = <<>>
        /\ troubled = [r \in Request |-> FALSE]

Observe == troubled' = [r \in Request |->
                          doing'[r] # "out" /\ (troubled[r] \/ ~up' \/ closing')]

Goto(r, label) == doing' = [doing EXCEPT ![r] = label]

\* The step is done: on to the next, or the answer.
Done(r) == IF at[r] < Len(Plan[plan[r]])
           THEN Goto(r, "next") /\ at' = [at EXCEPT ![r] = @ + 1]
           ELSE Goto(r, "out") /\ at' = [at EXCEPT ![r] = 1]

Arrive(r) == /\ doing[r] = "out"
             /\ \E p \in DOMAIN Plan : plan' = [plan EXCEPT ![r] = p]
             /\ Goto(r, "next")
             /\ at' = [at EXCEPT ![r] = 1]
             /\ UNCHANGED <<redisVars, poolVars>>

(* The database *)

Ask(r) == /\ doing[r] = "next" /\ Takes(Step(r))
          /\ queue' = Append(queue, r)
          /\ Goto(r, "asking")
          /\ UNCHANGED <<redisVars, plan, at, leased>>

\* The pool hands out a connection.
Lease == /\ queue # <<>> /\ Free
         /\ leased' = leased \cup {<<Head(queue), Use(Step(Head(queue)))>>}
         /\ queue' = Tail(queue)
         /\ Goto(Head(queue), "running")
         /\ UNCHANGED <<redisVars, plan, at>>

\* A statement, or the end, of a transaction, on its connection.
Continue(r) == /\ doing[r] = "next" /\ Step(r) # "redis" /\ ~Takes(Step(r))
               /\ Goto(r, "running")
               /\ UNCHANGED <<redisVars, poolVars, plan, at>>

Ran(r) == /\ doing[r] = "running"
          /\ leased' = IF Step(r) = "begin" THEN leased
                       ELSE leased \ {<<r, Use(Step(r))>>}
          /\ Done(r)
          /\ UNCHANGED <<redisVars, plan, queue>>

\* The transaction, if there is one, is rolled back and its connection released.
StatementFails(r) == /\ doing[r] = "running"
                     /\ leased' = leased \ ({r} \X {"statement", "transaction"})
                     /\ Goto(r, "out")
                     /\ at' = [at EXCEPT ![r] = 1]
                     /\ UNCHANGED <<redisVars, plan, queue>>

(* The Redis client *)

\* Each method of an adapter, and the ping of the probe: connect, then the command.
\* ioredis refuses to connect twice, and any command once it has ended.
Call(r) ==
    /\ doing[r] = "next" /\ Step(r) = "redis"
    /\ IF Dials THEN IF status = "wait"
                     THEN status' = "connecting" /\ Goto(r, "dialling")
                     ELSE Goto(r, "unserved") /\ UNCHANGED status
       ELSE Goto(r, IF status = "end" THEN "unserved" ELSE "pending") /\ UNCHANGED status
    /\ UNCHANGED <<up, tries, closing, poolVars, plan, at>>

Connected == /\ status = "connecting" /\ up
             /\ status' = "ready" /\ tries' = 0
             /\ doing' = [r \in Request |->
                            IF doing[r] = "dialling" THEN "pending" ELSE doing[r]]
             /\ UNCHANGED <<up, closing, poolVars, plan, at>>

\* An attempt fails, or the link is lost.  The request that dialled fails with it;
\* the others stay queued, or will be sent again, until patience is over.
Lost == /\ status \in {"connecting", "ready"} /\ ~up
        /\ status' = "reconnecting"
        /\ tries' = (tries + 1) % Patience
        /\ doing' = [r \in Request |->
                       IF doing[r] = "dialling" \/ (doing[r] = "pending" /\ Flushes)
                       THEN "unserved" ELSE doing[r]]
        /\ UNCHANGED <<up, closing, poolVars, plan, at>>

Redial == /\ status = "reconnecting"
          /\ status' = "connecting"
          /\ UNCHANGED <<up, tries, closing, poolVars, plan, at, doing>>

Answered(r) == /\ doing[r] = "pending" /\ status = "ready" /\ up
               /\ Done(r)
               /\ UNCHANGED <<redisVars, poolVars, plan>>

\* The error reaches the exception filter, outside of any transaction.
Refuse(r) == /\ doing[r] = "unserved"
             /\ Goto(r, "out")
             /\ at' = [at EXCEPT ![r] = 1]
             /\ UNCHANGED <<redisVars, poolVars, plan>>

Flip == up' = ~up /\ UNCHANGED <<status, tries, closing, poolVars, plan, at, doing>>

(* The end of the process *)

\* The hooks run before the server is told to stop listening.
OnModuleDestroy == /\ ~closing /\ closing' = TRUE
                   /\ UNCHANGED <<up, status, tries, poolVars, plan, at, doing>>

\* QUIT is answered, or not needed as nothing was ever sent.  What was sent after
\* it, or is still dialling, fails; what was sent before is answered first.
Quit == /\ closing /\ status # "end"
        /\ status = "ready" \/ \A r \in Request : doing[r] # "pending"
        /\ status' = "end"
        /\ doing' = [r \in Request |-> IF doing[r] \in {"dialling", "pending"}
                                       THEN "unserved" ELSE doing[r]]
        /\ UNCHANGED <<up, tries, closing, poolVars, plan, at>>

\* The process ends, for whatever reason, and is started again.
Restart == /\ status' = "wait" /\ tries' = 0 /\ closing' = FALSE
           /\ doing' = [r \in Request |-> "out"] /\ at' = [r \in Request |-> 1]
           /\ leased' = {} /\ queue' = <<>>
           /\ UNCHANGED <<up, plan>>

-----------------------------------------------------------------------------
RequestStep(r) == \/ Ask(r) \/ Continue(r) \/ Ran(r) \/ StatementFails(r)
                  \/ Call(r) \/ Answered(r) \/ Refuse(r)
ClientStep == Connected \/ Lost \/ Redial

Next == /\ \/ \E r \in Request : Arrive(r) \/ RequestStep(r)
           \/ Lease \/ ClientStep \/ Flip \/ OnModuleDestroy \/ Quit \/ Restart
        /\ Observe

\* Statements and commands are answered or fail, a pool with a free connection
\* hands it out, and the client's attempts end and are repeated.
Fairness == /\ \A r \in Request : WF_vars(RequestStep(r) /\ Observe)
            /\ WF_vars(Lease /\ Observe) /\ WF_vars(ClientStep /\ Observe)

Spec == Init /\ [][Next]_vars /\ Fairness

-----------------------------------------------------------------------------
(* What holds *)

\* A request that waits, for a connection or for Redis, has none of the pool: an
\* outage of Redis cannot use up the pool, and no two requests wait for each other.
WaitsEmptyHanded ==
    \A r \in Request : doing[r] \in {"asking", "dialling", "pending", "unserved"} =>
                         \A use \in {"statement", "transaction"} : <<r, use>> \notin leased

\* Redis fails a request only if it was down, or the process was closing, while the
\* request was there, however many called connect at the same time.
FailsOnlyWithCause == \A r \in Request : doing[r] = "unserved" => troubled[r]

\* Each request ends, also if Redis never comes back, unless Redis comes and goes
\* for ever.
EveryRequestEnds == <>[]up \/ <>[]~up =>
                      \A r \in Request : doing[r] # "out" ~> doing[r] = "out"
=============================================================================
