---------------------------- MODULE AccessTokens ----------------------------
(***************************************************************************)
(* Access tokens and the two stores of a logout.  A guarded request        *)
(* verifies its token and asks the blacklist; a logout, itself a guarded   *)
(* request, puts its token there and then revokes the row it finds for the *)
(* refresh token in its body, whoever's that is.  The blacklist is Redis,  *)
(* shared by all processes, or a map in each.  An access token is known by *)
(* its jti, which is unique, and row[t] is the row of refresh_tokens       *)
(* issued with it; a refresh token is known, as in Sessions, by its user   *)
(* and the second it was signed in, so two rows may have the same hash.    *)
(*                                                                         *)
(* Time is the second and whether it has just begun (0) or not (1): a JWT  *)
(* and the memory adapter look at the second only, Redis at the instant.   *)
(***************************************************************************)
EXTENDS Naturals

CONSTANTS Token, Request, Process, User,
          AccessTtl,  \* JWT_ACCESS_EXPIRES_IN, in seconds
          MaxNow      \* bound on the clock

ASSUME AccessTokensAssumption == AccessTtl \in Nat \ {0} /\ MaxNow \in Nat \ {0}

VARIABLES now, partway,
          redis,    \* REDIS_ENABLED, read once: which adapter is the blacklist
          owner,    \* whose login or refresh each token is issued by
          exp,      \* exp of each token, 0 before it is issued
          signed,   \* iat of the refresh token issued with it, 0 before
          until,    \* blacklist of each process: when the entry of a token ends
          row,      \* refresh_tokens
          at,       \* the process that serves a request
          pc,       \* what each request does next
          bearer,   \* the token each request carries
          revoked,  \* history: tokens logged out, as far as a process remembers
          halfway,  \* history: tokens whose logout ended between its two stores
          astray    \* history: tokens whose logout had another refresh token in it

clock   == <<now, partway>>
issued  == <<owner, exp, signed>>
history == <<revoked, halfway, astray>>
vars    == <<clock, redis, issued, until, row, at, pc, bearer, history>>

-----------------------------------------------------------------------------
Instant == [sec : 0 .. MaxNow + AccessTtl, part : {0, 1}]
Never   == [sec |-> 0, part |-> 0]
Second  == 0 .. MaxNow + 1

TypeOK == /\ now \in 1 .. MaxNow
          /\ partway \in {0, 1}
          /\ redis \in BOOLEAN
          /\ owner \in [Token -> User]
          /\ exp \in [Token -> 0 .. MaxNow + AccessTtl]
          /\ signed \in [Token -> Second]
          /\ until \in [Process -> [Token -> Instant]]
          /\ row \in [Token -> {"absent", "live", "revoked"}]
          /\ at \in [Request -> Process]
          /\ pc \in [Request -> {"idle", "check", "accepted", "row"}]
          /\ bearer \in [Request -> Token]
          /\ revoked \in SUBSET (Process \X Token)
          /\ halfway \in SUBSET Token
          /\ astray \in SUBSET Token

\* jsonwebtoken: clockTimestamp >= exp is expired.
Unexpired(t) == now < exp[t]

(* A Mutant is what the definition after it would be with a plausible bug; *)
(* put in its place, it must break one of the properties below.            *)

Larger(a, b) == IF a >= b THEN a ELSE b

\* Redis ends an entry ttl seconds after setex; a slow setex only prolongs it.
MutantRedisAbsolute(t) == [sec |-> now + exp[t], part |-> partway]   \* exp for ttl
MutantRedisUntil(t) == [sec |-> now + Larger(exp[t] - (now + 1), 1), part |-> partway]
RedisUntil(t) == [sec |-> now + Larger(exp[t] - now, 1), part |-> partway]

\* The memory adapter prunes an entry once expiresAtUnix <= now, in seconds.
MemoryUntil(t) == [sec |-> exp[t], part |-> 0]

EntryUntil(t) == IF redis THEN RedisUntil(t) ELSE MemoryUntil(t)

\* The processes whose blacklist a write of process p is in.
Reached(p) == IF redis THEN Process ELSE {p}

IsRevoked(p, t) == \/ now < until[p][t].sec
                   \/ now = until[p][t].sec /\ partway < until[p][t].part

RefreshToken(t) == <<owner[t], signed[t]>>

\* The rows that have the hash of a refresh token; findByHash takes any of them.
Hashed(jwt) == {t \in Token : row[t] # "absent" /\ RefreshToken(t) = jwt}

\* revokeById, unless the row found is revoked already.
MutantRowRevoked(t) == row                     \* the promise is not awaited, and lost
RowRevoked(t) == [row EXCEPT ![t] = "revoked"]

-----------------------------------------------------------------------------
Init == /\ now = 1 /\ partway \in {0, 1}
        /\ redis \in BOOLEAN
        /\ owner \in [Token -> User]
        /\ exp = [t \in Token |-> 0]
        /\ signed = [t \in Token |-> 0]
        /\ until = [p \in Process |-> [t \in Token |-> Never]]
        /\ row = [t \in Token |-> "absent"]
        /\ at \in [Request -> Process]
        /\ pc = [r \in Request |-> "idle"]
        /\ bearer \in [Request -> Token]
        /\ revoked = {} /\ halfway = {} /\ astray = {}

Goto(r, label) == pc' = [pc EXCEPT ![r] = label]

\* issuePair: the refresh token is signed right after the access token, which
\* may be in the next second.
Sign(t) == /\ exp[t] = 0
           /\ exp' = [exp EXCEPT ![t] = now + AccessTtl]
           /\ \E s \in {now, now + 1} : signed' = [signed EXCEPT ![t] = s]

\* A login, with the row of the refresh token it answers with.
Issue(t) == /\ Sign(t)
            /\ row' = [row EXCEPT ![t] = "live"]
            /\ UNCHANGED <<clock, redis, owner, until, at, pc, bearer, history>>

\* A refresh, which asks for no access token: Sessions has its steps.
Refresh(s, t) ==
    /\ row[s] = "live" /\ owner[t] = owner[s]
    /\ Sign(t)
    /\ row' = [row EXCEPT ![s] = "revoked", ![t] = "live"]
    /\ UNCHANGED <<clock, redis, owner, until, at, pc, bearer, history>>

\* A refresh that finds row s revoked already ends all sessions of its user; so
\* does one that finds it past expires_at, a time that is Sessions' subject.
RevokeAllForUser(s) ==
    /\ row[s] = "revoked"
    /\ row' = [t \in Token |-> IF owner[t] = owner[s] /\ row[t] = "live"
                               THEN "revoked" ELSE row[t]]
    /\ UNCHANGED <<clock, redis, issued, until, at, pc, bearer, history>>

\* passport-jwt checks the signature and exp before validate is called.
Verify(r) == /\ pc[r] = "idle"
             /\ \E t \in Token : Unexpired(t) /\ bearer' = [bearer EXCEPT ![r] = t]
             /\ Goto(r, "check")
             /\ UNCHANGED <<clock, redis, issued, until, row, at, history>>

\* validate asks the blacklist, an await later.
CheckBlacklist(r) ==
    /\ pc[r] = "check"
    /\ Goto(r, IF IsRevoked(at[r], bearer[r]) THEN "idle" ELSE "accepted")
    /\ UNCHANGED <<clock, redis, issued, until, row, at, bearer, history>>

\* Any handler, its answer, or a failure before it.
Finish(r) == /\ pc[r] \in {"check", "accepted"}
             /\ Goto(r, "idle")
             /\ UNCHANGED <<clock, redis, issued, until, row, at, bearer, history>>

\* The handler is logout: it blacklists the token it came with ...
LogoutRevoke(r) ==
    /\ pc[r] = "accepted"
    /\ until' = [p \in Process |-> IF p \in Reached(at[r])
                    THEN [until[p] EXCEPT ![bearer[r]] = EntryUntil(bearer[r])]
                    ELSE until[p]]
    /\ revoked' = revoked \cup (Reached(at[r]) \X {bearer[r]})
    /\ Goto(r, "row")
    /\ UNCHANGED <<clock, redis, issued, row, at, bearer, halfway, astray>>

\* ... and then revokes the row of the refresh token in its body, which nothing
\* compares with the bearer's; without such a row it answers 204 all the same.
\* A row never becomes live again, so its lookup and its update are one step.
LogoutRow(r) ==
    /\ pc[r] = "row"
    /\ \E body \in User \X Second :
         /\ \/ Hashed(body) = {} /\ row' = row
            \/ \E t \in Hashed(body) : row' = RowRevoked(t)
         /\ astray' = IF body = RefreshToken(bearer[r]) THEN astray
                      ELSE astray \cup {bearer[r]}
    /\ Goto(r, "idle")
    /\ UNCHANGED <<clock, redis, issued, until, at, bearer, revoked, halfway>>

\* MySQL fails after Redis has not: the answer is an error.
LogoutFails(r) ==
    /\ pc[r] = "row"
    /\ Goto(r, "idle")
    /\ halfway' = halfway \cup {bearer[r]}
    /\ UNCHANGED <<clock, redis, issued, until, row, at, bearer, revoked, astray>>

\* A process restarts: its requests are gone, and its memory adapter's entries.
Restart(p) ==
    /\ pc' = [r \in Request |-> IF at[r] = p THEN "idle" ELSE pc[r]]
    /\ until' = IF redis THEN until
                ELSE [until EXCEPT ![p] = [t \in Token |-> Never]]
    /\ revoked' = IF redis THEN revoked ELSE revoked \ ({p} \X Token)
    /\ halfway' = halfway \cup
                    {bearer[r] : r \in {q \in Request : at[q] = p /\ pc[q] = "row"}}
    /\ UNCHANGED <<clock, redis, issued, row, at, bearer, astray>>

Tick == /\ \/ partway = 0 /\ partway' = 1 /\ now' = now
           \/ partway = 1 /\ now < MaxNow /\ partway' = 0 /\ now' = now + 1
        /\ UNCHANGED <<redis, issued, until, row, at, pc, bearer, history>>

Next == \/ \E t \in Token : Issue(t) \/ RevokeAllForUser(t)
        \/ \E s, t \in Token : Refresh(s, t)
        \/ \E r \in Request : \/ Verify(r) \/ CheckBlacklist(r) \/ Finish(r)
                              \/ LogoutRevoke(r) \/ LogoutRow(r) \/ LogoutFails(r)
        \/ \E p \in Process : Restart(p)
        \/ Tick

Spec == Init /\ [][Next]_vars

-----------------------------------------------------------------------------
(* What holds *)

\* A token that has been logged out, in this process or with Redis in any, is
\* accepted again only by a request that was verified before the token expired
\* and reached the blacklist after.  So a logout that failed cannot be retried.
RevokedUntilExpiry ==
    [][\A r \in Request :
          /\ pc[r] = "check" /\ pc'[r] = "accepted"
          /\ <<at[r], bearer[r]>> \in revoked
          => ~Unexpired(bearer[r])]_vars

\* A refresh token is live after its access token was blacklisted only while the
\* logout is between its two stores or because one ended there, because the body
\* of one had another refresh token, or because an equal one, signed for the user
\* in the same second, has a row that is revoked and was found in its stead.
Parted(t) == row[t] = "live" /\ \E p \in Process : <<p, t>> \in revoked
Twins(t) == {s \in Token \ {t} : RefreshToken(s) = RefreshToken(t)}
PartedHasCause ==
    \A t \in Token : Parted(t) =>
        \/ \E r \in Request : pc[r] = "row" /\ bearer[r] = t
        \/ t \in halfway \cup astray
        \/ \E s \in Twins(t) : row[s] = "revoked"

=============================================================================
