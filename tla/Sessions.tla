------------------------------ MODULE Sessions ------------------------------
(***************************************************************************)
(* Refresh-token sessions: login, refresh and logout over the table        *)
(* refresh_tokens.                                                         *)
(*                                                                         *)
(* Handlers run concurrently and interleave at every await, so a request   *)
(* is a small process: pc[r] names what it does next, and each action      *)
(* below runs from one await to the next.  A request runs once; a retry is *)
(* another request.  The permission cache and the blacklist, which the     *)
(* same handlers write to, are the subject of modules of their own.        *)
(*                                                                         *)
(* A refresh token is a JWT over {sub, type, iat, exp} with no identifier  *)
(* of its own, so it is known by its user and the second it was signed in: *)
(* two tokens that agree on both are the same string and have the same     *)
(* hash.  A row of the table is named by the request that inserts it.      *)
(***************************************************************************)
EXTENDS Naturals

CONSTANTS User,        \* accounts
          Request,     \* HTTP requests, each of them a possible row
          RefreshTtl,  \* JWT_REFRESH_EXPIRES_IN, in seconds
          MaxNow       \* bound on the clock

ASSUME SessionsAssumption == RefreshTtl \in Nat \ {0} /\ MaxNow \in Nat \ {0}

VARIABLES
    now,       \* whole seconds since the epoch, from 1
    partway,   \* 0 at the exact start of the current second, 1 inside it
    enabled,   \* users that are neither inactive nor deleted
    pc,        \* what each request does next, or how it ended
    req,       \* what each request has read, signed and found so far
    row,       \* refresh_tokens: revoked_at of the row of each request
    overtaken  \* history: refreshes in flight when their user was revoked

vars == <<now, partway, enabled, pc, req, row, overtaken>>

-----------------------------------------------------------------------------
Second == 0 .. MaxNow      \* 0 stands for "no token"

InFlight == {"sign", "save", "find", "check", "revoke", "revokeall"}
Ended    == {"ok", "lost", "reuse", "loggedout", "denied", "failed"}

RequestState == [user : User,                             \* payload.sub
                 kind : {"login", "refresh", "logout"},
                 presented : Second,                      \* iat of the token sent
                 issued : Second,                         \* iat of the token signed
                 stored : Request]                        \* row the lookup returned

TypeOK == /\ now \in 1 .. MaxNow
          /\ partway \in {0, 1}
          /\ enabled \in SUBSET User
          /\ pc \in [Request -> {"idle"} \cup InFlight \cup Ended]
          /\ req \in [Request -> RequestState]
          /\ row \in [Request -> {"absent", "live", "revoked"}]
          /\ overtaken \in SUBSET Request

-----------------------------------------------------------------------------
(* Tokens and rows *)

(* A Mutant is what the definition after it would be with a plausible bug; *)
(* put in its place, it must break one of the properties below.            *)

\* The second a signed token bears: jsonwebtoken floors the clock.
MutantSignedAt == now + RefreshTtl   \* exp taken for iat
SignedAt == now

Expiry(t) == t + RefreshTtl

\* The tokens the server has answered user u with.
Held(u) == {req[s].issued : s \in {q \in Request : req[q].user = u /\ pc[q] = "ok"}}

\* The rows a lookup by hash can return.  The query has no order and the hash
\* no unique key, so any of them; r's own unwritten row stands for "none".
Matching(u, t) ==
    {s \in Request : row[s] # "absent" /\ req[s].user = u /\ req[s].issued = t}
Lookup(r, t) == LET found == Matching(req[r].user, t)
                IN  IF found = {} THEN {r} ELSE found

\* expires_at has whole seconds, the clock it is compared with milliseconds.
PastExpiry(s) == LET e == Expiry(req[s].issued)
                 IN  now > e \/ (now = e /\ partway = 1)

MutantUsableRevoked(s) == ~PastExpiry(s)   \* revokedAt is not looked at
Usable(s) == row[s] = "live" /\ ~PastExpiry(s)

MutantRevokedById(r) == {r}          \* the id of the row to come
RevokedById(r) == {req[r].stored}

MutantRevokedOne(r)   == {req[r].stored}                       \* the row, not the user
MutantRevokedEvery(r) == {s \in Request : row[s] = "live"}     \* where: revokedAt only
RevokedByUser(r) == {s \in Request : req[s].user = req[r].user /\ row[s] = "live"}

Revoke(S) == row' = [s \in Request |-> IF s \in S THEN "revoked" ELSE row[s]]

\* Refreshes that have accepted a row and not yet saved their own.
Rotating == {r \in Request : /\ req[r].kind = "refresh"
                             /\ pc[r] \in {"check", "revoke", "sign", "save"}}

-----------------------------------------------------------------------------
Init == /\ now = 1
        /\ partway \in {0, 1}
        /\ enabled = User
        /\ pc = [r \in Request |-> "idle"]
        /\ \E owner \in [Request -> User] :
             req = [r \in Request |-> [user |-> owner[r], kind |-> "login",
                                       presented |-> 0, issued |-> 0, stored |-> r]]
        /\ row = [r \in Request |-> "absent"]
        /\ overtaken = {}

Goto(r, label) == pc' = [pc EXCEPT ![r] = label]

(* Login *)

\* findByEmailWithRolesAndPermissions finds an enabled user, the password is
\* right.  A refused login touches nothing.
LoginFind(r) == /\ pc[r] = "idle"
                /\ req[r].user \in enabled
                /\ Goto(r, "sign")
                /\ UNCHANGED <<now, partway, enabled, req, row, overtaken>>

(* Login and refresh: issuePair, then save *)

IssuePair(r) == /\ pc[r] = "sign"
                /\ req' = [req EXCEPT ![r].issued = SignedAt]
                /\ Goto(r, "save")
                /\ UNCHANGED <<now, partway, enabled, row, overtaken>>

\* The row is committed; the answer reaches the client, or is lost on the way.
SaveRow(r) == /\ pc[r] = "save"
              /\ row' = [row EXCEPT ![r] = "live"]
              /\ \E label \in {"ok", "lost"} : Goto(r, label)
              /\ UNCHANGED <<now, partway, enabled, req, overtaken>>

(* Refresh *)

\* verifyRefresh: a token past its exp is refused before the table is read.
RefreshVerify(r) ==
    /\ pc[r] = "idle"
    /\ \E t \in Held(req[r].user) :
         /\ now < Expiry(t)
         /\ req' = [req EXCEPT ![r].kind = "refresh", ![r].presented = t]
    /\ Goto(r, "find")
    /\ UNCHANGED <<now, partway, enabled, row, overtaken>>

RefreshFind(r) ==
    /\ pc[r] = "find"
    /\ \E s \in Lookup(r, req[r].presented) :
         /\ req' = [req EXCEPT ![r].stored = s]
         /\ Goto(r, IF Usable(s) THEN "check" ELSE "revokeall")
    /\ UNCHANGED <<now, partway, enabled, row, overtaken>>

RefreshCheckUser(r) ==
    /\ pc[r] = "check"
    /\ Goto(r, IF req[r].user \in enabled THEN "revoke" ELSE "denied")
    /\ UNCHANGED <<now, partway, enabled, req, row, overtaken>>

RefreshRevoke(r) == /\ pc[r] = "revoke" /\ req[r].kind = "refresh"
                    /\ Revoke(RevokedById(r))
                    /\ Goto(r, "sign")
                    /\ UNCHANGED <<now, partway, enabled, req, overtaken>>

RevokeAllForUser(r) ==
    /\ pc[r] = "revokeall"
    /\ Revoke(RevokedByUser(r))
    /\ Goto(r, "reuse")
    /\ overtaken' = overtaken \cup {q \in Rotating : req[q].user = req[r].user}
    /\ UNCHANGED <<now, partway, enabled, req>>

(* Logout *)

\* The token is looked up by its hash alone: neither its signature nor its
\* exp is looked at.
LogoutFind(r) ==
    /\ pc[r] = "idle"
    /\ \E t \in Held(req[r].user) : \E s \in Lookup(r, t) :
         /\ req' = [req EXCEPT ![r].kind = "logout", ![r].presented = t,
                               ![r].stored = s]
         /\ Goto(r, IF row[s] = "live" THEN "revoke" ELSE "loggedout")
    /\ UNCHANGED <<now, partway, enabled, row, overtaken>>

LogoutRevoke(r) == /\ pc[r] = "revoke" /\ req[r].kind = "logout"
                   /\ Revoke(RevokedById(r))
                   /\ Goto(r, "loggedout")
                   /\ UNCHANGED <<now, partway, enabled, req, overtaken>>

(* The environment *)

\* A query fails, or the process dies: what was committed stays committed.
RequestFails(r) == /\ pc[r] \in InFlight
                   /\ Goto(r, "failed")
                   /\ UNCHANGED <<now, partway, enabled, req, row, overtaken>>

\* An administrator deactivates, deletes or reactivates u: no handler of
\* these touches refresh_tokens.
SetEnabled(u) == /\ enabled' = IF u \in enabled THEN enabled \ {u} ELSE enabled \cup {u}
                 /\ UNCHANGED <<now, partway, pc, req, row, overtaken>>

Tick == /\ \/ partway = 0 /\ partway' = 1 /\ now' = now
           \/ partway = 1 /\ now < MaxNow /\ partway' = 0 /\ now' = now + 1
        /\ UNCHANGED <<enabled, pc, req, row, overtaken>>

RequestStep(r) == \/ LoginFind(r) \/ IssuePair(r) \/ SaveRow(r)
                  \/ RefreshVerify(r) \/ RefreshFind(r) \/ RefreshCheckUser(r)
                  \/ RefreshRevoke(r) \/ RevokeAllForUser(r)
                  \/ LogoutFind(r) \/ LogoutRevoke(r) \/ RequestFails(r)

Next == \/ \E r \in Request : RequestStep(r)
        \/ \E u \in User : SetEnabled(u)
        \/ Tick

Spec == Init /\ [][Next]_vars

-----------------------------------------------------------------------------
(* What holds *)

\* A rotation never outruns its revocation: once a refresh is past
\* revokeById, and once a refresh has answered "reuse" or a logout has ended,
\* the row it was shown is revoked and no later write brings it back.
PastRevoke == {"sign", "save", "ok", "lost"}
SpentIsRevoked ==
    \A r \in Request :
        \/ req[r].kind = "refresh" /\ pc[r] \in PastRevoke
        \/ pc[r] \in {"reuse", "loggedout"} /\ req[r].stored # r
        => row[req[r].stored] = "revoked"

\* Reuse is detected whenever uses do not overlap: a refresh never accepts a
\* row that another refresh has already got past revoking.
NoSpendAfterSpend ==
    [][\A p, q \in Request :
          /\ req[p].kind = "refresh" /\ pc[p] \in PastRevoke
          /\ pc[q] = "find" /\ pc'[q] = "check"
          => req'[q].stored # req[p].stored]_vars

\* After the answer "Refresh token reuse detected. All sessions revoked." no
\* session bought with the reused row is live, whoever bought it and whenever,
\* except those whose rotation was already past its lookup when the
\* revocation ran.
ReuseKillsFamily ==
    \A p, q \in Request :
        /\ pc[q] = "reuse"
        /\ p # q /\ req[p].kind = "refresh" /\ req[p].stored = req[q].stored
        /\ p \notin overtaken
        => row[p] # "live"

\* The table keeps the promise of TokenLedger: final revocations, one user's
\* revocations not touching another's sessions.
Ledger == INSTANCE TokenLedger
          WITH Entry <- Request, Owner <- User,
               ledger <- row, owner <- [r \in Request |-> req[r].user]
KeepsLedger == Ledger!Spec

-----------------------------------------------------------------------------
(* What the documentation promises and the code does not do *)

\* "rotates tokens": the token a refresh answers with is not the one it was
\* given.  It is, when both are signed in the same second.
RotationReplacesToken ==
    \A r \in Request :
        req[r].kind = "refresh" /\ pc[r] = "ok" => req[r].issued # req[r].presented

\* "All sessions revoked.": once a reuse is answered, no refresh whose lookup
\* came before the answer still ends in a live session.
ReuseRevokesAllSessions ==
    \A p, q \in Request :
        /\ pc[q] = "reuse"
        /\ p # q /\ req[p].kind = "refresh" /\ req[p].stored = req[q].stored
        => row[p] # "live"
=============================================================================
