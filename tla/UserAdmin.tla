------------------------------ MODULE UserAdmin ------------------------------
(***************************************************************************)
(* User administration: create, update and delete over the table users.    *)
(*                                                                         *)
(* The e-mail is a unique key that soft-deleted rows keep, so a row is     *)
(* known by it.  Requests interleave at every await and run once.  Bcrypt  *)
(* salts, so the hash a request makes is like no other: it is named by     *)
(* the request.                                                            *)
(*                                                                         *)
(* TypeORM's save is two queries: one reads the row again, deleted or not, *)
(* and one writes the columns in which the entity now differs from it.     *)
(***************************************************************************)
EXTENDS Naturals

CONSTANTS Email, Request

VARIABLES row,       \* users
          pc,        \* what each request does next, or how it ended
          req,       \* what each request asks and has read
          overtaken  \* history: updates whose row was written after they read it

vars == <<row, pc, req, overtaken>>

-----------------------------------------------------------------------------
Hash == Request \cup {"none"}
Row  == [hash : Hash, active : BOOLEAN, state : {"absent", "live", "deleted"}]
Absent == [hash |-> "none", active |-> TRUE, state |-> "absent"]

RequestState == [kind : {"create", "update", "delete"},
                 email : Email,
                 asked : SUBSET {"hash", "active"},   \* fields of an update
                 active : BOOLEAN,                    \* isActive of the body
                 entity : Row,                        \* what save is given
                 diff : SUBSET {"hash", "active", "state"}]

InFlight == {"insert", "read", "load", "write", "remove"}
Ended    == {"ok", "conflict", "notfound", "error"}

TypeOK == /\ row \in [Email -> Row]
          /\ pc \in [Request -> {"idle"} \cup InFlight \cup Ended]
          /\ req \in [Request -> RequestState]
          /\ overtaken \in SUBSET Request

-----------------------------------------------------------------------------
(* A Mutant is what the definition after it would be with a plausible bug; *)
(* put in its place, it must break one of the properties below.            *)

\* emailExists counts the deleted rows too.
EmailExists(e) == row[e].state # "absent"

MutantKeyTaken(e) == row[e].state = "live"   \* the key spares deleted rows
KeyTaken(e) == row[e].state # "absent"

Found(e) == row[e].state = "live"

\* The entity: the row as read, with the fields of the body that are given.
MutantEntity(r, e) ==                        \* if (data.isActive)
    [row[e] EXCEPT !.hash = IF "hash" \in req[r].asked THEN r ELSE @,
                   !.active = @ \/ ("active" \in req[r].asked /\ req[r].active)]
MutantEntityUnguarded(r, e) ==               \* passwordHash written when not given
    [row[e] EXCEPT !.hash = IF "hash" \in req[r].asked THEN r ELSE "undefined"]
Entity(r, e) ==
    [row[e] EXCEPT !.hash = IF "hash" \in req[r].asked THEN r ELSE @,
                   !.active = IF "active" \in req[r].asked THEN req[r].active ELSE @]

\* The columns save finds changed.
Diff(entity, stored) == {c \in {"hash", "active", "state"} : entity[c] # stored[c]}

Saved(r, e) == LET entity == req[r].entity
                   diff == req[r].diff
               IN  [hash   |-> IF "hash" \in diff THEN entity.hash ELSE row[e].hash,
                    active |-> IF "active" \in diff THEN entity.active ELSE row[e].active,
                    state  |-> IF "state" \in diff THEN entity.state ELSE row[e].state]

-----------------------------------------------------------------------------
Init == /\ row = [e \in Email |-> Absent]
        /\ pc = [r \in Request |-> "idle"]
        /\ \E email \in [Request -> Email] :
             req = [r \in Request |-> [kind |-> "create", email |-> email[r],
                                       asked |-> {}, active |-> TRUE,
                                       entity |-> Absent, diff |-> {}]]
        /\ overtaken = {}

Goto(r, label) == pc' = [pc EXCEPT ![r] = label]

\* Request r writes the row of e; other updates of e that have read it are late.
Write(r, e, new) == /\ row' = [row EXCEPT ![e] = new]
                    /\ overtaken' = overtaken \cup
                           {q \in Request \ {r} : /\ pc[q] \in {"load", "write"}
                                                  /\ req[q].email = e}

(* Create *)

CreateCheck(r) == /\ pc[r] = "idle"
                  /\ \E active \in BOOLEAN :
                       req' = [req EXCEPT ![r].kind = "create", ![r].active = active]
                  /\ Goto(r, IF EmailExists(req[r].email) THEN "conflict" ELSE "insert")
                  /\ UNCHANGED <<row, overtaken>>

CreateInsert(r) ==
    /\ pc[r] = "insert"
    /\ ~KeyTaken(req[r].email)
    /\ Write(r, req[r].email, [hash |-> r, active |-> req[r].active, state |-> "live"])
    /\ Goto(r, "ok")
    /\ UNCHANGED req

\* ER_DUP_ENTRY is no ApplicationException: the answer is a 500.
CreateDuplicate(r) == /\ pc[r] = "insert"
                      /\ KeyTaken(req[r].email)
                      /\ Goto(r, "error")
                      /\ UNCHANGED <<row, req, overtaken>>

(* Update *)

UpdateFind(r) == /\ pc[r] = "idle"
                 /\ \E asked \in SUBSET {"hash", "active"}, active \in BOOLEAN :
                      req' = [req EXCEPT ![r].kind = "update", ![r].asked = asked,
                                         ![r].active = active]
                 /\ Goto(r, IF Found(req[r].email) THEN "read" ELSE "notfound")
                 /\ UNCHANGED <<row, overtaken>>

\* findOneOrFail: a row deleted meanwhile is a 500, not the 404 of the find.
UpdateRead(r) == /\ pc[r] = "read" /\ req[r].kind = "update"
                 /\ IF Found(req[r].email)
                    THEN /\ req' = [req EXCEPT ![r].entity = Entity(r, req[r].email)]
                         /\ Goto(r, "load")
                    ELSE req' = req /\ Goto(r, "error")
                 /\ UNCHANGED <<row, overtaken>>

SaveLoad(r) == /\ pc[r] = "load"
               /\ LET diff == Diff(req[r].entity, row[req[r].email])
                  IN  /\ req' = [req EXCEPT ![r].diff = diff]
                      /\ Goto(r, IF diff = {} THEN "ok" ELSE "write")
               /\ UNCHANGED <<row, overtaken>>

SaveWrite(r) == /\ pc[r] = "write"
                /\ Write(r, req[r].email, Saved(r, req[r].email))
                /\ Goto(r, "ok")
                /\ UNCHANGED req

(* Delete *)

DeleteFind(r) == /\ pc[r] = "idle"
                 /\ req' = [req EXCEPT ![r].kind = "delete"]
                 /\ Goto(r, IF Found(req[r].email) THEN "read" ELSE "notfound")
                 /\ UNCHANGED <<row, overtaken>>

DeleteRead(r) == /\ pc[r] = "read" /\ req[r].kind = "delete"
                 /\ Goto(r, IF Found(req[r].email) THEN "remove" ELSE "error")
                 /\ UNCHANGED <<row, req, overtaken>>

SoftRemove(r) == /\ pc[r] = "remove"
                 /\ Write(r, req[r].email, [row[req[r].email] EXCEPT !.state = "deleted"])
                 /\ Goto(r, "ok")
                 /\ UNCHANGED req

\* A query fails, or the process dies.
RequestFails(r) == /\ pc[r] \in InFlight
                   /\ Goto(r, "error")
                   /\ UNCHANGED <<row, req, overtaken>>

RequestStep(r) == \/ CreateCheck(r) \/ CreateInsert(r) \/ CreateDuplicate(r)
                  \/ UpdateFind(r) \/ UpdateRead(r) \/ SaveLoad(r) \/ SaveWrite(r)
                  \/ DeleteFind(r) \/ DeleteRead(r) \/ SoftRemove(r)
                  \/ RequestFails(r)

Next == \E r \in Request : RequestStep(r)

Spec == Init /\ [][Next]_vars

-----------------------------------------------------------------------------
(* What holds *)

\* However many creates race for an e-mail, one at most is answered "created".
CreatedOnce ==
    \A p, q \in Request :
        /\ p # q /\ req[p].kind = "create" /\ req[q].kind = "create"
        /\ pc[p] = "ok" /\ pc[q] = "ok"
        => req[p].email # req[q].email

\* An update that is answered "ok" has set the fields it was asked to set and
\* no other column, unless the row was written between its read and its write.
OnlyAskedColumns ==
    [][\A r \in Request :
          /\ req[r].kind = "update" /\ pc[r] \in {"load", "write"} /\ pc'[r] = "ok"
          /\ r \notin overtaken
          => LET before == row[req[r].email]
                 after  == row'[req[r].email]
             IN  /\ after.hash = IF "hash" \in req[r].asked THEN r ELSE before.hash
                 /\ after.active = IF "active" \in req[r].asked THEN req[r].active
                                                                ELSE before.active
                 /\ after.state = "live"]_vars

\* A deleted user comes back only through an update that read the row before
\* it was deleted: not through a create, and not through a later update.
OnlyOvertakenRevive ==
    [][\A e \in Email :
          row[e].state = "deleted" /\ row'[e].state # "deleted" =>
              \E r \in overtaken : req[r].email = e /\ pc[r] = "write"]_vars
=============================================================================
