--------------------------- MODULE UserAdminProofs ---------------------------
(***************************************************************************)
(* Proofs about UserAdmin, for any number of e-mails and requests.         *)
(***************************************************************************)
EXTENDS UserAdmin, TLAPS

-----------------------------------------------------------------------------
(* The inductive invariant *)

Saving(r) == pc[r] \in {"load", "write"}

\* A created user is never gone, only deleted.
CreatedIsStored ==
    \A r \in Request :
        req[r].kind = "create" /\ pc[r] = "ok" => row[req[r].email].state # "absent"

\* save is given what was a live row, and writes a row that exists.
EntityIsLive ==
    \A r \in Request :
        Saving(r) => /\ req[r].kind = "update"
                     /\ req[r].entity.state = "live"
                     /\ row[req[r].email].state # "absent"

\* Until another write overtakes an update, the row is the one it has read,
\* and the difference it has taken is still the difference.
EntityIsCurrent ==
    \A r \in Request :
        Saving(r) /\ r \notin overtaken =>
            /\ row[req[r].email].state = "live"
            /\ req[r].entity = Entity(r, req[r].email)
            /\ pc[r] = "write" => req[r].diff = Diff(req[r].entity, row[req[r].email])

\* What has not begun has not been overtaken.
OvertakenWasSaving ==
    \A r \in overtaken : pc[r] \notin {"idle", "read"}

\* Only a delete soft-removes.
RemoverDeletes ==
    \A r \in Request : pc[r] = "remove" => req[r].kind = "delete"

IInv == /\ TypeOK /\ CreatedOnce /\ CreatedIsStored
        /\ EntityIsLive /\ EntityIsCurrent /\ OvertakenWasSaving /\ RemoverDeletes

-----------------------------------------------------------------------------
(* save *)

\* The column-wise union save writes is a row, alive or as it was before.
LEMMA SavedIsRow ==
  ASSUME TypeOK, NEW r \in Request
  PROVE  LET e == req[r].email
         IN  /\ Saved(r, e) \in Row
             /\ Saved(r, e).state \in {req[r].entity.state, row[e].state}
BY DEF TypeOK, RequestState, Row, Saved

\* With the current difference, save makes the row the entity.
LEMMA SavedIsEntity ==
  ASSUME TypeOK, NEW r \in Request,
         req[r].diff = Diff(req[r].entity, row[req[r].email])
  PROVE  /\ Saved(r, req[r].email).hash = req[r].entity.hash
         /\ Saved(r, req[r].email).active = req[r].entity.active
         /\ Saved(r, req[r].email).state = req[r].entity.state
BY DEF TypeOK, RequestState, Row, Saved, Diff

\* No difference means that the row is the entity.
LEMMA NoDiff ==
  ASSUME NEW x, NEW y, Diff(x, y) = {}
  PROVE  x.hash = y.hash /\ x.active = y.active /\ x.state = y.state
BY DEF Diff

\* What is read is a row, with the fields that were asked for.
LEMMA EntityIsRow ==
  ASSUME TypeOK, NEW r \in Request, NEW e \in Email
  PROVE  /\ Entity(r, e) \in Row
         /\ Entity(r, e).hash = IF "hash" \in req[r].asked THEN r ELSE row[e].hash
         /\ Entity(r, e).active = IF "active" \in req[r].asked THEN req[r].active
                                                               ELSE row[e].active
         /\ Entity(r, e).state = row[e].state
<1> DEFINE hash == IF "hash" \in req[r].asked THEN r ELSE row[e].hash
           active == IF "active" \in req[r].asked THEN req[r].active ELSE row[e].active
<1>1. row[e] \in Row /\ hash \in Hash /\ active \in BOOLEAN
  BY DEF TypeOK, RequestState, Row, Hash
<1>2. Entity(r, e) = [row[e] EXCEPT !.hash = hash, !.active = active]
  BY DEF Entity
<1> HIDE DEF hash, active
<1>3. /\ Entity(r, e) \in Row
      /\ Entity(r, e).hash = hash /\ Entity(r, e).active = active
      /\ Entity(r, e).state = row[e].state
  BY <1>1, <1>2 DEF Row
<1> QED BY <1>3 DEF hash, active

-----------------------------------------------------------------------------
(* Types *)

LEMMA TypeStep == TypeOK /\ [Next]_vars => TypeOK'
<1> SUFFICES ASSUME TypeOK, [Next]_vars PROVE TypeOK'
  OBVIOUS
<1> USE DEF TypeOK, Goto
<1>1. ASSUME NEW r \in Request, CreateCheck(r) PROVE TypeOK'
  <2>1. PICK active \in BOOLEAN :
            req' = [req EXCEPT ![r].kind = "create", ![r].active = active]
    BY <1>1 DEF CreateCheck
  <2>2. [req[r] EXCEPT !.kind = "create", !.active = active] \in RequestState
    BY DEF RequestState
  <2>3. req' \in [Request -> RequestState]
    BY <2>1, <2>2
  <2> QED BY <1>1, <2>3 DEF CreateCheck, InFlight, Ended
<1>2. ASSUME NEW r \in Request, CreateInsert(r) PROVE TypeOK'
  <2>1. [hash |-> r, active |-> req[r].active, state |-> "live"] \in Row
    BY DEF RequestState, Row, Hash
  <2> QED BY <1>2, <2>1 DEF CreateInsert, Write, RequestState, Ended
<1>3. ASSUME NEW r \in Request, CreateDuplicate(r) PROVE TypeOK'
  BY <1>3 DEF CreateDuplicate, Ended
<1>4. ASSUME NEW r \in Request, UpdateFind(r) PROVE TypeOK'
  <2>1. PICK asked \in SUBSET {"hash", "active"}, active \in BOOLEAN :
            req' = [req EXCEPT ![r].kind = "update", ![r].asked = asked,
                               ![r].active = active]
    BY <1>4 DEF UpdateFind
  <2>2. [req[r] EXCEPT !.kind = "update", !.asked = asked, !.active = active]
           \in RequestState
    BY DEF RequestState
  <2>3. req' \in [Request -> RequestState]
    BY <2>1, <2>2
  <2> QED BY <1>4, <2>3 DEF UpdateFind, InFlight, Ended
<1>5. ASSUME NEW r \in Request, UpdateRead(r) PROVE TypeOK'
  <2>1. Entity(r, req[r].email) \in Row
    BY EntityIsRow DEF RequestState
  <2> QED BY <1>5, <2>1 DEF UpdateRead, RequestState, InFlight, Ended
<1>6. ASSUME NEW r \in Request, SaveLoad(r) PROVE TypeOK'
  <2>1. Diff(req[r].entity, row[req[r].email]) \in SUBSET {"hash", "active", "state"}
    BY DEF Diff
  <2> QED BY <1>6, <2>1 DEF SaveLoad, RequestState, InFlight, Ended
<1>7. ASSUME NEW r \in Request, SaveWrite(r) PROVE TypeOK'
  <2>1. Saved(r, req[r].email) \in Row
    BY SavedIsRow
  <2> QED BY <1>7, <2>1 DEF SaveWrite, Write, Ended
<1>8. ASSUME NEW r \in Request, DeleteFind(r) PROVE TypeOK'
  BY <1>8 DEF DeleteFind, RequestState, InFlight, Ended
<1>9. ASSUME NEW r \in Request, DeleteRead(r) PROVE TypeOK'
  BY <1>9 DEF DeleteRead, InFlight, Ended
<1>10. ASSUME NEW r \in Request, SoftRemove(r) PROVE TypeOK'
  BY <1>10 DEF SoftRemove, Write, RequestState, Row, Ended
<1>11. ASSUME NEW r \in Request, RequestFails(r) PROVE TypeOK'
  BY <1>11 DEF RequestFails, Ended
<1>12. CASE UNCHANGED vars
  BY <1>12 DEF vars
<1> QED
  BY <1>1, <1>2, <1>3, <1>4, <1>5, <1>6, <1>7, <1>8, <1>9, <1>10, <1>11, <1>12
     DEF Next, RequestStep

-----------------------------------------------------------------------------
(* Writes to the table *)

\* A write that is not a save: it takes no request to "load" or "write".
LEMMA InvWritten ==
  ASSUME IInv, TypeOK', NEW r \in Request, NEW new \in Row, pc[r] \in InFlight,
         Write(r, req[r].email, new), new.state # "absent",
         pc' = [pc EXCEPT ![r] = "ok"], req' = req
  PROVE  /\ EntityIsLive' /\ EntityIsCurrent' /\ OvertakenWasSaving'
         /\ RemoverDeletes' /\ CreatedIsStored'
<1> DEFINE e == req[r].email
<1>1. /\ e \in Email /\ row' = [row EXCEPT ![e] = new]
      /\ \A q \in Request : req'[q] = req[q] /\ req[q].email \in Email
  BY DEF Write, IInv, TypeOK, RequestState
<1>2. \A q \in Request : q # r => pc'[q] = pc[q]
  BY DEF IInv, TypeOK
<1>3. pc'[r] = "ok"
  BY DEF IInv, TypeOK
<1>4. EntityIsLive'
  BY <1>1, <1>2, <1>3 DEF EntityIsLive, Saving, IInv, TypeOK
<1>5. ASSUME NEW q \in Request, Saving(q)', q \notin overtaken'
      PROVE  /\ q \notin overtaken /\ Saving(q) /\ q # r /\ req[q].email # e
             /\ row'[req[q].email] = row[req[q].email]
  BY <1>1, <1>2, <1>3, <1>5 DEF Write, Saving, IInv, TypeOK
<1>6. ASSUME NEW q \in Request, Saving(q)', q \notin overtaken'
      PROVE  Entity(q, req[q].email)' = Entity(q, req[q].email)
  <2>1. row'[req'[q].email] = row[req[q].email]
    BY <1>1, <1>5, <1>6
  <2> QED BY <2>1 DEF Entity
<1>7. EntityIsCurrent'
  BY <1>1, <1>2, <1>5, <1>6 DEF EntityIsCurrent, IInv
<1>8. OvertakenWasSaving'
  BY <1>2, <1>3 DEF Write, OvertakenWasSaving, IInv, TypeOK
<1>9. \A q \in Request : /\ row[req[q].email].state # "absent"
                         => row'[req[q].email].state # "absent"
  BY <1>1 DEF IInv, TypeOK
<1>10. row'[e].state # "absent"
  BY <1>1 DEF IInv, TypeOK
<1>11. CreatedIsStored'
  BY <1>1, <1>2, <1>9, <1>10 DEF CreatedIsStored, IInv
<1>12. RemoverDeletes'
  BY <1>1, <1>2, <1>3 DEF RemoverDeletes, IInv
<1> QED BY <1>4, <1>7, <1>8, <1>11, <1>12

\* A step that leaves the table alone and takes r neither to "load" nor to
\* "write", nor to "ok" as a create, keeps all parts.
LEMMA InvQuiet ==
  ASSUME IInv, TypeOK', NEW r \in Request, ~Saving(r)',
         row' = row, overtaken' = overtaken,
         \A q \in Request : q # r => pc'[q] = pc[q] /\ req'[q] = req[q],
         pc'[r] \notin {"ok", "idle"},
         req'[r].email = req[r].email,
         pc'[r] = "read" => r \notin overtaken,
         pc'[r] = "remove" => req'[r].kind = "delete"
  PROVE  IInv'
<1> USE DEF IInv
<1>1. CreatedOnce'
  BY DEF CreatedOnce
<1>2. CreatedIsStored'
  BY DEF CreatedIsStored
<1>3. EntityIsLive'
  BY DEF EntityIsLive, Saving
<1>4. ASSUME NEW q \in Request, Saving(q)', q \notin overtaken'
      PROVE  /\ q # r /\ Saving(q) /\ q \notin overtaken /\ pc'[q] = pc[q]
             /\ req'[q] = req[q] /\ row' = row
             /\ Entity(q, req[q].email)' = Entity(q, req[q].email)
  BY <1>4 DEF Saving, Entity
<1>5. EntityIsCurrent'
  BY <1>4 DEF EntityIsCurrent
<1>6. OvertakenWasSaving'
  BY DEF OvertakenWasSaving, TypeOK
<1>7. RemoverDeletes'
  BY DEF RemoverDeletes
<1> QED BY <1>1, <1>2, <1>3, <1>5, <1>6, <1>7

-----------------------------------------------------------------------------
(* Invariance *)

LEMMA InvInit == Init => IInv
<1> SUFFICES ASSUME Init PROVE IInv
  OBVIOUS
<1>1. PICK email \in [Request -> Email] :
        req = [r \in Request |-> [kind |-> "create", email |-> email[r],
                                  asked |-> {}, active |-> TRUE,
                                  entity |-> Absent, diff |-> {}]]
  BY DEF Init
<1>2. Absent \in Row
  BY DEF Absent, Row, Hash
<1>3. req \in [Request -> RequestState]
  BY <1>1, <1>2 DEF RequestState
<1> QED
  BY <1>2, <1>3 DEF Init, IInv, TypeOK, CreatedOnce, CreatedIsStored, EntityIsLive,
     EntityIsCurrent, OvertakenWasSaving, RemoverDeletes, Saving

LEMMA InvStep == IInv /\ [Next]_vars => IInv'
<1> SUFFICES ASSUME IInv, [Next]_vars PROVE IInv'
  OBVIOUS
<1>t. TypeOK /\ TypeOK'
  BY TypeStep DEF IInv
<1>1. ASSUME NEW r \in Request, CreateCheck(r) PROVE IInv'
  <2>1. r \notin overtaken
    BY <1>1 DEF CreateCheck, IInv, OvertakenWasSaving
  <2>2. /\ \A q \in Request : q # r => req'[q] = req[q]
        /\ req'[r].email = req[r].email
    BY <1>t, <1>1 DEF CreateCheck, TypeOK, RequestState
  <2> QED BY <1>t, <1>1, <2>1, <2>2, InvQuiet DEF CreateCheck, Goto, Saving, TypeOK
<1>2. ASSUME NEW r \in Request, CreateInsert(r) PROVE IInv'
  <2> DEFINE new == [hash |-> r, active |-> req[r].active, state |-> "live"]
  <2>1. new \in Row /\ new.state # "absent"
    BY <1>t DEF TypeOK, RequestState, Row, Hash
  <2>2. /\ EntityIsLive' /\ EntityIsCurrent' /\ OvertakenWasSaving'
        /\ RemoverDeletes' /\ CreatedIsStored'
    BY <1>t, <1>2, <2>1, InvWritten DEF CreateInsert, Goto, InFlight
  <2>3. \A q \in Request : req[q].kind = "create" /\ pc[q] = "ok"
                             => req[q].email # req[r].email
    BY <1>2 DEF CreateInsert, KeyTaken, IInv, CreatedIsStored
  <2>4. CreatedOnce'
    BY <1>t, <1>2, <2>3 DEF CreateInsert, Goto, IInv, CreatedOnce, TypeOK
  <2> QED BY <1>t, <2>2, <2>4 DEF IInv
<1>3. ASSUME NEW r \in Request, CreateDuplicate(r) PROVE IInv'
  BY <1>t, <1>3, InvQuiet DEF CreateDuplicate, Goto, Saving, TypeOK
<1>4. ASSUME NEW r \in Request, UpdateFind(r) PROVE IInv'
  <2>1. r \notin overtaken
    BY <1>4 DEF UpdateFind, IInv, OvertakenWasSaving
  <2>2. /\ \A q \in Request : q # r => req'[q] = req[q]
        /\ req'[r].email = req[r].email
    BY <1>t, <1>4 DEF UpdateFind, TypeOK, RequestState
  <2> QED BY <1>t, <1>4, <2>1, <2>2, InvQuiet DEF UpdateFind, Goto, Saving, TypeOK
<1>5. ASSUME NEW r \in Request, UpdateRead(r) PROVE IInv'
  <2>1. CASE ~Found(req[r].email)
    BY <1>t, <1>5, <2>1, InvQuiet DEF UpdateRead, Goto, Saving, TypeOK
  <2>2. CASE Found(req[r].email)
    <3> DEFINE e == req[r].email
    <3>1. /\ pc' = [pc EXCEPT ![r] = "load"] /\ pc[r] = "read"
          /\ req' = [req EXCEPT ![r].entity = Entity(r, e)]
          /\ row' = row /\ overtaken' = overtaken /\ row[e].state = "live"
          /\ req[r].kind = "update"
      BY <1>5, <2>2 DEF UpdateRead, Goto, Found
    <3>2. e \in Email /\ Entity(r, e).state = "live"
      BY <1>t, <3>1, EntityIsRow DEF TypeOK, RequestState
    <3>3. /\ \A q \in Request : q # r => pc'[q] = pc[q] /\ req'[q] = req[q]
          /\ pc'[r] = "load" /\ req'[r].entity = Entity(r, e)
          /\ req'[r].email = e /\ req'[r].kind = "update"
          /\ req'[r].asked = req[r].asked /\ req'[r].active = req[r].active
      BY <1>t, <3>1 DEF TypeOK, RequestState
    <3> HIDE DEF e
    <3>4. \A q \in Request : req'[q].email = req[q].email
      BY <3>3 DEF e
    <3>5. ASSUME NEW q \in Request
          PROVE  Entity(q, req[q].email)' = Entity(q, req[q].email)
      <4>1. /\ req'[q].email = req[q].email /\ req'[q].asked = req[q].asked
            /\ req'[q].active = req[q].active /\ row' = row
        BY <3>1, <3>3 DEF e
      <4> QED BY <4>1 DEF Entity
    <3>6. EntityIsLive'
      BY <3>1, <3>2, <3>3 DEF IInv, EntityIsLive, Saving, e
    <3>7. EntityIsCurrent'
      BY <3>1, <3>3, <3>5 DEF IInv, EntityIsCurrent, Saving, e
    <3>8. OvertakenWasSaving'
      BY <3>1, <3>3, <1>t DEF IInv, OvertakenWasSaving, TypeOK
    <3>9. CreatedOnce' /\ CreatedIsStored' /\ RemoverDeletes'
      BY <3>1, <3>3 DEF IInv, CreatedOnce, CreatedIsStored, RemoverDeletes
    <3> QED BY <1>t, <3>6, <3>7, <3>8, <3>9 DEF IInv
  <2> QED BY <2>1, <2>2
<1>6. ASSUME NEW r \in Request, SaveLoad(r) PROVE IInv'
  <2> DEFINE diff == Diff(req[r].entity, row[req[r].email])
  <2>1. /\ pc[r] = "load" /\ row' = row /\ overtaken' = overtaken
        /\ req' = [req EXCEPT ![r].diff = diff]
        /\ pc' = [pc EXCEPT ![r] = IF diff = {} THEN "ok" ELSE "write"]
    BY <1>6 DEF SaveLoad, Goto
  <2> HIDE DEF diff
  <2>2. /\ \A q \in Request : q # r => pc'[q] = pc[q] /\ req'[q] = req[q]
        /\ pc'[r] \in {"ok", "write"} /\ req'[r].diff = diff
        /\ req'[r].entity = req[r].entity
        /\ req'[r].email = req[r].email /\ req'[r].kind = req[r].kind
        /\ req'[r].asked = req[r].asked /\ req'[r].active = req[r].active
    BY <1>t, <2>1 DEF TypeOK, RequestState
  <2>3. req[r].kind = "update"
    BY <2>1 DEF IInv, EntityIsLive, Saving
  <2>4. EntityIsLive'
    BY <2>1, <2>2 DEF IInv, EntityIsLive, Saving
  <2>5. ASSUME NEW q \in Request
        PROVE  Entity(q, req[q].email)' = Entity(q, req[q].email)
    <3>1. /\ req'[q].email = req[q].email /\ req'[q].asked = req[q].asked
          /\ req'[q].active = req[q].active /\ row' = row
      BY <2>1, <2>2
    <3> QED BY <3>1 DEF Entity
  <2>6. EntityIsCurrent'
    BY <2>1, <2>2, <2>5 DEF IInv, EntityIsCurrent, Saving, diff
  <2>7. OvertakenWasSaving'
    BY <1>t, <2>1, <2>2 DEF IInv, OvertakenWasSaving, TypeOK
  <2>8. CreatedOnce' /\ CreatedIsStored' /\ RemoverDeletes'
    BY <2>1, <2>2, <2>3 DEF IInv, CreatedOnce, CreatedIsStored, RemoverDeletes
  <2> QED BY <1>t, <2>4, <2>6, <2>7, <2>8 DEF IInv
<1>7. ASSUME NEW r \in Request, SaveWrite(r) PROVE IInv'
  <2>1. /\ req[r].kind = "update" /\ req[r].entity.state = "live"
        /\ row[req[r].email].state # "absent"
    BY <1>7 DEF SaveWrite, IInv, EntityIsLive, Saving
  <2>2. /\ Saved(r, req[r].email) \in Row
        /\ Saved(r, req[r].email).state # "absent"
    BY <1>t, <2>1, SavedIsRow
  <2>3. /\ EntityIsLive' /\ EntityIsCurrent' /\ OvertakenWasSaving'
        /\ RemoverDeletes' /\ CreatedIsStored'
    BY <1>t, <1>7, <2>2, InvWritten DEF SaveWrite, Goto, InFlight
  <2>4. CreatedOnce'
    BY <1>t, <1>7, <2>1 DEF SaveWrite, Goto, IInv, CreatedOnce, TypeOK
  <2> QED BY <1>t, <2>3, <2>4 DEF IInv
<1>8. ASSUME NEW r \in Request, DeleteFind(r) PROVE IInv'
  <2>1. r \notin overtaken
    BY <1>8 DEF DeleteFind, IInv, OvertakenWasSaving
  <2> QED BY <1>t, <1>8, <2>1, InvQuiet DEF DeleteFind, Goto, Saving, TypeOK, RequestState
<1>9. ASSUME NEW r \in Request, DeleteRead(r) PROVE IInv'
  BY <1>t, <1>9, InvQuiet DEF DeleteRead, Goto, Saving, TypeOK
<1>10. ASSUME NEW r \in Request, SoftRemove(r) PROVE IInv'
  <2> DEFINE new == [row[req[r].email] EXCEPT !.state = "deleted"]
  <2>1. new \in Row /\ new.state # "absent"
    <3>1. row[req[r].email] \in Row
      BY <1>t DEF TypeOK, RequestState
    <3> QED BY <3>1 DEF Row
  <2>2. req[r].kind = "delete"
    BY <1>10 DEF SoftRemove, IInv, RemoverDeletes
  <2>3. /\ EntityIsLive' /\ EntityIsCurrent' /\ OvertakenWasSaving'
        /\ RemoverDeletes' /\ CreatedIsStored'
    BY <1>t, <1>10, <2>1, InvWritten DEF SoftRemove, Goto, InFlight
  <2>4. CreatedOnce'
    BY <1>t, <1>10, <2>2 DEF SoftRemove, Goto, IInv, CreatedOnce, TypeOK
  <2> QED BY <1>t, <2>3, <2>4 DEF IInv
<1>11. ASSUME NEW r \in Request, RequestFails(r) PROVE IInv'
  BY <1>t, <1>11, InvQuiet DEF RequestFails, Goto, Saving, TypeOK
<1>12. CASE UNCHANGED vars
  BY <1>12 DEF vars, IInv, TypeOK, CreatedOnce, CreatedIsStored, EntityIsLive,
     EntityIsCurrent, OvertakenWasSaving, RemoverDeletes, Saving, Entity
<1> QED
  BY <1>1, <1>2, <1>3, <1>4, <1>5, <1>6, <1>7, <1>8, <1>9, <1>10, <1>11, <1>12
     DEF Next, RequestStep

LEMMA Invariance == Spec => []IInv
<1> QED BY InvInit, InvStep, PTL DEF Spec

-----------------------------------------------------------------------------
(* Theorems *)

THEOREM TypeCorrect == Spec => []TypeOK
<1>1. IInv => TypeOK
  BY DEF IInv
<1> QED BY <1>1, Invariance, PTL

\* However many creates of an e-mail race past emailExists, one at most is
\* answered with a user: the unique key decides, and no delete frees an e-mail.
THEOREM EmailCreatedOnce == Spec => []CreatedOnce
<1>1. IInv => CreatedOnce
  BY DEF IInv
<1> QED BY <1>1, Invariance, PTL

\* The steps that can end an update or change a row.
LEMMA Writers ==
  ASSUME TypeOK, Next, NEW r \in Request, pc[r] \in {"load", "write"}, pc'[r] = "ok"
  PROVE  SaveLoad(r) \/ SaveWrite(r)
<1>1. PICK q \in Request : RequestStep(q)
  BY DEF Next
<1>2. q = r
  BY <1>1 DEF RequestStep, CreateCheck, CreateInsert, CreateDuplicate, UpdateFind,
     UpdateRead, SaveLoad, SaveWrite, DeleteFind, DeleteRead, SoftRemove,
     RequestFails, Goto, TypeOK
<1> QED
  BY <1>1, <1>2 DEF RequestStep, CreateCheck, CreateInsert, CreateDuplicate,
     UpdateFind, UpdateRead, DeleteFind, DeleteRead, SoftRemove, RequestFails,
     Goto, TypeOK

\* An update that no other write overtakes writes what it was asked to write
\* and nothing else, whether save finds a difference or not.
THEOREM UpdateIsExact == Spec => OnlyAskedColumns
<1>1. IInv /\ [Next]_vars =>
        [\A r \in Request :
           /\ req[r].kind = "update" /\ pc[r] \in {"load", "write"} /\ pc'[r] = "ok"
           /\ r \notin overtaken
           => LET before == row[req[r].email]
                  after  == row'[req[r].email]
              IN  /\ after.hash = IF "hash" \in req[r].asked THEN r ELSE before.hash
                  /\ after.active = IF "active" \in req[r].asked THEN req[r].active
                                                                 ELSE before.active
                  /\ after.state = "live"]_vars
  <2> SUFFICES ASSUME IInv, Next, NEW r \in Request,
                      req[r].kind = "update", pc[r] \in {"load", "write"},
                      pc'[r] = "ok", r \notin overtaken
               PROVE  LET before == row[req[r].email]
                          after  == row'[req[r].email]
                      IN  /\ after.hash = IF "hash" \in req[r].asked THEN r
                                                                     ELSE before.hash
                          /\ after.active = IF "active" \in req[r].asked
                                            THEN req[r].active ELSE before.active
                          /\ after.state = "live"
    BY DEF vars
  <2> DEFINE e == req[r].email
             after == row'[e]
  <2>t. TypeOK /\ e \in Email
    BY DEF IInv, TypeOK, RequestState
  <2>1. /\ row[e].state = "live" /\ req[r].entity = Entity(r, e)
        /\ pc[r] = "write" => req[r].diff = Diff(req[r].entity, row[e])
    BY DEF IInv, EntityIsCurrent, Saving
  <2>2. /\ after.hash = req[r].entity.hash /\ after.active = req[r].entity.active
        /\ after.state = req[r].entity.state
    <3>1. CASE SaveLoad(r)
      <4>1. Diff(req[r].entity, row[e]) = {} /\ row' = row
        BY <2>t, <3>1 DEF SaveLoad, Goto, TypeOK
      <4> QED BY <4>1, NoDiff
    <3>2. CASE SaveWrite(r)
      <4>1. /\ pc[r] = "write" /\ row' = [row EXCEPT ![e] = Saved(r, e)]
        BY <3>2 DEF SaveWrite, Write
      <4>2. after = Saved(r, e)
        BY <2>t, <4>1 DEF TypeOK
      <4> QED BY <2>t, <2>1, <4>1, <4>2, SavedIsEntity
    <3> QED BY <2>t, <3>1, <3>2, Writers
  <2>3. /\ Entity(r, e).hash = IF "hash" \in req[r].asked THEN r ELSE row[e].hash
        /\ Entity(r, e).active = IF "active" \in req[r].asked THEN req[r].active
                                                              ELSE row[e].active
        /\ Entity(r, e).state = row[e].state
    BY <2>t, EntityIsRow
  <2> QED BY <2>1, <2>2, <2>3
<1> QED BY <1>1, Invariance, PTL DEF Spec, OnlyAskedColumns

\* A deleted user is brought back by an update that had read the row before it
\* was deleted, and by nothing else.
THEOREM RevivalNeedsOvertaking == Spec => OnlyOvertakenRevive
<1>1. IInv /\ [Next]_vars =>
        [\A e \in Email :
           row[e].state = "deleted" /\ row'[e].state # "deleted" =>
               \E r \in overtaken : req[r].email = e /\ pc[r] = "write"]_vars
  <2> SUFFICES ASSUME IInv, Next, NEW e \in Email,
                      row[e].state = "deleted", row'[e].state # "deleted"
               PROVE  \E r \in overtaken : req[r].email = e /\ pc[r] = "write"
    BY DEF vars
  <2>t. TypeOK
    BY DEF IInv
  <2>1. PICK r \in Request : RequestStep(r)
    BY DEF Next
  <2>2. CASE CreateInsert(r)
    BY <2>t, <2>2 DEF CreateInsert, Write, KeyTaken, TypeOK, RequestState
  <2>3. CASE SoftRemove(r)
    BY <2>t, <2>3 DEF SoftRemove, Write, TypeOK, RequestState, Row
  <2>4. CASE SaveWrite(r)
    <3>1. req[r].email = e /\ pc[r] = "write"
      BY <2>t, <2>4 DEF SaveWrite, Write, TypeOK, RequestState
    <3>2. r \in overtaken
      BY <3>1 DEF IInv, EntityIsCurrent, Saving
    <3> QED BY <3>1, <3>2
  <2>5. CASE row' = row
    BY <2>5
  <2> QED
    BY <2>1, <2>2, <2>3, <2>4, <2>5 DEF RequestStep, CreateCheck, CreateDuplicate,
       UpdateFind, UpdateRead, SaveLoad, DeleteFind, DeleteRead, RequestFails
<1> QED BY <1>1, Invariance, PTL DEF Spec, OnlyOvertakenRevive
=============================================================================
