--------------------------- MODULE RoleAdminProofs ---------------------------
(***************************************************************************)
(* Proofs about RoleAdmin, and about AuditTrail around it, for any number  *)
(* of names, codes, ids and requests.                                      *)
(***************************************************************************)
EXTENDS AuditTrail, TLAPS

-----------------------------------------------------------------------------
(* The inductive invariant *)

\* What each request is, by the step it is at.
Placed ==
    \A r \in Request :
        /\ pc[r] = "idle" => req[r].kind = None
        /\ pc[r] \in {"insert", "sync", "link"} =>
               req[r].kind = "createrole" /\ req[r].name \in Name
        /\ pc[r] \in {"replace", "load", "write"} =>
               req[r].kind = "updaterole" /\ req[r].name \in Name
        /\ pc[r] = "read" =>
               req[r].kind \in {"updaterole", "deleterole"} /\ req[r].name \in Name
        /\ pc[r] = "remove" => req[r].kind = "deleterole"
        /\ pc[r] = "add" => req[r].kind = "createperm" /\ req[r].code \in Code
        /\ pc[r] \in {"permload", "permadd"} =>
               req[r].kind = "updateperm" /\ req[r].code \in Code
        /\ pc[r] = "permread" => req[r].kind \in {"updateperm", "deleteperm"}
        /\ pc[r] = "permremove" => req[r].kind = "deleteperm"

\* Permissions are granted to a role that has been there, and were asked for.
GrantsToRow ==
    \A r \in Request :
        /\ pc[r] \in {"sync", "link", "replace"} => role[req[r].name] # "absent"
        /\ pc[r] = "link" => req[r].found \subseteq req[r].wanted

Linking(r, n) == pc[r] \in {"sync", "link"} /\ req[r].name = n

\* The unique name lets one request create a role, ever.
OneCreator ==
    \A n \in Name : \A r, q \in Request : Linking(r, n) /\ Linking(q, n) => r = q

\* Until that request has added its permissions, the role has those of an update.
NothingLinkedYet ==
    \A n \in Name : (\E r \in Request : Linking(r, n)) =>
        \E S \in Asked(n, "updaterole") : GrantsOf(n) \subseteq S

\* What a request is at work on has been there.
Known ==
    /\ Ids \subseteq issued
    /\ \A r \in Request :
        /\ pc[r] \in {"permread", "permload", "permadd", "permremove"} => req[r].perm \in issued
        /\ pc[r] \in {"read", "remove"} => req[r].name \in Name /\ role[req[r].name] # "absent"

IInv == /\ TypeOK /\ GrantsExist /\ OneReplacement
        /\ Placed /\ GrantsToRow /\ OneCreator /\ NothingLinkedYet /\ Known

-----------------------------------------------------------------------------
(* Types *)

LEMMA InitType == Init => TypeOK
BY DEF Init, TypeOK, Blank, RequestState, None, Ids

\* A request with another field is a request.
LEMMA RequestUpdate ==
  ASSUME NEW q \in RequestState
  PROVE  /\ \A k \in RoleKinds \cup PermKinds : [q EXCEPT !.kind = k] \in RequestState
         /\ \A n \in Name : [q EXCEPT !.name = n] \in RequestState
         /\ \A c \in Code : [q EXCEPT !.code = c] \in RequestState
         /\ \A p \in Perm : [q EXCEPT !.perm = p] \in RequestState
         /\ \A g \in BOOLEAN : [q EXCEPT !.given = g] \in RequestState
         /\ \A S \in SUBSET Perm : [q EXCEPT !.wanted = S] \in RequestState
         /\ \A S \in SUBSET Perm : [q EXCEPT !.found = S] \in RequestState
BY DEF RequestState

LEMMA TypeStep == TypeOK /\ Placed /\ [Next]_vars => TypeOK'
<1> SUFFICES ASSUME TypeOK, Placed, [Next]_vars PROVE TypeOK'
  OBVIOUS
<1> USE DEF TypeOK, Goto, InFlight, Ended, tables
<1>0. \A r \in Request : req[r] \in RequestState
  OBVIOUS
<1>1. ASSUME NEW r \in Request, RoleCheck(r) PROVE TypeOK'
  <2>1. PICK n \in Name, S \in SUBSET issued :
            req' = [req EXCEPT ![r].kind = "createrole", ![r].name = n, ![r].wanted = S]
    BY <1>1 DEF RoleCheck
  <2> DEFINE a == [req[r] EXCEPT !.kind = "createrole"]
             b == [a EXCEPT !.name = n]
             c == [b EXCEPT !.wanted = S]
  <2>2. a \in RequestState
    BY <1>0, RequestUpdate DEF RoleKinds
  <2> HIDE DEF a
  <2>3. b \in RequestState
    BY <2>2, RequestUpdate
  <2> HIDE DEF b
  <2>4. c \in RequestState
    BY <2>3, RequestUpdate
  <2>5. req' = [req EXCEPT ![r] = c]
    BY <2>1 DEF a, b
  <2> HIDE DEF c
  <2>6. req' \in [Request -> RequestState]
    BY <2>4, <2>5
  <2> QED BY <1>1, <2>6 DEF RoleCheck
<1>2. ASSUME NEW r \in Request, RoleInsert(r) PROVE TypeOK'
  BY <1>2 DEF RoleInsert, Answer
<1>3. ASSUME NEW r \in Request, RoleDuplicate(r) PROVE TypeOK'
  BY <1>3 DEF RoleDuplicate
<1>4. ASSUME NEW r \in Request, SyncFind(r) PROVE TypeOK'
  <2>1. req[r].wanted \cap Ids \in SUBSET Perm
    BY DEF Ids
  <2>2. [req[r] EXCEPT !.found = req[r].wanted \cap Ids] \in RequestState
    BY <1>0, <2>1, RequestUpdate
  <2>3. req' = [req EXCEPT ![r] = [req[r] EXCEPT !.found = req[r].wanted \cap Ids]]
    BY <1>4 DEF SyncFind
  <2>4. req' \in [Request -> RequestState]
    BY <2>2, <2>3
  <2> QED BY <1>4, <2>4 DEF SyncFind
<1>5. ASSUME NEW r \in Request, SyncSave(r) PROVE TypeOK'
  <2>1. req[r].found \subseteq Perm /\ req[r].name \in Name
    BY <1>5 DEF SyncSave, Answer, Placed, RequestState
  <2>2. grants' \in SUBSET (Name \X Perm)
    BY <1>5, <2>1 DEF SyncSave, Answer, Links
  <2> QED BY <1>5, <2>2 DEF SyncSave, Answer
<1>6. ASSUME NEW r \in Request, RoleFind(r) PROVE TypeOK'
  <2>1. PICK n \in Name, given \in BOOLEAN, S \in SUBSET issued :
            /\ given \/ S = {}
            /\ req' = [req EXCEPT ![r].kind = "updaterole", ![r].name = n,
                                  ![r].given = given, ![r].wanted = S]
            /\ Goto(r, IF role[n] # "live" THEN "notfound"
                       ELSE IF given THEN "replace" ELSE "read")
    BY <1>6, Zenon DEF RoleFind
  <2> DEFINE a == [req[r] EXCEPT !.kind = "updaterole"]
             b == [a EXCEPT !.name = n]
             c == [b EXCEPT !.given = given]
             d == [c EXCEPT !.wanted = S]
  <2>2. a \in RequestState
    BY <1>0, RequestUpdate DEF RoleKinds
  <2> HIDE DEF a
  <2>3. b \in RequestState
    BY <2>2, RequestUpdate
  <2> HIDE DEF b
  <2>4. c \in RequestState
    BY <2>3, RequestUpdate
  <2> HIDE DEF c
  <2>5. d \in RequestState
    BY <2>4, RequestUpdate
  <2>6. req' = [req EXCEPT ![r] = d]
    BY <2>1 DEF a, b, c
  <2> HIDE DEF d
  <2>7. req' \in [Request -> RequestState]
    BY <2>5, <2>6
  <2> QED BY <1>6, <2>7 DEF RoleFind
<1>7. ASSUME NEW r \in Request, ReplacePermissions(r) PROVE TypeOK'
  <2>1. req[r].name \in Name
    BY <1>7 DEF ReplacePermissions, Placed
  <2>2. grants' \in SUBSET (Name \X Perm)
    BY <1>7, <2>1 DEF ReplacePermissions, Replaced, Without, Links, Ids
  <2> QED BY <1>7, <2>2 DEF ReplacePermissions
<1>8. ASSUME NEW r \in Request, RoleRead(r) PROVE TypeOK'
  BY <1>8 DEF RoleRead
<1>9. ASSUME NEW r \in Request, RoleSaveLoad(r) PROVE TypeOK'
  BY <1>9 DEF RoleSaveLoad
<1>10. ASSUME NEW r \in Request, RoleSaveWrite(r) PROVE TypeOK'
  BY <1>10 DEF RoleSaveWrite, Answer
<1>11. ASSUME NEW r \in Request, RoleDeleteFind(r) PROVE TypeOK'
  <2>1. PICK n \in Name : req' = [req EXCEPT ![r].kind = "deleterole", ![r].name = n]
    BY <1>11 DEF RoleDeleteFind
  <2> DEFINE a == [req[r] EXCEPT !.kind = "deleterole"]
             b == [a EXCEPT !.name = n]
  <2>2. a \in RequestState
    BY <1>0, RequestUpdate DEF RoleKinds
  <2> HIDE DEF a
  <2>3. b \in RequestState
    BY <2>2, RequestUpdate
  <2>4. req' = [req EXCEPT ![r] = b]
    BY <2>1 DEF a
  <2> HIDE DEF b
  <2>5. req' \in [Request -> RequestState]
    BY <2>3, <2>4
  <2> QED BY <1>11, <2>5 DEF RoleDeleteFind
<1>12. ASSUME NEW r \in Request, RoleDeleteRead(r) PROVE TypeOK'
  BY <1>12 DEF RoleDeleteRead
<1>13. ASSUME NEW r \in Request, RoleSoftRemove(r) PROVE TypeOK'
  BY <1>13 DEF RoleSoftRemove
<1>14. ASSUME NEW r \in Request, CodeCheck(r) PROVE TypeOK'
  <2>1. PICK n \in Code : req' = [req EXCEPT ![r].kind = "createperm", ![r].code = n]
    BY <1>14 DEF CodeCheck
  <2> DEFINE a == [req[r] EXCEPT !.kind = "createperm"]
             b == [a EXCEPT !.code = n]
  <2>2. a \in RequestState
    BY <1>0, RequestUpdate DEF PermKinds
  <2> HIDE DEF a
  <2>3. b \in RequestState
    BY <2>2, RequestUpdate
  <2>4. req' = [req EXCEPT ![r] = b]
    BY <2>1 DEF a
  <2> HIDE DEF b
  <2>5. req' \in [Request -> RequestState]
    BY <2>3, <2>4
  <2> QED BY <1>14, <2>5 DEF CodeCheck
<1>15. ASSUME NEW r \in Request, CodeInsert(r) PROVE TypeOK'
  BY <1>15 DEF CodeInsert
<1>16. ASSUME NEW r \in Request, CodeDuplicate(r) PROVE TypeOK'
  BY <1>16 DEF CodeDuplicate
<1>17. ASSUME NEW r \in Request, PermFind(r) PROVE TypeOK'
  <2>1. PICK p \in issued, kind \in {"updateperm", "deleteperm"} :
            req' = [req EXCEPT ![r].kind = kind, ![r].perm = p]
    BY <1>17 DEF PermFind
  <2> DEFINE a == [req[r] EXCEPT !.kind = kind]
             b == [a EXCEPT !.perm = p]
  <2>2. a \in RequestState
    BY <1>0, RequestUpdate DEF PermKinds
  <2> HIDE DEF a
  <2>3. b \in RequestState
    BY <2>2, RequestUpdate
  <2>4. req' = [req EXCEPT ![r] = b]
    BY <2>1 DEF a
  <2> HIDE DEF b
  <2>5. req' \in [Request -> RequestState]
    BY <2>3, <2>4
  <2> QED BY <1>17, <2>5 DEF PermFind
<1>18. ASSUME NEW r \in Request, PermRead(r) PROVE TypeOK'
  <2>1. \A c \in Code : [req[r] EXCEPT !.code = c] \in RequestState
    BY <1>0, RequestUpdate
  <2>2. \/ req' = req
        \/ \E c \in Code : req' = [req EXCEPT ![r] = [req[r] EXCEPT !.code = c]]
    BY <1>18 DEF PermRead
  <2>3. req' \in [Request -> RequestState]
    BY <2>1, <2>2
  <2> QED BY <1>18, <2>3 DEF PermRead
<1>19. ASSUME NEW r \in Request, PermSaveLoad(r) PROVE TypeOK'
  BY <1>19 DEF PermSaveLoad
<1>20. ASSUME NEW r \in Request, PermReinsert(r) PROVE TypeOK'
  BY <1>0, <1>20 DEF PermReinsert, RequestState
<1>21. ASSUME NEW r \in Request, PermRemove(r) PROVE TypeOK'
  BY <1>21 DEF PermRemove, Cascaded
<1>22. ASSUME NEW r \in Request, RequestFails(r) PROVE TypeOK'
  BY <1>22 DEF RequestFails
<1>23. CASE UNCHANGED vars
  BY <1>23 DEF vars
<1> QED
  BY <1>1, <1>2, <1>3, <1>4, <1>5, <1>6, <1>7, <1>8, <1>9, <1>10, <1>11, <1>12,
     <1>13, <1>14, <1>15, <1>16, <1>17, <1>18, <1>19, <1>20, <1>21, <1>22, <1>23
  DEF Next, RoleStep, PermStep

-----------------------------------------------------------------------------
(* Steps *)

LEMMA PlacedStep == TypeOK /\ Placed /\ [Next]_vars => Placed'
<1> SUFFICES ASSUME TypeOK, Placed, [Next]_vars PROVE Placed'
  OBVIOUS
<1> USE DEF TypeOK, RequestState, Placed, Goto, InFlight, Ended, tables
<1>1. ASSUME NEW r \in Request, RoleCheck(r) PROVE Placed'
  BY <1>1 DEF RoleCheck
<1>2. ASSUME NEW r \in Request, RoleInsert(r) PROVE Placed'
  BY <1>2 DEF RoleInsert, Answer
<1>3. ASSUME NEW r \in Request, RoleDuplicate(r) PROVE Placed'
  BY <1>3 DEF RoleDuplicate
<1>4. ASSUME NEW r \in Request, SyncFind(r) PROVE Placed'
  BY <1>4 DEF SyncFind
<1>5. ASSUME NEW r \in Request, SyncSave(r) PROVE Placed'
  BY <1>5 DEF SyncSave, Answer
<1>6. ASSUME NEW r \in Request, RoleFind(r) PROVE Placed'
  BY <1>6 DEF RoleFind
<1>7. ASSUME NEW r \in Request, ReplacePermissions(r) PROVE Placed'
  BY <1>7 DEF ReplacePermissions
<1>8. ASSUME NEW r \in Request, RoleRead(r) PROVE Placed'
  BY <1>8 DEF RoleRead
<1>9. ASSUME NEW r \in Request, RoleSaveLoad(r) PROVE Placed'
  BY <1>9 DEF RoleSaveLoad
<1>10. ASSUME NEW r \in Request, RoleSaveWrite(r) PROVE Placed'
  BY <1>10 DEF RoleSaveWrite, Answer
<1>11. ASSUME NEW r \in Request, RoleDeleteFind(r) PROVE Placed'
  BY <1>11 DEF RoleDeleteFind
<1>12. ASSUME NEW r \in Request, RoleDeleteRead(r) PROVE Placed'
  BY <1>12 DEF RoleDeleteRead
<1>13. ASSUME NEW r \in Request, RoleSoftRemove(r) PROVE Placed'
  BY <1>13 DEF RoleSoftRemove
<1>14. ASSUME NEW r \in Request, CodeCheck(r) PROVE Placed'
  BY <1>14 DEF CodeCheck
<1>15. ASSUME NEW r \in Request, CodeInsert(r) PROVE Placed'
  BY <1>15 DEF CodeInsert
<1>16. ASSUME NEW r \in Request, CodeDuplicate(r) PROVE Placed'
  BY <1>16 DEF CodeDuplicate
<1>17. ASSUME NEW r \in Request, PermFind(r) PROVE Placed'
  BY <1>17 DEF PermFind
<1>18. ASSUME NEW r \in Request, PermRead(r) PROVE Placed'
  BY <1>18 DEF PermRead
<1>19. ASSUME NEW r \in Request, PermSaveLoad(r) PROVE Placed'
  BY <1>19 DEF PermSaveLoad
<1>20. ASSUME NEW r \in Request, PermReinsert(r) PROVE Placed'
  BY <1>20 DEF PermReinsert
<1>21. ASSUME NEW r \in Request, PermRemove(r) PROVE Placed'
  BY <1>21 DEF PermRemove
<1>22. ASSUME NEW r \in Request, RequestFails(r) PROVE Placed'
  BY <1>22 DEF RequestFails
<1>23. CASE UNCHANGED vars
  BY <1>23 DEF vars
<1> QED
  BY <1>1, <1>2, <1>3, <1>4, <1>5, <1>6, <1>7, <1>8, <1>9, <1>10, <1>11, <1>12, <1>13, <1>14, <1>15, <1>16, <1>17, <1>18, <1>19, <1>20, <1>21, <1>22, <1>23
  DEF Next, RoleStep, PermStep

\* What a request asks of a role stays what it was asked.
LEMMA AskedStays ==
  ASSUME TypeOK, Placed, [Next]_vars, NEW r \in Request, req[r].kind # None
  PROVE  /\ req'[r].kind = req[r].kind /\ req'[r].name = req[r].name
         /\ req'[r].wanted = req[r].wanted
<1> DEFINE Goal == /\ req'[r].kind = req[r].kind /\ req'[r].name = req[r].name
                   /\ req'[r].wanted = req[r].wanted
<1> USE DEF TypeOK, RequestState, Placed, tables
<1>1. ASSUME NEW q \in Request, RoleCheck(q) PROVE Goal
  BY <1>1 DEF RoleCheck
<1>2. ASSUME NEW q \in Request, RoleInsert(q) PROVE Goal
  BY <1>2 DEF RoleInsert, Answer
<1>3. ASSUME NEW q \in Request, RoleDuplicate(q) PROVE Goal
  BY <1>3 DEF RoleDuplicate
<1>4. ASSUME NEW q \in Request, SyncFind(q) PROVE Goal
  BY <1>4 DEF SyncFind
<1>5. ASSUME NEW q \in Request, SyncSave(q) PROVE Goal
  BY <1>5 DEF SyncSave, Answer
<1>6. ASSUME NEW q \in Request, RoleFind(q) PROVE Goal
  BY <1>6 DEF RoleFind
<1>7. ASSUME NEW q \in Request, ReplacePermissions(q) PROVE Goal
  BY <1>7 DEF ReplacePermissions
<1>8. ASSUME NEW q \in Request, RoleRead(q) PROVE Goal
  BY <1>8 DEF RoleRead
<1>9. ASSUME NEW q \in Request, RoleSaveLoad(q) PROVE Goal
  BY <1>9 DEF RoleSaveLoad
<1>10. ASSUME NEW q \in Request, RoleSaveWrite(q) PROVE Goal
  BY <1>10 DEF RoleSaveWrite, Answer
<1>11. ASSUME NEW q \in Request, RoleDeleteFind(q) PROVE Goal
  BY <1>11 DEF RoleDeleteFind
<1>12. ASSUME NEW q \in Request, RoleDeleteRead(q) PROVE Goal
  BY <1>12 DEF RoleDeleteRead
<1>13. ASSUME NEW q \in Request, RoleSoftRemove(q) PROVE Goal
  BY <1>13 DEF RoleSoftRemove
<1>14. ASSUME NEW q \in Request, CodeCheck(q) PROVE Goal
  BY <1>14 DEF CodeCheck
<1>15. ASSUME NEW q \in Request, CodeInsert(q) PROVE Goal
  BY <1>15 DEF CodeInsert
<1>16. ASSUME NEW q \in Request, CodeDuplicate(q) PROVE Goal
  BY <1>16 DEF CodeDuplicate
<1>17. ASSUME NEW q \in Request, PermFind(q) PROVE Goal
  BY <1>17 DEF PermFind
<1>18. ASSUME NEW q \in Request, PermRead(q) PROVE Goal
  BY <1>18 DEF PermRead
<1>19. ASSUME NEW q \in Request, PermSaveLoad(q) PROVE Goal
  BY <1>19 DEF PermSaveLoad
<1>20. ASSUME NEW q \in Request, PermReinsert(q) PROVE Goal
  BY <1>20 DEF PermReinsert
<1>21. ASSUME NEW q \in Request, PermRemove(q) PROVE Goal
  BY <1>21 DEF PermRemove
<1>22. ASSUME NEW q \in Request, RequestFails(q) PROVE Goal
  BY <1>22 DEF RequestFails
<1>23. CASE UNCHANGED vars
  BY <1>23 DEF vars
<1> QED
  BY <1>1, <1>2, <1>3, <1>4, <1>5, <1>6, <1>7, <1>8, <1>9, <1>10, <1>11, <1>12, <1>13, <1>14, <1>15, <1>16, <1>17, <1>18, <1>19, <1>20, <1>21, <1>22, <1>23
  DEF Next, RoleStep, PermStep


\* The steps that write to a table.
WritesRole(r)   == RoleInsert(r) \/ RoleSaveWrite(r) \/ RoleSoftRemove(r)
WritesGrants(r) == SyncSave(r) \/ ReplacePermissions(r)
WritesPerm(r)   == CodeInsert(r) \/ PermReinsert(r) \/ PermRemove(r)

LEMMA WhoWrites ==
  ASSUME [Next]_vars
  PROVE  \/ UNCHANGED tables
         \/ \E r \in Request : WritesRole(r) \/ WritesGrants(r) \/ WritesPerm(r)
<1>1. CASE UNCHANGED vars
  BY <1>1 DEF vars, tables
<1>2. ASSUME NEW r \in Request, RoleStep(r)
      PROVE  UNCHANGED tables \/ WritesRole(r) \/ WritesGrants(r)
  BY <1>2 DEF RoleStep, WritesRole, WritesGrants, RoleCheck, RoleDuplicate, SyncFind,
     RoleFind, RoleRead, RoleSaveLoad, RoleDeleteFind, RoleDeleteRead
<1>3. ASSUME NEW r \in Request, PermStep(r) \/ RequestFails(r)
      PROVE  UNCHANGED tables \/ WritesPerm(r)
  BY <1>3 DEF PermStep, WritesPerm, CodeCheck, CodeDuplicate, PermFind, PermRead,
     PermSaveLoad, RequestFails
<1> QED BY <1>1, <1>2, <1>3 DEF Next

\* Rows of roles stay.
LEMMA RowStays ==
  ASSUME TypeOK, [Next]_vars, NEW n \in Name, role[n] # "absent"
  PROVE  role'[n] # "absent"
<1>1. CASE UNCHANGED tables
  BY <1>1 DEF tables
<1>2. CASE \E r \in Request : WritesRole(r)
  BY <1>2 DEF TypeOK, WritesRole, RoleInsert, RoleSaveWrite, RoleSoftRemove
<1>3. CASE \E r \in Request : WritesGrants(r) \/ WritesPerm(r)
  BY <1>3 DEF WritesGrants, WritesPerm, SyncSave, ReplacePermissions, CodeInsert,
     PermReinsert, PermRemove
<1> QED BY <1>1, <1>2, <1>3, WhoWrites

\* So what was asked of a role is still asked.
LEMMA AskedGrows ==
  ASSUME TypeOK, Placed, [Next]_vars, NEW n \in Name,
         NEW kind \in {"createrole", "updaterole"}, NEW S \in Asked(n, kind)
  PROVE  S \in Asked(n, kind)'
<1>1. CASE S = {}
  BY <1>1 DEF Asked
<1>2. CASE \E r \in Request : req[r].name = n /\ req[r].kind = kind /\ S = req[r].wanted
  <2>1. PICK r \in Request : req[r].name = n /\ req[r].kind = kind /\ S = req[r].wanted
    BY <1>2
  <2>2. req[r].kind # None
    BY <2>1 DEF None
  <2>3. req'[r].name = n /\ req'[r].kind = kind /\ S = req'[r].wanted
    BY <2>1, <2>2, AskedStays
  <2> QED BY <2>3 DEF Asked
<1> QED BY <1>1, <1>2 DEF Asked

LEMMA GrantsToRowStep ==
  TypeOK /\ Placed /\ GrantsToRow /\ [Next]_vars => GrantsToRow'
<1> SUFFICES ASSUME TypeOK, Placed, GrantsToRow, [Next]_vars PROVE GrantsToRow'
  OBVIOUS
<1>0. \A n \in Name : role[n] # "absent" => role'[n] # "absent"
  BY RowStays
<1> USE DEF TypeOK, RequestState, Placed, GrantsToRow, Goto, InFlight, Ended, tables
<1>1. ASSUME NEW q \in Request, RoleCheck(q) PROVE GrantsToRow'
  BY <1>1 DEF RoleCheck
<1>2. ASSUME NEW q \in Request, RoleInsert(q) PROVE GrantsToRow'
  BY <1>0, <1>2 DEF RoleInsert, Answer
<1>3. ASSUME NEW q \in Request, RoleDuplicate(q) PROVE GrantsToRow'
  BY <1>3 DEF RoleDuplicate
<1>4. ASSUME NEW q \in Request, SyncFind(q) PROVE GrantsToRow'
  BY <1>4 DEF SyncFind
<1>5. ASSUME NEW q \in Request, SyncSave(q) PROVE GrantsToRow'
  BY <1>5 DEF SyncSave, Answer
<1>6. ASSUME NEW q \in Request, RoleFind(q) PROVE GrantsToRow'
  BY <1>6 DEF RoleFind
<1>7. ASSUME NEW q \in Request, ReplacePermissions(q) PROVE GrantsToRow'
  BY <1>7 DEF ReplacePermissions
<1>8. ASSUME NEW q \in Request, RoleRead(q) PROVE GrantsToRow'
  BY <1>8 DEF RoleRead
<1>9. ASSUME NEW q \in Request, RoleSaveLoad(q) PROVE GrantsToRow'
  BY <1>9 DEF RoleSaveLoad
<1>10. ASSUME NEW q \in Request, RoleSaveWrite(q) PROVE GrantsToRow'
  BY <1>10 DEF RoleSaveWrite, Answer
<1>11. ASSUME NEW q \in Request, RoleDeleteFind(q) PROVE GrantsToRow'
  BY <1>11 DEF RoleDeleteFind
<1>12. ASSUME NEW q \in Request, RoleDeleteRead(q) PROVE GrantsToRow'
  BY <1>12 DEF RoleDeleteRead
<1>13. ASSUME NEW q \in Request, RoleSoftRemove(q) PROVE GrantsToRow'
  BY <1>13 DEF RoleSoftRemove
<1>14. ASSUME NEW q \in Request, CodeCheck(q) PROVE GrantsToRow'
  BY <1>14 DEF CodeCheck
<1>15. ASSUME NEW q \in Request, CodeInsert(q) PROVE GrantsToRow'
  BY <1>15 DEF CodeInsert
<1>16. ASSUME NEW q \in Request, CodeDuplicate(q) PROVE GrantsToRow'
  BY <1>16 DEF CodeDuplicate
<1>17. ASSUME NEW q \in Request, PermFind(q) PROVE GrantsToRow'
  BY <1>17 DEF PermFind
<1>18. ASSUME NEW q \in Request, PermRead(q) PROVE GrantsToRow'
  BY <1>18 DEF PermRead
<1>19. ASSUME NEW q \in Request, PermSaveLoad(q) PROVE GrantsToRow'
  BY <1>19 DEF PermSaveLoad
<1>20. ASSUME NEW q \in Request, PermReinsert(q) PROVE GrantsToRow'
  BY <1>20 DEF PermReinsert
<1>21. ASSUME NEW q \in Request, PermRemove(q) PROVE GrantsToRow'
  BY <1>21 DEF PermRemove
<1>22. ASSUME NEW q \in Request, RequestFails(q) PROVE GrantsToRow'
  BY <1>22 DEF RequestFails
<1>23. CASE UNCHANGED vars
  BY <1>23 DEF vars
<1> QED
  BY <1>1, <1>2, <1>3, <1>4, <1>5, <1>6, <1>7, <1>8, <1>9, <1>10, <1>11, <1>12, <1>13, <1>14, <1>15, <1>16, <1>17, <1>18, <1>19, <1>20, <1>21, <1>22, <1>23
  DEF Next, RoleStep, PermStep


\* An id that has been given stays given.
LEMMA IssuedStays ==
  ASSUME TypeOK, Known, [Next]_vars
  PROVE  issued \subseteq issued' /\ Ids' \subseteq issued'
<1>1. CASE UNCHANGED tables
  BY <1>1 DEF tables, Ids, Known
<1>2. CASE \E r \in Request : WritesRole(r) \/ WritesGrants(r)
  BY <1>2 DEF WritesRole, WritesGrants, RoleInsert, RoleSaveWrite, RoleSoftRemove, SyncSave,
     ReplacePermissions, Ids, Known
<1>3. ASSUME NEW r \in Request, CodeInsert(r) PROVE issued \subseteq issued' /\ Ids' \subseteq issued'
  BY <1>3 DEF TypeOK, CodeInsert, Ids, Known
<1>4. ASSUME NEW r \in Request, PermReinsert(r) PROVE issued \subseteq issued' /\ Ids' \subseteq issued'
  BY <1>4 DEF TypeOK, PermReinsert, Ids, Known
<1>5. ASSUME NEW r \in Request, PermRemove(r) PROVE issued \subseteq issued' /\ Ids' \subseteq issued'
  BY <1>5, RoleAdminAssumption DEF TypeOK, PermRemove, Ids, Known
<1> QED BY <1>1, <1>2, <1>3, <1>4, <1>5, WhoWrites DEF WritesPerm

LEMMA KnownStep == TypeOK /\ Placed /\ GrantsToRow /\ Known /\ [Next]_vars => Known'
<1> SUFFICES ASSUME TypeOK, Placed, GrantsToRow, Known, [Next]_vars PROVE Known'
  OBVIOUS
<1>0. /\ issued \subseteq issued' /\ Ids' \subseteq issued'
      /\ \A n \in Name : role[n] # "absent" => role'[n] # "absent"
  BY RowStays, IssuedStays
<1> SUFFICES ASSUME NEW r \in Request
             PROVE  /\ pc'[r] \in {"permread", "permload", "permadd", "permremove"} =>
                           req'[r].perm \in issued'
                    /\ pc'[r] \in {"read", "remove"} =>
                           req'[r].name \in Name /\ role'[req'[r].name] # "absent"
  BY <1>0 DEF Known
<1> DEFINE Goal == /\ pc'[r] \in {"permread", "permload", "permadd", "permremove"} =>
                          req'[r].perm \in issued'
                   /\ pc'[r] \in {"read", "remove"} =>
                          req'[r].name \in Name /\ role'[req'[r].name] # "absent"
<1> USE DEF TypeOK, RequestState, Placed, GrantsToRow, Known, Goto, InFlight, Ended, tables
<1>1. ASSUME NEW q \in Request, RoleCheck(q) PROVE Goal
  BY <1>0, <1>1 DEF RoleCheck
<1>2. ASSUME NEW q \in Request, RoleInsert(q) PROVE Goal
  BY <1>0, <1>2 DEF RoleInsert, Answer
<1>3. ASSUME NEW q \in Request, RoleDuplicate(q) PROVE Goal
  BY <1>0, <1>3 DEF RoleDuplicate
<1>4. ASSUME NEW q \in Request, SyncFind(q) PROVE Goal
  BY <1>0, <1>4 DEF SyncFind
<1>5. ASSUME NEW q \in Request, SyncSave(q) PROVE Goal
  BY <1>0, <1>5 DEF SyncSave, Answer
<1>6. ASSUME NEW q \in Request, RoleFind(q) PROVE Goal
  BY <1>0, <1>6 DEF RoleFind
<1>7. ASSUME NEW q \in Request, ReplacePermissions(q) PROVE Goal
  BY <1>0, <1>7 DEF ReplacePermissions
<1>8. ASSUME NEW q \in Request, RoleRead(q) PROVE Goal
  BY <1>0, <1>8 DEF RoleRead
<1>9. ASSUME NEW q \in Request, RoleSaveLoad(q) PROVE Goal
  BY <1>0, <1>9 DEF RoleSaveLoad
<1>10. ASSUME NEW q \in Request, RoleSaveWrite(q) PROVE Goal
  BY <1>0, <1>10 DEF RoleSaveWrite, Answer
<1>11. ASSUME NEW q \in Request, RoleDeleteFind(q) PROVE Goal
  BY <1>0, <1>11 DEF RoleDeleteFind
<1>12. ASSUME NEW q \in Request, RoleDeleteRead(q) PROVE Goal
  BY <1>0, <1>12 DEF RoleDeleteRead
<1>13. ASSUME NEW q \in Request, RoleSoftRemove(q) PROVE Goal
  BY <1>0, <1>13 DEF RoleSoftRemove
<1>14. ASSUME NEW q \in Request, CodeCheck(q) PROVE Goal
  BY <1>0, <1>14 DEF CodeCheck
<1>15. ASSUME NEW q \in Request, CodeInsert(q) PROVE Goal
  BY <1>0, <1>15 DEF CodeInsert
<1>16. ASSUME NEW q \in Request, CodeDuplicate(q) PROVE Goal
  BY <1>0, <1>16 DEF CodeDuplicate
<1>17. ASSUME NEW q \in Request, PermFind(q) PROVE Goal
  BY <1>0, <1>17 DEF PermFind
<1>18. ASSUME NEW q \in Request, PermRead(q) PROVE Goal
  BY <1>0, <1>18 DEF PermRead
<1>19. ASSUME NEW q \in Request, PermSaveLoad(q) PROVE Goal
  BY <1>0, <1>19 DEF PermSaveLoad
<1>20. ASSUME NEW q \in Request, PermReinsert(q) PROVE Goal
  BY <1>0, <1>20 DEF PermReinsert
<1>21. ASSUME NEW q \in Request, PermRemove(q) PROVE Goal
  BY <1>0, <1>21 DEF PermRemove
<1>22. ASSUME NEW q \in Request, RequestFails(q) PROVE Goal
  BY <1>0, <1>22 DEF RequestFails
<1>23. CASE UNCHANGED vars
  BY <1>23 DEF vars
<1> QED
  BY <1>1, <1>2, <1>3, <1>4, <1>5, <1>6, <1>7, <1>8, <1>9, <1>10, <1>11, <1>12, <1>13, <1>14, <1>15, <1>16, <1>17, <1>18, <1>19, <1>20, <1>21, <1>22, <1>23
  DEF Next, RoleStep, PermStep

LEMMA OneCreatorStep ==
  TypeOK /\ Placed /\ GrantsToRow /\ OneCreator /\ [Next]_vars => OneCreator'
<1> SUFFICES ASSUME TypeOK, Placed, GrantsToRow, OneCreator, [Next]_vars PROVE OneCreator'
  OBVIOUS
<1> USE DEF TypeOK, RequestState, Placed, OneCreator, Linking, Goto, InFlight, Ended, tables
<1>1. ASSUME NEW q \in Request, RoleCheck(q) PROVE OneCreator'
  BY <1>1 DEF RoleCheck
<1>2. ASSUME NEW q \in Request, RoleInsert(q) PROVE OneCreator'
  BY <1>2 DEF RoleInsert, Answer, NameTaken, GrantsToRow
<1>3. ASSUME NEW q \in Request, RoleDuplicate(q) PROVE OneCreator'
  BY <1>3 DEF RoleDuplicate
<1>4. ASSUME NEW q \in Request, SyncFind(q) PROVE OneCreator'
  BY <1>4 DEF SyncFind
<1>5. ASSUME NEW q \in Request, SyncSave(q) PROVE OneCreator'
  BY <1>5 DEF SyncSave, Answer
<1>6. ASSUME NEW q \in Request, RoleFind(q) PROVE OneCreator'
  BY <1>6 DEF RoleFind
<1>7. ASSUME NEW q \in Request, ReplacePermissions(q) PROVE OneCreator'
  BY <1>7 DEF ReplacePermissions
<1>8. ASSUME NEW q \in Request, RoleRead(q) PROVE OneCreator'
  BY <1>8 DEF RoleRead
<1>9. ASSUME NEW q \in Request, RoleSaveLoad(q) PROVE OneCreator'
  BY <1>9 DEF RoleSaveLoad
<1>10. ASSUME NEW q \in Request, RoleSaveWrite(q) PROVE OneCreator'
  BY <1>10 DEF RoleSaveWrite, Answer
<1>11. ASSUME NEW q \in Request, RoleDeleteFind(q) PROVE OneCreator'
  BY <1>11 DEF RoleDeleteFind
<1>12. ASSUME NEW q \in Request, RoleDeleteRead(q) PROVE OneCreator'
  BY <1>12 DEF RoleDeleteRead
<1>13. ASSUME NEW q \in Request, RoleSoftRemove(q) PROVE OneCreator'
  BY <1>13 DEF RoleSoftRemove
<1>14. ASSUME NEW q \in Request, CodeCheck(q) PROVE OneCreator'
  BY <1>14 DEF CodeCheck
<1>15. ASSUME NEW q \in Request, CodeInsert(q) PROVE OneCreator'
  BY <1>15 DEF CodeInsert
<1>16. ASSUME NEW q \in Request, CodeDuplicate(q) PROVE OneCreator'
  BY <1>16 DEF CodeDuplicate
<1>17. ASSUME NEW q \in Request, PermFind(q) PROVE OneCreator'
  BY <1>17 DEF PermFind
<1>18. ASSUME NEW q \in Request, PermRead(q) PROVE OneCreator'
  <2>1. \A r \in Request : req'[r].kind = req[r].kind /\ req'[r].name = req[r].name
    BY <1>18 DEF PermRead
  <2>2. \A r \in Request : pc'[r] \in {"sync", "link"} => pc[r] = pc'[r]
    BY <1>18 DEF PermRead
  <2> QED BY <2>1, <2>2
<1>19. ASSUME NEW q \in Request, PermSaveLoad(q) PROVE OneCreator'
  BY <1>19 DEF PermSaveLoad
<1>20. ASSUME NEW q \in Request, PermReinsert(q) PROVE OneCreator'
  BY <1>20 DEF PermReinsert
<1>21. ASSUME NEW q \in Request, PermRemove(q) PROVE OneCreator'
  BY <1>21 DEF PermRemove
<1>22. ASSUME NEW q \in Request, RequestFails(q) PROVE OneCreator'
  BY <1>22 DEF RequestFails
<1>23. CASE UNCHANGED vars
  BY <1>23 DEF vars
<1> QED
  BY <1>1, <1>2, <1>3, <1>4, <1>5, <1>6, <1>7, <1>8, <1>9, <1>10, <1>11, <1>12, <1>13, <1>14, <1>15, <1>16, <1>17, <1>18, <1>19, <1>20, <1>21, <1>22, <1>23
  DEF Next, RoleStep, PermStep


\* A grant is of a permission that is there, to a role that has been there.
LEMMA GrantsExistStep ==
  TypeOK /\ Placed /\ GrantsToRow /\ GrantsExist /\ [Next]_vars => GrantsExist'
<1> SUFFICES ASSUME TypeOK, Placed, GrantsToRow, GrantsExist, [Next]_vars PROVE GrantsExist'
  OBVIOUS
<1>0. \A n \in Name : role[n] # "absent" => role'[n] # "absent"
  BY RowStays
<1>g. \A g \in grants : g \in Name \X Perm
  BY DEF TypeOK
<1> USE DEF TypeOK, GrantsExist, Ids, tables
<1>1. CASE UNCHANGED tables
  BY <1>1
<1>2. ASSUME NEW q \in Request, WritesRole(q) PROVE GrantsExist'
  BY <1>0, <1>g, <1>2 DEF WritesRole, RoleInsert, RoleSaveWrite, RoleSoftRemove
<1>3. ASSUME NEW q \in Request, SyncSave(q) PROVE GrantsExist'
  BY <1>g, <1>3 DEF SyncSave, Answer, Linkable, Links, GrantsToRow
<1>4. ASSUME NEW q \in Request, ReplacePermissions(q) PROVE GrantsExist'
  BY <1>g, <1>4 DEF ReplacePermissions, Replaced, Without, Links, GrantsToRow
<1>5. ASSUME NEW q \in Request, CodeInsert(q) PROVE GrantsExist'
  BY <1>g, <1>5, RoleAdminAssumption DEF CodeInsert
<1>6. ASSUME NEW q \in Request, PermReinsert(q) PROVE GrantsExist'
  BY <1>g, <1>6, RoleAdminAssumption DEF PermReinsert
<1>7. ASSUME NEW q \in Request, PermRemove(q) PROVE GrantsExist'
  BY <1>g, <1>7, RoleAdminAssumption DEF PermRemove, Cascaded
<1> QED BY <1>1, <1>2, <1>3, <1>4, <1>5, <1>6, <1>7, WhoWrites DEF WritesGrants, WritesPerm

\* Only the two writers give a role a permission.
LEMMA WhoGrants ==
  ASSUME [Next]_vars, NEW n \in Name
  PROVE  \/ \A p \in Perm : <<n, p>> \in grants' => <<n, p>> \in grants
         \/ \E q \in Request : SyncSave(q) /\ grants' # grants /\ req[q].name = n
         \/ \E q \in Request : ReplacePermissions(q) /\ req[q].name = n
<1> DEFINE Fewer == \A p \in Perm : <<n, p>> \in grants' => <<n, p>> \in grants
           Goal == \/ Fewer
                   \/ \E q \in Request : SyncSave(q) /\ grants' # grants /\ req[q].name = n
                   \/ \E q \in Request : ReplacePermissions(q) /\ req[q].name = n
<1>1. CASE UNCHANGED tables
  BY <1>1 DEF tables
<1>2. ASSUME NEW q \in Request, SyncSave(q) PROVE Goal
  <2>1. CASE grants' = grants \/ req[q].name = n
    BY <1>2, <2>1
  <2>2. CASE grants' # grants /\ req[q].name # n
    <3>1. Fewer
      BY <1>2, <2>2 DEF SyncSave, Answer, Links
    <3> QED BY <3>1
  <2> QED BY <2>1, <2>2
<1>3. ASSUME NEW q \in Request, ReplacePermissions(q) PROVE Goal
  <2>1. CASE req[q].name = n
    BY <1>3, <2>1
  <2>2. CASE req[q].name # n
    <3>1. Fewer
      BY <1>3, <2>2 DEF ReplacePermissions, Replaced, Without, Links
    <3> QED BY <3>1
  <2> QED BY <2>1, <2>2
<1>4. ASSUME NEW q \in Request, WritesRole(q) \/ WritesPerm(q) PROVE Goal
  BY <1>4 DEF WritesRole, WritesPerm, RoleInsert, RoleSaveWrite, RoleSoftRemove,
     CodeInsert, PermReinsert, PermRemove, Cascaded
<1> QED BY <1>1, <1>2, <1>3, <1>4, WhoWrites DEF WritesGrants

\* A request comes to add a new role's permissions by inserting the role.
LEMMA WhoLinks ==
  ASSUME TypeOK, Placed, [Next]_vars, NEW r \in Request, NEW n \in Name,
         pc'[r] \in {"sync", "link"}, req'[r].name = n
  PROVE  Linking(r, n) \/ role[n] = "absent"
<1> DEFINE Goal == Linking(r, n) \/ role[n] = "absent"
<1> USE DEF TypeOK, RequestState, Placed, Linking, Goto, InFlight, Ended, tables
<1>1. ASSUME NEW q \in Request, RoleCheck(q) PROVE Goal
  BY <1>1 DEF RoleCheck
<1>2. ASSUME NEW q \in Request, RoleInsert(q) PROVE Goal
  BY <1>2 DEF RoleInsert, Answer, NameTaken
<1>3. ASSUME NEW q \in Request, RoleDuplicate(q) PROVE Goal
  BY <1>3 DEF RoleDuplicate
<1>4. ASSUME NEW q \in Request, SyncFind(q) PROVE Goal
  BY <1>4 DEF SyncFind
<1>5. ASSUME NEW q \in Request, SyncSave(q) PROVE Goal
  BY <1>5 DEF SyncSave, Answer
<1>6. ASSUME NEW q \in Request, RoleFind(q) PROVE Goal
  BY <1>6 DEF RoleFind
<1>7. ASSUME NEW q \in Request, ReplacePermissions(q) PROVE Goal
  BY <1>7 DEF ReplacePermissions
<1>8. ASSUME NEW q \in Request, RoleRead(q) PROVE Goal
  BY <1>8 DEF RoleRead
<1>9. ASSUME NEW q \in Request, RoleSaveLoad(q) PROVE Goal
  BY <1>9 DEF RoleSaveLoad
<1>10. ASSUME NEW q \in Request, RoleSaveWrite(q) PROVE Goal
  BY <1>10 DEF RoleSaveWrite, Answer
<1>11. ASSUME NEW q \in Request, RoleDeleteFind(q) PROVE Goal
  BY <1>11 DEF RoleDeleteFind
<1>12. ASSUME NEW q \in Request, RoleDeleteRead(q) PROVE Goal
  BY <1>12 DEF RoleDeleteRead
<1>13. ASSUME NEW q \in Request, RoleSoftRemove(q) PROVE Goal
  BY <1>13 DEF RoleSoftRemove
<1>14. ASSUME NEW q \in Request, CodeCheck(q) PROVE Goal
  BY <1>14 DEF CodeCheck
<1>15. ASSUME NEW q \in Request, CodeInsert(q) PROVE Goal
  BY <1>15 DEF CodeInsert
<1>16. ASSUME NEW q \in Request, CodeDuplicate(q) PROVE Goal
  BY <1>16 DEF CodeDuplicate
<1>17. ASSUME NEW q \in Request, PermFind(q) PROVE Goal
  BY <1>17 DEF PermFind
<1>18. ASSUME NEW q \in Request, PermRead(q) PROVE Goal
  BY <1>18 DEF PermRead
<1>19. ASSUME NEW q \in Request, PermSaveLoad(q) PROVE Goal
  BY <1>19 DEF PermSaveLoad
<1>20. ASSUME NEW q \in Request, PermReinsert(q) PROVE Goal
  BY <1>20 DEF PermReinsert
<1>21. ASSUME NEW q \in Request, PermRemove(q) PROVE Goal
  BY <1>21 DEF PermRemove
<1>22. ASSUME NEW q \in Request, RequestFails(q) PROVE Goal
  BY <1>22 DEF RequestFails
<1>23. CASE UNCHANGED vars
  BY <1>23 DEF vars
<1> QED
  BY <1>1, <1>2, <1>3, <1>4, <1>5, <1>6, <1>7, <1>8, <1>9, <1>10, <1>11, <1>12, <1>13, <1>14, <1>15, <1>16, <1>17, <1>18, <1>19, <1>20, <1>21, <1>22, <1>23
  DEF Next, RoleStep, PermStep


LEMMA OneReplacementStep ==
  IInv /\ [Next]_vars => OneReplacement' /\ NothingLinkedYet'
<1> SUFFICES ASSUME IInv, [Next]_vars, NEW n \in Name
             PROVE  /\ (\E S \in Asked(n, "updaterole"), T \in Asked(n, "createrole") :
                           GrantsOf(n) \subseteq S \cup T)'
                    /\ ((\E r \in Request : Linking(r, n)) =>
                           \E S \in Asked(n, "updaterole") : GrantsOf(n) \subseteq S)'
  BY DEF OneReplacement, NothingLinkedYet
<1> USE DEF IInv
<1>1. /\ \A S \in Asked(n, "updaterole") : S \in Asked(n, "updaterole")'
      /\ \A T \in Asked(n, "createrole") : T \in Asked(n, "createrole")'
  BY AskedGrows
<1>2. {} \in Asked(n, "updaterole") /\ {} \in Asked(n, "createrole")
  BY DEF Asked
<1>3. CASE \A p \in Perm : <<n, p>> \in grants' => <<n, p>> \in grants
  <2>1. GrantsOf(n)' \subseteq GrantsOf(n)
    BY <1>3 DEF GrantsOf
  <2>2. PICK S \in Asked(n, "updaterole"), T \in Asked(n, "createrole") :
            GrantsOf(n) \subseteq S \cup T
    BY DEF OneReplacement
  <2>3. ASSUME NEW r \in Request, Linking(r, n)'
        PROVE  \E S1 \in Asked(n, "updaterole")' : GrantsOf(n)' \subseteq S1
    <3>1. Linking(r, n) \/ role[n] = "absent"
      BY <2>3, WhoLinks DEF Linking
    <3>2. CASE Linking(r, n)
      BY <1>1, <2>1, <3>2 DEF NothingLinkedYet
    <3>3. CASE role[n] = "absent"
      <4>1. GrantsOf(n) = {}
        BY <3>3 DEF GrantsOf, GrantsExist
      <4> QED BY <1>1, <1>2, <2>1, <4>1
    <3> QED BY <3>1, <3>2, <3>3
  <2> QED BY <1>1, <2>1, <2>2, <2>3
<1>4. ASSUME NEW q \in Request, SyncSave(q), grants' # grants, req[q].name = n
      PROVE  /\ \E S \in Asked(n, "updaterole")', T \in Asked(n, "createrole")' :
                    GrantsOf(n)' \subseteq S \cup T
             /\ \A r \in Request : ~Linking(r, n)'
  <2>1. Linking(q, n)
    BY <1>4 DEF SyncSave, Answer, Linking
  <2>2. PICK S \in Asked(n, "updaterole") : GrantsOf(n) \subseteq S
    BY <2>1 DEF NothingLinkedYet
  <2>3. req[q].wanted \in Asked(n, "createrole")
    BY <1>4 DEF SyncSave, Answer, Placed, Asked
  <2>4. GrantsOf(n)' \subseteq S \cup req[q].wanted
    BY <1>4, <2>2 DEF SyncSave, Answer, GrantsOf, Links, GrantsToRow
  <2>5. ASSUME NEW r \in Request PROVE ~Linking(r, n)'
    <3>1. CASE r = q
      BY <1>4, <3>1 DEF SyncSave, Answer, Goto, Linking, TypeOK
    <3>2. CASE r # q
      BY <1>4, <2>1, <3>2 DEF SyncSave, Answer, Goto, Linking, TypeOK, OneCreator
    <3> QED BY <3>1, <3>2
  <2> QED BY <1>1, <2>3, <2>4, <2>5
<1>5. ASSUME NEW q \in Request, ReplacePermissions(q), req[q].name = n
      PROVE  \E S \in Asked(n, "updaterole")' : GrantsOf(n)' \subseteq S
  <2>1. req[q].wanted \in Asked(n, "updaterole")
    BY <1>5 DEF ReplacePermissions, Placed, Asked
  <2>2. GrantsOf(n)' \subseteq req[q].wanted
    BY <1>5 DEF ReplacePermissions, GrantsOf, Replaced, Without, Links
  <2> QED BY <1>1, <2>1, <2>2
<1> QED BY <1>1, <1>2, <1>3, <1>4, <1>5, WhoGrants

LEMMA InitIInv == Init => IInv
<1> SUFFICES ASSUME Init PROVE IInv
  OBVIOUS
<1>1. TypeOK
  BY InitType
<1>2. \A r \in Request : pc[r] = "idle" /\ req[r].kind = None
  BY DEF Init, Blank
<1>3. Placed /\ GrantsToRow /\ OneCreator /\ NothingLinkedYet /\ Known
  BY <1>2 DEF Placed, GrantsToRow, OneCreator, NothingLinkedYet, Linking, Known, Init
<1>4. GrantsExist /\ OneReplacement
  BY DEF Init, GrantsExist, OneReplacement, GrantsOf, Asked
<1> QED BY <1>1, <1>3, <1>4 DEF IInv

LEMMA IInvStep == IInv /\ [Next]_vars => IInv'
BY TypeStep, PlacedStep, GrantsToRowStep, OneCreatorStep, GrantsExistStep,
   OneReplacementStep, KnownStep
DEF IInv

LEMMA IInvAlways == Spec => []IInv
<1>1. IInv /\ [Next]_vars => IInv'
  BY IInvStep
<1> QED BY InitIInv, <1>1, PTL DEF Spec

-----------------------------------------------------------------------------
(* Theorems about RoleAdmin *)

\* Every variable keeps its type.
THEOREM TypeCorrect == Spec => []TypeOK
<1>1. IInv => TypeOK
  BY DEF IInv
<1> QED BY IInvAlways, <1>1, PTL

\* Roles are granted only permissions that exist, whatever is created, replaced,
\* deleted and inserted again between the find and the save of syncPermissions.
THEOREM NoDanglingGrants == Spec => []GrantsExist
<1>1. IInv => GrantsExist
  BY DEF IInv
<1> QED BY IInvAlways, <1>1, PTL

\* The permissions of two updates never mix in a role.
THEOREM ReplacementsDoNotMix == Spec => []OneReplacement
<1>1. IInv => OneReplacement
  BY DEF IInv
<1> QED BY IInvAlways, <1>1, PTL

\* A deleted role comes back only through the save of an update that read it
\* before: the step from deleted to live is that request's last.
THEOREM RevivalIsASave == Spec => OnlySaveRevives
<1>1. ASSUME IInv, [Next]_vars, NEW n \in Name, role[n] = "deleted", role'[n] # "deleted"
      PROVE  \E r \in Request : req[r].name = n /\ req[r].kind = "updaterole"
                                /\ pc[r] = "write" /\ pc'[r] \in {"ok", "error"}
  <2> DEFINE Goal == \E r \in Request : req[r].name = n /\ req[r].kind = "updaterole"
                                        /\ pc[r] = "write" /\ pc'[r] \in {"ok", "error"}
  <2>1. PICK q \in Request : RoleInsert(q) \/ RoleSaveWrite(q) \/ RoleSoftRemove(q)
    BY <1>1, WhoWrites DEF tables, WritesRole, WritesGrants, WritesPerm, SyncSave,
       ReplacePermissions, CodeInsert, PermReinsert, PermRemove
  <2>2. CASE RoleInsert(q)
    BY <1>1, <2>2 DEF RoleInsert, Answer, NameTaken, IInv, TypeOK
  <2>3. CASE RoleSaveWrite(q)
    BY <1>1, <2>3 DEF RoleSaveWrite, Answer, Goto, IInv, TypeOK, Placed
  <2>4. CASE RoleSoftRemove(q)
    BY <1>1, <2>4 DEF RoleSoftRemove, IInv, TypeOK
  <2> QED BY <2>1, <2>2, <2>3, <2>4
<1>2. IInv /\ [Next]_vars =>
        [\A n \in Name :
           role[n] = "deleted" /\ role'[n] # "deleted" =>
              \E r \in Request : req[r].name = n /\ req[r].kind = "updaterole"
                                 /\ pc[r] = "write" /\ pc'[r] \in {"ok", "error"}]_vars
  BY <1>1
<1> QED BY IInvAlways, <1>2, PTL DEF Spec, OnlySaveRevives

-----------------------------------------------------------------------------
(* RoleAdmin, as Seed and PermissionCache take it to be *)

\* A write to roles is one to a row: it becomes live, or is deleted.
LEMMA RoleWrite ==
  ASSUME IInv, NEW r \in Request, WritesRole(r)
  PROVE  /\ code' = code /\ issued' = issued /\ grants' = grants
         /\ \E n \in Name :
              \/ role' = [role EXCEPT ![n] = "live"]
              \/ role' = [role EXCEPT ![n] = "deleted"] /\ role[n] # "absent"
<1>1. req[r].name \in Name
  BY DEF WritesRole, RoleInsert, RoleSaveWrite, RoleSoftRemove, IInv, Placed, Known
<1>2. pc[r] = "remove" => role[req[r].name] # "absent"
  BY DEF IInv, Known
<1>3. CASE RoleInsert(r) \/ RoleSaveWrite(r)
  <2>1. code' = code /\ issued' = issued /\ grants' = grants
    BY <1>3 DEF RoleInsert, Answer, RoleSaveWrite
  <2>2. role' = [role EXCEPT ![req[r].name] = "live"]
    BY <1>3 DEF RoleInsert, Answer, RoleSaveWrite
  <2> QED BY <1>1, <2>1, <2>2
<1>4. CASE RoleSoftRemove(r)
  <2>1. /\ role' = [role EXCEPT ![req[r].name] = "deleted"] /\ pc[r] = "remove"
        /\ code' = code /\ issued' = issued /\ grants' = grants
    BY <1>4 DEF RoleSoftRemove
  <2> QED BY <1>1, <1>2, <2>1
<1> QED BY <1>3, <1>4 DEF WritesRole

\* A write to role_permissions gives one role permissions that exist.
LEMMA GrantsWrite ==
  ASSUME IInv, NEW r \in Request, WritesGrants(r)
  PROVE  /\ role' = role /\ code' = code /\ issued' = issued
         /\ \/ grants' = grants
            \/ \E n \in Name, S \in SUBSET Ids : grants' = Without(n) \cup ({n} \X S)
<1> USE DEF IInv, TypeOK, Placed, RequestState
<1>1. CASE ReplacePermissions(r)
  <2>1. req[r].name \in Name /\ req[r].wanted \cap Ids \in SUBSET Ids
    BY <1>1 DEF ReplacePermissions
  <2> QED BY <1>1, <2>1 DEF ReplacePermissions, Replaced, Links
<1>2. CASE SyncSave(r) /\ Linkable(req[r].name, req[r].found)
  <2> DEFINE n == req[r].name
             S == GrantsOf(n) \cup req[r].found
  <2>1. n \in Name /\ S \in SUBSET Ids
    BY <1>2 DEF SyncSave, Answer, Linkable, GrantsOf, GrantsExist
  <2>2. grants' = grants \cup ({n} \X req[r].found)
    BY <1>2 DEF SyncSave, Answer, Links
  <2>3. grants = Without(n) \cup ({n} \X GrantsOf(n))
    BY <2>1 DEF Without, GrantsOf
  <2>4. grants' = Without(n) \cup ({n} \X S)
    BY <2>2, <2>3
  <2> QED BY <1>2, <2>1, <2>4 DEF SyncSave, Answer
<1>3. CASE SyncSave(r) /\ ~Linkable(req[r].name, req[r].found)
  BY <1>3 DEF SyncSave, Answer
<1> QED BY <1>1, <1>2, <1>3 DEF WritesGrants

\* A write to permissions gives a code without a row an id that has none, or
\* takes a row with its grants.
LEMMA PermWrite ==
  ASSUME IInv, NEW r \in Request, WritesPerm(r)
  PROVE  /\ role' = role
         /\ \/ /\ grants' = grants
               /\ code' = code /\ issued' = issued
            \/ /\ grants' = grants
               /\ \E c \in Code, p \in Perm \ Ids :
                     /\ code[c] = None
                     /\ code' = [code EXCEPT ![c] = p] /\ issued' = issued \cup {p}
            \/ \E p \in Perm : /\ code' = [c \in Code |-> IF code[c] = p THEN None ELSE code[c]]
                              /\ grants' = {g \in grants : g[2] # p}
                              /\ issued' = issued
<1> USE DEF IInv, TypeOK, Placed, Known, RequestState
<1>1. CASE CodeInsert(r)
  <2>1. PICK p \in Perm \ issued : /\ code' = [code EXCEPT ![req[r].code] = p]
                                 /\ issued' = issued \cup {p}
    BY <1>1 DEF CodeInsert
  <2>2. p \in Perm \ Ids /\ req[r].code \in Code /\ code[req[r].code] = None
    BY <1>1, <2>1 DEF CodeInsert
  <2> QED BY <1>1, <2>1, <2>2 DEF CodeInsert
<1>2. CASE PermReinsert(r) /\ code[req[r].code] = None /\ req[r].perm \notin Ids
  <2>1. req[r].perm \in Perm \ Ids /\ req[r].perm \in issued /\ req[r].code \in Code
    BY <1>2 DEF PermReinsert
  <2>2. /\ code' = [code EXCEPT ![req[r].code] = req[r].perm]
        /\ issued' = issued \cup {req[r].perm} /\ role' = role /\ grants' = grants
    BY <1>2, <2>1 DEF PermReinsert
  <2> QED BY <1>2, <2>1, <2>2
<1>3. CASE PermReinsert(r) /\ ~(code[req[r].code] = None /\ req[r].perm \notin Ids)
  BY <1>3 DEF PermReinsert
<1>4. CASE PermRemove(r)
  <2>1. req[r].perm \in Perm
    BY <1>4 DEF PermRemove
  <2> QED BY <1>4, <2>1 DEF PermRemove, Cascaded
<1> QED BY <1>1, <1>2, <1>3, <1>4 DEF WritesPerm

\* A request's write is, for the role that Seed calls SUPER_ADMIN, a change of its
\* row, a replacement or a growth of its grants, or a permission that comes or goes.
LEMMA SeedReckons ==
  ASSUME IInv, [Next]_vars, NEW n \in Name
  PROVE  UNCHANGED ToSeed(n)!tables \/ ToSeed(n)!Administration
<1> DEFINE Goal == UNCHANGED ToSeed(n)!tables \/ ToSeed(n)!Administration
<1> USE DEF IInv, TypeOK, ToSeed!tables, ToSeed!permissions, ToSeed!seeds, ToSeed!Administration
<1>1. CASE UNCHANGED tables
  BY <1>1 DEF tables, GrantsOf
<1>2. ASSUME NEW r \in Request, WritesRole(r) PROVE Goal
  <2>1. code' = code /\ issued' = issued /\ grants' = grants
    BY <1>2, RoleWrite
  <2>2. PICK m \in Name :
              \/ role' = [role EXCEPT ![m] = "live"]
              \/ role' = [role EXCEPT ![m] = "deleted"] /\ role[m] # "absent"
    BY <1>2, RoleWrite
  <2>3. role'[n] # role[n] => \/ role'[n] = "live" /\ role[n] # "live"
                              \/ role'[n] = "deleted" /\ role[n] = "live"
    <3>1. role \in [Name -> {"absent", "live", "deleted"}]
      OBVIOUS
    <3>2. CASE n = m
      BY <2>2, <3>1, <3>2
    <3>3. CASE n # m
      BY <2>2, <3>1, <3>3
    <3> QED BY <3>2, <3>3
  <2>4. CASE role'[n] = role[n]
    BY <2>1, <2>4 DEF GrantsOf
  <2>5. CASE role'[n] # role[n]
    BY <2>1, <2>3, <2>5 DEF GrantsOf, ToSeed!ChangeRole, ToSeed!Changed
  <2> QED BY <2>4, <2>5
<1>3. ASSUME NEW r \in Request, WritesGrants(r) PROVE Goal
  <2>1. role' = role /\ code' = code /\ issued' = issued
    BY <1>3, GrantsWrite
  <2>2. CASE GrantsOf(n)' = GrantsOf(n)
    BY <2>1, <2>2
  <2>3. CASE GrantsOf(n)' # GrantsOf(n)
    <3>1. PICK m \in Name, S \in SUBSET Ids : grants' = Without(m) \cup ({m} \X S)
      BY <1>3, <2>3, GrantsWrite DEF GrantsOf
    <3>2. n = m
      BY <2>3, <3>1 DEF GrantsOf, Without
    <3>3. GrantsOf(n)' = S
      BY <3>1, <3>2 DEF GrantsOf, Without, Ids
    <3>4. S \in SUBSET Perm /\ S = S \cap ToSeed(n)!Ids
      BY DEF Ids, ToSeed!Ids
    <3>5. ToSeed(n)!UpdateRole(S)
      BY <2>1, <3>3, <3>4 DEF ToSeed!UpdateRole
    <3> QED BY <3>4, <3>5
  <2> QED BY <2>2, <2>3
<1>4. ASSUME NEW r \in Request, WritesPerm(r) PROVE Goal
  <2>1. role' = role
    BY <1>4, PermWrite
  <2>2. CASE grants' = grants /\ code' = code /\ issued' = issued
    BY <2>1, <2>2 DEF GrantsOf
  <2>3. ASSUME grants' = grants,
               NEW c \in Code, NEW p \in Perm \ Ids, code[c] = None,
               code' = [code EXCEPT ![c] = p], issued' = issued \cup {p}
        PROVE  Goal
    <3>1. ToSeed(n)!CreatePermission(c)
      BY <2>1, <2>3 DEF GrantsOf, Ids, None, ToSeed!CreatePermission, ToSeed!None, ToSeed!Ids,
         ToSeed!AddRow
    <3> QED BY <3>1
  <2>4. ASSUME NEW p \in Perm, code' = [c \in Code |-> IF code[c] = p THEN None ELSE code[c]],
               grants' = {g \in grants : g[2] # p}, issued' = issued
        PROVE  Goal
    <3>1. CASE p \in Ids
      <4>1. GrantsOf(n)' = GrantsOf(n) \ {p}
        BY <2>4 DEF GrantsOf
      <4>2. ToSeed(n)!DeletePermission(p)
        BY <2>1, <2>4, <3>1, <4>1 DEF Ids, None, ToSeed!DeletePermission, ToSeed!None,
           ToSeed!Ids, ToSeed!Cascaded
      <4> QED BY <4>2
    <3>2. CASE p \notin Ids
      <4>1. code' = code
        BY <2>4, <3>2 DEF Ids
      <4>2. grants' = grants
        BY <2>4, <3>2 DEF GrantsExist
      <4> QED BY <2>1, <2>4, <4>1, <4>2 DEF GrantsOf
    <3> QED BY <3>1, <3>2
  <2> QED BY <1>4, <2>2, <2>3, <2>4, PermWrite
<1> QED BY <1>1, <1>2, <1>3, <1>4, WhoWrites

\* What RoleAdmin does is what Seed takes administration to do, whichever role is
\* SUPER_ADMIN: the theorems of Seed hold with these requests around the script.
THEOREM SeedMeetsAdministration == Spec => SeedReckonsWith
<1>1. IInv /\ [Next]_vars =>
        [\A n \in Name : UNCHANGED ToSeed(n)!tables \/ ToSeed(n)!Administration]_vars
  BY SeedReckons
<1> QED BY IInvAlways, <1>1, PTL DEF Spec, SeedReckonsWith

\* The same write, as a change of the roles that are live and of what they are granted.
LEMMA CacheReckons ==
  ASSUME IInv, [Next]_vars
  PROVE  UNCHANGED ToCache!tables \/ ToCache!Admin \/ \E n \in Name : ToCache!ReviveRole(n)
<1> DEFINE Goal == UNCHANGED ToCache!tables \/ ToCache!Admin
                   \/ \E n \in Name : ToCache!ReviveRole(n)
           live == {n \in Name : role[n] = "live"}
<1> USE DEF IInv, TypeOK, ToCache!tables
<1>1. CASE UNCHANGED tables
  BY <1>1 DEF tables
<1>2. ASSUME NEW r \in Request, WritesRole(r) PROVE Goal
  <2>1. grants' = grants
    BY <1>2, RoleWrite
  <2>2. PICK n \in Name :
              \/ role' = [role EXCEPT ![n] = "live"]
              \/ role' = [role EXCEPT ![n] = "deleted"] /\ role[n] # "absent"
    BY <1>2, RoleWrite
  <2>3. CASE role' = [role EXCEPT ![n] = "live"]
    <3>1. live' = live \cup {n}
      BY <2>3
    <3>2. ToCache!ReviveRole(n)
      BY <2>1, <3>1 DEF ToCache!ReviveRole, ToCache!Note, Nobody
    <3> QED BY <3>2
  <2>4. CASE role' = [role EXCEPT ![n] = "deleted"]
    <3>1. live' = live \ {n}
      BY <2>4
    <3>2. CASE n \in live
      <4>1. ToCache!DeleteRole(n)
        BY <2>1, <3>1, <3>2 DEF ToCache!DeleteRole, ToCache!Note, Nobody
      <4> QED BY <4>1 DEF ToCache!Admin
    <3>3. CASE n \notin live
      BY <2>1, <3>1, <3>3
    <3> QED BY <3>2, <3>3
  <2> QED BY <2>2, <2>3, <2>4
<1>3. ASSUME NEW r \in Request, WritesGrants(r) PROVE Goal
  <2>1. role' = role
    BY <1>3, GrantsWrite
  <2>2. CASE grants' = grants
    BY <2>1, <2>2
  <2>3. ASSUME NEW n \in Name, NEW S \in SUBSET Ids, grants' = Without(n) \cup ({n} \X S)
        PROVE  Goal
    <3>1. S \in SUBSET Perm
      BY DEF Ids
    <3>2. ToCache!UpdateRole(n, S)
      BY <2>1, <2>3 DEF Without, ToCache!UpdateRole, ToCache!Note, Nobody
    <3> QED BY <3>1, <3>2 DEF ToCache!Admin
  <2> QED BY <1>3, <2>2, <2>3, GrantsWrite
<1>4. ASSUME NEW r \in Request, WritesPerm(r) PROVE Goal
  <2>1. role' = role
    BY <1>4, PermWrite
  <2>2. CASE grants' = grants
    BY <2>1, <2>2
  <2>3. ASSUME NEW p \in Perm, grants' = {g \in grants : g[2] # p} PROVE Goal
    <3>1. ToCache!DeletePermission(p)
      BY <2>1, <2>3 DEF ToCache!DeletePermission, ToCache!Note, Nobody
    <3> QED BY <3>1 DEF ToCache!Admin
  <2> QED BY <1>4, <2>2, <2>3, PermWrite
<1> QED BY <1>1, <1>2, <1>3, <1>4, WhoWrites

\* What RoleAdmin does is what PermissionCache takes administration to do, and the
\* late save of a role besides: no other change reaches what the cache is read from.
THEOREM CacheMeetsAdministration == Spec => CacheReckonsWith
<1>1. IInv /\ [Next]_vars =>
        [UNCHANGED ToCache!tables \/ ToCache!Admin \/ \E n \in Name : ToCache!ReviveRole(n)]_vars
  BY CacheReckons
<1> QED BY IInvAlways, <1>1, PTL DEF Spec, CacheReckonsWith

-----------------------------------------------------------------------------
(* AuditTrail *)

AuditTypeOK == /\ recording \in SUBSET Request /\ trail \in SUBSET Request
               /\ changed \in SUBSET Request /\ lost \in SUBSET Request

Creates(r) == req[r].kind \in {"createrole", "createperm"}

\* What is or will be in the trail was answered, and has created what it creates.
RecordedIsTrue ==
    \A r \in recording \cup trail : pc[r] = "ok" /\ (Creates(r) => r \in changed)

\* A request that adds the permissions of a new role has inserted the role.
LinkerHasChanged == \A r \in Request : pc[r] \in {"sync", "link"} => r \in changed

\* What has changed the tables is traced, or its row was lost, or it is a role's
\* creation or update that has queries left, or failed in one of them.
ChangedIsTraced ==
    \A r \in changed :
        \/ pc[r] = "ok" /\ (Traced(r) \/ r \in lost)
        \/ /\ pc[r] \in {"sync", "link", "read", "load", "write", "error"}
           /\ req[r].kind \in {"createrole", "updaterole"}

AuditInv == /\ IInv
            /\ AuditTypeOK /\ RecordedIsTrue /\ LinkerHasChanged /\ ChangedIsTraced

\* The step of one request, as the interceptor sees it.
LEMMA OneStep ==
  ASSUME TypeOK, Placed, NEW r \in Request, RoleStep(r) \/ PermStep(r) \/ RequestFails(r)
  PROVE  /\ \A q \in Request \ {r} : pc'[q] = pc[q] /\ req'[q] = req[q]
         /\ pc[r] \notin Ended
         /\ pc[r] # "idle" => req'[r].kind = req[r].kind
         /\ req'[r].kind \in RoleKinds \cup PermKinds
<1> DEFINE Goal == /\ \A q \in Request \ {r} : pc'[q] = pc[q] /\ req'[q] = req[q]
                   /\ pc[r] \notin Ended
                   /\ pc[r] # "idle" => req'[r].kind = req[r].kind
                   /\ req'[r].kind \in RoleKinds \cup PermKinds
<1> SUFFICES Goal
  OBVIOUS
<1> USE DEF TypeOK, RequestState, Placed, Goto, InFlight, Ended, tables,
            RoleKinds, PermKinds
<1>1. CASE RoleCheck(r)
  BY <1>1 DEF RoleCheck
<1>2. CASE RoleInsert(r)
  BY <1>2 DEF RoleInsert, Answer
<1>3. CASE RoleDuplicate(r)
  BY <1>3 DEF RoleDuplicate
<1>4. CASE SyncFind(r)
  BY <1>4 DEF SyncFind
<1>5. CASE SyncSave(r)
  BY <1>5 DEF SyncSave, Answer
<1>6. CASE RoleFind(r)
  BY <1>6 DEF RoleFind
<1>7. CASE ReplacePermissions(r)
  BY <1>7 DEF ReplacePermissions
<1>8. CASE RoleRead(r)
  BY <1>8 DEF RoleRead
<1>9. CASE RoleSaveLoad(r)
  BY <1>9 DEF RoleSaveLoad
<1>10. CASE RoleSaveWrite(r)
  BY <1>10 DEF RoleSaveWrite, Answer
<1>11. CASE RoleDeleteFind(r)
  BY <1>11 DEF RoleDeleteFind
<1>12. CASE RoleDeleteRead(r)
  BY <1>12 DEF RoleDeleteRead
<1>13. CASE RoleSoftRemove(r)
  BY <1>13 DEF RoleSoftRemove
<1>14. CASE CodeCheck(r)
  BY <1>14 DEF CodeCheck
<1>15. CASE CodeInsert(r)
  BY <1>15 DEF CodeInsert
<1>16. CASE CodeDuplicate(r)
  BY <1>16 DEF CodeDuplicate
<1>17. CASE PermFind(r)
  BY <1>17 DEF PermFind
<1>18. CASE PermRead(r)
  BY <1>18 DEF PermRead
<1>19. CASE PermSaveLoad(r)
  BY <1>19 DEF PermSaveLoad
<1>20. CASE PermReinsert(r)
  BY <1>20 DEF PermReinsert
<1>21. CASE PermRemove(r)
  BY <1>21 DEF PermRemove
<1>22. CASE RequestFails(r)
  BY <1>22 DEF RequestFails
<1> QED
  BY <1>1, <1>2, <1>3, <1>4, <1>5, <1>6, <1>7, <1>8, <1>9, <1>10, <1>11, <1>12, <1>13, <1>14, <1>15, <1>16, <1>17, <1>18, <1>19, <1>20, <1>21, <1>22
  DEF RoleStep, PermStep


\* Where a step that changes the tables leads, and what a creation has changed
\* when it is answered.
LEMMA OneChange ==
  ASSUME TypeOK, Placed, NEW r \in Request, RoleStep(r) \/ PermStep(r) \/ RequestFails(r)
  PROVE  /\ tables' # tables =>
                \/ pc'[r] = "ok"
                \/ pc'[r] = "error" /\ req'[r].kind \in {"createrole", "updaterole"}
                \/ pc'[r] = "sync" /\ req'[r].kind = "createrole"
                \/ pc'[r] = "read" /\ req'[r].kind = "updaterole"
         /\ pc'[r] = "ok" /\ req'[r].kind \in {"createrole", "createperm"} =>
                tables' # tables \/ pc[r] \in {"sync", "link"}
         /\ pc'[r] \in {"sync", "link"} => tables' # tables \/ pc[r] \in {"sync", "link"}
         /\ pc[r] \in {"sync", "link", "read", "load", "write"}
              /\ req[r].kind \in {"createrole", "updaterole"} =>
                pc'[r] \in {"ok", "sync", "link", "read", "load", "write", "error"}
<1> DEFINE Goal == 
         /\ tables' # tables =>
                \/ pc'[r] = "ok"
                \/ pc'[r] = "error" /\ req'[r].kind \in {"createrole", "updaterole"}
                \/ pc'[r] = "sync" /\ req'[r].kind = "createrole"
                \/ pc'[r] = "read" /\ req'[r].kind = "updaterole"
         /\ pc'[r] = "ok" /\ req'[r].kind \in {"createrole", "createperm"} =>
                tables' # tables \/ pc[r] \in {"sync", "link"}
         /\ pc'[r] \in {"sync", "link"} => tables' # tables \/ pc[r] \in {"sync", "link"}
         /\ pc[r] \in {"sync", "link", "read", "load", "write"}
              /\ req[r].kind \in {"createrole", "updaterole"} =>
                pc'[r] \in {"ok", "sync", "link", "read", "load", "write", "error"}
<1> SUFFICES Goal
  OBVIOUS
<1> USE DEF TypeOK, RequestState, Placed, Goto, InFlight, Ended, tables
<1>1. CASE RoleCheck(r)
  BY <1>1 DEF RoleCheck
<1>2. CASE RoleInsert(r)
  <2>1. role' # role
    BY <1>2 DEF RoleInsert, Answer, NameTaken
  <2> QED BY <1>2, <2>1 DEF RoleInsert, Answer
<1>3. CASE RoleDuplicate(r)
  BY <1>3 DEF RoleDuplicate
<1>4. CASE SyncFind(r)
  BY <1>4 DEF SyncFind
<1>5. CASE SyncSave(r)
  BY <1>5 DEF SyncSave, Answer
<1>6. CASE RoleFind(r)
  BY <1>6 DEF RoleFind
<1>7. CASE ReplacePermissions(r)
  BY <1>7 DEF ReplacePermissions
<1>8. CASE RoleRead(r)
  BY <1>8 DEF RoleRead
<1>9. CASE RoleSaveLoad(r)
  BY <1>9 DEF RoleSaveLoad
<1>10. CASE RoleSaveWrite(r)
  BY <1>10 DEF RoleSaveWrite, Answer
<1>11. CASE RoleDeleteFind(r)
  BY <1>11 DEF RoleDeleteFind
<1>12. CASE RoleDeleteRead(r)
  BY <1>12 DEF RoleDeleteRead
<1>13. CASE RoleSoftRemove(r)
  BY <1>13 DEF RoleSoftRemove
<1>14. CASE CodeCheck(r)
  BY <1>14 DEF CodeCheck
<1>15. CASE CodeInsert(r)
  <2>1. code' # code
    BY <1>15, RoleAdminAssumption DEF CodeInsert
  <2> QED BY <1>15, <2>1 DEF CodeInsert
<1>16. CASE CodeDuplicate(r)
  BY <1>16 DEF CodeDuplicate
<1>17. CASE PermFind(r)
  BY <1>17 DEF PermFind
<1>18. CASE PermRead(r)
  BY <1>18 DEF PermRead
<1>19. CASE PermSaveLoad(r)
  BY <1>19 DEF PermSaveLoad
<1>20. CASE PermReinsert(r)
  BY <1>20 DEF PermReinsert
<1>21. CASE PermRemove(r)
  BY <1>21 DEF PermRemove
<1>22. CASE RequestFails(r)
  BY <1>22 DEF RequestFails
<1> QED
  BY <1>1, <1>2, <1>3, <1>4, <1>5, <1>6, <1>7, <1>8, <1>9, <1>10, <1>11, <1>12, <1>13, <1>14, <1>15, <1>16, <1>17, <1>18, <1>19, <1>20, <1>21, <1>22
  DEF RoleStep, PermStep

LEMMA AuditHandle ==
  ASSUME AuditInv, NEW r \in Request, Handle(r)
  PROVE  AuditInv'
<1> USE DEF AuditInv
<1>1. [Next]_vars
  BY DEF Handle, Next
<1>2. IInv'
  BY <1>1, IInvStep
<1>3. TypeOK /\ Placed
  BY DEF IInv
<1>4. RoleStep(r) \/ PermStep(r) \/ RequestFails(r)
  BY DEF Handle
<1>5. /\ \A q \in Request \ {r} : pc'[q] = pc[q] /\ req'[q] = req[q]
      /\ pc[r] \notin Ended
      /\ pc[r] # "idle" => req'[r].kind = req[r].kind
      /\ req'[r].kind \in RoleKinds \cup PermKinds
  BY <1>3, <1>4, OneStep
<1>6. changed' = IF tables' # tables THEN changed \cup {r} ELSE changed
  BY DEF Handle
<1>7. /\ recording' = IF pc'[r] = "ok" THEN recording \cup {r} ELSE recording
      /\ trail' = trail /\ lost' = lost
  BY <1>5 DEF Handle, Tapped, Audited
<1>8. AuditTypeOK'
  BY <1>6, <1>7 DEF AuditTypeOK
<1>9. r \notin recording \cup trail
  BY <1>5 DEF RecordedIsTrue, Ended
<1>10. LinkerHasChanged'
  BY <1>3, <1>4, <1>5, <1>6, OneChange DEF LinkerHasChanged
<1>11. RecordedIsTrue'
  <2> SUFFICES ASSUME NEW q \in recording' \cup trail'
               PROVE  pc'[q] = "ok" /\ (req'[q].kind \in {"createrole", "createperm"} =>
                                          q \in changed')
    BY DEF RecordedIsTrue, Creates
  <2>1. CASE q = r
    <3>1. pc'[r] = "ok"
      BY <1>7, <1>9, <2>1
    <3> QED BY <1>3, <1>4, <1>6, <2>1, <3>1, OneChange DEF LinkerHasChanged
  <2>2. CASE q # r
    <3>1. q \in recording \cup trail /\ q \in Request \ {r}
      BY <1>7, <2>2 DEF AuditTypeOK
    <3> QED BY <1>5, <1>6, <3>1 DEF RecordedIsTrue, Creates
  <2> QED BY <2>1, <2>2
<1>12. ChangedIsTraced'
  <2> SUFFICES ASSUME NEW q \in changed'
               PROVE  \/ pc'[q] = "ok" /\ q \in recording' \cup trail' \cup lost'
                      \/ /\ pc'[q] \in {"sync", "link", "read", "load", "write", "error"}
                         /\ req'[q].kind \in {"createrole", "updaterole"}
    BY DEF ChangedIsTraced, Traced
  <2>1. CASE q = r
    <3>1. CASE pc'[r] = "ok"
      BY <1>7, <2>1, <3>1
    <3>2. CASE pc'[r] # "ok" /\ tables' # tables
      BY <1>3, <1>4, <2>1, <3>2, OneChange
    <3>3. CASE pc'[r] # "ok" /\ tables' = tables
      <4>1. r \in changed
        BY <1>6, <2>1, <3>3
      <4>2. /\ pc[r] \in {"sync", "link", "read", "load", "write"}
            /\ req[r].kind \in {"createrole", "updaterole"}
        BY <1>5, <4>1 DEF ChangedIsTraced, Ended
      <4> QED BY <1>3, <1>4, <1>5, <2>1, <3>3, <4>2, OneChange
    <3> QED BY <3>1, <3>2, <3>3
  <2>2. CASE q # r
    <3>1. q \in changed /\ q \in Request \ {r}
      BY <1>6, <2>2 DEF AuditTypeOK
    <3> QED BY <1>5, <1>7, <3>1 DEF ChangedIsTraced, Traced
  <2> QED BY <2>1, <2>2
<1> QED BY <1>2, <1>8, <1>10, <1>11, <1>12

LEMMA AuditStep == AuditInv /\ [AuditNext]_auditVars => AuditInv'
<1> SUFFICES ASSUME AuditInv, [AuditNext]_auditVars PROVE AuditInv'
  OBVIOUS
<1>1. ASSUME NEW r \in Request, Handle(r) PROVE AuditInv'
  BY <1>1, AuditHandle
<1>2. ASSUME UNCHANGED vars PROVE IInv'
  BY <1>2, IInvStep DEF AuditInv
<1>3. ASSUME NEW r \in Request, RecordSaved(r) \/ RecordLost(r) PROVE AuditInv'
  <2>1. UNCHANGED <<vars, changed>>
    BY <1>3 DEF RecordSaved, RecordLost
  <2>2. /\ recording' \cup trail' \subseteq recording \cup trail
        /\ recording' \cup trail' \cup lost' = recording \cup trail \cup lost
    BY <1>3 DEF RecordSaved, RecordLost
  <2>3. pc' = pc /\ req' = req /\ changed' = changed
    BY <2>1 DEF vars
  <2>4. AuditTypeOK'
    BY <1>3, <2>3 DEF AuditInv, AuditTypeOK, RecordSaved, RecordLost
  <2>5. RecordedIsTrue' /\ LinkerHasChanged' /\ ChangedIsTraced'
    BY <2>2, <2>3 DEF AuditInv, RecordedIsTrue, Creates, LinkerHasChanged,
       ChangedIsTraced, Traced
  <2> QED BY <1>2, <2>1, <2>4, <2>5 DEF AuditInv
<1>4. ASSUME UNCHANGED auditVars PROVE AuditInv'
  <2>1. UNCHANGED vars /\ UNCHANGED <<recording, trail, changed, lost>>
    BY <1>4 DEF auditVars, vars
  <2>2. AuditTypeOK' /\ RecordedIsTrue' /\ LinkerHasChanged' /\ ChangedIsTraced'
    BY <2>1 DEF vars, AuditInv, AuditTypeOK, RecordedIsTrue, Creates, LinkerHasChanged,
       ChangedIsTraced, Traced
  <2> QED BY <1>2, <2>1, <2>2 DEF AuditInv
<1> QED BY <1>1, <1>3, <1>4 DEF AuditNext

LEMMA AuditInvAlways == AuditSpec => []AuditInv
<1>1. AuditInit => AuditInv
  <2> SUFFICES ASSUME AuditInit PROVE AuditInv
    OBVIOUS
  <2>1. IInv
    BY InitIInv DEF AuditInit
  <2>2. \A r \in Request : pc[r] = "idle"
    BY DEF AuditInit, Init
  <2> QED BY <2>1, <2>2 DEF AuditInit, AuditInv, AuditTypeOK, RecordedIsTrue,
             LinkerHasChanged, ChangedIsTraced
<1>2. AuditInv /\ [AuditNext]_auditVars => AuditInv'
  BY AuditStep
<1> QED BY <1>1, <1>2, PTL DEF AuditSpec

-----------------------------------------------------------------------------
(* Theorems about AuditTrail *)

\* A row of audit_logs is about a request that was answered without an error,
\* and that of a creation about one that has created something.
THEOREM TrailIsAlwaysTrue == AuditSpec => []TrailIsTrue
<1>1. AuditInv => TrailIsTrue
  BY DEF AuditInv, RecordedIsTrue, Creates, TrailIsTrue
<1> QED BY AuditInvAlways, <1>1, PTL

\* Every change has its row, or will have it, unless the insert of that row was
\* lost after the answer "ok", or the writer is a role's creation or update that
\* was answered with an error after a write: the interceptor misses nothing else.
THEOREM UntracedExplained == AuditSpec => []UntracedHasCause
<1>1. AuditInv => UntracedHasCause
  BY DEF AuditInv, ChangedIsTraced, UntracedHasCause, Ended
<1> QED BY AuditInvAlways, <1>1, PTL

\* The interceptor only watches: with it around them, the requests do what they do
\* without it, so that every theorem about RoleAdmin holds of the audited requests.
THEOREM AuditOnlyWatches == AuditSpec => Spec
<1>1. AuditInit => Init
  BY DEF AuditInit
<1>2. [AuditNext]_auditVars => [Next]_vars
  <2> SUFFICES ASSUME [AuditNext]_auditVars PROVE [Next]_vars
    OBVIOUS
  <2>1. ASSUME NEW r \in Request, Handle(r) PROVE Next
    BY <2>1 DEF Handle, Next
  <2>2. ASSUME NEW r \in Request, RecordSaved(r) \/ RecordLost(r) PROVE UNCHANGED vars
    BY <2>2 DEF RecordSaved, RecordLost
  <2>3. CASE UNCHANGED auditVars
    BY <2>3 DEF auditVars, vars
  <2> QED BY <2>1, <2>2, <2>3 DEF AuditNext
<1> QED BY <1>1, <1>2, PTL DEF AuditSpec, Spec
=============================================================================
