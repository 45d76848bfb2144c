--------------------------- MODULE SessionsProofs ---------------------------
(***************************************************************************)
(* Proofs about Sessions for any users, any number of requests, any token  *)
(* lifetime and any clock bound.                                           *)
(***************************************************************************)
EXTENDS Sessions, TLAPS

(* The inductive invariant *)

\* A request that has not started is still what Init made it.
IdleIsFresh == \A r \in Request : pc[r] = "idle" => req[r].kind = "login"

\* A row is there exactly when the request that inserts it has committed it.
WrittenBySave == \A r \in Request : row[r] # "absent" <=> pc[r] \in {"ok", "lost"}

\* What a request found is a row, and a row of its own user.
FoundLabels(r) ==
    \/ req[r].kind = "refresh"
       /\ pc[r] \in {"sign", "save", "ok", "lost"}
    \/ pc[r] \in {"check", "revoke"}
    \/ pc[r] \in {"revokeall", "reuse", "loggedout"} /\ req[r].stored # r
FoundIsRow == \A r \in Request :
    FoundLabels(r) => /\ row[req[r].stored] # "absent"
                      /\ req[req[r].stored].user = req[r].user

\* ReuseKillsFamily, with the rotations that would break it next.
FamilyIsDead ==
    \A p, q \in Request :
        /\ pc[q] = "reuse"
        /\ p # q /\ req[p].kind = "refresh" /\ req[p].stored = req[q].stored
        /\ p \notin overtaken
        => /\ row[p] # "live"
           /\ pc[p] \notin {"check", "revoke", "sign", "save"}

IInv == /\ TypeOK
        /\ IdleIsFresh
        /\ WrittenBySave
        /\ FoundIsRow
        /\ SpentIsRevoked
        /\ FamilyIsDead

-----------------------------------------------------------------------------
\* What a lookup by hash returns: the request's own row, unwritten, when there
\* is none, and a written row of the same user otherwise.
LEMMA LookupFinds ==
    ASSUME NEW r \in Request, NEW t, NEW s \in Lookup(r, t)
    PROVE  /\ s \in Request
           /\ s # r => row[s] # "absent" /\ req[s].user = req[r].user
BY DEF Lookup, Matching

\* A token a client holds bears a second of the clock.
LEMMA HeldIsSecond ==
    ASSUME TypeOK, NEW u, NEW t \in Held(u)
    PROVE  t \in Second
<1>1. PICK s \in Request : t = req[s].issued
  BY DEF Held
<1> QED
  BY <1>1 DEF TypeOK, RequestState

\* Writing revoked_at makes no row appear and brings none back.
LEMMA RevokeKeeps ==
    ASSUME TypeOK, NEW S, Revoke(S), NEW s \in Request
    PROVE  /\ row'[s] \in {"absent", "live", "revoked"}
           /\ s \in S => row'[s] = "revoked"
           /\ s \notin S => row'[s] = row[s]
           /\ row[s] = "revoked" => row'[s] = "revoked"
           /\ row'[s] = "live" => row[s] = "live" /\ s \notin S
BY DEF Revoke, TypeOK

-----------------------------------------------------------------------------
\* Every step keeps the variables in their types.
LEMMA TypeStep == TypeOK /\ [Next]_vars => TypeOK'
<1> SUFFICES ASSUME TypeOK, [Next]_vars PROVE TypeOK'
  OBVIOUS
<1> USE SessionsAssumption DEF SessionsAssumption
<1>1. CASE UNCHANGED vars
  BY <1>1 DEF TypeOK, vars
<1>2. ASSUME NEW r \in Request, LoginFind(r) PROVE TypeOK'
  BY <1>2 DEF LoginFind, Goto, TypeOK, InFlight
<1>3. ASSUME NEW r \in Request, IssuePair(r) PROVE TypeOK'
  BY <1>3 DEF IssuePair, Goto, TypeOK, InFlight, SignedAt, RequestState, Second
<1>4. ASSUME NEW r \in Request, SaveRow(r) PROVE TypeOK'
  BY <1>4 DEF SaveRow, Goto, TypeOK, Ended
<1>5. ASSUME NEW r \in Request, RefreshVerify(r) PROVE TypeOK'
  <2>1. PICK t \in Held(req[r].user) :
          req' = [req EXCEPT ![r].kind = "refresh", ![r].presented = t]
    BY <1>5 DEF RefreshVerify
  <2>2. t \in Second
    BY HeldIsSecond
  <2>3. [req[r] EXCEPT !.kind = "refresh", !.presented = t] \in RequestState
    <3>1. req[r] \in RequestState
      BY DEF TypeOK
    <3> QED
      BY <2>2, <3>1 DEF RequestState
  <2>4. req' \in [Request -> RequestState]
    BY <2>1, <2>3 DEF TypeOK
  <2> QED
    BY <1>5, <2>4 DEF RefreshVerify, Goto, TypeOK, InFlight
<1>6. ASSUME NEW r \in Request, RefreshFind(r) PROVE TypeOK'
  <2>1. PICK s \in Lookup(r, req[r].presented) :
          /\ req' = [req EXCEPT ![r].stored = s]
          /\ Goto(r, IF Usable(s) THEN "check" ELSE "revokeall")
    BY <1>6 DEF RefreshFind
  <2>2. s \in Request
    BY LookupFinds
  <2> QED
    BY <1>6, <2>1, <2>2 DEF RefreshFind, Goto, TypeOK, InFlight, RequestState
<1>7. ASSUME NEW r \in Request, RefreshCheckUser(r) PROVE TypeOK'
  BY <1>7 DEF RefreshCheckUser, Goto, TypeOK, InFlight, Ended
<1>8. ASSUME NEW r \in Request, RefreshRevoke(r) PROVE TypeOK'
  BY <1>8 DEF RefreshRevoke, Revoke, Goto, TypeOK, InFlight
<1>9. ASSUME NEW r \in Request, RevokeAllForUser(r) PROVE TypeOK'
  BY <1>9 DEF RevokeAllForUser, Revoke, Goto, TypeOK, Ended, Rotating
<1>10. ASSUME NEW r \in Request, LogoutFind(r) PROVE TypeOK'
  <2>0. PICK t \in Held(req[r].user) : \E s \in Lookup(r, t) :
          /\ req' = [req EXCEPT ![r].kind = "logout", ![r].presented = t,
                                ![r].stored = s]
          /\ Goto(r, IF row[s] = "live" THEN "revoke" ELSE "loggedout")
    BY <1>10 DEF LogoutFind
  <2>1. PICK s \in Lookup(r, t) :
          /\ req' = [req EXCEPT ![r].kind = "logout", ![r].presented = t,
                                ![r].stored = s]
          /\ Goto(r, IF row[s] = "live" THEN "revoke" ELSE "loggedout")
    BY <2>0
  <2>2. s \in Request /\ t \in Second
    BY LookupFinds, HeldIsSecond
  <2>3. [req[r] EXCEPT !.kind = "logout", !.presented = t, !.stored = s]
          \in RequestState
    <3>1. req[r] \in RequestState
      BY DEF TypeOK
    <3> QED
      BY <2>2, <3>1 DEF RequestState
  <2>4. req' \in [Request -> RequestState]
    BY <2>1, <2>3 DEF TypeOK
  <2> QED
    BY <1>10, <2>1, <2>4 DEF LogoutFind, Goto, TypeOK, InFlight, Ended
<1>11. ASSUME NEW r \in Request, LogoutRevoke(r) PROVE TypeOK'
  BY <1>11 DEF LogoutRevoke, Revoke, Goto, TypeOK, Ended
<1>12. ASSUME NEW r \in Request, RequestFails(r) PROVE TypeOK'
  BY <1>12 DEF RequestFails, Goto, TypeOK, Ended
<1>13. ASSUME NEW u \in User, SetEnabled(u) PROVE TypeOK'
  BY <1>13 DEF SetEnabled, TypeOK
<1>14. CASE Tick
  BY <1>14 DEF Tick, TypeOK
<1> QED
  BY <1>1, <1>2, <1>3, <1>4, <1>5, <1>6, <1>7, <1>8, <1>9, <1>10, <1>11,
     <1>12, <1>13, <1>14 DEF Next, RequestStep

\* The variables keep their types.
THEOREM TypeCorrect == Spec => []TypeOK
<1>1. Init => TypeOK
  BY SessionsAssumption DEF SessionsAssumption, Init, TypeOK, RequestState, Second
<1> QED
  BY <1>1, TypeStep, PTL DEF Spec

-----------------------------------------------------------------------------
\* Every step keeps the inductive invariant.
LEMMA InvStep == IInv /\ [Next]_vars => IInv'
<1> SUFFICES ASSUME IInv, [Next]_vars PROVE IInv'
  OBVIOUS
<1>0. TypeOK /\ TypeOK'
  BY TypeStep DEF IInv
<1>1. CASE UNCHANGED vars
  BY <1>1 DEF IInv, TypeOK, IdleIsFresh, WrittenBySave, FoundIsRow, FoundLabels,
     SpentIsRevoked, FamilyIsDead, vars
<1>2. ASSUME NEW r \in Request, LoginFind(r) PROVE IInv'
  <2>1. IdleIsFresh'
    BY <1>2 DEF LoginFind, Goto, IInv, IdleIsFresh
  <2>2. WrittenBySave'
    BY <1>2 DEF LoginFind, Goto, IInv, WrittenBySave
  <2>3. FoundIsRow'
    BY <1>2 DEF LoginFind, Goto, IInv, FoundIsRow, FoundLabels, IdleIsFresh
  <2>4. SpentIsRevoked'
    BY <1>2 DEF LoginFind, Goto, IInv, SpentIsRevoked, IdleIsFresh
  <2>5. FamilyIsDead'
    BY <1>2 DEF LoginFind, Goto, IInv, FamilyIsDead, IdleIsFresh
  <2> QED
    BY <1>0, <2>1, <2>2, <2>3, <2>4, <2>5 DEF IInv
<1>3. ASSUME NEW r \in Request, IssuePair(r) PROVE IInv'
  <2>1. IdleIsFresh'
    BY <1>3 DEF IssuePair, Goto, IInv, IdleIsFresh
  <2>2. WrittenBySave'
    BY <1>3 DEF IssuePair, Goto, IInv, WrittenBySave
  <2>3. FoundIsRow'
    BY <1>3 DEF IssuePair, Goto, IInv, FoundIsRow, FoundLabels
  <2>4. SpentIsRevoked'
    BY <1>3 DEF IssuePair, Goto, IInv, SpentIsRevoked, PastRevoke
  <2>5. FamilyIsDead'
    BY <1>3 DEF IssuePair, Goto, IInv, FamilyIsDead
  <2> QED
    BY <1>0, <2>1, <2>2, <2>3, <2>4, <2>5 DEF IInv
<1>4. ASSUME NEW r \in Request, SaveRow(r) PROVE IInv'
  <2>1. IdleIsFresh'
    BY <1>4 DEF SaveRow, Goto, IInv, IdleIsFresh
  <2>2. WrittenBySave'
    BY <1>4 DEF SaveRow, Goto, IInv, TypeOK, WrittenBySave
  <2>3. FoundIsRow'
    BY <1>4 DEF SaveRow, Goto, IInv, FoundIsRow, FoundLabels
  <2>4. SpentIsRevoked'
    BY <1>4 DEF SaveRow, Goto, IInv, WrittenBySave, SpentIsRevoked, PastRevoke
  <2>5. FamilyIsDead'
    BY <1>4 DEF SaveRow, Goto, IInv, FamilyIsDead
  <2> QED
    BY <1>0, <2>1, <2>2, <2>3, <2>4, <2>5 DEF IInv
<1>5. ASSUME NEW r \in Request, RefreshVerify(r) PROVE IInv'
  <2>1. IdleIsFresh'
    BY <1>5 DEF RefreshVerify, Goto, IInv, TypeOK, IdleIsFresh
  <2>2. WrittenBySave'
    BY <1>5 DEF RefreshVerify, Goto, IInv, WrittenBySave
  <2>3. FoundIsRow'
    BY <1>5 DEF RefreshVerify, Goto, IInv, TypeOK, RequestState, FoundIsRow,
       FoundLabels
  <2>4. SpentIsRevoked'
    BY <1>5 DEF RefreshVerify, Goto, IInv, TypeOK, SpentIsRevoked, PastRevoke
  <2>5. FamilyIsDead'
    BY <1>5 DEF RefreshVerify, Goto, IInv, TypeOK, WrittenBySave, FamilyIsDead
  <2> QED
    BY <1>0, <2>1, <2>2, <2>3, <2>4, <2>5 DEF IInv
<1>6. ASSUME NEW r \in Request, RefreshFind(r) PROVE IInv'
  <2>1. PICK s \in Lookup(r, req[r].presented) :
          /\ req' = [req EXCEPT ![r].stored = s]
          /\ Goto(r, IF Usable(s) THEN "check" ELSE "revokeall")
    BY <1>6 DEF RefreshFind
  <2>2. s \in Request /\ (s # r => row[s] # "absent" /\ req[s].user = req[r].user)
    BY LookupFinds
  <2>3. pc[r] = "find" /\ UNCHANGED <<row, overtaken>>
    BY <1>6 DEF RefreshFind
  <2>4. IdleIsFresh'
    BY <2>1 DEF Goto, IInv, IdleIsFresh
  <2>5. WrittenBySave'
    BY <2>1, <2>3 DEF Goto, IInv, WrittenBySave
  <2>6. FoundIsRow'
    BY <2>1, <2>2, <2>3 DEF Usable, Goto, IInv, TypeOK, FoundIsRow, FoundLabels
  <2>7. SpentIsRevoked'
    BY <2>1, <2>3 DEF Goto, IInv, SpentIsRevoked, PastRevoke
  <2>8. FamilyIsDead'
    BY <2>1, <2>3 DEF Usable, Goto, IInv, TypeOK, WrittenBySave, FamilyIsDead,
       SpentIsRevoked
  <2> QED
    BY <1>0, <2>4, <2>5, <2>6, <2>7, <2>8 DEF IInv
<1>7. ASSUME NEW r \in Request, RefreshCheckUser(r) PROVE IInv'
  <2>1. IdleIsFresh'
    BY <1>7 DEF RefreshCheckUser, Goto, IInv, IdleIsFresh
  <2>2. WrittenBySave'
    BY <1>7 DEF RefreshCheckUser, Goto, IInv, WrittenBySave
  <2>3. FoundIsRow'
    BY <1>7 DEF RefreshCheckUser, Goto, IInv, FoundIsRow, FoundLabels
  <2>4. SpentIsRevoked'
    BY <1>7 DEF RefreshCheckUser, Goto, IInv, SpentIsRevoked, PastRevoke
  <2>5. FamilyIsDead'
    BY <1>7 DEF RefreshCheckUser, Goto, IInv, FamilyIsDead
  <2> QED
    BY <1>0, <2>1, <2>2, <2>3, <2>4, <2>5 DEF IInv
<1>8. ASSUME NEW r \in Request, RefreshRevoke(r) PROVE IInv'
  <2>1. Revoke(RevokedById(r))
    BY <1>8 DEF RefreshRevoke
  <2>2. IdleIsFresh'
    BY <1>8 DEF RefreshRevoke, Goto, IInv, IdleIsFresh
  <2>3. WrittenBySave'
    BY RevokeKeeps, <1>8 DEF RefreshRevoke, Goto, RevokedById, IInv,
       WrittenBySave, FoundIsRow, FoundLabels
  <2>4. FoundIsRow'
    BY RevokeKeeps, <1>8 DEF RefreshRevoke, Goto, IInv, TypeOK, RequestState,
       FoundIsRow, FoundLabels
  <2>5. SpentIsRevoked'
    BY RevokeKeeps, <1>8 DEF RefreshRevoke, Goto, RevokedById, IInv, TypeOK,
       RequestState, SpentIsRevoked
  <2>6. FamilyIsDead'
    BY RevokeKeeps, <1>8 DEF RefreshRevoke, Goto, IInv, FamilyIsDead
  <2> QED
    BY <1>0, <2>2, <2>3, <2>4, <2>5, <2>6 DEF IInv
<1>9. ASSUME NEW r \in Request, RevokeAllForUser(r) PROVE IInv'
  <2>1. Revoke(RevokedByUser(r))
    BY <1>9 DEF RevokeAllForUser
  <2>2. IdleIsFresh'
    BY <1>9 DEF RevokeAllForUser, Goto, IInv, IdleIsFresh
  <2>3. WrittenBySave'
    BY RevokeKeeps, <1>9 DEF RevokeAllForUser, Goto, RevokedByUser, IInv,
       WrittenBySave
  <2>4. FoundIsRow'
    BY RevokeKeeps, <1>9 DEF RevokeAllForUser, Goto, IInv, TypeOK, RequestState,
       FoundIsRow, FoundLabels
  <2>5. SpentIsRevoked'
    BY RevokeKeeps, <1>9 DEF RevokeAllForUser, Goto, RevokedByUser, IInv,
       TypeOK, RequestState, SpentIsRevoked, PastRevoke, FoundIsRow, FoundLabels
  <2>6. FamilyIsDead'
    BY RevokeKeeps, <1>9 DEF RevokeAllForUser, Goto, RevokedByUser, Rotating,
       IInv, WrittenBySave, FamilyIsDead, FoundIsRow, FoundLabels
  <2> QED
    BY <1>0, <2>2, <2>3, <2>4, <2>5, <2>6 DEF IInv
<1>10. ASSUME NEW r \in Request, LogoutFind(r) PROVE IInv'
  <2>0. PICK t \in Held(req[r].user) : \E s \in Lookup(r, t) :
          /\ req' = [req EXCEPT ![r].kind = "logout", ![r].presented = t,
                                ![r].stored = s]
          /\ Goto(r, IF row[s] = "live" THEN "revoke" ELSE "loggedout")
    BY <1>10 DEF LogoutFind
  <2>1. PICK s \in Lookup(r, t) :
          /\ req' = [req EXCEPT ![r].kind = "logout", ![r].presented = t,
                                ![r].stored = s]
          /\ Goto(r, IF row[s] = "live" THEN "revoke" ELSE "loggedout")
    BY <2>0
  <2>2. s \in Request /\ (s # r => row[s] # "absent" /\ req[s].user = req[r].user)
    BY LookupFinds
  <2>3. pc[r] = "idle" /\ UNCHANGED <<row, overtaken>>
    BY <1>10 DEF LogoutFind
  <2>4. IdleIsFresh'
    BY <2>1 DEF Goto, IInv, TypeOK, IdleIsFresh
  <2>5. WrittenBySave'
    BY <2>1, <2>3 DEF Goto, IInv, WrittenBySave
  <2>6. FoundIsRow'
    BY <2>1, <2>2, <2>3 DEF Goto, IInv, TypeOK, RequestState, FoundIsRow,
       FoundLabels
  <2>7. SpentIsRevoked'
    BY <2>1, <2>2, <2>3 DEF Goto, IInv, TypeOK, SpentIsRevoked
  <2>8. FamilyIsDead'
    BY <2>1, <2>3 DEF Goto, IInv, TypeOK, FamilyIsDead
  <2> QED
    BY <1>0, <2>4, <2>5, <2>6, <2>7, <2>8 DEF IInv
<1>11. ASSUME NEW r \in Request, LogoutRevoke(r) PROVE IInv'
  <2>1. Revoke(RevokedById(r))
    BY <1>11 DEF LogoutRevoke
  <2>2. IdleIsFresh'
    BY <1>11 DEF LogoutRevoke, Goto, IInv, IdleIsFresh
  <2>3. WrittenBySave'
    BY RevokeKeeps, <1>11 DEF LogoutRevoke, Goto, RevokedById, IInv,
       WrittenBySave, FoundIsRow, FoundLabels
  <2>4. FoundIsRow'
    BY RevokeKeeps, <1>11 DEF LogoutRevoke, Goto, IInv, TypeOK, RequestState,
       FoundIsRow, FoundLabels
  <2>5. SpentIsRevoked'
    BY RevokeKeeps, <1>11 DEF LogoutRevoke, Goto, RevokedById, IInv, TypeOK,
       RequestState, SpentIsRevoked
  <2>6. FamilyIsDead'
    BY RevokeKeeps, <1>11 DEF LogoutRevoke, Goto, IInv, FamilyIsDead
  <2> QED
    BY <1>0, <2>2, <2>3, <2>4, <2>5, <2>6 DEF IInv
<1>12. ASSUME NEW r \in Request, RequestFails(r) PROVE IInv'
  <2>1. IdleIsFresh'
    BY <1>12 DEF RequestFails, Goto, IInv, IdleIsFresh
  <2>2. WrittenBySave'
    BY <1>12 DEF RequestFails, Goto, IInv, WrittenBySave, InFlight
  <2>3. FoundIsRow'
    BY <1>12 DEF RequestFails, Goto, IInv, FoundIsRow, FoundLabels
  <2>4. SpentIsRevoked'
    BY <1>12 DEF RequestFails, Goto, IInv, SpentIsRevoked, PastRevoke
  <2>5. FamilyIsDead'
    BY <1>12 DEF RequestFails, Goto, IInv, FamilyIsDead
  <2> QED
    BY <1>0, <2>1, <2>2, <2>3, <2>4, <2>5 DEF IInv
<1>13. ASSUME NEW u \in User, SetEnabled(u) PROVE IInv'
  BY <1>0, <1>13 DEF SetEnabled, IInv, IdleIsFresh, WrittenBySave, FoundIsRow,
     FoundLabels, SpentIsRevoked, FamilyIsDead
<1>14. CASE Tick
  BY <1>0, <1>14 DEF Tick, IInv, IdleIsFresh, WrittenBySave, FoundIsRow,
     FoundLabels, SpentIsRevoked, FamilyIsDead
<1> QED
  BY <1>1, <1>2, <1>3, <1>4, <1>5, <1>6, <1>7, <1>8, <1>9, <1>10, <1>11, <1>12,
     <1>13, <1>14 DEF Next, RequestStep

-----------------------------------------------------------------------------
\* The inductive invariant holds of every reachable state.
LEMMA Invariance == Spec => []IInv
<1>1. Init => IInv
  <2> SUFFICES ASSUME Init PROVE IInv
    OBVIOUS
  <2>1. TypeOK
    BY SessionsAssumption
       DEF SessionsAssumption, Init, TypeOK, RequestState, Second
  <2> QED
    BY <2>1
       DEF Init, IInv, TypeOK, IdleIsFresh, WrittenBySave, FoundIsRow, FoundLabels,
       SpentIsRevoked, PastRevoke, FamilyIsDead
<1> QED
  BY <1>1, InvStep, PTL DEF Spec

\* A row that has bought a rotation, was answered "reuse" or was logged out is
\* revoked, and stays so whatever the other requests do.
THEOREM SpentRowsStayRevoked == Spec => []SpentIsRevoked
BY Invariance, PTL DEF IInv

\* After a reuse is answered the only live descendants of the reused row come
\* from rotations that were in flight when the revocation ran.
THEOREM ReuseLeavesOnlyOvertaken == Spec => []ReuseKillsFamily
<1>1. IInv => ReuseKillsFamily
  BY DEF IInv, FamilyIsDead, ReuseKillsFamily
<1> QED
  BY <1>1, Invariance, PTL

\* Only the lookup of a refresh moves a request from "find" to "check".
LEMMA OnlyFindAccepts ==
    ASSUME TypeOK, [Next]_vars, NEW q \in Request, pc[q] = "find", pc'[q] = "check"
    PROVE  /\ req'[q].stored \in Request
           /\ row[req'[q].stored] = "live"
<1>1. PICK r \in Request : RequestStep(r)
  BY DEF Next, SetEnabled, Tick, vars
<1>2. RefreshFind(q)
  BY <1>1
     DEF RequestStep, LoginFind, IssuePair, SaveRow, RefreshVerify, RefreshFind,
     RefreshCheckUser, RefreshRevoke, RevokeAllForUser, LogoutFind, LogoutRevoke,
     RequestFails, Goto, TypeOK
<1>3. PICK s \in Lookup(q, req[q].presented) :
        /\ req' = [req EXCEPT ![q].stored = s]
        /\ Goto(q, IF Usable(s) THEN "check" ELSE "revokeall")
  BY <1>2 DEF RefreshFind
<1>4. s \in Request
  BY LookupFinds
<1>5. Usable(s) /\ req'[q].stored = s
  BY <1>3, <1>4 DEF Goto, TypeOK, RequestState
<1> QED
  BY <1>4, <1>5 DEF Usable

\* Two refreshes of one row both succeed only when they overlap: a lookup never
\* accepts a row whose revocation by another refresh has been committed.
THEOREM ReuseIsDetectedAfterRevoke == Spec => NoSpendAfterSpend
<1>1. IInv /\ [Next]_vars =>
        [\A p, q \in Request :
           /\ req[p].kind = "refresh" /\ pc[p] \in PastRevoke
           /\ pc[q] = "find" /\ pc'[q] = "check"
           => req'[q].stored # req[p].stored]_vars
  BY OnlyFindAccepts DEF IInv, SpentIsRevoked
<1> QED
  BY <1>1, Invariance, PTL DEF Spec, NoSpendAfterSpend

-----------------------------------------------------------------------------
(* Sessions implements TokenLedger *)

\* No step changes whose a row is.
LEMMA OwnersStay ==
    ASSUME TypeOK, [Next]_vars, NEW s \in Request
    PROVE  req'[s].user = req[s].user
<1>1. CASE req' = req
  BY <1>1
<1>2. ASSUME NEW r \in Request, IssuePair(r) PROVE req'[s].user = req[s].user
  BY <1>2 DEF IssuePair, TypeOK, RequestState
<1>3. ASSUME NEW r \in Request, RefreshVerify(r) PROVE req'[s].user = req[s].user
  BY <1>3 DEF RefreshVerify, TypeOK, RequestState
<1>4. ASSUME NEW r \in Request, RefreshFind(r) PROVE req'[s].user = req[s].user
  BY <1>4 DEF RefreshFind, TypeOK, RequestState
<1>5. ASSUME NEW r \in Request, LogoutFind(r) PROVE req'[s].user = req[s].user
  BY <1>5 DEF LogoutFind, TypeOK, RequestState
<1>6. \/ req' = req
      \/ \E r \in Request : \/ IssuePair(r) \/ RefreshVerify(r)
                            \/ RefreshFind(r) \/ LogoutFind(r)
  <2>1. ASSUME NEW r \in Request, RequestStep(r)
        PROVE  \/ req' = req
               \/ IssuePair(r) \/ RefreshVerify(r) \/ RefreshFind(r) \/ LogoutFind(r)
    BY <2>1 DEF RequestStep, LoginFind, SaveRow, RefreshCheckUser, RefreshRevoke,
       RevokeAllForUser, LogoutRevoke, RequestFails
  <2> QED
    BY <2>1 DEF Next, SetEnabled, Tick, vars
<1> QED
  BY <1>1, <1>2, <1>3, <1>4, <1>5, <1>6

\* Each step of the handlers is a step of the ledger or leaves it alone.
LEMMA LedgerStep == IInv /\ [Next]_vars => [Ledger!Next]_(Ledger!vars)
<1> SUFFICES ASSUME IInv, [Next]_vars PROVE [Ledger!Next]_(Ledger!vars)
  OBVIOUS
<1> DEFINE owner == [r \in Request |-> req[r].user]
<1>1. TypeOK
  BY DEF IInv
<1>2. owner' = owner
  BY <1>1, OwnersStay
<1>3. ASSUME NEW r \in Request, SaveRow(r) PROVE Ledger!Write(r)
  BY <1>1, <1>2, <1>3 DEF SaveRow, Ledger!Write, IInv, WrittenBySave, TypeOK
<1>4. ASSUME NEW r \in Request, pc[r] = "revoke", Revoke(RevokedById(r))
      PROVE  Ledger!RevokeOne(req[r].stored) \/ row' = row
  <2>1. req[r].stored \in Request /\ row[req[r].stored] # "absent"
    BY <1>1, <1>4 DEF TypeOK, RequestState, IInv, FoundIsRow, FoundLabels
  <2>2. row' = [s \in Request |-> IF s = req[r].stored THEN "revoked" ELSE row[s]]
    BY <1>4 DEF Revoke, RevokedById
  <2>3. row \in [Request -> {"absent", "live", "revoked"}]
    BY <1>1 DEF TypeOK
  <2>4. row' = [row EXCEPT ![req[r].stored] = "revoked"]
    BY <2>2, <2>3
  <2>5. CASE row[req[r].stored] = "live"
    BY <1>2, <2>4, <2>5 DEF Ledger!RevokeOne
  <2>6. CASE row[req[r].stored] = "revoked"
    BY <2>3, <2>4, <2>6
  <2> QED
    BY <2>1, <2>3, <2>5, <2>6
<1>5. ASSUME NEW r \in Request, RevokeAllForUser(r)
      PROVE  Ledger!RevokeOwner(req[r].user)
  BY <1>1, <1>2, <1>5
     DEF RevokeAllForUser, Revoke, RevokedByUser, Ledger!RevokeOwner,
     TypeOK, RequestState
<1>6. \/ row' = row
      \/ \E r \in Request : \/ SaveRow(r)
                            \/ RevokeAllForUser(r)
                            \/ pc[r] = "revoke" /\ Revoke(RevokedById(r))
  <2>1. ASSUME NEW r \in Request, RequestStep(r)
        PROVE  \/ row' = row
               \/ SaveRow(r) \/ RevokeAllForUser(r)
               \/ pc[r] = "revoke" /\ Revoke(RevokedById(r))
    BY <2>1 DEF RequestStep, LoginFind, IssuePair, RefreshVerify, RefreshFind,
       RefreshCheckUser, RefreshRevoke, LogoutFind, LogoutRevoke, RequestFails
  <2>2. row' = row \/ \E r \in Request : RequestStep(r)
    BY DEF Next, SetEnabled, Tick, vars
  <2> QED
    BY <2>1, <2>2
<1>7. CASE row' = row
  BY <1>2, <1>7 DEF Ledger!vars
<1>8. ASSUME NEW r \in Request, RevokeAllForUser(r) PROVE Ledger!Next
  BY <1>1, <1>5, <1>8 DEF Ledger!Next, TypeOK, RequestState
<1>9. ASSUME NEW r \in Request, pc[r] = "revoke", Revoke(RevokedById(r))
      PROVE  Ledger!Next \/ row' = row
  BY <1>1, <1>4, <1>9 DEF Ledger!Next, TypeOK, RequestState
<1> QED
  BY <1>3, <1>6, <1>7, <1>8, <1>9 DEF Ledger!Next

\* The table behaves as a ledger: rows written once, revocations final, and a
\* reuse by one user never ending the sessions of another.
THEOREM ImplementsLedger == Spec => KeepsLedger
<1>1. Init => Ledger!Init
  BY DEF Init, Ledger!Init
<1> QED
  BY <1>1, LedgerStep, Invariance, PTL DEF Spec, KeepsLedger, Ledger!Spec
=============================================================================
