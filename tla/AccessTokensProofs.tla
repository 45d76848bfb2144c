------------------------- MODULE AccessTokensProofs -------------------------
(***************************************************************************)
(* Proofs about AccessTokens, for either adapter, any tokens, requests and *)
(* lifetime.                                                               *)
(***************************************************************************)
EXTENDS AccessTokens, TLAPS

USE AccessTokensAssumption

\* An entry ends no earlier than exp, to the second and the part of it.
EntryCovers == \A p \in Process, t \in Token :
    <<p, t>> \in revoked => exp[t] # 0 /\ exp[t] <= until[p][t].sec

\* A token in use has been issued: it cannot be issued again with a later exp.
BearerIssued == \A r \in Request : pc[r] # "idle" => exp[bearer[r]] # 0

\* A row comes with its token: signing another refresh token changes no row's hash.
RowIssued == \A t \in Token : row[t] # "absent" => exp[t] # 0

IInv == TypeOK /\ EntryCovers /\ BearerIssued /\ RowIssued /\ PartedHasCause

Cause(t) == \/ \E r \in Request : pc[r] = "row" /\ bearer[r] = t
            \/ t \in halfway \cup astray
            \/ \E s \in Twins(t) : row[s] = "revoked"

\* Either adapter's entry is an instant of the model, and covers the token.
LEMMA EntryEnds ==
  ASSUME TypeOK, NEW t \in Token
  PROVE  EntryUntil(t) \in Instant /\ exp[t] <= EntryUntil(t).sec
<1>1. now \in 1 .. MaxNow /\ partway \in {0, 1} /\ exp[t] \in 0 .. MaxNow + AccessTtl
  BY DEF TypeOK
<1>2. redis \in BOOLEAN
  BY DEF TypeOK
<1>3. CASE redis
  <2>1. /\ now + Larger(exp[t] - now, 1) \in 0 .. MaxNow + AccessTtl
        /\ exp[t] <= now + Larger(exp[t] - now, 1)
    BY <1>1 DEF Larger
  <2> QED BY <1>1, <1>3, <2>1 DEF EntryUntil, RedisUntil, Instant
<1>4. CASE ~redis
  BY <1>1, <1>4 DEF EntryUntil, MemoryUntil, Instant
<1> QED BY <1>3, <1>4

\* Signing gives an unissued token its times, and leaves the others theirs.
LEMMA SignFresh ==
  ASSUME TypeOK, NEW t \in Token, Sign(t)
  PROVE  /\ exp[t] = 0
         /\ exp' \in [Token -> 0 .. MaxNow + AccessTtl] /\ exp'[t] # 0
         /\ signed' \in [Token -> Second]
         /\ \A u \in Token \ {t} : exp'[u] = exp[u] /\ signed'[u] = signed[u]
<1>1. PICK s \in {now, now + 1} : signed' = [signed EXCEPT ![t] = s]
  BY DEF Sign
<1>2. s \in Second /\ now + AccessTtl \in 0 .. MaxNow + AccessTtl /\ now + AccessTtl # 0
  BY DEF TypeOK, Second
<1> QED BY <1>1, <1>2 DEF Sign, TypeOK

\* A twin that is revoked stays one while tokens and revocations are only added.
LEMMA TwinsStay ==
  ASSUME TypeOK, TypeOK', RowIssued, NEW t \in Token, row[t] # "absent", owner' = owner,
         \A s \in Token : row[s] # "absent" => signed'[s] = signed[s],
         \A s \in Token : row[s] = "revoked" => row'[s] = "revoked",
         \E s \in Twins(t) : row[s] = "revoked"
  PROVE  \E s \in Twins(t)' : row'[s] = "revoked"
<1>1. PICK s \in Twins(t) : row[s] = "revoked"
  OBVIOUS
<1>2. s \in Token \ {t} /\ RefreshToken(s) = RefreshToken(t)
  BY <1>1 DEF Twins
<1>3. RefreshToken(s)' = RefreshToken(t)'
  BY <1>1, <1>2 DEF RefreshToken
<1>4. s \in Twins(t)'
  BY <1>2, <1>3 DEF Twins
<1> QED BY <1>1, <1>2, <1>4

LEMMA Invariance == Spec => []IInv
<1>1. Init => IInv
  BY DEF Init, IInv, TypeOK, EntryCovers, BearerIssued, RowIssued, PartedHasCause, Parted,
     Instant, Never, Second
<1>2. IInv /\ [Next]_vars => IInv'
  <2> SUFFICES ASSUME IInv, [Next]_vars PROVE IInv'
    OBVIOUS
  <2> USE DEF IInv
  <2>0. \A t \in Token : Parted(t) => Cause(t)
    BY DEF PartedHasCause, Cause
  <2>1. ASSUME NEW t \in Token, Issue(t) PROVE IInv'
    <3>1. Sign(t) /\ owner' = owner
      BY <2>1 DEF Issue
    <3>2. /\ exp[t] = 0 /\ exp' \in [Token -> 0 .. MaxNow + AccessTtl] /\ exp'[t] # 0
          /\ signed' \in [Token -> Second]
          /\ \A u \in Token \ {t} : exp'[u] = exp[u] /\ signed'[u] = signed[u]
      BY <3>1, SignFresh
    <3>3. TypeOK' /\ EntryCovers' /\ BearerIssued' /\ RowIssued'
      <4>1. TypeOK'
        BY <2>1, <3>2 DEF Issue, clock, history, TypeOK
      <4>2. EntryCovers' /\ BearerIssued'
        <5>1. \A u \in Token : exp[u] # 0 => exp'[u] = exp[u]
          BY <3>2
        <5>2. until' = until /\ revoked' = revoked /\ pc' = pc /\ bearer' = bearer
          BY <2>1 DEF Issue, history
        <5> QED BY <5>1, <5>2 DEF TypeOK, EntryCovers, BearerIssued
      <4>3. RowIssued'
        BY <2>1, <3>2 DEF Issue, TypeOK, RowIssued
      <4> QED BY <4>1, <4>2, <4>3
    <3>4. PartedHasCause'
      <4> SUFFICES ASSUME NEW u \in Token, Parted(u)' PROVE Cause(u)'
        BY DEF PartedHasCause, Cause
      <4>1. u # t /\ Parted(u) /\ row[t] = "absent"
        BY <2>1, <3>2 DEF Issue, history, TypeOK, EntryCovers, RowIssued, Parted
      <4>2. CASE \E s \in Twins(u) : row[s] = "revoked"
        <5>1. \A s \in Token : row[s] # "absent" => signed'[s] = signed[s]
          BY <3>2, <4>1
        <5>2. \A s \in Token : row[s] = "revoked" => row'[s] = "revoked"
          BY <2>1, <4>1 DEF Issue, TypeOK
        <5>3. \E s \in Twins(u)' : row'[s] = "revoked"
          BY <3>1, <3>3, <4>1, <4>2, <5>1, <5>2, TwinsStay DEF Parted
        <5> QED BY <5>3 DEF Cause
      <4> QED BY <2>0, <2>1, <4>1, <4>2 DEF Cause, Issue, history
    <3> QED BY <3>3, <3>4
  <2>2. ASSUME NEW s \in Token, NEW t \in Token, Refresh(s, t) PROVE IInv'
    <3>1. Sign(t) /\ owner' = owner
      BY <2>2 DEF Refresh
    <3>2. /\ exp[t] = 0 /\ exp' \in [Token -> 0 .. MaxNow + AccessTtl] /\ exp'[t] # 0
          /\ signed' \in [Token -> Second]
          /\ \A u \in Token \ {t} : exp'[u] = exp[u] /\ signed'[u] = signed[u]
      BY <3>1, SignFresh
    <3>3. TypeOK' /\ EntryCovers' /\ BearerIssued' /\ RowIssued'
      <4>1. TypeOK'
        BY <2>2, <3>2 DEF Refresh, clock, history, TypeOK
      <4>2. EntryCovers' /\ BearerIssued'
        <5>1. \A u \in Token : exp[u] # 0 => exp'[u] = exp[u]
          BY <3>2
        <5>2. until' = until /\ revoked' = revoked /\ pc' = pc /\ bearer' = bearer
          BY <2>2 DEF Refresh, history
        <5> QED BY <5>1, <5>2 DEF TypeOK, EntryCovers, BearerIssued
      <4>3. RowIssued'
        BY <2>2, <3>2 DEF Refresh, TypeOK, RowIssued
      <4> QED BY <4>1, <4>2, <4>3
    <3>4. PartedHasCause'
      <4> SUFFICES ASSUME NEW u \in Token, Parted(u)' PROVE Cause(u)'
        BY DEF PartedHasCause, Cause
      <4>1. u # t /\ Parted(u) /\ row[t] = "absent"
        BY <2>2, <3>2 DEF Refresh, history, TypeOK, EntryCovers, RowIssued, Parted
      <4>2. CASE \E v \in Twins(u) : row[v] = "revoked"
        <5>1. \A v \in Token : row[v] # "absent" => signed'[v] = signed[v]
          BY <3>2, <4>1
        <5>2. \A v \in Token : row[v] = "revoked" => row'[v] = "revoked"
          BY <2>2, <4>1 DEF Refresh, TypeOK
        <5>3. \E v \in Twins(u)' : row'[v] = "revoked"
          BY <3>1, <3>3, <4>1, <4>2, <5>1, <5>2, TwinsStay DEF Parted
        <5> QED BY <5>3 DEF Cause
      <4> QED BY <2>0, <2>2, <4>1, <4>2 DEF Cause, Refresh, history
    <3> QED BY <3>3, <3>4
  <2>3. ASSUME NEW s \in Token, RevokeAllForUser(s) PROVE IInv'
    <3>1. TypeOK' /\ EntryCovers' /\ BearerIssued' /\ RowIssued'
      BY <2>3 DEF RevokeAllForUser, clock, issued, history, TypeOK, EntryCovers,
         BearerIssued, RowIssued
    <3>2. PartedHasCause'
      <4> SUFFICES ASSUME NEW u \in Token, Parted(u)' PROVE Cause(u)'
        BY DEF PartedHasCause, Cause
      <4>1. Parted(u)
        BY <2>3 DEF RevokeAllForUser, history, TypeOK, Parted
      <4>2. CASE \E v \in Twins(u) : row[v] = "revoked"
        <5>1. /\ owner' = owner
              /\ \A v \in Token : row[v] # "absent" => signed'[v] = signed[v]
              /\ \A v \in Token : row[v] = "revoked" => row'[v] = "revoked"
          BY <2>3 DEF RevokeAllForUser, issued, TypeOK
        <5>2. \E v \in Twins(u)' : row'[v] = "revoked"
          BY <3>1, <4>1, <4>2, <5>1, TwinsStay DEF Parted
        <5> QED BY <5>2 DEF Cause
      <4> QED BY <2>0, <2>3, <4>1, <4>2 DEF Cause, RevokeAllForUser, history
    <3> QED BY <3>1, <3>2
  <2>4. ASSUME NEW r \in Request, Verify(r) PROVE IInv'
    <3>1. PICK t \in Token : Unexpired(t) /\ bearer' = [bearer EXCEPT ![r] = t]
      BY <2>4 DEF Verify
    <3>2. exp[t] # 0
      BY <3>1 DEF Unexpired, TypeOK
    <3>3. TypeOK' /\ EntryCovers' /\ BearerIssued' /\ RowIssued'
      BY <2>4, <3>1, <3>2 DEF Verify, Goto, clock, issued, history, TypeOK, EntryCovers,
         BearerIssued, RowIssued
    <3>4. PartedHasCause'
      BY <2>4, <3>1 DEF Verify, Goto, issued, history, TypeOK, PartedHasCause, Parted,
         Twins, RefreshToken
    <3> QED BY <3>3, <3>4
  <2>5. ASSUME NEW r \in Request, CheckBlacklist(r) PROVE IInv'
    <3>1. TypeOK'
      BY <2>5 DEF CheckBlacklist, Goto, clock, issued, history, TypeOK
    <3>2. EntryCovers' /\ BearerIssued' /\ RowIssued'
      BY <2>5 DEF CheckBlacklist, Goto, issued, history, TypeOK, EntryCovers, BearerIssued, RowIssued
    <3>3. PartedHasCause'
      BY <2>5 DEF CheckBlacklist, Goto, issued, history, TypeOK, PartedHasCause, Parted, Twins, RefreshToken
    <3> QED BY <3>1, <3>2, <3>3
  <2>6. ASSUME NEW r \in Request, Finish(r) PROVE IInv'
    <3>1. TypeOK'
      BY <2>6 DEF Finish, Goto, clock, issued, history, TypeOK
    <3>2. EntryCovers' /\ BearerIssued' /\ RowIssued'
      BY <2>6 DEF Finish, Goto, issued, history, TypeOK, EntryCovers, BearerIssued, RowIssued
    <3>3. PartedHasCause'
      BY <2>6 DEF Finish, Goto, issued, history, TypeOK, PartedHasCause, Parted, Twins, RefreshToken
    <3> QED BY <3>1, <3>2, <3>3
  <2>7. ASSUME NEW r \in Request, LogoutRevoke(r) PROVE IInv'
    <3>1. bearer[r] \in Token /\ exp[bearer[r]] # 0 /\ at[r] \in Process
      BY <2>7 DEF LogoutRevoke, TypeOK, BearerIssued
    <3>2. /\ EntryUntil(bearer[r]) \in Instant
          /\ exp[bearer[r]] <= EntryUntil(bearer[r]).sec
      BY <3>1, EntryEnds
    <3>3. Reached(at[r]) \in SUBSET Process
      BY <3>1 DEF Reached
    <3>4. until' \in [Process -> [Token -> Instant]]
      BY <2>7, <3>1, <3>2 DEF LogoutRevoke, TypeOK
    <3>5. revoked' \in SUBSET (Process \X Token)
      BY <2>7, <3>1, <3>3 DEF LogoutRevoke, TypeOK
    <3>6. TypeOK'
      BY <2>7, <3>4, <3>5 DEF LogoutRevoke, Goto, clock, issued, TypeOK
    <3>7. EntryCovers'
      BY <2>7, <3>1, <3>2, <3>3 DEF LogoutRevoke, issued, TypeOK, EntryCovers
    <3>8. BearerIssued' /\ RowIssued'
      BY <2>7 DEF LogoutRevoke, Goto, issued, TypeOK, BearerIssued, RowIssued
    <3>9. PartedHasCause'
      <4> SUFFICES ASSUME NEW u \in Token, Parted(u)' PROVE Cause(u)'
        BY DEF PartedHasCause, Cause
      <4>1. CASE u = bearer[r]
        BY <2>7, <4>1 DEF LogoutRevoke, Goto, TypeOK, Cause
      <4>2. CASE u # bearer[r]
        <5>1. Cause(u)
          BY <2>0, <2>7, <4>2 DEF LogoutRevoke, Parted
        <5> QED BY <2>7, <5>1 DEF LogoutRevoke, Goto, issued, TypeOK, Cause, Twins, RefreshToken
      <4> QED BY <4>1, <4>2
    <3> QED BY <3>6, <3>7, <3>8, <3>9
  <2>8. ASSUME NEW r \in Request, LogoutRow(r) PROVE IInv'
    <3>1. PICK body \in User \X Second :
            /\ \/ Hashed(body) = {} /\ row' = row
               \/ \E t \in Hashed(body) : row' = RowRevoked(t)
            /\ astray' = IF body = RefreshToken(bearer[r]) THEN astray
                         ELSE astray \cup {bearer[r]}
      BY <2>8 DEF LogoutRow
    <3>2. bearer[r] \in Token
      BY DEF TypeOK
    <3>3. /\ row' \in [Token -> {"absent", "live", "revoked"}]
          /\ \A t \in Token : row'[t] = row[t] \/ (row[t] # "absent" /\ row'[t] = "revoked")
      BY <3>1 DEF Hashed, RowRevoked, TypeOK
    <3>4. astray' \in SUBSET Token /\ astray \subseteq astray'
      BY <3>1, <3>2 DEF TypeOK
    <3>5. TypeOK'
      BY <2>8, <3>3, <3>4 DEF LogoutRow, Goto, clock, issued, TypeOK
    <3>6. EntryCovers' /\ BearerIssued' /\ RowIssued'
      BY <2>8, <3>3 DEF LogoutRow, Goto, issued, TypeOK, EntryCovers, BearerIssued, RowIssued
    <3>7. PartedHasCause'
      <4> SUFFICES ASSUME NEW u \in Token, Parted(u)' PROVE Cause(u)'
        BY DEF PartedHasCause, Cause
      <4>1. row[u] = "live" /\ row'[u] = "live" /\ Cause(u)
        BY <2>0, <2>8, <3>3 DEF LogoutRow, Parted
      <4>2. CASE \E v \in Twins(u) : row[v] = "revoked"
        <5>1. \E v \in Twins(u)' : row'[v] = "revoked"
          BY <2>8, <3>3, <3>5, <4>1, <4>2, TwinsStay DEF LogoutRow, issued
        <5> QED BY <5>1 DEF Cause
      <4>3. CASE u \in halfway \cup astray
        BY <2>8, <3>4, <4>3 DEF LogoutRow, Cause
      <4>4. CASE u = bearer[r] /\ body # RefreshToken(u)
        BY <3>1, <4>4 DEF Cause
      <4>5. CASE u = bearer[r] /\ body = RefreshToken(u)
        <5>1. u \in Hashed(body)
          BY <4>1, <4>5 DEF Hashed
        <5>2. PICK t \in Hashed(body) : row' = RowRevoked(t)
          BY <3>1, <5>1
        <5>3. t \in Token /\ t # u /\ RefreshToken(t) = RefreshToken(u) /\ row'[t] = "revoked"
          BY <4>1, <4>5, <5>2 DEF Hashed, RowRevoked, TypeOK
        <5>4. t \in Twins(u)'
          BY <2>8, <5>3 DEF LogoutRow, issued, Twins, RefreshToken
        <5> QED BY <5>3, <5>4 DEF Cause
      <4>6. CASE \E q \in Request \ {r} : pc[q] = "row" /\ bearer[q] = u
        BY <2>8, <4>6 DEF LogoutRow, Goto, TypeOK, Cause
      <4> QED BY <4>1, <4>2, <4>3, <4>4, <4>5, <4>6 DEF Cause
    <3> QED BY <3>5, <3>6, <3>7
  <2>9. ASSUME NEW r \in Request, LogoutFails(r) PROVE IInv'
    <3>1. TypeOK' /\ EntryCovers' /\ BearerIssued' /\ RowIssued'
      BY <2>9 DEF LogoutFails, Goto, clock, issued, TypeOK, EntryCovers, BearerIssued, RowIssued
    <3>2. PartedHasCause'
      BY <2>9 DEF LogoutFails, Goto, issued, TypeOK, PartedHasCause, Parted, Twins, RefreshToken
    <3> QED BY <3>1, <3>2
  <2>10. ASSUME NEW p \in Process, Restart(p) PROVE IInv'
    <3>1. until' \in [Process -> [Token -> Instant]] /\ revoked' \in SUBSET (Process \X Token)
      BY <2>10 DEF Restart, TypeOK, Instant, Never
    <3>2. halfway' \in SUBSET Token
      BY <2>10 DEF Restart, TypeOK
    <3>3. TypeOK'
      BY <2>10, <3>1, <3>2 DEF Restart, clock, issued, TypeOK
    <3>4. EntryCovers'
      BY <2>10 DEF Restart, issued, TypeOK, EntryCovers
    <3>5. BearerIssued' /\ RowIssued'
      BY <2>10 DEF Restart, issued, TypeOK, BearerIssued, RowIssued
    <3>6. PartedHasCause'
      <4> SUFFICES ASSUME NEW u \in Token, Parted(u)' PROVE Cause(u)'
        BY DEF PartedHasCause, Cause
      <4>1. Cause(u)
        BY <2>0, <2>10 DEF Restart, Parted
      <4>2. CASE \E r \in Request : pc[r] = "row" /\ bearer[r] = u /\ at[r] # p
        BY <2>10, <4>2 DEF Restart, TypeOK, Cause
      <4>3. CASE \E r \in Request : pc[r] = "row" /\ bearer[r] = u /\ at[r] = p
        BY <2>10, <4>3 DEF Restart, TypeOK, Cause
      <4>4. CASE u \in halfway \cup astray \/ \E v \in Twins(u) : row[v] = "revoked"
        BY <2>10, <4>4 DEF Restart, issued, Cause, Twins, RefreshToken
      <4> QED BY <4>1, <4>2, <4>3, <4>4 DEF Cause
    <3> QED BY <3>3, <3>4, <3>5, <3>6
  <2>11. CASE Tick
    <3>1. TypeOK'
      BY <2>11 DEF Tick, issued, history, TypeOK
    <3>2. EntryCovers' /\ BearerIssued' /\ RowIssued'
      BY <2>11 DEF Tick, issued, history, EntryCovers, BearerIssued, RowIssued
    <3>3. PartedHasCause'
      BY <2>11 DEF Tick, issued, history, PartedHasCause, Parted, Twins, RefreshToken
    <3> QED BY <3>1, <3>2, <3>3
  <2>12. CASE UNCHANGED vars
    BY <2>12 DEF vars, clock, issued, history, TypeOK, EntryCovers, BearerIssued, RowIssued,
       PartedHasCause, Parted, Twins, RefreshToken
  <2> QED BY <2>1, <2>2, <2>3, <2>4, <2>5, <2>6, <2>7, <2>8, <2>9, <2>10, <2>11, <2>12
      DEF Next
<1> QED BY <1>1, <1>2, PTL DEF Spec

\* Every variable keeps its type; above all an entry ends at an instant within
\* one lifetime of the clock, whichever way the adapter computes its end.
THEOREM TypeCorrect == Spec => []TypeOK
<1>1. IInv => TypeOK
  BY DEF IInv
<1> QED BY <1>1, Invariance, PTL

\* A logged-out token is accepted by JwtStrategy.validate, in a process whose
\* blacklist it reached, only once its exp has passed since its signature was
\* verified, whichever adapter is in use and however many processes there are.
THEOREM RevokedStaysRevoked == Spec => RevokedUntilExpiry
<1>1. IInv /\ [Next]_vars =>
        [\A r \in Request :
           /\ pc[r] = "check" /\ pc'[r] = "accepted"
           /\ <<at[r], bearer[r]>> \in revoked
           => ~Unexpired(bearer[r])]_vars
  <2> SUFFICES ASSUME IInv, Next, NEW r \in Request,
                      pc[r] = "check", pc'[r] = "accepted",
                      <<at[r], bearer[r]>> \in revoked
               PROVE  ~Unexpired(bearer[r])
    BY DEF vars
  <2>1. CheckBlacklist(r)
    BY DEF IInv, TypeOK, Next, Issue, Refresh, RevokeAllForUser, Verify, CheckBlacklist, Finish,
       LogoutRevoke, LogoutRow, LogoutFails, Restart, Tick, Goto
  <2>2. ~IsRevoked(at[r], bearer[r])
    BY <2>1 DEF CheckBlacklist, Goto, IInv, TypeOK
  <2>3. at[r] \in Process /\ bearer[r] \in Token
    BY DEF IInv, TypeOK
  <2>4. exp[bearer[r]] <= until[at[r]][bearer[r]].sec
    BY <2>3 DEF IInv, EntryCovers
  <2> QED BY <2>2, <2>3, <2>4 DEF IInv, TypeOK, Instant, IsRevoked, Unexpired
<1> QED BY <1>1, Invariance, PTL DEF Spec, RevokedUntilExpiry

\* A refresh token outlives the blacklisting of its access token only while the
\* logout is between its two writes, because one failed or died there, because
\* the body of LogoutUseCase.execute had another token, or because findByHash
\* found the row of an equal one: for any users, tokens, requests and processes.
THEOREM LogoutPartsWithCause == Spec => []PartedHasCause
<1>1. IInv => PartedHasCause
  BY DEF IInv
<1> QED BY <1>1, Invariance, PTL
=============================================================================
