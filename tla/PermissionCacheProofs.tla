------------------------ MODULE PermissionCacheProofs ------------------------
(***************************************************************************)
(* Proofs about PermissionCache for any users, roles, permissions, number  *)
(* of concurrent handlers, cache lifetime and read-to-write delay.         *)
(***************************************************************************)
EXTENDS PermissionCache, TLAPS

(* The inductive invariants *)

\* What a context allows is held now, or was held no longer ago than the
\* context is old.
Recent(u, context, age) ==
    \A p \in Perm : Allows(context, p) => Holds(u, p) \/ sinceHeld[u][p] <= age

EntriesAreRecent ==
    \A u \in User : Cached(u) => /\ entry[u].age + entry[u].left <= Limit
                                 /\ Recent(u, entry[u].context, entry[u].age)
ReadsAreRecent ==
    \A w \in Worker :
        pc[w] \in Holding => Recent(job[w].user, job[w].context, job[w].age)
RecentInv == TypeOK /\ EntriesAreRecent /\ ReadsAreRecent

\* A context that no change of roles has outrun has the assigned roles.
ReadsAreCurrent ==
    \A w \in Worker :
        pc[w] \in Holding /\ w \notin overtaken => Current(job[w].user, job[w].context)
StaleInv == TypeOK /\ StaleHasCause /\ ReadsAreCurrent

-----------------------------------------------------------------------------
\* A context read from the tables is a context.
LEMMA ContextType == ASSUME TypeOK, NEW u \in User PROVE ContextOf(u) \in Context
BY DEF ContextOf, RolesOf, Context, TypeOK

LEMMA NoContextType == NoContext \in Context
BY DEF NoContext, Context

LEMMA NoEntryType == NoEntry \in Entry
BY PermissionCacheAssumption, NoContextType
   DEF PermissionCacheAssumption, NoEntry, Entry, Limit

\* The histories keep their types.
LEMMA NoteType == ASSUME TypeOK, Note PROVE sinceHeld' \in [User -> [Perm -> 0 .. Limit]]
BY PermissionCacheAssumption DEF PermissionCacheAssumption, Note, TypeOK, Limit

\* Dropping what was read leaves a job.
LEMMA ForgetType ==
    ASSUME TypeOK, NEW w \in Worker, Forget(w) PROVE job' \in [Worker -> Job]
<1>1. job[w] \in Job
  BY DEF TypeOK
<1>2. SuperAdmin \in Role /\ 0 \in 0 .. Delay
  BY PermissionCacheAssumption DEF PermissionCacheAssumption
<1>3. [job[w] EXCEPT !.role = SuperAdmin, !.context = NoContext, !.age = 0] \in Job
  BY <1>1, <1>2, NoContextType DEF Job
<1> QED
  BY <1>3 DEF Forget, TypeOK

\* Storing a context leaves an entry.
LEMMA PutType ==
    ASSUME TypeOK, NEW w \in Worker, NEW u \in User, Put(u, w)
    PROVE  entry' \in [User -> Entry]
<1>1. job[w].context \in Context /\ job[w].age \in Nat
  BY PermissionCacheAssumption DEF PermissionCacheAssumption, TypeOK, Job
<1>2. [left |-> Lifetime, context |-> job[w].context, age |-> job[w].age] \in Entry
  BY <1>1, PermissionCacheAssumption DEF PermissionCacheAssumption, Entry, Lifetime
<1> QED
  BY <1>2 DEF Put, TypeOK

-----------------------------------------------------------------------------
\* Every step keeps the variables in their types.
LEMMA TypeStep == TypeOK /\ [Next]_vars => TypeOK'
<1> SUFFICES ASSUME TypeOK, [Next]_vars PROVE TypeOK'
  OBVIOUS
<1>1. CASE UNCHANGED vars
  BY <1>1 DEF TypeOK, vars
<1>2. ASSUME NEW w \in Worker, FindActive(w) PROVE TypeOK'
  <2>1. PICK u \in active, p \in Perm :
          job' = [job EXCEPT ![w].user = u, ![w].perm = p]
    BY <1>2 DEF FindActive
  <2>2. job[w] \in Job /\ u \in User
    BY DEF TypeOK
  <2>3. [job[w] EXCEPT !.user = u, !.perm = p] \in Job
    BY <2>2 DEF Job
  <2>4. job' \in [Worker -> Job]
    BY <2>1, <2>3 DEF TypeOK
  <2> QED
    BY <1>2, <2>4 DEF FindActive, Goto, TypeOK, Labels, tables, history
<1>3. ASSUME NEW w \in Worker, CacheGet(w) PROVE TypeOK'
  BY <1>3 DEF CacheGet, Answer, Goto, TypeOK, Labels, Rest, tables, history
<1>4. ASSUME NEW w \in Worker, LoadContext(w) PROVE TypeOK'
  <2>1. CASE job[w].user \in active
    <3>1. job[w] \in Job /\ ContextOf(job[w].user) \in Context /\ 0 \in 0 .. Delay
      BY <2>1, ContextType, PermissionCacheAssumption DEF PermissionCacheAssumption, TypeOK
    <3>2. [job[w] EXCEPT !.context = ContextOf(job[w].user), !.age = 0] \in Job
      BY <3>1 DEF Job
    <3>3. job' \in [Worker -> Job]
      BY <1>4, <2>1, <3>2 DEF LoadContext, TypeOK
    <3> QED
      BY <1>4, <2>1, <3>3 DEF LoadContext, Goto, TypeOK, Labels, Holding, tables, history
  <2>2. CASE job[w].user \notin active
    BY <1>4, <2>2 DEF LoadContext, Goto, TypeOK, Labels, Rest, tables, history
  <2> QED
    BY <2>1, <2>2
<1>5. ASSUME NEW w \in Worker, CacheSet(w) PROVE TypeOK'
  <2>1. job[w].user \in User
    BY DEF TypeOK, Job
  <2>2. entry' \in [User -> Entry] /\ job' \in [Worker -> Job]
    BY <1>5, <2>1, PutType, ForgetType DEF CacheSet
  <2>3. overtaken' \in SUBSET Worker /\ excused' \in SUBSET User
    BY <1>5, <2>1 DEF CacheSet, Settle, TypeOK
  <2> QED
    BY <1>5, <2>2, <2>3 DEF CacheSet, Answer, Goto, TypeOK, Labels, Rest, tables
<1>6. ASSUME NEW w \in Worker, WarmRead(w) PROVE TypeOK'
  <2>1. PICK u \in active :
          job' = [job EXCEPT ![w].user = u, ![w].context = ContextOf(u), ![w].age = 0]
    BY <1>6 DEF WarmRead
  <2>2. job[w] \in Job /\ u \in User /\ ContextOf(u) \in Context /\ 0 \in 0 .. Delay
    BY ContextType, PermissionCacheAssumption DEF PermissionCacheAssumption, TypeOK
  <2>3. [job[w] EXCEPT !.user = u, !.context = ContextOf(u), !.age = 0] \in Job
    BY <2>2 DEF Job
  <2>4. job' \in [Worker -> Job]
    BY <2>1, <2>3 DEF TypeOK
  <2> QED
    BY <1>6, <2>4 DEF WarmRead, Goto, TypeOK, Labels, Holding, tables, history
<1>7. ASSUME NEW w \in Worker, WarmSet(w) PROVE TypeOK'
  <2>1. job[w].user \in User
    BY DEF TypeOK, Job
  <2>2. entry' \in [User -> Entry] /\ job' \in [Worker -> Job]
    BY <1>7, <2>1, PutType, ForgetType DEF WarmSet
  <2>3. overtaken' \in SUBSET Worker /\ excused' \in SUBSET User
    BY <1>7, <2>1 DEF WarmSet, Settle, TypeOK
  <2> QED
    BY <1>7, <2>2, <2>3 DEF WarmSet, Goto, TypeOK, Labels, Rest, tables
<1>8. ASSUME NEW w \in Worker, AssignFind(w) PROVE TypeOK'
  <2>1. PICK u \in User, r \in Role :
          job' = [job EXCEPT ![w].user = u, ![w].role = r]
    BY <1>8 DEF AssignFind, TypeOK
  <2>2. job[w] \in Job
    BY DEF TypeOK
  <2>3. [job[w] EXCEPT !.user = u, !.role = r] \in Job
    BY <2>2 DEF Job
  <2>4. job' \in [Worker -> Job]
    BY <2>1, <2>3 DEF TypeOK
  <2> QED
    BY <1>8, <2>4 DEF AssignFind, Goto, TypeOK, Labels, Writing, tables, history
<1>9. ASSUME NEW w \in Worker, AssignWrite(w) PROVE TypeOK'
  <2>1. job[w].user \in User /\ job[w].role \in Role
    BY DEF TypeOK, Job
  <2>2. assigned' \in SUBSET (User \X Role)
    BY <1>9, <2>1 DEF AssignWrite, TypeOK
  <2>3. overtaken' \in SUBSET Worker
    BY <1>9 DEF AssignWrite, Overtake, TypeOK
  <2> QED
    BY <1>9, <2>2, <2>3, NoteType DEF AssignWrite, Goto, TypeOK, Labels, Writing
<1>10. ASSUME NEW w \in Worker, RemoveFind(w) PROVE TypeOK'
  <2>1. PICK u \in User, r \in Role :
          job' = [job EXCEPT ![w].user = u, ![w].role = r]
    BY <1>10 DEF RemoveFind
  <2>2. job[w] \in Job
    BY DEF TypeOK
  <2>3. [job[w] EXCEPT !.user = u, !.role = r] \in Job
    BY <2>2 DEF Job
  <2>4. job' \in [Worker -> Job]
    BY <2>1, <2>3 DEF TypeOK
  <2> QED
    BY <1>10, <2>4 DEF RemoveFind, Goto, TypeOK, Labels, Writing, tables, history
<1>11. ASSUME NEW w \in Worker, RemoveWrite(w) PROVE TypeOK'
  <2>1. job[w].user \in User /\ job[w].role \in Role
    BY DEF TypeOK, Job
  <2>2. assigned' \in SUBSET (User \X Role)
    BY <1>11, <2>1 DEF RemoveWrite, TypeOK
  <2>3. overtaken' \in SUBSET Worker
    BY <1>11 DEF RemoveWrite, Overtake, TypeOK
  <2> QED
    BY <1>11, <2>2, <2>3, NoteType DEF RemoveWrite, Goto, TypeOK, Labels, Writing
<1>12. ASSUME NEW w \in Worker, Invalidate(w) PROVE TypeOK'
  <2>1. entry' \in [User -> Entry]
    BY <1>12, NoEntryType DEF Invalidate, Invalidated, TypeOK
  <2> QED
    BY <1>12, <2>1, ForgetType DEF Invalidate, Goto, TypeOK, Labels, Rest, tables
<1>13. ASSUME NEW w \in Worker, WorkerFails(w) PROVE TypeOK'
  <2>1. job[w].user \in User
    BY DEF TypeOK, Job
  <2> QED
    BY <1>13, <2>1, ForgetType DEF WorkerFails, Goto, TypeOK, Labels, Rest, tables
<1>14. ASSUME NEW r \in Role, NEW P \in SUBSET Perm, UpdateRole(r, P) PROVE TypeOK'
  BY <1>14, NoteType DEF UpdateRole, TypeOK
<1>15. ASSUME NEW r \in Role, DeleteRole(r) PROVE TypeOK'
  BY <1>15, NoteType DEF DeleteRole, TypeOK
<1>16. ASSUME NEW p \in Perm, DeletePermission(p) PROVE TypeOK'
  BY <1>16, NoteType DEF DeletePermission, TypeOK
<1>17. ASSUME NEW u \in User, SetActive(u) PROVE TypeOK'
  BY <1>17 DEF SetActive, TypeOK, history
<1>18. ASSUME NEW r \in Role, ReviveRole(r) PROVE TypeOK'
  BY <1>18, NoteType DEF ReviveRole, TypeOK
<1>19. CASE Tick
  <2>1. ASSUME NEW u \in User PROVE Aged(entry[u]) \in Entry
    <3>1. entry[u] \in Entry
      BY DEF TypeOK
    <3>2. CASE entry[u].left <= 1
      BY <3>2, NoEntryType DEF Aged
    <3>3. CASE ~(entry[u].left <= 1)
      <4>1. entry[u].left - 1 \in 0 .. Ttl /\ entry[u].age + 1 \in Nat
        BY <3>1, <3>3, PermissionCacheAssumption DEF PermissionCacheAssumption, Entry
      <4> QED
        BY <3>1, <3>3, <4>1 DEF Aged, Entry
    <3> QED
      BY <3>2, <3>3
  <2>2. entry' \in [User -> Entry]
    BY <1>19, <2>1 DEF Tick
  <2>3. ASSUME NEW w \in Worker, pc[w] \in Holding
        PROVE  [job[w] EXCEPT !.age = @ + 1] \in Job
    <3>1. job[w] \in Job
      BY DEF TypeOK
    <3>2. job[w].age + 1 \in 0 .. Delay
      BY <1>19, <2>3, <3>1, PermissionCacheAssumption
         DEF PermissionCacheAssumption, Tick, Job
    <3> QED
      BY <3>1, <3>2 DEF Job
  <2>4. job' \in [Worker -> Job]
    BY <1>19, <2>3 DEF Tick, TypeOK
  <2>5. sinceHeld' \in [User -> [Perm -> 0 .. Limit]]
    BY <1>19, PermissionCacheAssumption DEF PermissionCacheAssumption, Tick, TypeOK, Limit
  <2> QED
    BY <1>19, <2>2, <2>4, <2>5 DEF Tick, TypeOK, tables
<1> QED
  BY <1>1, <1>2, <1>3, <1>4, <1>5, <1>6, <1>7, <1>8, <1>9, <1>10, <1>11, <1>12,
     <1>13, <1>14, <1>15, <1>16, <1>17, <1>18, <1>19
     DEF Next, Guarded, Warmer, Writer, Admin

\* The variables start in their types.
LEMMA TypeInit == Init => TypeOK
BY PermissionCacheAssumption, NoEntryType
   DEF PermissionCacheAssumption, Init, TypeOK, Labels, Rest, Limit

\* The variables keep their types.
THEOREM TypeCorrect == Spec => []TypeOK
BY TypeInit, TypeStep, PTL DEF Spec

-----------------------------------------------------------------------------
(* A permission lost is lost within Ttl + Delay *)

\* What u holds depends on the tables alone.
LEMMA HoldsStable ==
    ASSUME NEW u, NEW p, UNCHANGED tables PROVE Holds(u, p)' <=> Holds(u, p)
BY DEF Holds, ContextOf, RolesOf, Allows, tables

\* Recent survives a step that leaves the tables and the history alone,
LEMMA RecentKept ==
    ASSUME NEW u, NEW context, NEW age,
           UNCHANGED tables, UNCHANGED sinceHeld, Recent(u, context, age)
    PROVE  Recent(u, context, age)'
BY HoldsStable DEF Recent, Allows

\* a step that changes the tables and notes what was held until then,
LEMMA RecentNoted ==
    ASSUME TypeOK, Note, NEW u \in User, NEW context, NEW age \in Nat,
           Recent(u, context, age)
    PROVE  Recent(u, context, age)'
BY DEF Recent, Allows, Note, TypeOK

\* and a tick of the clock, if the context is a tick older for it.
LEMMA RecentTicked ==
    ASSUME TypeOK, Tick, NEW u \in User, NEW context, NEW age \in Nat,
           Recent(u, context, age)
    PROVE  Recent(u, context, age + 1)'
<1> SUFFICES ASSUME NEW p \in Perm, Allows(context, p), ~Holds(u, p)
             PROVE  sinceHeld'[u][p] <= age + 1
  BY HoldsStable DEF Recent, Allows, Tick
<1>1. sinceHeld[u][p] <= age /\ sinceHeld[u][p] \in Nat /\ Limit \in Nat
  BY PermissionCacheAssumption DEF PermissionCacheAssumption, Recent, TypeOK, Limit
<1>2. sinceHeld'[u][p] = IF sinceHeld[u][p] < Limit THEN sinceHeld[u][p] + 1 ELSE Limit
  BY DEF Tick
<1> QED
  BY <1>1, <1>2

\* A context just read allows only what is held.
LEMMA RecentRead == ASSUME NEW u PROVE Recent(u, ContextOf(u), 0)
BY DEF Recent, Holds

\* Every step keeps what is cached and what is read recent.
LEMMA RecentStep == RecentInv /\ [Next]_vars => RecentInv'
<1> SUFFICES ASSUME RecentInv, [Next]_vars PROVE EntriesAreRecent' /\ ReadsAreRecent'
  BY TypeStep DEF RecentInv
<1>0. TypeOK /\ TypeOK' /\ EntriesAreRecent /\ ReadsAreRecent
  BY TypeStep DEF RecentInv
<1> DEFINE Kept == EntriesAreRecent' /\ ReadsAreRecent'
<1>q. ASSUME UNCHANGED <<tables, sinceHeld, entry>> PROVE EntriesAreRecent'
  BY <1>0, <1>q, RecentKept DEF EntriesAreRecent, Cached
<1>n. ASSUME Note, UNCHANGED <<entry, pc, job>> PROVE Kept
  <2>1. EntriesAreRecent'
    BY <1>0, <1>n, RecentNoted DEF EntriesAreRecent, Cached, TypeOK, Entry
  <2>2. ReadsAreRecent'
    BY <1>0, <1>n, RecentNoted DEF ReadsAreRecent, TypeOK, Job
  <2> QED
    BY <2>1, <2>2
<1>1. CASE UNCHANGED vars
  BY <1>0, <1>1, <1>q, RecentKept DEF ReadsAreRecent, vars, tables
<1>2. ASSUME NEW w \in Worker, FindActive(w) PROVE Kept
  <2>1. EntriesAreRecent'
    BY <1>2, <1>q DEF FindActive, history
  <2>2. ReadsAreRecent'
    BY <1>0, <1>2, RecentKept DEF FindActive, Goto, ReadsAreRecent, Holding,
       TypeOK, history
  <2> QED
    BY <2>1, <2>2
<1>3. ASSUME NEW w \in Worker, CacheGet(w) PROVE Kept
  <2>1. EntriesAreRecent'
    BY <1>3, <1>q DEF CacheGet, history
  <2>2. ReadsAreRecent'
    BY <1>0, <1>3, RecentKept DEF CacheGet, Answer, Goto, ReadsAreRecent,
       Holding, TypeOK, history
  <2> QED
    BY <2>1, <2>2
<1>4. ASSUME NEW w \in Worker, LoadContext(w) PROVE Kept
  <2>1. EntriesAreRecent'
    BY <1>4, <1>q DEF LoadContext, history
  <2>2. ReadsAreRecent'
    <3> SUFFICES ASSUME NEW v \in Worker, pc'[v] \in Holding
                 PROVE  Recent(job[v].user, job[v].context, job[v].age)'
      BY DEF ReadsAreRecent
    <3>1. CASE v = w
      <4>1. /\ job'[w].user = job[w].user /\ job'[w].context = ContextOf(job[w].user)
            /\ job'[w].age = 0
        BY <1>0, <1>4, <3>1 DEF LoadContext, Goto, Holding, TypeOK, Job
      <4> QED
        BY <1>4, <3>1, <4>1, RecentRead, RecentKept DEF LoadContext, history
    <3>2. CASE v # w
      BY <1>0, <1>4, <3>2, RecentKept DEF LoadContext, Goto, ReadsAreRecent,
         TypeOK, history
    <3> QED
      BY <3>1, <3>2
  <2> QED
    BY <2>1, <2>2
<1>5. ASSUME NEW w \in Worker, CacheSet(w) PROVE Kept
  <2>1. ReadsAreRecent'
    BY <1>0, <1>5, RecentKept DEF CacheSet, Answer, Goto, Forget,
       ReadsAreRecent, Holding, TypeOK
  <2>2. EntriesAreRecent'
    <3> SUFFICES ASSUME NEW u \in User, Cached(u)'
                 PROVE  /\ entry'[u].age + entry'[u].left <= Limit
                        /\ Recent(u, entry[u].context, entry[u].age)'
      BY DEF EntriesAreRecent
    <3>1. CASE u = job[w].user
      <4>1. /\ entry'[u].age = job[w].age /\ entry'[u].context = job[w].context
            /\ entry'[u].left = Ttl
        BY <1>0, <1>5, <3>1 DEF CacheSet, Put, Lifetime, TypeOK
      <4>2. job[w].age + Ttl <= Limit
        BY <1>0, PermissionCacheAssumption DEF TypeOK, Job, Limit
      <4>3. Recent(u, job[w].context, job[w].age)
        BY <1>0, <1>5, <3>1 DEF CacheSet, ReadsAreRecent, Holding
      <4> QED
        BY <1>5, <4>1, <4>2, <4>3, RecentKept DEF CacheSet
    <3>2. CASE u # job[w].user
      <4>1. entry'[u] = entry[u]
        BY <1>5, <3>2 DEF CacheSet, Put
      <4>2. Cached(u)
        BY <4>1 DEF Cached
      <4>3. /\ entry[u].age + entry[u].left <= Limit
            /\ Recent(u, entry[u].context, entry[u].age)
        BY <1>0, <4>2 DEF EntriesAreRecent
      <4> QED
        BY <1>5, <4>1, <4>3, RecentKept DEF CacheSet
    <3> QED
      BY <3>1, <3>2
  <2> QED
    BY <2>1, <2>2
<1>6. ASSUME NEW w \in Worker, WarmRead(w) PROVE Kept
  <2>1. EntriesAreRecent'
    BY <1>6, <1>q DEF WarmRead, history
  <2>2. PICK u \in active :
          job' = [job EXCEPT ![w].user = u, ![w].context = ContextOf(u), ![w].age = 0]
    BY <1>6 DEF WarmRead
  <2>3. ReadsAreRecent'
    <3> SUFFICES ASSUME NEW v \in Worker, pc'[v] \in Holding
                 PROVE  Recent(job[v].user, job[v].context, job[v].age)'
      BY DEF ReadsAreRecent
    <3>1. CASE v = w
      <4>1. /\ job'[w].user = u /\ job'[w].context = ContextOf(u) /\ job'[w].age = 0
        BY <1>0, <2>2 DEF TypeOK
      <4> QED
        BY <1>6, <3>1, <4>1, RecentRead, RecentKept DEF WarmRead, history
    <3>2. CASE v # w
      BY <1>0, <1>6, <3>2, RecentKept DEF WarmRead, Goto, ReadsAreRecent,
         TypeOK, history
    <3> QED
      BY <3>1, <3>2
  <2> QED
    BY <2>1, <2>3
<1>7. ASSUME NEW w \in Worker, WarmSet(w) PROVE Kept
  <2>1. ReadsAreRecent'
    BY <1>0, <1>7, RecentKept DEF WarmSet, Goto, Forget, ReadsAreRecent,
       Holding, TypeOK
  <2>2. EntriesAreRecent'
    <3> SUFFICES ASSUME NEW u \in User, Cached(u)'
                 PROVE  /\ entry'[u].age + entry'[u].left <= Limit
                        /\ Recent(u, entry[u].context, entry[u].age)'
      BY DEF EntriesAreRecent
    <3>1. CASE u = job[w].user
      <4>1. /\ entry'[u].age = job[w].age /\ entry'[u].context = job[w].context
            /\ entry'[u].left = Ttl
        BY <1>0, <1>7, <3>1 DEF WarmSet, Put, Lifetime, TypeOK
      <4>2. job[w].age + Ttl <= Limit
        BY <1>0, PermissionCacheAssumption DEF TypeOK, Job, Limit
      <4>3. Recent(u, job[w].context, job[w].age)
        BY <1>0, <1>7, <3>1 DEF WarmSet, ReadsAreRecent, Holding
      <4> QED
        BY <1>7, <4>1, <4>2, <4>3, RecentKept DEF WarmSet
    <3>2. CASE u # job[w].user
      <4>1. entry'[u] = entry[u]
        BY <1>7, <3>2 DEF WarmSet, Put
      <4>2. Cached(u)
        BY <4>1 DEF Cached
      <4>3. /\ entry[u].age + entry[u].left <= Limit
            /\ Recent(u, entry[u].context, entry[u].age)
        BY <1>0, <4>2 DEF EntriesAreRecent
      <4> QED
        BY <1>7, <4>1, <4>3, RecentKept DEF WarmSet
    <3> QED
      BY <3>1, <3>2
  <2> QED
    BY <2>1, <2>2
<1>8. ASSUME NEW w \in Worker, AssignFind(w) PROVE Kept
  <2>1. EntriesAreRecent'
    BY <1>8, <1>q DEF AssignFind, history
  <2>2. ReadsAreRecent'
    BY <1>0, <1>8, RecentKept DEF AssignFind, Goto, ReadsAreRecent, Holding,
       TypeOK, history
  <2> QED
    BY <2>1, <2>2
<1>9. ASSUME NEW w \in Worker, AssignWrite(w) PROVE Kept
  <2>1. EntriesAreRecent'
    BY <1>0, <1>9, RecentNoted DEF AssignWrite, EntriesAreRecent, Cached,
       TypeOK, Entry
  <2>2. ReadsAreRecent'
    BY <1>0, <1>9, RecentNoted DEF AssignWrite, Goto, ReadsAreRecent, Holding,
       TypeOK, Job
  <2> QED
    BY <2>1, <2>2
<1>10. ASSUME NEW w \in Worker, RemoveFind(w) PROVE Kept
  <2>1. EntriesAreRecent'
    BY <1>10, <1>q DEF RemoveFind, history
  <2>2. ReadsAreRecent'
    BY <1>0, <1>10, RecentKept DEF RemoveFind, Goto, ReadsAreRecent, Holding,
       TypeOK, history
  <2> QED
    BY <2>1, <2>2
<1>11. ASSUME NEW w \in Worker, RemoveWrite(w) PROVE Kept
  <2>1. EntriesAreRecent'
    BY <1>0, <1>11, RecentNoted DEF RemoveWrite, EntriesAreRecent, Cached,
       TypeOK, Entry
  <2>2. ReadsAreRecent'
    BY <1>0, <1>11, RecentNoted DEF RemoveWrite, Goto, ReadsAreRecent, Holding,
       TypeOK, Job
  <2> QED
    BY <2>1, <2>2
<1>12. ASSUME NEW w \in Worker, Invalidate(w) PROVE Kept
  <2>1. ReadsAreRecent'
    BY <1>0, <1>12, RecentKept DEF Invalidate, Goto, Forget, ReadsAreRecent,
       Holding, TypeOK
  <2>2. EntriesAreRecent'
    BY <1>0, <1>12, RecentKept DEF Invalidate, Invalidated, NoEntry,
       EntriesAreRecent, Cached
  <2> QED
    BY <2>1, <2>2
<1>13. ASSUME NEW w \in Worker, WorkerFails(w) PROVE Kept
  <2>1. EntriesAreRecent'
    BY <1>13, <1>q DEF WorkerFails
  <2>2. ReadsAreRecent'
    BY <1>0, <1>13, RecentKept DEF WorkerFails, Goto, Forget, ReadsAreRecent,
       Holding, TypeOK
  <2> QED
    BY <2>1, <2>2
<1>14. ASSUME NEW r \in Role, NEW P \in SUBSET Perm, UpdateRole(r, P) PROVE Kept
  BY <1>14, <1>n DEF UpdateRole
<1>15. ASSUME NEW r \in Role, DeleteRole(r) PROVE Kept
  BY <1>15, <1>n DEF DeleteRole
<1>16. ASSUME NEW p \in Perm, DeletePermission(p) PROVE Kept
  BY <1>16, <1>n DEF DeletePermission
<1>17. ASSUME NEW u \in User, SetActive(u) PROVE Kept
  <2>1. \A u1, p1 : Holds(u1, p1)' <=> Holds(u1, p1)
    BY <1>17 DEF SetActive, Holds, ContextOf, RolesOf
  <2> QED
    BY <1>0, <1>17, <2>1 DEF SetActive, EntriesAreRecent, ReadsAreRecent,
       Recent, Cached, history
<1>18. ASSUME NEW r \in Role, ReviveRole(r) PROVE Kept
  BY <1>18, <1>n DEF ReviveRole
<1>19. CASE Tick
  <2>1. EntriesAreRecent'
    <3> SUFFICES ASSUME NEW u \in User, Cached(u)'
                 PROVE  /\ entry'[u].age + entry'[u].left <= Limit
                        /\ Recent(u, entry[u].context, entry[u].age)'
      BY DEF EntriesAreRecent
    <3>0. entry[u] \in Entry /\ entry'[u] = Aged(entry[u])
      BY <1>0, <1>19 DEF Tick, TypeOK
    <3>1. ~(entry[u].left <= 1)
      BY <3>0 DEF Cached, Aged, NoEntry
    <3>2. /\ entry'[u].left = entry[u].left - 1 /\ entry'[u].age = entry[u].age + 1
          /\ entry'[u].context = entry[u].context
      BY <3>0, <3>1 DEF Aged
    <3>3. /\ entry[u].age + entry[u].left <= Limit
          /\ Recent(u, entry[u].context, entry[u].age)
      BY <1>0, <3>0, <3>1 DEF EntriesAreRecent, Cached, Entry
    <3>4. entry[u].age \in Nat /\ entry[u].left \in Nat
      BY <3>0 DEF Entry
    <3>5. Recent(u, entry[u].context, entry[u].age)'
      BY <1>0, <1>19, <3>2, <3>3, <3>4, RecentTicked
    <3> QED
      BY <3>2, <3>3, <3>4, <3>5
  <2>2. ReadsAreRecent'
    <3> SUFFICES ASSUME NEW w \in Worker, (pc[w] \in Holding)'
                 PROVE  Recent(job[w].user, job[w].context, job[w].age)'
      BY DEF ReadsAreRecent
    <3>1. pc[w] \in Holding /\ job[w] \in Job
      BY <1>0, <1>19 DEF Tick, TypeOK
    <3>2. Recent(job[w].user, job[w].context, job[w].age)
      BY <1>0, <3>1 DEF ReadsAreRecent
    <3>3. /\ job'[w].user = job[w].user /\ job'[w].context = job[w].context
          /\ job'[w].age = job[w].age + 1
      BY <1>19 DEF Tick
    <3>4. job[w].user \in User /\ job[w].age \in Nat
      BY <3>1 DEF Job
    <3> QED
      BY <1>0, <1>19, <3>2, <3>3, <3>4, RecentTicked
  <2> QED
    BY <2>1, <2>2
<1> QED
  BY <1>1, <1>2, <1>3, <1>4, <1>5, <1>6, <1>7, <1>8, <1>9, <1>10, <1>11, <1>12,
     <1>13, <1>14, <1>15, <1>16, <1>17, <1>18, <1>19
     DEF Next, Guarded, Warmer, Writer, Admin

\* What is cached and read is recent in every reachable state.
LEMMA RecentAlways == Spec => []RecentInv
<1>1. Init => RecentInv
  BY TypeInit DEF Init, RecentInv, EntriesAreRecent, ReadsAreRecent, Cached,
     NoEntry, Holding
<1> QED
  BY <1>1, RecentStep, PTL DEF Spec

\* Only the guard's answer makes a request "allowed", and it answers from a
\* live entry or from the context it has just stored.
LEMMA AllowedByContext ==
    ASSUME TypeOK, [Next]_vars, NEW w \in Worker,
           pc[w] # "allowed", pc'[w] = "allowed"
    PROVE  \/ /\ Cached(job[w].user)
              /\ Allows(entry[job[w].user].context, job[w].perm)
           \/ pc[w] \in Holding /\ Allows(job[w].context, job[w].perm)
<1>1. PICK v \in Worker : Guarded(v) \/ Warmer(v) \/ Writer(v) \/ WorkerFails(v)
  BY DEF Next, Admin, UpdateRole, DeleteRole, ReviveRole, DeletePermission, SetActive,
     Tick, vars
<1>2. CacheGet(w) \/ CacheSet(w)
  BY <1>1 DEF Guarded, Warmer, Writer, FindActive, CacheGet, LoadContext, CacheSet,
     WarmRead, WarmSet, AssignFind, AssignWrite, RemoveFind, RemoveWrite, Invalidate,
     WorkerFails, Answer, Goto, TypeOK
<1>3. CASE CacheGet(w)
  BY <1>3 DEF CacheGet, Answer, Goto, TypeOK
<1>4. CASE CacheSet(w)
  BY <1>4 DEF CacheSet, Answer, Goto, Holding
<1> QED
  BY <1>2, <1>3, <1>4

\* A permission is granted only to a user who holds it or held it less than
\* Ttl + Delay ago, whatever the tables, the cache and the handlers did since.
THEOREM RevocationTakesEffect == Spec => GrantIsRecent
<1>1. ASSUME RecentInv, [Next]_vars, NEW w \in Worker,
             pc[w] # "allowed", pc'[w] = "allowed"
      PROVE  \/ Holds(job[w].user, job[w].perm)
             \/ sinceHeld[job[w].user][job[w].perm] < Ttl + Delay
  <2>0. TypeOK /\ EntriesAreRecent /\ ReadsAreRecent
    BY <1>1 DEF RecentInv
  <2>1. job[w] \in Job /\ entry[job[w].user] \in Entry
    BY <2>0 DEF TypeOK, Job
  <2>2. /\ sinceHeld[job[w].user][job[w].perm] \in Nat
        /\ Ttl \in Nat \ {0} /\ Delay \in Nat
    BY <2>0, PermissionCacheAssumption DEF TypeOK, Job
  <2>3. CASE /\ Cached(job[w].user)
             /\ Allows(entry[job[w].user].context, job[w].perm)
    <3>1. \/ Holds(job[w].user, job[w].perm)
          \/ sinceHeld[job[w].user][job[w].perm] <= entry[job[w].user].age
      BY <2>0, <2>1, <2>3 DEF EntriesAreRecent, Recent, Job
    <3>2. entry[job[w].user].age + entry[job[w].user].left <= Ttl + Delay
      BY <2>0, <2>1, <2>3 DEF EntriesAreRecent, Job, Limit
    <3>3. entry[job[w].user].left > 0 /\ entry[job[w].user].left \in Nat
      BY <2>1, <2>3 DEF Cached, Entry
    <3>4. entry[job[w].user].age \in Nat
      BY <2>1 DEF Entry
    <3> QED
      BY <2>2, <3>1, <3>2, <3>3, <3>4
  <2>4. CASE pc[w] \in Holding /\ Allows(job[w].context, job[w].perm)
    <3>1. \/ Holds(job[w].user, job[w].perm)
          \/ sinceHeld[job[w].user][job[w].perm] <= job[w].age
      BY <2>0, <2>1, <2>4 DEF ReadsAreRecent, Recent, Job
    <3>2. job[w].age \in 0 .. Delay
      BY <2>1 DEF Job
    <3> QED
      BY <2>2, <3>1, <3>2
  <2> QED
    BY <1>1, <2>0, <2>3, <2>4, AllowedByContext
<1>2. RecentInv /\ [Next]_vars =>
        [\A w \in Worker :
           pc[w] # "allowed" /\ pc'[w] = "allowed" =>
               \/ Holds(job[w].user, job[w].perm)
               \/ sinceHeld[job[w].user][job[w].perm] < Ttl + Delay]_vars
  BY <1>1
<1> QED
  BY <1>2, RecentAlways, PTL DEF Spec, GrantIsRecent

-----------------------------------------------------------------------------
(* A stale entry has a cause *)

\* Every step keeps stale entries explained.
LEMMA StaleStep == StaleInv /\ [Next]_vars => StaleInv'
<1> SUFFICES ASSUME StaleInv, [Next]_vars PROVE StaleHasCause' /\ ReadsAreCurrent'
  BY TypeStep DEF StaleInv
<1>0. TypeOK /\ TypeOK' /\ StaleHasCause /\ ReadsAreCurrent
  BY TypeStep DEF StaleInv
<1> DEFINE Explained == StaleHasCause' /\ ReadsAreCurrent'
<1>a. ASSUME UNCHANGED tables PROVE \A u, c : Current(u, c)' <=> Current(u, c)
  BY <1>a DEF tables, Current, RolesOf
<1>s. ASSUME UNCHANGED <<tables, entry, excused>>,
             \A w \in Worker : pc[w] = "invalidate" =>
                 pc'[w] = "invalidate" /\ job'[w].user = job[w].user
      PROVE  StaleHasCause'
  <2>1. \A u \in User : Outdated(u)' => Outdated(u)
    BY <1>s, <1>a DEF Outdated, Cached
  <2> QED
    BY <1>0, <1>s, <2>1 DEF StaleHasCause, InvalidationDue
<1>r. ASSUME UNCHANGED tables,
             \A w \in Worker : pc'[w] \in Holding /\ w \notin overtaken' =>
                 /\ pc[w] \in Holding /\ w \notin overtaken
                 /\ job'[w].user = job[w].user /\ job'[w].context = job[w].context
      PROVE  ReadsAreCurrent'
  BY <1>0, <1>r, <1>a DEF ReadsAreCurrent
<1>1. CASE UNCHANGED vars
  BY <1>1, <1>s, <1>r DEF vars, tables
<1>2. ASSUME NEW w \in Worker, FindActive(w) PROVE Explained
  <2>1. StaleHasCause'
    BY <1>0, <1>2, <1>s DEF FindActive, Goto, Rest, TypeOK, history
  <2>2. ReadsAreCurrent'
    BY <1>0, <1>2, <1>r DEF FindActive, Goto, Holding, TypeOK, history
  <2> QED
    BY <2>1, <2>2
<1>3. ASSUME NEW w \in Worker, CacheGet(w) PROVE Explained
  <2>1. StaleHasCause'
    BY <1>0, <1>3, <1>s DEF CacheGet, Goto, Answer, Rest, TypeOK, history
  <2>2. ReadsAreCurrent'
    BY <1>0, <1>3, <1>r DEF CacheGet, Goto, Answer, Holding, TypeOK, history
  <2> QED
    BY <2>1, <2>2
<1>4. ASSUME NEW w \in Worker, LoadContext(w) PROVE Explained
  <2>1. StaleHasCause'
    BY <1>0, <1>4, <1>s DEF LoadContext, Goto, TypeOK, Job, history
  <2>2. Current(job[w].user, ContextOf(job[w].user))
    BY DEF Current, ContextOf, RolesOf
  <2>4. \A v \in Worker : v # w => job'[v] = job[v] /\ pc'[v] = pc[v]
    BY <1>0, <1>4 DEF LoadContext, Goto, TypeOK
  <2>3. CASE job[w].user \in active
    <3>1. job'[w].user = job[w].user /\ job'[w].context = ContextOf(job[w].user)
      BY <1>0, <1>4, <2>3 DEF LoadContext, TypeOK, Job
    <3> QED
      BY <1>0, <1>4, <1>a, <2>1, <2>2, <2>4, <3>1 DEF LoadContext, ReadsAreCurrent, history
  <2>5. CASE job[w].user \notin active
    BY <1>0, <1>4, <1>r, <2>1, <2>5 DEF LoadContext, Goto, Holding, TypeOK, history
  <2> QED
    BY <2>3, <2>5
<1>5. ASSUME NEW w \in Worker, CacheSet(w) PROVE Explained
  <2>1. StaleHasCause'
    <3> SUFFICES ASSUME NEW u \in User, Outdated(u)'
                 PROVE  (InvalidationDue(u) \/ u \in excused)'
      BY DEF StaleHasCause
    <3>1. CASE u = job[w].user /\ w \in overtaken
      BY <1>5, <3>1 DEF CacheSet, Settle
    <3>2. CASE u = job[w].user /\ w \notin overtaken
      <4>1. entry'[u].context = job[w].context
        BY <1>0, <1>5, <3>2 DEF CacheSet, Put, TypeOK
      <4>2. Current(u, job[w].context)
        BY <1>0, <1>5, <3>2 DEF CacheSet, ReadsAreCurrent, Holding
      <4> QED
        BY <1>5, <1>a, <4>1, <4>2 DEF CacheSet, Outdated
    <3>3. CASE u # job[w].user
      <4>1. entry'[u] = entry[u]
        BY <1>5, <3>3 DEF CacheSet, Put
      <4>2. InvalidationDue(u) \/ u \in excused
        BY <1>0, <1>5, <1>a, <4>1 DEF CacheSet, StaleHasCause, Outdated, Cached
      <4> QED
        BY <1>0, <1>5, <3>3, <4>2 DEF CacheSet, Answer, Goto, Forget, Settle,
           InvalidationDue, TypeOK
    <3> QED
      BY <3>1, <3>2, <3>3
  <2>2. ReadsAreCurrent'
    BY <1>0, <1>5, <1>r DEF CacheSet, Answer, Goto, Settle, Forget, Holding, TypeOK
  <2> QED
    BY <2>1, <2>2
<1>6. ASSUME NEW w \in Worker, WarmRead(w) PROVE Explained
  <2>1. StaleHasCause'
    BY <1>0, <1>6, <1>s DEF WarmRead, Goto, Rest, TypeOK, history
  <2>2. PICK u \in active :
          job' = [job EXCEPT ![w].user = u, ![w].context = ContextOf(u), ![w].age = 0]
    BY <1>6 DEF WarmRead
  <2>3. job'[w].user = u /\ job'[w].context = ContextOf(u)
    BY <1>0, <2>2 DEF TypeOK
  <2>4. Current(u, ContextOf(u))
    BY DEF Current, ContextOf, RolesOf
  <2>5. \A v \in Worker : v # w => job'[v] = job[v] /\ pc'[v] = pc[v]
    BY <1>0, <1>6 DEF WarmRead, Goto, TypeOK
  <2>6. ReadsAreCurrent'
    BY <1>0, <1>6, <1>a, <2>3, <2>4, <2>5 DEF WarmRead, ReadsAreCurrent, history
  <2> QED
    BY <2>1, <2>6
<1>7. ASSUME NEW w \in Worker, WarmSet(w) PROVE Explained
  <2>1. StaleHasCause'
    <3> SUFFICES ASSUME NEW u \in User, Outdated(u)'
                 PROVE  (InvalidationDue(u) \/ u \in excused)'
      BY DEF StaleHasCause
    <3>1. CASE u = job[w].user /\ w \in overtaken
      BY <1>7, <3>1 DEF WarmSet, Settle
    <3>2. CASE u = job[w].user /\ w \notin overtaken
      <4>1. entry'[u].context = job[w].context
        BY <1>0, <1>7, <3>2 DEF WarmSet, Put, TypeOK
      <4>2. Current(u, job[w].context)
        BY <1>0, <1>7, <3>2 DEF WarmSet, ReadsAreCurrent, Holding
      <4> QED
        BY <1>7, <1>a, <4>1, <4>2 DEF WarmSet, Outdated
    <3>3. CASE u # job[w].user
      <4>1. entry'[u] = entry[u]
        BY <1>7, <3>3 DEF WarmSet, Put
      <4>2. InvalidationDue(u) \/ u \in excused
        BY <1>0, <1>7, <1>a, <4>1 DEF WarmSet, StaleHasCause, Outdated, Cached
      <4> QED
        BY <1>0, <1>7, <3>3, <4>2 DEF WarmSet, Goto, Forget, Settle,
           InvalidationDue, TypeOK
    <3> QED
      BY <3>1, <3>2, <3>3
  <2>2. ReadsAreCurrent'
    BY <1>0, <1>7, <1>r DEF WarmSet, Goto, Settle, Forget, Holding, TypeOK
  <2> QED
    BY <2>1, <2>2
<1>8. ASSUME NEW w \in Worker, AssignFind(w) PROVE Explained
  <2>1. StaleHasCause'
    BY <1>0, <1>8, <1>s DEF AssignFind, Goto, Rest, TypeOK, history
  <2>2. ReadsAreCurrent'
    BY <1>0, <1>8, <1>r DEF AssignFind, Goto, Holding, TypeOK, history
  <2> QED
    BY <2>1, <2>2
<1>9. ASSUME NEW w \in Worker, AssignWrite(w) PROVE Explained
  <2>1. ASSUME NEW u \in User, u # job[w].user, NEW c
        PROVE  Current(u, c)' <=> Current(u, c)
    BY <1>9, <2>1 DEF AssignWrite, Current, RolesOf
  <2>2. StaleHasCause'
    <3> SUFFICES ASSUME NEW u \in User, Outdated(u)'
                 PROVE  (InvalidationDue(u) \/ u \in excused)'
      BY DEF StaleHasCause
    <3>1. CASE u = job[w].user
      BY <1>0, <1>9, <3>1 DEF AssignWrite, Goto, InvalidationDue, TypeOK
    <3>2. CASE u # job[w].user
      <4>1. InvalidationDue(u) \/ u \in excused
        BY <1>0, <1>9, <2>1, <3>2 DEF AssignWrite, StaleHasCause, Outdated, Cached
      <4> QED
        BY <1>0, <1>9, <4>1 DEF AssignWrite, Goto, InvalidationDue, TypeOK
    <3> QED
      BY <3>1, <3>2
  <2>3. ASSUME NEW v \in Worker, pc'[v] \in Holding, v \notin overtaken'
        PROVE  Current(job[v].user, job[v].context)'
    <3>1. pc[v] \in Holding /\ v \notin overtaken /\ job[v].user # job[w].user
      BY <1>0, <1>9, <2>3 DEF AssignWrite, Goto, Overtake, Holding, TypeOK
    <3> QED
      BY <1>0, <1>9, <2>1, <3>1 DEF AssignWrite, ReadsAreCurrent, TypeOK, Job
  <2>4. ReadsAreCurrent'
    BY <1>9, <2>3 DEF AssignWrite, ReadsAreCurrent
  <2> QED
    BY <2>2, <2>4
<1>10. ASSUME NEW w \in Worker, RemoveFind(w) PROVE Explained
  <2>1. StaleHasCause'
    BY <1>0, <1>10, <1>s DEF RemoveFind, Goto, Rest, TypeOK, history
  <2>2. ReadsAreCurrent'
    BY <1>0, <1>10, <1>r DEF RemoveFind, Goto, Holding, TypeOK, history
  <2> QED
    BY <2>1, <2>2
<1>11. ASSUME NEW w \in Worker, RemoveWrite(w) PROVE Explained
  <2>1. ASSUME NEW u \in User, u # job[w].user, NEW c
        PROVE  Current(u, c)' <=> Current(u, c)
    BY <1>11, <2>1 DEF RemoveWrite, Current, RolesOf
  <2>2. StaleHasCause'
    <3> SUFFICES ASSUME NEW u \in User, Outdated(u)'
                 PROVE  (InvalidationDue(u) \/ u \in excused)'
      BY DEF StaleHasCause
    <3>1. CASE u = job[w].user
      BY <1>0, <1>11, <3>1 DEF RemoveWrite, Goto, InvalidationDue, TypeOK
    <3>2. CASE u # job[w].user
      <4>1. InvalidationDue(u) \/ u \in excused
        BY <1>0, <1>11, <2>1, <3>2 DEF RemoveWrite, StaleHasCause, Outdated, Cached
      <4> QED
        BY <1>0, <1>11, <4>1 DEF RemoveWrite, Goto, InvalidationDue, TypeOK
    <3> QED
      BY <3>1, <3>2
  <2>3. ASSUME NEW v \in Worker, pc'[v] \in Holding, v \notin overtaken'
        PROVE  Current(job[v].user, job[v].context)'
    <3>1. pc[v] \in Holding /\ v \notin overtaken /\ job[v].user # job[w].user
      BY <1>0, <1>11, <2>3 DEF RemoveWrite, Goto, Overtake, Holding, TypeOK
    <3> QED
      BY <1>0, <1>11, <2>1, <3>1 DEF RemoveWrite, ReadsAreCurrent, TypeOK, Job
  <2>4. ReadsAreCurrent'
    BY <1>11, <2>3 DEF RemoveWrite, ReadsAreCurrent
  <2> QED
    BY <2>2, <2>4
<1>12. ASSUME NEW w \in Worker, Invalidate(w) PROVE Explained
  <2>1. StaleHasCause'
    <3> SUFFICES ASSUME NEW u \in User, Outdated(u)'
                 PROVE  (InvalidationDue(u) \/ u \in excused)'
      BY DEF StaleHasCause
    <3>1. u # job[w].user
      BY <1>0, <1>12 DEF Invalidate, Invalidated, NoEntry, Outdated, Cached, TypeOK
    <3>2. entry'[u] = entry[u] /\ (u \in excused' <=> u \in excused)
      BY <1>0, <1>12, <3>1 DEF Invalidate, Invalidated, TypeOK
    <3>3. InvalidationDue(u) \/ u \in excused
      BY <1>0, <1>12, <1>a, <3>2 DEF Invalidate, StaleHasCause, Outdated, Cached
    <3> QED
      BY <1>0, <1>12, <3>1, <3>2, <3>3
         DEF Invalidate, Goto, Forget, InvalidationDue, TypeOK
  <2>2. ReadsAreCurrent'
    BY <1>0, <1>12, <1>r DEF Invalidate, Goto, Forget, Holding, TypeOK
  <2> QED
    BY <2>1, <2>2
<1>13. ASSUME NEW w \in Worker, WorkerFails(w) PROVE Explained
  <2>1. StaleHasCause'
    <3> SUFFICES ASSUME NEW u \in User, Outdated(u)'
                 PROVE  (InvalidationDue(u) \/ u \in excused)'
      BY DEF StaleHasCause
    <3>1. InvalidationDue(u) \/ u \in excused
      BY <1>0, <1>13, <1>a DEF WorkerFails, StaleHasCause, Outdated, Cached
    <3> QED
      BY <1>0, <1>13, <3>1 DEF WorkerFails, Goto, Forget, InvalidationDue, TypeOK
  <2>2. ReadsAreCurrent'
    BY <1>0, <1>13, <1>r DEF WorkerFails, Goto, Forget, Holding, TypeOK
  <2> QED
    BY <2>1, <2>2
<1>14. ASSUME NEW r \in Role, NEW P \in SUBSET Perm, UpdateRole(r, P) PROVE Explained
  BY <1>0, <1>14 DEF UpdateRole, StaleHasCause, Outdated, InvalidationDue, Cached,
     ReadsAreCurrent, Current, RolesOf
<1>15. ASSUME NEW r \in Role, DeleteRole(r) PROVE Explained
  BY <1>0, <1>15 DEF DeleteRole, StaleHasCause, Outdated, InvalidationDue, Cached,
     ReadsAreCurrent, Current, RolesOf
<1>16. ASSUME NEW p \in Perm, DeletePermission(p) PROVE Explained
  BY <1>0, <1>16 DEF DeletePermission, StaleHasCause, Outdated, InvalidationDue,
     Cached, ReadsAreCurrent, Current, RolesOf
<1>17. ASSUME NEW u \in User, SetActive(u) PROVE Explained
  BY <1>0, <1>17 DEF SetActive, StaleHasCause, Outdated, InvalidationDue, Cached,
     ReadsAreCurrent, Current, RolesOf, history
<1>18. ASSUME NEW r \in Role, ReviveRole(r) PROVE Explained
  <2>1. ASSUME NEW u \in User, NEW c, <<u, r>> \notin assigned, Current(u, c)
        PROVE  Current(u, c)'
    BY <1>18, <2>1 DEF ReviveRole, Current, RolesOf
  <2>2. StaleHasCause'
    BY <1>0, <1>18, <2>1 DEF ReviveRole, StaleHasCause, Outdated, InvalidationDue, Cached
  <2>3. ReadsAreCurrent'
    BY <1>0, <1>18, <2>1 DEF ReviveRole, ReadsAreCurrent, TypeOK, Job
  <2> QED
    BY <2>2, <2>3
<1>19. CASE Tick
  <2>1. StaleHasCause'
    <3> SUFFICES ASSUME NEW u \in User, Outdated(u)'
                 PROVE  (InvalidationDue(u) \/ u \in excused)'
      BY DEF StaleHasCause
    <3>1. entry[u] \in Entry /\ entry'[u] = Aged(entry[u])
      BY <1>0, <1>19 DEF Tick, TypeOK
    <3>2. ~(entry[u].left <= 1)
      BY <3>1 DEF Outdated, Cached, Aged, NoEntry
    <3>3. entry'[u].context = entry[u].context /\ entry[u].left > 0
      BY <3>1, <3>2, PermissionCacheAssumption DEF PermissionCacheAssumption, Aged, Entry
    <3>4. Outdated(u)
      BY <1>19, <1>a, <3>3 DEF Tick, Outdated, Cached
    <3>5. \A w \in Worker : job'[w].user = job[w].user
      BY <1>0, <1>19 DEF Tick, TypeOK, Job
    <3> QED
      BY <1>0, <1>19, <3>4, <3>5 DEF Tick, StaleHasCause, InvalidationDue
  <2>2. ReadsAreCurrent'
    BY <1>0, <1>19, <1>r DEF Tick, TypeOK, Job
  <2> QED
    BY <2>1, <2>2
<1> QED
  BY <1>1, <1>2, <1>3, <1>4, <1>5, <1>6, <1>7, <1>8, <1>9, <1>10, <1>11, <1>12,
     <1>13, <1>14, <1>15, <1>16, <1>17, <1>18, <1>19
     DEF Next, Guarded, Warmer, Writer, Admin

\* A cached context with roles other than the assigned ones is due for an
\* invalidation, or a race or a failure has left it behind until it expires.
THEOREM StaleEntriesExplained == Spec => []StaleHasCause
<1>1. Init => StaleInv
  BY TypeInit DEF Init, StaleInv, StaleHasCause, Outdated, Cached, NoEntry,
     ReadsAreCurrent, Holding
<1>2. StaleInv => StaleHasCause
  BY DEF StaleInv
<1> QED
  BY <1>1, <1>2, StaleStep, PTL DEF Spec
=============================================================================
