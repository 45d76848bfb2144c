--------------------------- MODULE PermissionCache ---------------------------
(***************************************************************************)
(* What a user may do: the RBAC tables, the per-user permission cache in   *)
(* front of them, the guard that reads through it and the handlers that    *)
(* write behind it.                                                        *)
(*                                                                         *)
(* Workers are the handlers in flight; each action runs from one await to  *)
(* the next, and a worker that has ended serves another request.  Time     *)
(* only passes in Tick, as ages and remaining lifetimes, so the model has  *)
(* no last second.  The cache is one store shared by all instances.        *)
(***************************************************************************)
EXTENDS Naturals

CONSTANTS User, Role, Perm,
          SuperAdmin,  \* SUPER_ADMIN_ROLE, granted everything by name
          Worker,      \* handlers that can be in flight at once
          Ttl,         \* PERMISSION_CACHE_TTL_SEC
          Delay        \* bound on the time from reading a context to using it

ASSUME PermissionCacheAssumption == /\ SuperAdmin \in Role
                                    /\ Ttl \in Nat \ {0}
                                    /\ Delay \in Nat

VARIABLES
    active,     \* users that are neither inactive nor deleted
    roles,      \* roles that are not soft-deleted
    assigned,   \* user_roles
    grants,     \* role_permissions
    entry,      \* the cache: per user a context and the time it has left
    pc,         \* what each worker does next
    job,        \* what each worker was asked and has read
    sinceHeld,  \* history: time since a permission now lost was last held
    overtaken,  \* history: workers whose context a change of roles has outrun
    excused     \* history: users whose entry a race, a failure or a revival left behind

tables  == <<active, roles, assigned, grants>>
history == <<sinceHeld, overtaken, excused>>
vars    == <<active, roles, assigned, grants, entry, pc, job, sinceHeld,
             overtaken, excused>>

-----------------------------------------------------------------------------
Limit == Ttl + Delay

Context == [roles : SUBSET Role, perms : SUBSET Perm]
Entry   == [left : 0 .. Ttl, context : Context, age : Nat]
Job     == [user : User, role : Role, perm : Perm,
            context : Context, age : 0 .. Delay]

Rest    == {"idle", "allowed"}
Holding == {"set", "warm"}
Writing == {"assign", "remove", "invalidate"}
Labels  == Rest \cup Holding \cup Writing \cup {"get", "load"}

NoContext == [roles |-> {}, perms |-> {}]
NoEntry   == [left |-> 0, context |-> NoContext, age |-> 0]

TypeOK == /\ active \in SUBSET User
          /\ roles \in SUBSET Role
          /\ assigned \in SUBSET (User \X Role)
          /\ grants \in SUBSET (Role \X Perm)
          /\ entry \in [User -> Entry]
          /\ pc \in [Worker -> Labels]
          /\ job \in [Worker -> Job]
          /\ sinceHeld \in [User -> [Perm -> 0 .. Limit]]
          /\ overtaken \in SUBSET Worker
          /\ excused \in SUBSET User

-----------------------------------------------------------------------------
(* Contexts and entries *)
(* A Mutant is what the definition after it would be with a plausible bug; *)
(* put in its place, it must break one of the properties below.            *)

\* UserMapper.toDomain over the joined rows; a soft-deleted role joins as null.
RolesOf(u) == {r \in roles : <<u, r>> \in assigned}
ContextOf(u) == [roles |-> RolesOf(u),
                 perms |-> {p \in Perm : \E r \in RolesOf(u) : <<r, p>> \in grants}]

\* hasAllPermissions for a handler that requires p.
Allows(context, p) == SuperAdmin \in context.roles \/ p \in context.perms
Holds(u, p) == Allows(ContextOf(u), p)

Cached(u) == entry[u].left > 0

MutantLifetime == Ttl + 1             \* off by one
Lifetime == Ttl
Put(u, w) == entry' = [entry EXCEPT ![u] = [left |-> Lifetime,
                                            context |-> job[w].context,
                                            age |-> job[w].age]]

\* An entry ages with the context in it, and is gone when its time is up.
MutantAged(e) == e                    \* no expiry
Aged(e) == IF e.left <= 1 THEN NoEntry
           ELSE [e EXCEPT !.left = @ - 1, !.age = @ + 1]

-----------------------------------------------------------------------------
(* Histories *)

\* Before a step of the tables: what is held is held until now.
Note == sinceHeld' = [u \in User |-> [p \in Perm |->
                         IF Holds(u, p) THEN 0 ELSE sinceHeld[u][p]]]

\* The assignments of u change under the workers that have read them.
Overtake(u) == overtaken' = overtaken \cup
                   {w \in Worker : pc[w] \in Holding /\ job[w].user = u}

\* Worker w writes the entry of u: clean, or left behind by an assignment.
Settle(u, w) == /\ excused' = IF w \in overtaken THEN excused \cup {u}
                              ELSE excused \ {u}
                /\ overtaken' = overtaken \ {w}

-----------------------------------------------------------------------------
Init == /\ active = User
        /\ roles = Role
        /\ assigned \in SUBSET (User \X {SuperAdmin})
        /\ grants = {}
        /\ entry = [u \in User |-> NoEntry]
        /\ pc = [w \in Worker |-> "idle"]
        /\ job \in [Worker -> {j \in Job : /\ j.role = SuperAdmin
                                           /\ j.context = NoContext
                                           /\ j.age = 0}]
        /\ sinceHeld = [u \in User |-> [p \in Perm |-> Limit]]
        /\ overtaken = {}
        /\ excused = {}

Goto(w, label) == pc' = [pc EXCEPT ![w] = label]

\* The answer of PermissionsGuard, given without another await.
Answer(w, context) == Goto(w, IF Allows(context, job[w].perm) THEN "allowed" ELSE "idle")

\* A handler that ends drops what it has read.
Forget(w) == job' = [job EXCEPT ![w].role = SuperAdmin, ![w].context = NoContext,
                                ![w].age = 0]

(* A guarded request: JwtStrategy.validate, then PermissionsGuard *)

\* findActiveById; the token's signature, expiry and blacklist are checked.
FindActive(w) == /\ pc[w] \in Rest
                 /\ \E u \in active, p \in Perm :
                      job' = [job EXCEPT ![w].user = u, ![w].perm = p]
                 /\ Goto(w, "get")
                 /\ UNCHANGED <<tables, entry, history>>

CacheGet(w) == /\ pc[w] = "get"
               /\ IF Cached(job[w].user)
                  THEN Answer(w, entry[job[w].user].context)
                  ELSE Goto(w, "load")
               /\ UNCHANGED <<tables, entry, job, history>>

\* findById.  A user that has become inactive is refused, and touches nothing.
LoadContext(w) ==
    /\ pc[w] = "load"
    /\ IF job[w].user \in active
       THEN /\ Goto(w, "set")
            /\ job' = [job EXCEPT ![w].context = ContextOf(job[w].user), ![w].age = 0]
       ELSE Goto(w, "idle") /\ job' = job
    /\ UNCHANGED <<tables, entry, history>>

CacheSet(w) == /\ pc[w] = "set"
               /\ Put(job[w].user, w)
               /\ Settle(job[w].user, w)
               /\ Answer(w, job[w].context)
               /\ Forget(w)
               /\ UNCHANGED <<tables, sinceHeld>>

(* Login and refresh write the cache too *)

\* findByEmailWithRolesAndPermissions, before the password is compared.
WarmRead(w) ==
    /\ pc[w] \in Rest
    /\ \E u \in active :
         job' = [job EXCEPT ![w].user = u, ![w].context = ContextOf(u), ![w].age = 0]
    /\ Goto(w, "warm")
    /\ UNCHANGED <<tables, entry, history>>

WarmSet(w) == /\ pc[w] = "warm"
              /\ Put(job[w].user, w)
              /\ Settle(job[w].user, w)
              /\ Goto(w, "idle")
              /\ Forget(w)
              /\ UNCHANGED <<tables, sinceHeld>>

(* AssignRoleToUser and RemoveRoleFromUser: the table, then the cache *)

AssignFind(w) == /\ pc[w] \in Rest
                 /\ \E u \in User, r \in roles :
                      /\ <<u, r>> \notin assigned
                      /\ job' = [job EXCEPT ![w].user = u, ![w].role = r]
                 /\ Goto(w, "assign")
                 /\ UNCHANGED <<tables, entry, history>>

\* The unique key refuses a pair assigned meanwhile: then WorkerFails.
AssignWrite(w) == /\ pc[w] = "assign"
                  /\ <<job[w].user, job[w].role>> \notin assigned
                  /\ assigned' = assigned \cup {<<job[w].user, job[w].role>>}
                  /\ Goto(w, "invalidate")
                  /\ Note /\ Overtake(job[w].user)
                  /\ UNCHANGED <<active, roles, grants, entry, job, excused>>

RemoveFind(w) == /\ pc[w] \in Rest
                 /\ \E u \in User, r \in Role :
                      /\ <<u, r>> \in assigned
                      /\ job' = [job EXCEPT ![w].user = u, ![w].role = r]
                 /\ Goto(w, "remove")
                 /\ UNCHANGED <<tables, entry, history>>

RemoveWrite(w) == /\ pc[w] = "remove"
                  /\ assigned' = assigned \ {<<job[w].user, job[w].role>>}
                  /\ Goto(w, "invalidate")
                  /\ Note /\ Overtake(job[w].user)
                  /\ UNCHANGED <<active, roles, grants, entry, job, excused>>

MutantInvalidated(u) == entry         \* no invalidation
Invalidated(u) == [entry EXCEPT ![u] = NoEntry]
Invalidate(w) == /\ pc[w] = "invalidate"
                 /\ entry' = Invalidated(job[w].user)
                 /\ excused' = excused \ {job[w].user}
                 /\ Goto(w, "idle")
                 /\ Forget(w)
                 /\ UNCHANGED <<tables, sinceHeld, overtaken>>

\* The database or Redis fails, or the process dies: a table write that was
\* committed stays, and the invalidation due after it is never made.
WorkerFails(w) ==
    /\ pc[w] \notin Rest
    /\ Goto(w, "idle")
    /\ excused' = IF pc[w] = "invalidate" THEN excused \cup {job[w].user} ELSE excused
    /\ overtaken' = overtaken \ {w}
    /\ Forget(w)
    /\ UNCHANGED <<tables, entry, sinceHeld>>

(* Administration that leaves the cache alone: one write each *)

\* UpdateRole: replacePermissions is a transaction, made even if the role was
\* deleted after it was found.
UpdateRole(r, P) == /\ grants' = {g \in grants : g[1] # r} \cup ({r} \X P)
                    /\ Note
                    /\ UNCHANGED <<active, roles, assigned, entry, pc, job,
                                   overtaken, excused>>

DeleteRole(r) == /\ r \in roles
                 /\ roles' = roles \ {r}
                 /\ Note
                 /\ UNCHANGED <<active, assigned, grants, entry, pc, job,
                                overtaken, excused>>

\* UpdateRole again: save writes the deleted_at that it read, so an update that
\* was overtaken by a delete undoes it.  Entries lack the role from then on.
ReviveRole(r) ==
    /\ roles' = roles \cup {r}
    /\ excused' = excused \cup {u \in User : <<u, r>> \in assigned}
    /\ overtaken' = overtaken \cup {w \in Worker : /\ pc[w] \in Holding
                                                   /\ <<job[w].user, r>> \in assigned}
    /\ Note
    /\ UNCHANGED <<active, assigned, grants, entry, pc, job>>

\* Deleting a permission deletes the rows of role_permissions with it.
DeletePermission(p) ==
    /\ grants' = {g \in grants : g[2] # p}
    /\ Note
    /\ UNCHANGED <<active, roles, assigned, entry, pc, job,
                   overtaken, excused>>

SetActive(u) ==
    /\ active' = IF u \in active THEN active \ {u} ELSE active \cup {u}
    /\ UNCHANGED <<roles, assigned, grants, entry, pc, job, history>>

(* Time *)

Tick == /\ \A w \in Worker : pc[w] \in Holding => job[w].age < Delay
        /\ entry' = [u \in User |-> Aged(entry[u])]
        /\ job' = [w \in Worker |-> IF pc[w] \in Holding
                                    THEN [job[w] EXCEPT !.age = @ + 1] ELSE job[w]]
        /\ sinceHeld' = [u \in User |-> [p \in Perm |->
                            IF Holds(u, p) THEN 0
                            ELSE IF sinceHeld[u][p] < Limit
                            THEN sinceHeld[u][p] + 1 ELSE Limit]]
        /\ UNCHANGED <<tables, pc, overtaken, excused>>

Guarded(w) == FindActive(w) \/ CacheGet(w) \/ LoadContext(w) \/ CacheSet(w)
Warmer(w)  == WarmRead(w) \/ WarmSet(w)
Writer(w)  == \/ AssignFind(w) \/ AssignWrite(w)
              \/ RemoveFind(w) \/ RemoveWrite(w) \/ Invalidate(w)
Admin == \/ \E r \in Role : DeleteRole(r) \/ \E P \in SUBSET Perm : UpdateRole(r, P)
         \/ \E p \in Perm : DeletePermission(p)
         \/ \E u \in User : SetActive(u)

Next == \/ \E w \in Worker : Guarded(w) \/ Warmer(w) \/ Writer(w) \/ WorkerFails(w)
        \/ Admin
        \/ \E r \in Role : ReviveRole(r)
        \/ Tick

Spec == Init /\ [][Next]_vars

-----------------------------------------------------------------------------
(* What holds *)

\* However it is lost (role removed, deleted, stripped of the permission, or
\* the permission deleted), and whatever races with the cache, a permission
\* is not granted to a user who has not held it for Ttl + Delay.
GrantIsRecent ==
    [][\A w \in Worker :
          pc[w] # "allowed" /\ pc'[w] = "allowed" =>
              \/ Holds(job[w].user, job[w].perm)
              \/ sinceHeld[job[w].user][job[w].perm] < Ttl + Delay]_vars

\* A context has the assigned roles if they are all assigned and none that is
\* assigned and not deleted is missing.
Current(u, context) == /\ \A r \in context.roles : <<u, r>> \in assigned
                       /\ RolesOf(u) \subseteq context.roles

Outdated(u) == Cached(u) /\ ~Current(u, entry[u].context)

InvalidationDue(u) == \E w \in Worker : pc[w] = "invalidate" /\ job[w].user = u

\* An entry whose roles are not the assigned ones is about to be invalidated,
\* was written by a handler that read before the change and wrote after it,
\* lost its invalidation to a failure, or lacks a role that has come back.
StaleHasCause == \A u \in User :
    Outdated(u) => InvalidationDue(u) \/ u \in excused
=============================================================================
