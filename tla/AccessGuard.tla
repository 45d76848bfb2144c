----------------------------- MODULE AccessGuard -----------------------------
(***************************************************************************)
(* One guarded request from the bearer token to the handler, in any of     *)
(* several processes, with what changes meanwhile: JwtStrategy.validate    *)
(* asks the blacklist, the user's row and the permission cache, each an    *)
(* await after the other, and PermissionsGuard judges what was read.       *)
(*                                                                         *)
(* One user, and one permission it holds or not.  Both adapters are either *)
(* Redis's, shared by the processes, or maps in each of them.  Tokens do   *)
(* not expire here (AccessTokens), and an entry of the cache may end at    *)
(* any time (PermissionCache bounds when).                                 *)
(***************************************************************************)
EXTENDS Naturals

CONSTANTS Request, Process, Token,
          Open  \* the requests on routes that @Permissions does not close

ASSUME AccessGuardAssumption == Open \subseteq Request

VARIABLES
    redis,   \* REDIS_ENABLED: the providers of both adapters read it once
    active,  \* the user is neither inactive nor deleted
    held,    \* a role of the user grants the permission
    denied,  \* the blacklist each process sees
    entry,   \* the permission cache each process sees: "none", or its answer
    due,     \* processes that have changed the user's roles and not yet the cache
    at, pc, bearer,
    context, \* what each request has read of the permission
    met, missed  \* history, of Admission

world == <<redis, active, held, denied, entry, due>>
state == <<redis, active, held, denied, entry, due, at, pc, bearer, context>>
vars  == <<redis, active, held, denied, entry, due, at, pc, bearer, context,
           met, missed>>

-----------------------------------------------------------------------------
Condition == {"unrevoked", "active", "permitted"}
Guarding  == {"blacklist", "active", "get", "load", "set"}
Known     == {"yes", "no"}

TypeOK == /\ redis \in BOOLEAN /\ active \in BOOLEAN /\ held \in BOOLEAN
          /\ denied \in SUBSET (Process \X Token)
          /\ entry \in [Process -> {"none"} \cup Known]
          /\ redis => \A p, q \in Process : entry[p] = entry[q]
          /\ due \in SUBSET Process
          /\ at \in [Request -> Process]
          /\ pc \in [Request -> {"out", "warm", "inside", "refused"} \cup Guarding]
          /\ bearer \in [Request -> Token]
          /\ context \in [Request -> Known]
          /\ met \in [Request -> SUBSET Condition]
          /\ missed \in [Request -> SUBSET Condition]

(* A Mutant is what the definition after it would be with a plausible bug; *)
(* put in its place, it must break one of the properties below.            *)

\* The processes that see what an adapter of process p writes.
MutantReached(p) == {p}                  \* the wrong adapter
Reached(p) == IF redis THEN Process ELSE {p}
Put(p, what) == entry' = [q \in Process |-> IF q \in Reached(p) THEN what ELSE entry[q]]

\* findById, and what UserMapper makes of the row.
Loaded == IF held THEN "yes" ELSE "no"

\* PermissionsGuard: a route without @Permissions is open.
Judged(r, what) == IF r \in Open \/ what = "yes" THEN "inside" ELSE "refused"

MutantActiveFound == TRUE                \* the cached context taken for the user
ActiveFound == active

Unlisted(r) == <<at[r], bearer[r]>> \notin denied

-----------------------------------------------------------------------------
(* Histories *)

Copied(r, what) == entry[at[r]] = what

If(test, condition) == IF test THEN {condition} ELSE {}

Holding(r) == If(Unlisted(r), "unrevoked") \cup If(active, "active")
              \cup If(r \in Open \/ held \/ Copied(r, "yes"), "permitted")

Lacking(r) == If(~Unlisted(r), "unrevoked") \cup If(~active, "active")
              \cup If(r \notin Open /\ (~held \/ Copied(r, "no")), "permitted")

(* For Admission *)

holding == [r \in Request |-> Holding(r)]
lacking == [r \in Request |-> Lacking(r)]

Stay(r) == IF pc[r] \in Guarding THEN "waiting" ELSE IF pc[r] = "warm" THEN "out" ELSE pc[r]
stay == [r \in Request |-> Stay(r)]

Observe ==
    /\ met' = [r \in Request |->
                 IF pc'[r] \in Guarding THEN met[r] \cup holding'[r] ELSE {}]
    /\ missed' = [r \in Request |->
                    IF pc'[r] \in Guarding THEN missed[r] \cup lacking'[r] ELSE {}]

-----------------------------------------------------------------------------
Init == /\ redis \in BOOLEAN
        /\ active = TRUE /\ held \in BOOLEAN
        /\ denied = {}
        /\ entry = [p \in Process |-> "none"]
        /\ due = {}
        /\ at \in [Request -> Process]
        /\ pc = [r \in Request |-> "out"]
        /\ bearer \in [Request -> Token]
        /\ context = [r \in Request |-> "no"]
        /\ met = [r \in Request |-> {}] /\ missed = [r \in Request |-> {}]

Goto(r, label) == pc' = [pc EXCEPT ![r] = label]
Still == UNCHANGED <<at, bearer>>

\* JwtAuthGuard: the token is well signed, of type access, and not expired.
Arrive(r) == /\ pc[r] = "out"
             /\ Goto(r, "blacklist")
             /\ UNCHANGED <<world, context>> /\ Still

AskBlacklist(r) == /\ pc[r] = "blacklist"
                   /\ Goto(r, IF Unlisted(r) THEN "active" ELSE "refused")
                   /\ UNCHANGED <<world, context>> /\ Still

FindActive(r) == /\ pc[r] = "active"
                 /\ Goto(r, IF ActiveFound THEN "get" ELSE "refused")
                 /\ UNCHANGED <<world, context>> /\ Still

\* PermissionsGuard runs without another await.
CacheGet(r) == /\ pc[r] = "get"
               /\ Goto(r, IF entry[at[r]] = "none" THEN "load"
                          ELSE Judged(r, entry[at[r]]))
               /\ UNCHANGED <<world, context>> /\ Still

LoadContext(r) == /\ pc[r] = "load"
                  /\ Goto(r, IF active THEN "set" ELSE "refused")
                  /\ context' = IF active THEN [context EXCEPT ![r] = Loaded] ELSE context
                  /\ UNCHANGED world /\ Still

CacheSet(r) == /\ pc[r] = "set"
               /\ Put(at[r], context[r])
               /\ Goto(r, Judged(r, context[r]))
               /\ context' = [context EXCEPT ![r] = "no"]
               /\ UNCHANGED <<redis, active, held, denied, due>> /\ Still

\* The open route taken is logout; its second store is in AccessTokens.
Logout(r) == /\ pc[r] = "inside" /\ r \in Open
             /\ denied' = denied \cup (Reached(at[r]) \X {bearer[r]})
             /\ Goto(r, "out")
             /\ UNCHANGED <<redis, active, held, entry, due, context>> /\ Still

\* The answer of any other handler, or of the guards.
Answer(r) == /\ pc[r] \in {"inside", "refused"}
             /\ Goto(r, "out")
             /\ UNCHANGED <<world, context>> /\ Still

\* Redis or the database fails, or the client goes: no guard lets in on an error.
RequestFails(r) == /\ pc[r] \in Guarding \cup {"warm"}
                   /\ Goto(r, "out")
                   /\ context' = [context EXCEPT ![r] = "no"]
                   /\ UNCHANGED world /\ Still

(* What others do meanwhile *)

\* A login or a refresh of the user reads its row, and later warms the cache.
WarmRead(r) == /\ pc[r] = "out" /\ active
               /\ Goto(r, "warm")
               /\ context' = [context EXCEPT ![r] = Loaded]
               /\ UNCHANGED world /\ Still

WarmSet(r) == /\ pc[r] = "warm"
              /\ Put(at[r], context[r])
              /\ Goto(r, "out")
              /\ context' = [context EXCEPT ![r] = "no"]
              /\ UNCHANGED <<redis, active, held, denied, due>> /\ Still

\* AssignRoleToUser and RemoveRoleFromUser in process p, first the table ...
Assign(p) == /\ held' = ~held
             /\ due' = due \cup {p}
             /\ UNCHANGED <<redis, active, denied, entry, pc, context>> /\ Still

\* ... and then the cache.
Invalidate(p) == /\ p \in due
                 /\ due' = due \ {p}
                 /\ Put(p, "none")
                 /\ UNCHANGED <<redis, active, held, denied, pc, context>> /\ Still

InvalidateFails(p) == /\ p \in due
                      /\ due' = due \ {p}
                      /\ UNCHANGED <<redis, active, held, denied, entry, pc, context>>
                      /\ Still

\* A role is updated or deleted, or a permission: the cache is left alone.
ChangeRole == /\ held' = ~held
              /\ UNCHANGED <<redis, active, denied, entry, due, pc, context>> /\ Still

SetActive == /\ active' = ~active
             /\ UNCHANGED <<redis, held, denied, entry, due, pc, context>> /\ Still

\* The lifetime of the entry that process p sees is over.
MutantEnded(p) == UNCHANGED entry
Ended(p) == Put(p, "none")
EntryEnds(p) == /\ entry[p] # "none"
                /\ Ended(p)
                /\ UNCHANGED <<redis, active, held, denied, due, pc, context>> /\ Still

\* What was in the memory of process p is gone.
Restart(p) ==
    /\ pc' = [r \in Request |-> IF at[r] = p THEN "out" ELSE pc[r]]
    /\ context' = [r \in Request |-> IF at[r] = p THEN "no" ELSE context[r]]
    /\ due' = due \ {p}
    /\ IF redis THEN UNCHANGED <<entry, denied>>
       ELSE Put(p, "none") /\ denied' = denied \ ({p} \X Token)
    /\ UNCHANGED <<redis, active, held>> /\ Still

-----------------------------------------------------------------------------
GuardStep(r) == \/ AskBlacklist(r) \/ FindActive(r) \/ CacheGet(r)
                \/ LoadContext(r) \/ CacheSet(r)

Step == \/ \E r \in Request : \/ Arrive(r) \/ GuardStep(r) \/ Logout(r) \/ Answer(r)
                              \/ WarmRead(r) \/ WarmSet(r) \/ RequestFails(r)
        \/ \E p \in Process : \/ Assign(p) \/ Invalidate(p) \/ InvalidateFails(p)
                              \/ EntryEnds(p) \/ Restart(p)
        \/ ChangeRole \/ SetActive

Next == Step /\ Observe

\* A query in flight is answered or fails, and lifetimes end.
Fairness == /\ \A r \in Request : WF_state(GuardStep(r) \/ WarmSet(r) \/ RequestFails(r))
            /\ \A p \in Process : WF_state(EntryEnds(p))

Spec == Init /\ [][Next]_vars /\ Fairness

-----------------------------------------------------------------------------
(* What holds *)

\* The guards in this order, with these awaits between them, let in only a
\* request whose token was not logged out, whose user was active and whose
\* permission was held or cached, each at an instant of its stay, and refuse
\* none that met all of them throughout.
Guards == INSTANCE Admission WITH Visitor <- Request
KeepsAdmission == Guards!Spec

\* Some process caches the permission, or a request carries it to a cache.
Granting == \/ \E p \in Process : entry[p] = "yes"
            \/ \E r \in Request : pc[r] \in {"set", "warm"} /\ context[r] = "yes"

\* A permission that is lost for good, by whatever request in whatever process, is
\* gone from some time on, invalidated there or not.
LossTakesEffect == <>[]~held => <>[]~Granting
=============================================================================
