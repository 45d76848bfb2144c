------------------------------ MODULE RoleAdmin ------------------------------
(***************************************************************************)
(* Role and permission administration over the tables roles, permissions   *)
(* and role_permissions.                                                   *)
(*                                                                         *)
(* A role is known by its name, a unique key that soft-deleted rows keep.  *)
(* Deleted rows of permissions are gone, which frees their code; their id  *)
(* is not given again, but may be inserted again by a late save.  Requests *)
(* interleave at every await and run once.  Descriptions are left out: a   *)
(* save that changes nothing else changes nothing here.                    *)
(***************************************************************************)
EXTENDS Naturals

CONSTANTS Name, Code, Perm, Request

VARIABLES role,    \* roles: the state of the row of each name
          code,    \* permissions: the id of the row of each code
          issued,  \* the ids that permissions has given
          grants,  \* role_permissions
          pc,      \* what each request does next, or how it ended
          req      \* what each request asks and has read

tables == <<role, code, issued, grants>>
vars   == <<role, code, issued, grants, pc, req>>

-----------------------------------------------------------------------------
None == "none"

ASSUME RoleAdminAssumption == None \notin Perm

RoleKinds == {"createrole", "updaterole", "deleterole"}
PermKinds == {"createperm", "updateperm", "deleteperm"}

RequestState == [kind : RoleKinds \cup PermKinds \cup {None},
                 name : Name \cup {None},
                 code : Code \cup {None},
                 perm : Perm \cup {None},   \* id in the path
                 given : BOOLEAN,           \* permissionIds is in the body
                 wanted : SUBSET Perm,      \* permissionIds
                 found : SUBSET Perm]       \* those syncPermissions finds

Blank == [kind |-> None, name |-> None, code |-> None, perm |-> None,
          given |-> FALSE, wanted |-> {}, found |-> {}]

InFlight == {"insert", "sync", "link", "replace", "read", "load", "write", "remove",
             "add", "permread", "permload", "permadd", "permremove"}
Ended    == {"ok", "conflict", "notfound", "error"}

TypeOK == /\ role \in [Name -> {"absent", "live", "deleted"}]
          /\ code \in [Code -> Perm \cup {None}]
          /\ issued \in SUBSET Perm
          /\ grants \in SUBSET (Name \X Perm)
          /\ pc \in [Request -> {"idle"} \cup InFlight \cup Ended]
          /\ req \in [Request -> RequestState]

-----------------------------------------------------------------------------
(* A Mutant is what the definition after it would be with a plausible bug; *)
(* put in its place, it must break one of the properties below.            *)

\* nameExists counts the rows that are not deleted.
NameExists(n) == role[n] = "live"

MutantNameTaken(n) == role[n] = "live"      \* the key spares deleted rows
NameTaken(n) == role[n] # "absent"

Ids == {p \in Perm : \E c \in Code : code[c] = p}

\* The foreign key to permissions, and the unique key (role_id, permission_id).
MutantLinkable(n, S) == \A p \in S : <<n, p>> \notin grants   \* no foreign key
Linkable(n, S) == S \subseteq Ids /\ \A p \in S : <<n, p>> \notin grants

GrantsOf(n) == {p \in Perm : <<n, p>> \in grants}
MutantWithout(n) == {}                      \* DELETE without WHERE
Without(n) == {g \in grants : g[1] # n}

MutantLinks(n, S) == S \X {n}               \* the columns are swapped
Links(n, S) == {n} \X S

MutantReplaced(n, S) == grants \cup Links(n, S)   \* the old rows are not deleted
Replaced(n, S) == Without(n) \cup Links(n, S)

\* The rows of role_permissions go with the permission: ON DELETE CASCADE.
MutantCascaded(p) == grants                 \* they stay
Cascaded(p) == {g \in grants : g[2] # p}

-----------------------------------------------------------------------------
\* Roles and permissions that are there already, granted to no one yet.
Init == /\ role \in [Name -> {"absent", "live"}]
        /\ code \in [Code -> Perm \cup {None}]
        /\ \A c, d \in Code : code[c] = code[d] => c = d \/ code[c] = None
        /\ issued = Ids
        /\ grants = {}
        /\ pc = [r \in Request |-> "idle"]
        /\ req = [r \in Request |-> Blank]

Goto(r, label) == pc' = [pc EXCEPT ![r] = label]

\* A role that has been written is read back for the answer, which may fail: the
\* read changes nothing, and is part of the write before it.
Answer(r) == \E label \in {"ok", "error"} : Goto(r, label)

(* Create a role: two writes, of the role and of its permissions *)

RoleCheck(r) ==
    /\ pc[r] = "idle"
    /\ \E n \in Name, S \in SUBSET issued :
         /\ req' = [req EXCEPT ![r].kind = "createrole", ![r].name = n, ![r].wanted = S]
         /\ Goto(r, IF NameExists(n) THEN "conflict" ELSE "insert")
    /\ UNCHANGED tables

RoleInsert(r) == /\ pc[r] = "insert"
                 /\ ~NameTaken(req[r].name)
                 /\ role' = [role EXCEPT ![req[r].name] = "live"]
                 /\ IF req[r].wanted = {} THEN Answer(r) ELSE Goto(r, "sync")
                 /\ UNCHANGED <<code, issued, grants, req>>

\* ER_DUP_ENTRY is no ApplicationException: the answer is a 500.
RoleDuplicate(r) == /\ pc[r] = "insert"
                    /\ NameTaken(req[r].name)
                    /\ Goto(r, "error")
                    /\ UNCHANGED <<tables, req>>

SyncFind(r) == /\ pc[r] = "sync"
               /\ req' = [req EXCEPT ![r].found = req[r].wanted \cap Ids]
               /\ Goto(r, IF req[r].wanted \cap Ids = {} THEN "ok" ELSE "link")
               /\ UNCHANGED tables

SyncSave(r) ==
    /\ pc[r] = "link"
    /\ IF Linkable(req[r].name, req[r].found)
       THEN grants' = grants \cup Links(req[r].name, req[r].found) /\ Answer(r)
       ELSE grants' = grants /\ Goto(r, "error")
    /\ UNCHANGED <<role, code, issued, req>>

(* Update a role: its permissions, in a transaction, and then the row *)

RoleFind(r) ==
    /\ pc[r] = "idle"
    /\ \E n \in Name, given \in BOOLEAN, S \in SUBSET issued :
         /\ given \/ S = {}
         /\ req' = [req EXCEPT ![r].kind = "updaterole", ![r].name = n,
                               ![r].given = given, ![r].wanted = S]
         /\ Goto(r, IF role[n] # "live" THEN "notfound"
                    ELSE IF given THEN "replace" ELSE "read")
    /\ UNCHANGED tables

ReplacePermissions(r) ==
    /\ pc[r] = "replace"
    /\ grants' = Replaced(req[r].name, req[r].wanted \cap Ids)
    /\ Goto(r, "read")
    /\ UNCHANGED <<role, code, issued, req>>

RoleRead(r) == /\ pc[r] = "read" /\ req[r].kind = "updaterole"
               /\ Goto(r, IF role[req[r].name] = "live" THEN "load" ELSE "error")
               /\ UNCHANGED <<tables, req>>

\* save reads the row again; a deleted_at that is not null any more differs
\* from the null that was read, and is written back.
RoleSaveLoad(r) == /\ pc[r] = "load"
                   /\ Goto(r, IF role[req[r].name] = "live" THEN "ok" ELSE "write")
                   /\ UNCHANGED <<tables, req>>

RoleSaveWrite(r) == /\ pc[r] = "write"
                    /\ role' = [role EXCEPT ![req[r].name] = "live"]
                    /\ Answer(r)
                    /\ UNCHANGED <<code, issued, grants, req>>

(* Delete a role *)

RoleDeleteFind(r) ==
    /\ pc[r] = "idle"
    /\ \E n \in Name :
         /\ req' = [req EXCEPT ![r].kind = "deleterole", ![r].name = n]
         /\ Goto(r, IF role[n] = "live" THEN "read" ELSE "notfound")
    /\ UNCHANGED tables

RoleDeleteRead(r) == /\ pc[r] = "read" /\ req[r].kind = "deleterole"
                     /\ Goto(r, IF role[req[r].name] = "live" THEN "remove" ELSE "error")
                     /\ UNCHANGED <<tables, req>>

RoleSoftRemove(r) == /\ pc[r] = "remove"
                     /\ role' = [role EXCEPT ![req[r].name] = "deleted"]
                     /\ Goto(r, "ok")
                     /\ UNCHANGED <<code, issued, grants, req>>

(* Permissions *)

CodeCheck(r) ==
    /\ pc[r] = "idle"
    /\ \E c \in Code :
         /\ req' = [req EXCEPT ![r].kind = "createperm", ![r].code = c]
         /\ Goto(r, IF code[c] # None THEN "conflict" ELSE "add")
    /\ UNCHANGED tables

CodeInsert(r) == /\ pc[r] = "add"
                 /\ code[req[r].code] = None
                 /\ \E p \in Perm \ issued : /\ code' = [code EXCEPT ![req[r].code] = p]
                                             /\ issued' = issued \cup {p}
                 /\ Goto(r, "ok")
                 /\ UNCHANGED <<role, grants, req>>

CodeDuplicate(r) == /\ pc[r] = "add"
                    /\ code[req[r].code] # None
                    /\ Goto(r, "error")
                    /\ UNCHANGED <<tables, req>>

PermFind(r) ==
    /\ pc[r] = "idle"
    /\ \E p \in issued, kind \in {"updateperm", "deleteperm"} :
         /\ req' = [req EXCEPT ![r].kind = kind, ![r].perm = p]
         /\ Goto(r, IF p \in Ids THEN "permread" ELSE "notfound")
    /\ UNCHANGED tables

PermRead(r) ==
    /\ pc[r] = "permread"
    /\ IF req[r].perm \in Ids
       THEN /\ \E c \in Code : /\ code[c] = req[r].perm
                               /\ req' = [req EXCEPT ![r].code = c]
            /\ Goto(r, IF req[r].kind = "updateperm" THEN "permload" ELSE "permremove")
       ELSE req' = req /\ Goto(r, "error")
    /\ UNCHANGED tables

\* save reads the row again; an entity without a row is inserted.
PermSaveLoad(r) == /\ pc[r] = "permload"
                   /\ Goto(r, IF req[r].perm \in Ids THEN "ok" ELSE "permadd")
                   /\ UNCHANGED <<tables, req>>

PermReinsert(r) == /\ pc[r] = "permadd"
                   /\ IF code[req[r].code] = None /\ req[r].perm \notin Ids
                      THEN /\ code' = [code EXCEPT ![req[r].code] = req[r].perm]
                           /\ Goto(r, "ok")
                      ELSE code' = code /\ Goto(r, "error")
                   /\ UNCHANGED <<role, issued, grants, req>>

PermRemove(r) == /\ pc[r] = "permremove"
                 /\ code' = [c \in Code |-> IF code[c] = req[r].perm THEN None ELSE code[c]]
                 /\ grants' = Cascaded(req[r].perm)
                 /\ Goto(r, "ok")
                 /\ UNCHANGED <<role, issued, req>>

\* A query fails, or the process dies.
RequestFails(r) == /\ pc[r] \in InFlight
                   /\ Goto(r, "error")
                   /\ UNCHANGED <<tables, req>>

RoleStep(r) == \/ RoleCheck(r) \/ RoleInsert(r) \/ RoleDuplicate(r)
               \/ SyncFind(r) \/ SyncSave(r)
               \/ RoleFind(r) \/ ReplacePermissions(r) \/ RoleRead(r)
               \/ RoleSaveLoad(r) \/ RoleSaveWrite(r)
               \/ RoleDeleteFind(r) \/ RoleDeleteRead(r) \/ RoleSoftRemove(r)
PermStep(r) == \/ CodeCheck(r) \/ CodeInsert(r) \/ CodeDuplicate(r)
               \/ PermFind(r) \/ PermRead(r)
               \/ PermSaveLoad(r) \/ PermReinsert(r) \/ PermRemove(r)

Next == \E r \in Request : RoleStep(r) \/ PermStep(r) \/ RequestFails(r)

Spec == Init /\ [][Next]_vars

-----------------------------------------------------------------------------
(* What holds *)

\* However creating, replacing and deleting interleave, a role is granted only
\* permissions that exist: one deleted between syncPermissions' find and its
\* save is not granted, and one that comes back comes back granted to no role.
GrantsExist == \A g \in grants : g[2] \in Ids /\ role[g[1]] # "absent"

\* A role never has the permissions of two updates: what one replacement did
\* not ask for is gone, but for what the request that created the role adds.
Asked(n, kind) == {{}} \cup {req[r].wanted : r \in {q \in Request : /\ req[q].name = n
                                                                  /\ req[q].kind = kind}}
OneReplacement ==
    \A n \in Name : \E S \in Asked(n, "updaterole"), T \in Asked(n, "createrole") :
        GrantsOf(n) \subseteq S \cup T

\* A deleted role comes back only through the save of an update, never through
\* a create, although nameExists passes its name as free.
OnlySaveRevives ==
    [][\A n \in Name :
          role[n] = "deleted" /\ role'[n] # "deleted" =>
              \E r \in Request : req[r].name = n /\ req[r].kind = "updaterole"
                                 /\ pc[r] = "write" /\ pc'[r] \in {"ok", "error"}]_vars

-----------------------------------------------------------------------------
(* What the other modules take administration to be *)

ToSeed(n) == INSTANCE Seed WITH
    superAdmin <- role[n], grants <- GrantsOf(n), admin <- "live", holds <- FALSE,
    PermissionCodes <- {}, Process <- {}, at <- <<>>, codes <- <<>>, missing <- <<>>,
    quiet <- {}, alone <- {}

\* Whichever role SUPER_ADMIN is, its row, its grants and the permissions change
\* together only in the ways that Seed reckons with while it runs.
SeedReckonsWith ==
    [][\A n \in Name : UNCHANGED ToSeed(n)!tables \/ ToSeed(n)!Administration]_vars

Nobody == [u \in {} |-> 0]
ToCache == INSTANCE PermissionCache WITH
    roles <- {n \in Name : role[n] = "live"}, active <- {}, assigned <- {},
    User <- {}, Role <- Name \cup {None}, SuperAdmin <- None, Worker <- {},
    Ttl <- 1, Delay <- 0,
    entry <- Nobody, pc <- Nobody, job <- Nobody, sinceHeld <- Nobody,
    overtaken <- {}, excused <- {}

\* The roles that are live and what they are granted change only in the ways that
\* PermissionCache reckons with behind the cache.
CacheReckonsWith ==
    [][UNCHANGED ToCache!tables \/ ToCache!Admin \/ \E n \in Name : ToCache!ReviveRole(n)]_vars
=============================================================================
