-------------------------------- MODULE Seed --------------------------------
(***************************************************************************)
(* The seed script: the SUPER_ADMIN role, the permission codes, the grants *)
(* of all permissions to the role, the administrator and his assignment.   *)
(* Each is looked for and added if it is not there, with an await between  *)
(* the two, and without a transaction.  Seeds may run side by side, die    *)
(* anywhere and be run again, while the administration changes the tables. *)
(*                                                                         *)
(* Roles and users are soft-deleted and keep their unique key.  A deleted  *)
(* permission is gone; its code can be used again, its id only by a late   *)
(* save of the permission.                                                 *)
(***************************************************************************)
EXTENDS Naturals

CONSTANTS Code,          \* codes that a permission can have
          PermissionCodes,
          Perm,          \* ids
          Process        \* seeds that run at one time

None == "none"
ASSUME SeedAssumption == PermissionCodes \subseteq Code /\ None \notin Perm

VARIABLES superAdmin,  \* the row of the SUPER_ADMIN role
          code,        \* permissions: the id of the row of each code
          issued,      \* the ids that permissions has given
          grants,      \* role_permissions of SUPER_ADMIN
          admin,       \* the row of SEED_ADMIN_EMAIL
          holds,       \* user_roles has the administrator as SUPER_ADMIN
          at,          \* what each seed does next
          codes,       \* the codes each has yet to see to, the next one first
          missing,     \* the permissions each has yet to grant
          quiet,       \* history: seeds no administration has disturbed
          alone        \* history: seeds no other seed has run beside

permissions == <<code, issued>>
history == <<quiet, alone>>
tables == <<superAdmin, permissions, grants, admin, holds>>
seedVars == <<superAdmin, code, issued, grants, admin, holds, at, codes, missing,
              quiet, alone>>

-----------------------------------------------------------------------------
Row == {"absent", "live", "deleted"}

AtRest  == {"idle", "done", "refused"}
Running == {"addrole", "codes", "addcode", "granted", "grant",
            "adduser", "assigned", "assign"}

Ids == {p \in Perm : \E c \in Code : code[c] = p}

SeedTypeOK ==
    /\ superAdmin \in Row /\ admin \in Row
    /\ code \in [Code -> Perm \cup {None}]
    /\ issued \in SUBSET Perm
    /\ grants \in SUBSET Ids
    /\ holds \in BOOLEAN
    /\ at \in [Process -> AtRest \cup Running]
    /\ codes \in [Process -> SUBSET PermissionCodes]
    /\ missing \in [Process -> SUBSET Perm]
    /\ quiet \in SUBSET Process /\ alone \in SUBSET Process

SeedInit ==
    /\ superAdmin = "absent" /\ admin = "absent"
    /\ code = [c \in Code |-> None]
    /\ issued = {} /\ grants = {}
    /\ holds = FALSE
    /\ at = [s \in Process |-> "idle"]
    /\ codes = [s \in Process |-> {}]
    /\ missing = [s \in Process |-> {}]
    /\ quiet = {} /\ alone = {}

MoveTo(s, label) == at' = [at EXCEPT ![s] = label]

\* A Mutant is what the definition after it would be with a plausible bug; put
\* in its place, it must break one of the properties below.
MutantAllPerms == {p \in Perm : \E c \in PermissionCodes : code[c] = p}
AllPerms == Ids                         \* permissionRepo.find()

MutantLacking(S) == S                   \* the grants there are are forgotten
Lacking(S) == S \ grants                \* existingPermIds

MutantCascaded(p) == grants             \* the grants stay
Cascaded(p) == grants \ {p}             \* ON DELETE CASCADE

-----------------------------------------------------------------------------
(* The seed, from one await to the next *)

FindRole(s) ==
    /\ at[s] \in AtRest
    /\ MoveTo(s, IF superAdmin = "live" THEN "codes" ELSE "addrole")
    /\ codes' = [codes EXCEPT ![s] = PermissionCodes]
    /\ quiet' = quiet \cup {s}
    /\ alone' = IF \A q \in Process \ {s} : at[q] \in AtRest THEN {s} ELSE {}
    /\ UNCHANGED <<tables, missing>>

AddRole(s) == /\ at[s] = "addrole"
              /\ superAdmin = "absent"
              /\ superAdmin' = "live"
              /\ MoveTo(s, "codes")
              /\ UNCHANGED <<permissions, grants, admin, holds, codes, missing, history>>

\* The codes in their order.
NextCode(s) == CHOOSE c \in codes[s] : TRUE

FindCode(s) ==
    /\ at[s] = "codes" /\ codes[s] # {}
    /\ IF code[NextCode(s)] # None
       THEN codes' = [codes EXCEPT ![s] = @ \ {NextCode(s)}] /\ at' = at
       ELSE codes' = codes /\ MoveTo(s, "addcode")
    /\ UNCHANGED <<tables, missing, history>>

AddRow(c, p) == code' = [code EXCEPT ![c] = p] /\ issued' = issued \cup {p}

AddCode(s) == /\ at[s] = "addcode"
              /\ code[NextCode(s)] = None
              /\ \E p \in Perm \ issued : AddRow(NextCode(s), p)
              /\ codes' = [codes EXCEPT ![s] = @ \ {NextCode(s)}]
              /\ MoveTo(s, "codes")
              /\ UNCHANGED <<superAdmin, grants, admin, holds, missing, history>>

FindPerms(s) == /\ at[s] = "codes" /\ codes[s] = {}
                /\ missing' = [missing EXCEPT ![s] = AllPerms]
                /\ MoveTo(s, "granted")
                /\ UNCHANGED <<tables, codes, history>>

FindGrants(s) == /\ at[s] = "granted"
                 /\ missing' = [missing EXCEPT ![s] = Lacking(missing[s])]
                 /\ MoveTo(s, "grant")
                 /\ UNCHANGED <<tables, codes, history>>

\* The unique key and the foreign key to permissions.
Grantable(p) == p \in Ids \ grants

AddGrant(s) == /\ at[s] = "grant"
               /\ \E p \in missing[s] : /\ Grantable(p)
                                        /\ grants' = grants \cup {p}
                                        /\ missing' = [missing EXCEPT ![s] = @ \ {p}]
               /\ UNCHANGED <<superAdmin, permissions, admin, holds, at, codes, history>>

FindAdmin(s) == /\ at[s] = "grant" /\ missing[s] = {}
                /\ MoveTo(s, IF admin = "live" THEN "assigned" ELSE "adduser")
                /\ UNCHANGED <<tables, codes, missing, history>>

AddAdmin(s) == /\ at[s] = "adduser"
               /\ admin = "absent"
               /\ admin' = "live"
               /\ MoveTo(s, "assigned")
               /\ UNCHANGED <<superAdmin, permissions, grants, holds, codes, missing, history>>

FindAssignment(s) == /\ at[s] = "assigned"
                     /\ MoveTo(s, IF holds THEN "done" ELSE "assign")
                     /\ UNCHANGED <<tables, codes, missing, history>>

AddAssignment(s) == /\ at[s] = "assign"
                    /\ ~holds
                    /\ holds' = TRUE
                    /\ MoveTo(s, "done")
                    /\ UNCHANGED <<superAdmin, permissions, grants, admin, codes,
                                   missing, history>>

\* An insert that meets a unique key, or a foreign key without its row, ends
\* the script with 1.
Clashes(s) == \/ at[s] = "addrole" /\ superAdmin # "absent"
              \/ at[s] = "addcode" /\ code[NextCode(s)] # None
              \/ at[s] = "grant" /\ \E p \in missing[s] : ~Grantable(p)
              \/ at[s] = "adduser" /\ admin # "absent"
              \/ at[s] = "assign" /\ holds
InsertRefused(s) == /\ Clashes(s)
                    /\ MoveTo(s, "refused")
                    /\ UNCHANGED <<tables, codes, missing, history>>

\* The process dies or loses the database.
SeedDies(s) == /\ at[s] \in Running
               /\ MoveTo(s, "idle")
               /\ UNCHANGED <<tables, codes, missing, history>>

(* The administration, through the API *)

seeds == <<at, codes, missing>>

\* A row is deleted, and brought back by a late save.
Changed(row) == IF row = "live" THEN "deleted" ELSE "live"

ChangeRole == superAdmin' = Changed(superAdmin)
              /\ UNCHANGED <<permissions, grants, admin, holds>>
ChangeAdmin == admin' = Changed(admin)
               /\ UNCHANGED <<superAdmin, permissions, grants, holds>>
CreatePermission(c) == /\ code[c] = None
                       /\ \E p \in Perm \ Ids : AddRow(c, p)
                       /\ UNCHANGED <<superAdmin, grants, admin, holds>>
DeletePermission(p) == /\ p \in Ids
                       /\ code' = [c \in Code |-> IF code[c] = p THEN None ELSE code[c]]
                       /\ grants' = Cascaded(p)
                       /\ UNCHANGED <<superAdmin, issued, admin, holds>>
UpdateRole(S) == /\ grants' = S \cap Ids
                 /\ UNCHANGED <<superAdmin, permissions, admin, holds>>
ChangeAssignment == /\ holds' = ~holds
                    /\ UNCHANGED <<superAdmin, permissions, grants, admin>>

\* Until the administrator is seeded nobody is authorised.
Administration == /\ admin # "absent"
                  /\ \/ ChangeRole \/ ChangeAdmin \/ ChangeAssignment
                     \/ \E c \in Code : CreatePermission(c)
                     \/ \E p \in Perm : DeletePermission(p)
                     \/ \E S \in SUBSET Perm : UpdateRole(S)
                  /\ quiet' = {}
                  /\ UNCHANGED <<seeds, alone>>

Seeding(s) == \/ FindRole(s) \/ AddRole(s) \/ FindCode(s) \/ AddCode(s)
              \/ FindPerms(s) \/ FindGrants(s) \/ AddGrant(s)
              \/ FindAdmin(s) \/ AddAdmin(s) \/ FindAssignment(s) \/ AddAssignment(s)
              \/ InsertRefused(s) \/ SeedDies(s)

SeedNext == (\E s \in Process : Seeding(s)) \/ Administration

SeedSpec == SeedInit /\ [][SeedNext]_seedVars

-----------------------------------------------------------------------------
(* What holds *)

\* Whatever earlier seeds left half done and whatever other seeds do meanwhile,
\* a seed that ends with 0 undisturbed by the administration leaves a SUPER_ADMIN
\* with every permission there is, and an administrator who holds it.
SeededWhenDone ==
    \A s \in Process : at[s] = "done" /\ s \in quiet =>
        /\ superAdmin = "live" /\ Ids \subseteq grants
        /\ \A c \in PermissionCodes : code[c] # None
        /\ admin = "live" /\ holds

\* A seed that runs alone and undisturbed is refused only for a SUPER_ADMIN or
\* an administrator that has been deleted: what a seed that died has left is no
\* hindrance.
RefusedOnlyByDeleted ==
    \A s \in Process : at[s] = "refused" /\ s \in quiet \cap alone =>
        superAdmin = "deleted" \/ admin = "deleted"

=============================================================================
