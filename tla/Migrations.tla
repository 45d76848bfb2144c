----------------------------- MODULE Migrations -----------------------------
(***************************************************************************)
(* The start of the application's containers: each runs the pending        *)
(* migrations against the one database and then serves, and is restarted   *)
(* when that fails.                                                        *)
(*                                                                         *)
(* TypeORM runs the pending migrations in one transaction, but MySQL       *)
(* commits before every DDL statement: the records of executed migrations  *)
(* are held back only until the first statement that alters the schema.    *)
(* Nothing locks the database against a second container.                  *)
(***************************************************************************)
EXTENDS Integers, Sequences

CONSTANTS Instance,
          MaxCrashes   \* bound on the failures of a database, network or process

ASSUME MigrationsAssumption == MaxCrashes \in Nat

VARIABLES schema,    \* tables, indexes and deleted_at columns that exist
          executed,  \* the table migrations
          pc,        \* what each container does next
          run,       \* where each is in its migrations
          crashes

vars == <<schema, executed, pc, run, crashes>>

-----------------------------------------------------------------------------
(* The migrations: what each statement adds, in order *)

InitRbac == << {"users", "users.deleted_at"}, {"roles", "roles.deleted_at"},
               {"permissions"}, {"user_roles"}, {"role_permissions"},
               {"refresh_tokens"} >>

AddUpdatedAtDeletedAt ==
    << {"users.deleted_at"}, {"roles.deleted_at"},
       {"IDX_users_email"}, {"IDX_roles_name"}, {"IDX_permissions_code"},
       {"IDX_user_roles_user_id"}, {"IDX_user_roles_role_id"},
       {"IDX_role_permissions_role_id"}, {"IDX_role_permissions_permission_id"},
       {"IDX_refresh_tokens_user_id"}, {"IDX_refresh_tokens_token_hash"} >>

AddAuditLogs == << {"audit_logs"} >>

Migration == 1 .. 3
Script == [m \in Migration |-> CASE m = 1 -> InitRbac
                                 [] m = 2 -> AddUpdatedAtDeletedAt
                                 [] m = 3 -> AddAuditLogs]
Adds(m, k) == Script[m][k]
AddedBy(m) == UNION {Adds(m, k) : k \in 1 .. Len(Script[m])}

\* A Mutant is what the definition after it would be with a plausible bug;
\* put in its place, it must break one of the properties below.
MutantShort(m) == Len(Script[m]) - 1
MutantLong(m)  == Len(Script[m]) + 1
Length(m) == Len(Script[m])

Everything == UNION {AddedBy(m) : m \in Migration}

MutantIfMissing(m) == FALSE                 \* ALTER TABLE without a look
IfMissing(m) == m = 2

\* MySQL refuses to create what exists.
MutantRefused(m, k) == FALSE                \* CREATE TABLE IF NOT EXISTS
Refused(m, k) == Adds(m, k) \cap schema # {}

-----------------------------------------------------------------------------
Working == {"next", "check", "alter", "record"}
RunState == [todo : SUBSET Migration, mig : Migration, stmt : 1 .. 11,
             held : SUBSET Migration,   \* recorded, and not committed
             open : BOOLEAN]            \* the transaction is still open
Blank == [todo |-> {}, mig |-> 1, stmt |-> 1, held |-> {}, open |-> FALSE]

TypeOK == /\ schema \in SUBSET Everything
          /\ executed \in SUBSET Migration
          /\ pc \in [Instance -> {"boot", "failed", "serving"} \cup Working]
          /\ run \in [Instance -> RunState]
          /\ \A i \in Instance : run[i].stmt <= Len(Script[run[i].mig])
          /\ crashes \in 0 .. MaxCrashes

Init == /\ schema = {}
        /\ executed = {}
        /\ pc = [i \in Instance |-> "boot"]
        /\ run = [i \in Instance |-> Blank]
        /\ crashes = 0

-----------------------------------------------------------------------------
Goto(i, label) == pc' = [pc EXCEPT ![i] = label]
Statement(m) == IF IfMissing(m) THEN "check" ELSE "alter"

\* The migrations that are not in the table.
Pending == Migration \ executed

Load(i) ==
    /\ pc[i] = "boot"
    /\ run' = [run EXCEPT ![i] = [Blank EXCEPT !.todo = Pending, !.open = TRUE]]
    /\ Goto(i, "next")
    /\ UNCHANGED <<schema, executed, crashes>>

Begin(i) ==
    /\ pc[i] = "next"
    /\ \E m \in run[i].todo :
         /\ \A n \in run[i].todo : m <= n
         /\ run' = [run EXCEPT ![i].todo = @ \ {m}, ![i].mig = m, ![i].stmt = 1]
         /\ Goto(i, Statement(m))
    /\ UNCHANGED <<schema, executed, crashes>>

\* After the last migration the transaction is committed, run-migrations ends
\* with 0 and the entrypoint starts the application.
Serve(i) == /\ pc[i] = "next"
            /\ run[i].todo = {}
            /\ executed' = executed \cup run[i].held
            /\ run' = [run EXCEPT ![i] = Blank]
            /\ Goto(i, "serving")
            /\ UNCHANGED <<schema, crashes>>

\* The end of a statement; the others of the run are as in r.
Advance(i, r) ==
    IF r.stmt < Length(r.mig)
    THEN run' = [run EXCEPT ![i] = [r EXCEPT !.stmt = @ + 1]] /\ Goto(i, Statement(r.mig))
    ELSE run' = [run EXCEPT ![i] = r] /\ Goto(i, "record")

\* columnExists and indexExists.
Check(i) ==
    /\ pc[i] = "check"
    /\ IF Refused(run[i].mig, run[i].stmt)
       THEN Advance(i, run[i])
       ELSE Goto(i, "alter") /\ run' = run
    /\ UNCHANGED <<schema, executed, crashes>>

\* A statement that alters the schema commits what was recorded before it.
Committed(i) == [run[i] EXCEPT !.held = {}, !.open = FALSE]

Alter(i) ==
    /\ pc[i] = "alter"
    /\ ~Refused(run[i].mig, run[i].stmt)
    /\ schema' = schema \cup Adds(run[i].mig, run[i].stmt)
    /\ executed' = executed \cup run[i].held
    /\ Advance(i, Committed(i))
    /\ UNCHANGED crashes

AlterRefused(i) ==
    /\ pc[i] = "alter"
    /\ Refused(run[i].mig, run[i].stmt)
    /\ executed' = executed \cup run[i].held
    /\ run' = [run EXCEPT ![i] = Blank]
    /\ Goto(i, "failed")
    /\ UNCHANGED <<schema, crashes>>

Record(i) ==
    /\ pc[i] = "record"
    /\ IF run[i].open
       THEN /\ run' = [run EXCEPT ![i].held = @ \cup {run[i].mig}]
            /\ executed' = executed
       ELSE run' = run /\ executed' = executed \cup {run[i].mig}
    /\ Goto(i, "next")
    /\ UNCHANGED <<schema, crashes>>

\* The process dies or loses the database: what was not committed is lost.
Crash(i) == /\ pc[i] # "failed"
            /\ crashes < MaxCrashes
            /\ crashes' = crashes + 1
            /\ run' = [run EXCEPT ![i] = Blank]
            /\ Goto(i, "failed")
            /\ UNCHANGED <<schema, executed>>

\* set -e ends the container with the failure, and Docker starts it again.
MutantEntrypoint == "serving"     \* the entrypoint goes on after a failure
MutantRestart == "failed"         \* restart: "no"
AfterFailure == "boot"
Restart(i) == /\ pc[i] = "failed"
              /\ Goto(i, AfterFailure)
              /\ UNCHANGED <<schema, executed, run, crashes>>

Step(i) == \/ Load(i) \/ Begin(i) \/ Check(i) \/ Alter(i) \/ AlterRefused(i)
           \/ Record(i) \/ Serve(i) \/ Restart(i)

Next == \E i \in Instance : Step(i) \/ Crash(i)

\* Node runs what is ready, and Docker restarts a container that has ended.
Spec == Init /\ [][Next]_vars /\ \A i \in Instance : WF_vars(Step(i))

-----------------------------------------------------------------------------
(* What holds *)

\* What is recorded as executed, or held to be recorded, has been done in full,
\* by whichever containers did it and wherever others died.
RecordedIsDone ==
    \A m \in Migration :
        m \in executed \cup UNION {run[i].held : i \in Instance} => AddedBy(m) \subseteq schema

\* The application is up only where every migration has been done: "Migrations
\* applied before app start" (README.md:181).
ServesMigrated == \A i \in Instance : pc[i] = "serving" =>
                      executed = Migration /\ Everything \subseteq schema

\* The first table of a migration that creates tables serves as its lock: a
\* container that has got past it is the only one, although nothing else keeps
\* two apart.
Inside(i, m) == /\ pc[i] \in {"alter", "record"} /\ run[i].mig = m
                /\ run[i].stmt > 1 \/ pc[i] = "record"
OneInside == \A m \in Migration : ~IfMissing(m) =>
                 \A i, j \in Instance : Inside(i, m) /\ Inside(j, m) => i = j

\* A migration that creates tables was cut off after its first statement.
HalfDone == \E m \in Migration : /\ ~IfMissing(m) /\ m \notin executed
                                 /\ AddedBy(m) \cap schema # {}
                                 /\ \A i \in Instance : /\ ~Inside(i, m)
                                                        /\ m \notin run[i].held

\* Only a crash cuts a migration off, however containers race and refuse each
\* other, and then no restart completes it: InitRbac and AddAuditLogs have no
\* IF NOT EXISTS, and no container gets past their first table again.
CutOffForGood == [][/\ HalfDone => HalfDone'
                    /\ HalfDone' => HalfDone \/ crashes' > crashes]_vars

\* However containers race and wherever they crash, restarts bring them all up
\* in the end, unless a crash has left a migration half done.
AllServe == <>[](\A i \in Instance : pc[i] = "serving")
RestartHeals == <>[]HalfDone \/ AllServe

\* Containers that start together on an empty database all come up if none of
\* them crashes, although the migrations refuse all but one at first.
RacersServe == [](crashes = 0) => AllServe
=============================================================================
