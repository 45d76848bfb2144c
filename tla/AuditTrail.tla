----------------------------- MODULE AuditTrail -----------------------------
(***************************************************************************)
(* The audit interceptor around role and permission administration.        *)
(*                                                                         *)
(* The interceptor sees a handler's value, not its exception; it starts    *)
(* the insert into audit_logs without waiting for it, and the use case     *)
(* that inserts swallows what goes wrong.  A row of audit_logs is known by *)
(* the request it is about.                                                *)
(***************************************************************************)
EXTENDS RoleAdmin

VARIABLES recording,  \* requests whose row is being inserted
          trail,      \* audit_logs
          changed,    \* history: requests that have changed the tables
          lost        \* history: requests whose insert failed or never ran

auditVars == <<role, code, issued, grants, pc, req, recording, trail, changed, lost>>

-----------------------------------------------------------------------------
\* AUDITED_METHODS; every handler of RoleAdmin is reached by one of them.
MutantAudited == (RoleKinds \cup PermKinds) \ {"deleterole", "deleteperm"}  \* no DELETE
Audited == RoleKinds \cup PermKinds

\* tap passes over an error.
MutantTapped(label) == label \in {"ok", "error"}    \* finalize
Tapped(label) == label = "ok"

AuditInit == Init /\ recording = {} /\ trail = {} /\ changed = {} /\ lost = {}

Handle(r) ==
    /\ RoleStep(r) \/ PermStep(r) \/ RequestFails(r)
    /\ changed' = IF tables' # tables THEN changed \cup {r} ELSE changed
    /\ recording' = IF Tapped(pc'[r]) /\ req'[r].kind \in Audited
                    THEN recording \cup {r} ELSE recording
    /\ UNCHANGED <<trail, lost>>

RecordSaved(r) == /\ r \in recording
                  /\ recording' = recording \ {r}
                  /\ trail' = trail \cup {r}
                  /\ UNCHANGED <<vars, changed, lost>>

\* The insert fails and is logged as a warning, or the process dies first.
RecordLost(r) == /\ r \in recording
                 /\ recording' = recording \ {r}
                 /\ lost' = lost \cup {r}
                 /\ UNCHANGED <<vars, trail, changed>>

AuditNext == \E r \in Request : Handle(r) \/ RecordSaved(r) \/ RecordLost(r)

AuditSpec == AuditInit /\ [][AuditNext]_auditVars

-----------------------------------------------------------------------------
(* What holds *)

\* A row of the trail is about a request that was answered without an error,
\* and that of a creation about one that has created something: a create that
\* loses a race for its name or code leaves no row.
TrailIsTrue ==
    \A r \in trail : /\ pc[r] = "ok"
                     /\ req[r].kind \in {"createrole", "createperm"} => r \in changed

Traced(r) == r \in recording \cup trail

\* A request that has changed the tables and ended has its row, or will have it,
\* but for two causes: its insert was lost although it was answered "ok", or it
\* was answered with an error after a write.  Only a role's creation and update
\* can be: they have queries left when they have written, and no transaction.
UntracedHasCause ==
    \A r \in changed : pc[r] \in Ended /\ ~Traced(r) =>
        \/ pc[r] = "ok" /\ r \in lost
        \/ pc[r] = "error" /\ req[r].kind \in {"createrole", "updaterole"}

=============================================================================
