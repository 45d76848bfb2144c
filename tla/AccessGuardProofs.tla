-------------------------- MODULE AccessGuardProofs --------------------------
(***************************************************************************)
(* Proofs about AccessGuard, for either adapter, any requests, processes,  *)
(* tokens and open routes: it is well typed, it keeps Admission, and what  *)
(* is lost stays lost.                                                     *)
(***************************************************************************)
EXTENDS AccessGuard, TLAPS

USE AccessGuardAssumption

\* What has been shown of a request is what it has been asked so far.
Shown ==
    \A r \in Request :
      /\ pc[r] \in {"active", "get", "load", "set"} => "unrevoked" \in met[r]
      /\ pc[r] \in {"get", "load", "set"} => "active" \in met[r]
      /\ pc[r] = "set" /\ (r \in Open \/ context[r] = "yes") => "permitted" \in met[r]
      /\ pc[r] = "set" /\ r \notin Open /\ context[r] = "no" => "permitted" \in missed[r]
      /\ pc[r] \in Guarding => Holding(r) \subseteq met[r] /\ Lacking(r) \subseteq missed[r]

IInv == TypeOK /\ Shown

\* The ways in which one step can move a request.
Course(r) ==
    \/ pc'[r] = pc[r] /\ context'[r] = context[r]
    \/ pc'[r] = "out"
    \/ pc[r] = "out" /\ pc'[r] \in {"blacklist", "warm"}
    \/ pc[r] = "blacklist" /\ pc'[r] = "active" /\ Unlisted(r)
    \/ pc[r] = "blacklist" /\ pc'[r] = "refused" /\ ~Unlisted(r)
    \/ pc[r] = "active" /\ pc'[r] = "get" /\ active
    \/ pc[r] \in {"active", "load"} /\ pc'[r] = "refused" /\ ~active
    \/ pc[r] = "get" /\ pc'[r] = "load"
    \/ pc[r] = "get" /\ pc'[r] = Judged(r, entry[at[r]]) /\ entry[at[r]] \in Known
    \/ pc[r] = "load" /\ pc'[r] = "set" /\ context'[r] = Loaded
    \/ pc[r] = "set" /\ pc'[r] = Judged(r, context[r])

\* A write through an adapter leaves the caches well typed, and one if they are Redis's.
LEMMA PutTypes ==
  ASSUME TypeOK, NEW p \in Process, NEW what \in {"none"} \cup Known, Put(p, what)
  PROVE  /\ entry' \in [Process -> {"none"} \cup Known]
         /\ redis => \A a, b \in Process : entry'[a] = entry'[b]
  BY DEF Put, Reached, TypeOK

\* The types of what a step changes, and how it moves each request.
LEMMA StepMoves ==
  ASSUME TypeOK, Step
  PROVE  /\ redis' \in BOOLEAN /\ active' \in BOOLEAN /\ held' \in BOOLEAN
         /\ denied' \in SUBSET (Process \X Token)
         /\ entry' \in [Process -> {"none"} \cup Known]
         /\ redis' => \A p, q \in Process : entry'[p] = entry'[q]
         /\ due' \in SUBSET Process
         /\ UNCHANGED <<at, bearer>>
         /\ pc' \in [Request -> {"out", "warm", "inside", "refused"} \cup Guarding]
         /\ context' \in [Request -> Known]
         /\ \A r \in Request : Course(r)
<1> DEFINE Goal == /\ redis' \in BOOLEAN /\ active' \in BOOLEAN /\ held' \in BOOLEAN
                   /\ denied' \in SUBSET (Process \X Token)
                   /\ entry' \in [Process -> {"none"} \cup Known]
                   /\ redis' => \A p, q \in Process : entry'[p] = entry'[q]
                   /\ due' \in SUBSET Process
                   /\ UNCHANGED <<at, bearer>>
                   /\ pc' \in [Request ->
                                 {"out", "warm", "inside", "refused"} \cup Guarding]
                   /\ context' \in [Request -> Known]
                   /\ \A r \in Request : Course(r)
<1>1. ASSUME NEW r \in Request, Arrive(r) PROVE Goal
  BY <1>1 DEF Arrive, Goto, Still, world, TypeOK, Guarding, Known, Course
<1>2. ASSUME NEW r \in Request, AskBlacklist(r) PROVE Goal
  BY <1>2 DEF AskBlacklist, Goto, Still, world, TypeOK, Guarding, Known, Course
<1>3. ASSUME NEW r \in Request, FindActive(r) PROVE Goal
  BY <1>3 DEF FindActive, ActiveFound, Goto, Still, world, TypeOK, Guarding, Known, Course
<1>4. ASSUME NEW r \in Request, CacheGet(r) PROVE Goal
  <2>1. /\ at[r] \in Process /\ entry[at[r]] \in {"none"} \cup Known
        /\ Judged(r, entry[at[r]]) \in {"inside", "refused"}
    BY DEF TypeOK, Judged
  <2> QED BY <1>4, <2>1 DEF CacheGet, Goto, Still, world, TypeOK, Guarding, Known, Course
<1>5. ASSUME NEW r \in Request, LoadContext(r) PROVE Goal
  BY <1>5 DEF LoadContext, Loaded, Goto, Still, world, TypeOK, Guarding, Known, Course
<1>6. ASSUME NEW r \in Request, CacheSet(r) PROVE Goal
  <2>1. /\ at[r] \in Process /\ context[r] \in {"none"} \cup Known
        /\ Judged(r, context[r]) \in {"inside", "refused"}
    BY DEF TypeOK, Judged
  <2>2. /\ entry' \in [Process -> {"none"} \cup Known]
        /\ redis => \A p, q \in Process : entry'[p] = entry'[q]
    BY <1>6, <2>1, PutTypes DEF CacheSet
  <2> QED BY <1>6, <2>1, <2>2 DEF CacheSet, Goto, Still, TypeOK, Guarding, Known, Course
<1>7. ASSUME NEW r \in Request, Logout(r) PROVE Goal
  <2>1. Reached(at[r]) \in SUBSET Process /\ bearer[r] \in Token
    BY DEF Reached, TypeOK
  <2> QED BY <1>7, <2>1 DEF Logout, Goto, Still, TypeOK, Guarding, Known, Course
<1>8. ASSUME NEW r \in Request, Answer(r) PROVE Goal
  BY <1>8 DEF Answer, Goto, Still, world, TypeOK, Guarding, Known, Course
<1>9. ASSUME NEW r \in Request, RequestFails(r) PROVE Goal
  BY <1>9 DEF RequestFails, Goto, Still, world, TypeOK, Guarding, Known, Course
<1>10. ASSUME NEW r \in Request, WarmRead(r) PROVE Goal
  BY <1>10 DEF WarmRead, Loaded, Goto, Still, world, TypeOK, Guarding, Known, Course
<1>11. ASSUME NEW r \in Request, WarmSet(r) PROVE Goal
  <2>1. at[r] \in Process /\ context[r] \in {"none"} \cup Known
    BY DEF TypeOK
  <2>2. /\ entry' \in [Process -> {"none"} \cup Known]
        /\ redis => \A p, q \in Process : entry'[p] = entry'[q]
    BY <1>11, <2>1, PutTypes DEF WarmSet
  <2> QED BY <1>11, <2>2 DEF WarmSet, Goto, Still, TypeOK, Guarding, Known, Course
<1>12. ASSUME NEW p \in Process, Assign(p) PROVE Goal
  BY <1>12 DEF Assign, Still, TypeOK, Course
<1>13. ASSUME NEW p \in Process, Invalidate(p) PROVE Goal
  <2>1. /\ entry' \in [Process -> {"none"} \cup Known]
        /\ redis => \A a, b \in Process : entry'[a] = entry'[b]
    BY <1>13, PutTypes DEF Invalidate
  <2> QED BY <1>13, <2>1 DEF Invalidate, Still, TypeOK, Course
<1>14. ASSUME NEW p \in Process, InvalidateFails(p) PROVE Goal
  BY <1>14 DEF InvalidateFails, Still, TypeOK, Course
<1>15. ASSUME NEW p \in Process, EntryEnds(p) PROVE Goal
  <2>1. /\ entry' \in [Process -> {"none"} \cup Known]
        /\ redis => \A a, b \in Process : entry'[a] = entry'[b]
    BY <1>15, PutTypes DEF EntryEnds, Ended
  <2> QED BY <1>15, <2>1 DEF EntryEnds, Still, TypeOK, Course
<1>16. ASSUME NEW p \in Process, Restart(p) PROVE Goal
  <2>1. /\ entry' \in [Process -> {"none"} \cup Known]
        /\ redis => \A a, b \in Process : entry'[a] = entry'[b]
    BY <1>16, PutTypes DEF Restart, TypeOK
  <2>2. denied' \in SUBSET (Process \X Token)
    BY <1>16 DEF Restart, TypeOK
  <2> QED BY <1>16, <2>1, <2>2 DEF Restart, Still, TypeOK, Guarding, Known, Course
<1>17. CASE ChangeRole
  BY <1>17 DEF ChangeRole, Still, TypeOK, Course
<1>18. CASE SetActive
  BY <1>18 DEF SetActive, Still, TypeOK, Course
<1> QED
  BY <1>1, <1>2, <1>3, <1>4, <1>5, <1>6, <1>7, <1>8, <1>9, <1>10, <1>11, <1>12,
     <1>13, <1>14, <1>15, <1>16, <1>17, <1>18 DEF Step, GuardStep

\* What holds of a request now is always among the conditions.
LEMMA Witnesses ==
  \A r \in Request : Holding(r) \in SUBSET Condition /\ Lacking(r) \in SUBSET Condition
  BY DEF Holding, Lacking, If, Condition

LEMMA WitnessesNext ==
  \A r \in Request : Holding(r)' \in SUBSET Condition /\ Lacking(r)' \in SUBSET Condition
  BY DEF Holding, Lacking, If, Condition

\* The histories of a request that goes on waiting keep what they had and add what holds.
LEMMA ObserveKeeps ==
  ASSUME TypeOK, Observe, NEW r \in Request
  PROVE  /\ pc'[r] \in Guarding => /\ met'[r] = met[r] \cup Holding(r)'
                                   /\ missed'[r] = missed[r] \cup Lacking(r)'
         /\ pc'[r] \notin Guarding => met'[r] = {} /\ missed'[r] = {}
  BY DEF Observe, holding, lacking

LEMMA Invariance == Spec => []IInv
<1>1. Init => IInv
  BY DEF Init, IInv, TypeOK, Shown, Guarding, Known, Condition
<1>2. IInv /\ [Next]_vars => IInv'
  <2>1. ASSUME IInv, Next PROVE IInv'
    <3> USE <2>1 DEF IInv
    <3>1. Step /\ Observe
      BY DEF Next
    <3>2. /\ redis' \in BOOLEAN /\ active' \in BOOLEAN /\ held' \in BOOLEAN
          /\ denied' \in SUBSET (Process \X Token)
          /\ entry' \in [Process -> {"none"} \cup Known]
          /\ redis' => \A p, q \in Process : entry'[p] = entry'[q]
          /\ due' \in SUBSET Process
          /\ UNCHANGED <<at, bearer>>
          /\ pc' \in [Request -> {"out", "warm", "inside", "refused"} \cup Guarding]
          /\ context' \in [Request -> Known]
          /\ \A r \in Request : Course(r)
      BY <3>1, StepMoves
    <3>3. met' \in [Request -> SUBSET Condition] /\ missed' \in [Request -> SUBSET Condition]
      BY <3>1, WitnessesNext DEF Observe, TypeOK, holding, lacking
    <3>4. TypeOK'
      BY <3>2, <3>3 DEF TypeOK
    <3>5. Shown'
      <4> SUFFICES ASSUME NEW r \in Request, pc'[r] \in Guarding
                   PROVE  /\ pc'[r] \in {"active", "get", "load", "set"} => "unrevoked" \in met'[r]
                          /\ pc'[r] \in {"get", "load", "set"} => "active" \in met'[r]
                          /\ pc'[r] = "set" /\ (r \in Open \/ context'[r] = "yes")
                               => "permitted" \in met'[r]
                          /\ pc'[r] = "set" /\ r \notin Open /\ context'[r] = "no"
                               => "permitted" \in missed'[r]
                          /\ Holding(r)' \subseteq met'[r] /\ Lacking(r)' \subseteq missed'[r]
        BY DEF Shown, Guarding
      <4>1. met'[r] = met[r] \cup Holding(r)' /\ missed'[r] = missed[r] \cup Lacking(r)'
        BY <3>1, ObserveKeeps
      <4>2. Course(r)
        BY <3>2
      <4>3. /\ Unlisted(r) => "unrevoked" \in Holding(r)
            /\ active => "active" \in Holding(r)
            /\ r \in Open \/ held => "permitted" \in Holding(r)
            /\ r \notin Open /\ ~held => "permitted" \in Lacking(r)
        BY DEF Holding, Lacking, If
      <4>4. Judged(r, entry[at[r]]) \notin Guarding /\ Judged(r, context[r]) \notin Guarding
        BY DEF Judged, Guarding
      <4> QED
        BY <4>1, <4>2, <4>3, <4>4 DEF Course, Shown, Guarding, Loaded
    <3> QED BY <3>4, <3>5
  <2>2. ASSUME IInv, UNCHANGED vars PROVE IInv'
    BY <2>2 DEF IInv, TypeOK, Shown, vars, Holding, Lacking, Unlisted, Copied
  <2> QED BY <2>1, <2>2
<1> QED BY <1>1, <1>2, PTL DEF Spec

\* Requests, the two stores, the context and the histories keep their types.
THEOREM TypeCorrect == Spec => []TypeOK
<1>1. IInv => TypeOK
  BY DEF IInv
<1> QED BY <1>1, Invariance, PTL

\* Each admission and each refusal of the guards has its reasons at an instant of
\* the stay of the request, whatever happens between their awaits.
THEOREM ImplementsAdmission == Spec => KeepsAdmission
<1>1. Init => Guards!Init
  <2> SUFFICES ASSUME Init PROVE Guards!Init
    OBVIOUS
  <2>1. ASSUME NEW r \in Request PROVE Stay(r) = "out"
    <3>1. pc[r] = "out"
      BY DEF Init
    <3> QED BY <3>1 DEF Stay, Guarding
  <2>2. stay = [r \in Request |-> "out"]
    BY <2>1 DEF stay
  <2>3. holding \in [Request -> SUBSET Condition] /\ lacking \in [Request -> SUBSET Condition]
    BY Witnesses DEF holding, lacking
  <2>4. /\ met = [r \in Request |-> {}] /\ missed = [r \in Request |-> {}]
    BY DEF Init
  <2> QED BY <2>2, <2>3, <2>4 DEF Guards!Init, Guards!Judgement
<1>2. IInv /\ [Next]_vars => [Guards!Next]_Guards!promise
  <2>1. ASSUME IInv, Next PROVE Guards!Next
    <3> USE <2>1 DEF IInv
    <3>1. Step /\ Observe /\ \A r \in Request : Course(r)
      BY StepMoves DEF Next
    <3>2. pc' \in [Request -> {"out", "warm", "inside", "refused"} \cup Guarding]
      BY <3>1, StepMoves
    <3>3. stay' \in [Request -> Guards!Stage]
      BY <3>2 DEF stay, Stay, Guarding, Guards!Stage
    <3>4. ASSUME NEW r \in Request
          PROVE  \/ stay'[r] \in {stay[r], "out"}
                 \/ stay[r] = "out" /\ stay'[r] = "waiting"
                 \/ stay[r] = "waiting" /\ stay'[r] = "inside" /\ met[r] = Condition
                 \/ stay[r] = "waiting" /\ stay'[r] = "refused" /\ missed[r] # {}
      <4>1. Course(r)
        BY <3>1
      <4>2. pc[r] \in Guarding => /\ Holding(r) \subseteq met[r] /\ Lacking(r) \subseteq missed[r]
        BY DEF Shown
      <4>3. /\ ~Unlisted(r) => "unrevoked" \in Lacking(r)
            /\ ~active => "active" \in Lacking(r)
            /\ r \in Open \/ entry[at[r]] = "yes" => "permitted" \in Holding(r)
            /\ r \notin Open /\ entry[at[r]] = "no" => "permitted" \in Lacking(r)
        BY DEF Holding, Lacking, If, Copied
      <4>4. met[r] \in SUBSET Condition /\ context[r] \in Known
        BY DEF TypeOK
      <4>5. pc'[r] = "inside" /\ pc[r] # "inside" => pc[r] \in Guarding /\ met[r] = Condition
        BY <4>1, <4>2, <4>3, <4>4 DEF Course, Shown, Judged, Guarding, Condition, Known
      <4>6. pc'[r] = "refused" /\ pc[r] # "refused" => pc[r] \in Guarding /\ missed[r] # {}
        BY <4>1, <4>2, <4>3, <4>4 DEF Course, Shown, Judged, Guarding, Known
      <4>7. pc'[r] \in Guarding /\ pc[r] \notin Guarding => pc[r] = "out"
        BY <4>1 DEF Course, Judged, Guarding
      <4>8. pc[r] \in {"out", "warm", "inside", "refused"} \cup Guarding
        BY DEF TypeOK
      <4>9. pc'[r] \in {"out", "warm", "inside", "refused"} \cup Guarding
        BY <3>2
      <4> DEFINE from == Stay(r)
                 to   == Stay(r)'
      <4>10. \/ to \in {from, "out"}
             \/ from = "out" /\ to = "waiting"
             \/ from = "waiting" /\ to = "inside" /\ met[r] = Condition
             \/ from = "waiting" /\ to = "refused" /\ missed[r] # {}
        BY <4>5, <4>6, <4>7, <4>8, <4>9 DEF Stay, Guarding
      <4>11. stay[r] = from /\ stay'[r] = to
        BY DEF stay
      <4> QED BY <4>10, <4>11
    <3>5. holding' \in Guards!Judgement /\ lacking' \in Guards!Judgement
      BY WitnessesNext DEF Guards!Judgement, holding, lacking
    <3>6. \A r \in Request : stay'[r] = "waiting" <=> pc'[r] \in Guarding
      BY <3>2 DEF stay, Stay, Guarding
    <3>7. /\ met' = [r \in Request |->
                       IF stay'[r] = "waiting" THEN met[r] \cup holding'[r] ELSE {}]
          /\ missed' = [r \in Request |->
                          IF stay'[r] = "waiting" THEN missed[r] \cup lacking'[r] ELSE {}]
      <4>1. Observe
        BY DEF Next
      <4> QED BY <4>1, <3>6 DEF Observe
    <3> QED BY <3>3, <3>4, <3>5, <3>7
            DEF Guards!Next, Guards!Moves, Guards!Witnessed
  <2>2. ASSUME UNCHANGED vars PROVE UNCHANGED Guards!promise
    BY <2>2 DEF vars, Guards!promise, stay, holding, lacking, Stay, Holding, Lacking,
       Unlisted, Copied
  <2> QED BY <2>1, <2>2
<1> QED BY <1>1, <1>2, Invariance, PTL DEF Spec, KeepsAdmission, Guards!Spec

\* A lost permission that is gone from the caches and from all hands does not come
\* back before it is granted again, from whichever process or late answer.
LossStays == [][~held /\ ~held' /\ ~Granting => ~Granting']_vars

\* What one request or process does to a permission that is lost and that nothing
\* grants: only what reads the tables could bring it back, and they lack it.
LEMMA LossStep ==
  ASSUME TypeOK, Step, ~held, ~held', ~Granting
  PROVE  ~Granting'
<1>1. /\ \A p \in Process : entry[p] # "yes"
      /\ \A r \in Request : pc[r] \in {"set", "warm"} => context[r] # "yes"
  BY DEF Granting
<1>2. /\ pc \in [Request -> {"out", "warm", "inside", "refused"} \cup Guarding]
      /\ context \in [Request -> Known] /\ entry \in [Process -> {"none"} \cup Known]
  BY DEF TypeOK
<1> USE DEF Goto, Still, Put, Loaded, Guarding
<1> DEFINE Goal == /\ \A p \in Process : entry'[p] # "yes"
                   /\ \A r \in Request : pc'[r] \in {"set", "warm"} => context'[r] # "yes"
<1>3. ASSUME NEW r \in Request,
             \/ Arrive(r) \/ AskBlacklist(r) \/ FindActive(r) \/ Answer(r)
             \/ Logout(r) \/ RequestFails(r)
      PROVE  Goal
  BY <1>1, <1>2, <1>3 DEF Arrive, AskBlacklist, FindActive, Answer, Logout, RequestFails, world
<1>4. ASSUME NEW r \in Request, CacheGet(r) PROVE Goal
  BY <1>1, <1>2, <1>4 DEF CacheGet, Judged, world
<1>5. ASSUME NEW r \in Request, LoadContext(r) \/ WarmRead(r) PROVE Goal
  BY <1>1, <1>2, <1>5 DEF LoadContext, WarmRead, world
<1>6. ASSUME NEW r \in Request, CacheSet(r) \/ WarmSet(r) PROVE Goal
  BY <1>1, <1>2, <1>6 DEF CacheSet, WarmSet, Judged
<1>7. ASSUME NEW p \in Process,
             \/ Assign(p) \/ Invalidate(p) \/ InvalidateFails(p)
             \/ EntryEnds(p) \/ Restart(p)
      PROVE  Goal
  BY <1>1, <1>2, <1>7 DEF Assign, Invalidate, InvalidateFails, EntryEnds, Ended, Restart
<1>8. ASSUME ChangeRole \/ SetActive PROVE Goal
  <2>1. UNCHANGED <<entry, pc, context>>
    BY <1>8 DEF ChangeRole, SetActive
  <2> QED BY <1>1, <2>1
<1>9. Goal
  <2> HIDE DEF Goal
  <2> QED BY <1>3, <1>4, <1>5, <1>6, <1>7, <1>8 DEF Step, GuardStep
<1> QED BY <1>9 DEF Granting

\* A permission lost and forgotten stays so until it is granted again.
THEOREM LossIsLasting == Spec => LossStays
<1>1. IInv /\ [Next]_vars => [~held /\ ~held' /\ ~Granting => ~Granting']_vars
  BY LossStep DEF IInv, Next
<1> QED BY <1>1, Invariance, PTL DEF Spec, LossStays
=============================================================================
