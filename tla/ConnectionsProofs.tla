-------------------------- MODULE ConnectionsProofs --------------------------
(***************************************************************************)
(* Proofs about Connections, for any requests and any DB_CONNECTION_LIMIT. *)
(***************************************************************************)
EXTENDS Connections, FiniteSetTheorems, SequenceTheorems, TLAPS

USE ConnectionsAssumption

\* Nobody waits twice, and only finitely many connections are in use.
Queued == /\ IsFiniteSet(leased)
          /\ \A i, j \in DOMAIN queue : queue[i] = queue[j] => i = j

\* A connection in use, or asked for, is for the step that its request is at.
Used == \A r \in Request :
          /\ <<r, "statement">> \in leased => doing[r] = "running" /\ Step(r) = "query"
          /\ <<r, "transaction">> \in leased =>
               \/ doing[r] \in {"next", "running"} /\ Step(r) \in {"within", "commit"}
               \/ doing[r] = "running" /\ Step(r) = "begin"
          /\ doing[r] = "asking" => Takes(Step(r))

IInv == TypeOK /\ Queued /\ Used /\ FailsOnlyWithCause /\ (status = "end" => closing)

Steps == {"query", "redis", "begin", "within", "commit"}

Nests(s) == /\ s \in Seq(Steps) /\ Len(s) \in Nat \ {0}
            /\ DOMAIN s = 1 .. Len(s)
            /\ \A i \in DOMAIN s : s[i] \in {"begin", "within"} =>
                 i < Len(s) /\ s[i + 1] \in {"within", "commit"}

\* A transaction that has begun goes on to its commit without another wait.
LEMMA PlansNest == \A p \in DOMAIN Plan : Nests(Plan[p])
<1>1. Nests(LoginSteps)
  BY DEF Nests, LoginSteps, Steps
<1>2. Nests(LogoutSteps)
  BY DEF Nests, LogoutSteps, Steps
<1>3. Nests(UpdateRoleSteps)
  BY DEF Nests, UpdateRoleSteps, Steps
<1>4. Nests(ReadySteps)
  BY DEF Nests, ReadySteps, Steps
<1>5. \A p \in DOMAIN Plan :
        Plan[p] \in {LoginSteps, LogoutSteps, UpdateRoleSteps, ReadySteps}
  BY DEF Plan
<1> QED BY <1>1, <1>2, <1>3, <1>4, <1>5

\* The connections in use stay finitely many when one is added or some are given back.
LEMMA LeasedFinite ==
  ASSUME IsFiniteSet(leased), Cardinality(leased) <= Limit
  PROVE  /\ Cardinality(leased) \in Nat
         /\ \A back : IsFiniteSet(leased \ back) /\ Cardinality(leased \ back) <= Limit
         /\ \A one : Free => /\ IsFiniteSet(leased \cup {one})
                             /\ Cardinality(leased \cup {one}) <= Limit
<1>1. Cardinality(leased) \in Nat
  BY FS_CardinalityType
<1>2. ASSUME NEW back
      PROVE  IsFiniteSet(leased \ back) /\ Cardinality(leased \ back) <= Limit
  <2>1. /\ leased \ back \subseteq leased
        /\ IsFiniteSet(leased \ back)
        /\ Cardinality(leased \ back) <= Cardinality(leased)
    BY FS_Subset
  <2>2. Cardinality(leased \ back) \in Nat
    BY <2>1, FS_CardinalityType
  <2> QED BY <1>1, <2>1, <2>2
<1>3. ASSUME NEW one, Free
      PROVE  /\ IsFiniteSet(leased \cup {one})
             /\ Cardinality(leased \cup {one}) <= Limit
  BY <1>1, <1>3, FS_AddElement DEF Free
<1> QED BY <1>1, <1>2, <1>3

\* The end of a step leaves the request at a step of its plan, or out.
LEMMA DoneMoves ==
  ASSUME TypeOK, NEW r \in Request, Done(r), UNCHANGED plan
  PROVE  /\ \/ doing' = [doing EXCEPT ![r] = "next"]
            \/ doing' = [doing EXCEPT ![r] = "out"]
         /\ at' \in [Request -> Nat]
         /\ \A q \in Request : at'[q] \in DOMAIN Plan[plan[q]]
         /\ \A q \in Request : q # r => at'[q] = at[q]
         /\ Step(r) \in {"begin", "within"} =>
              Plan[plan[r]][at'[r]] \in {"within", "commit"} /\ doing'[r] = "next"
<1>1. plan[r] \in DOMAIN Plan /\ at[r] \in DOMAIN Plan[plan[r]] /\ at[r] \in Nat
  BY DEF TypeOK
<1>2. CASE at[r] < Len(Plan[plan[r]])
  <2>1. doing' = [doing EXCEPT ![r] = "next"] /\ at' = [at EXCEPT ![r] = at[r] + 1]
    BY <1>2 DEF Done, Goto
  <2>2. at[r] + 1 \in DOMAIN Plan[plan[r]]
    BY <1>1, <1>2, PlansNest DEF Nests
  <2>3. Step(r) \in {"begin", "within"} =>
          Plan[plan[r]][at[r] + 1] \in {"within", "commit"}
    BY <1>1, PlansNest DEF Nests, Step
  <2> QED BY <1>1, <2>1, <2>2, <2>3 DEF TypeOK
<1>3. CASE ~(at[r] < Len(Plan[plan[r]]))
  <2>1. doing' = [doing EXCEPT ![r] = "out"] /\ at' = [at EXCEPT ![r] = 1]
    BY <1>3 DEF Done, Goto
  <2>2. 1 \in DOMAIN Plan[plan[r]]
    BY <1>1, PlansNest DEF Nests
  <2>3. Step(r) \notin {"begin", "within"}
    BY <1>1, <1>3, PlansNest DEF Nests, Step
  <2> QED BY <1>1, <2>1, <2>2, <2>3 DEF TypeOK
<1> QED BY <1>2, <1>3

\* What is common to all steps: the history has its type, and explains a failure.
LEMMA Observed ==
  ASSUME TypeOK, FailsOnlyWithCause, Observe
  PROVE  /\ troubled' \in [Request -> BOOLEAN]
         /\ (\A r \in Request : doing'[r] = "unserved" =>
               doing[r] = "unserved" \/ ~up' \/ closing') => FailsOnlyWithCause'
  BY DEF TypeOK, FailsOnlyWithCause, Observe

LEMMA Invariance == Spec => []IInv
<1>1. Init => IInv
  <2> SUFFICES ASSUME Init PROVE IInv
    OBVIOUS
  <2>1. \A p \in DOMAIN Plan : 1 \in DOMAIN Plan[p]
    BY PlansNest DEF Nests
  <2>2. IsFiniteSet(leased) /\ Cardinality(leased) = 0
    BY FS_EmptySet DEF Init
  <2>3. queue = <<>> /\ queue \in Seq(Request) /\ DOMAIN queue = {}
    BY DEF Init
  <2>4. at \in [Request -> Nat] /\ \A r \in Request : at[r] \in DOMAIN Plan[plan[r]]
    BY <2>1 DEF Init
  <2>5. \A r \in Request : doing[r] = "asking" <=> \E i \in DOMAIN queue : queue[i] = r
    BY <2>3 DEF Init
  <2>6. leased = {} /\ 0 <= Limit /\ tries \in 0 .. Patience - 1
    BY DEF Init, Patience
  <2>7. TypeOK
    BY <2>2, <2>3, <2>4, <2>5, <2>6 DEF Init, TypeOK
  <2> QED BY <2>2, <2>3, <2>7 DEF Init, IInv, Queued, Used, FailsOnlyWithCause
<1>2. ASSUME IInv, Next PROVE IInv'
  <2> USE <1>2 DEF IInv
  <2>1. Observe
    BY DEF Next
  <2>2. /\ troubled' \in [Request -> BOOLEAN]
        /\ (\A r \in Request : doing'[r] = "unserved" =>
              doing[r] = "unserved" \/ ~up' \/ closing') => FailsOnlyWithCause'
    BY <2>1, Observed
  <2>3. ASSUME NEW r \in Request, Arrive(r) PROVE IInv'
    <3>1. /\ plan' \in [Request -> DOMAIN Plan] /\ at' \in [Request -> Nat]
          /\ \A q \in Request : at'[q] \in DOMAIN Plan[plan'[q]]
      BY <2>3, PlansNest DEF Arrive, TypeOK, Nests
    <3>2. TypeOK'
      BY <2>2, <2>3, <3>1 DEF Arrive, Goto, TypeOK, redisVars, poolVars
    <3>3. Queued' /\ Used'
      BY <2>3 DEF Arrive, Goto, TypeOK, Queued, Used, Step, redisVars, poolVars
    <3>4. FailsOnlyWithCause' /\ (status' = "end" => closing')
      BY <2>2, <2>3 DEF Arrive, Goto, TypeOK, redisVars
    <3> QED BY <3>2, <3>3, <3>4
  <2>4. ASSUME NEW r \in Request, Ask(r) PROVE IInv'
    <3>1. /\ queue' \in Seq(Request) /\ Len(queue') = Len(queue) + 1
          /\ \A i \in 1 .. Len(queue) : queue'[i] = queue[i]
          /\ queue'[Len(queue) + 1] = r
          /\ DOMAIN queue = 1 .. Len(queue) /\ DOMAIN queue' = 1 .. Len(queue) + 1
          /\ Len(queue) \in Nat
      BY <2>4 DEF Ask, TypeOK
    <3>2. \A i \in DOMAIN queue : queue[i] # r
      BY <2>4 DEF Ask, TypeOK
    <3>3. \A q \in Request : doing'[q] = "asking" <=> \E i \in DOMAIN queue' : queue'[i] = q
      <4>1. \A q \in Request : q # r => (doing'[q] = "asking" <=> doing[q] = "asking")
        BY <2>4 DEF Ask, Goto, TypeOK
      <4>2. doing'[r] = "asking"
        BY <2>4 DEF Ask, Goto, TypeOK
      <4>3. \A q \in Request : q # r =>
              ((\E i \in DOMAIN queue : queue[i] = q) <=> (\E i \in DOMAIN queue' : queue'[i] = q))
        BY <3>1
      <4>4. \E i \in DOMAIN queue' : queue'[i] = r
        BY <3>1
      <4>5. \A q \in Request : doing[q] = "asking" <=> \E i \in DOMAIN queue : queue[i] = q
        BY DEF TypeOK
      <4> QED BY <4>1, <4>2, <4>3, <4>4, <4>5
    <3>4. TypeOK'
      BY <2>2, <2>4, <3>1, <3>3 DEF Ask, Goto, TypeOK, redisVars
    <3>5. Queued'
      BY <2>4, <3>1, <3>2 DEF Ask, Queued
    <3>6. Used'
      <4>1. \A q \in Request : q # r => doing'[q] = doing[q]
        BY <2>4 DEF Ask, Goto, TypeOK
      <4>2. /\ doing[r] = "next" /\ doing'[r] = "asking" /\ Takes(Step(r))
            /\ UNCHANGED <<plan, at, leased>>
        BY <2>4 DEF Ask, Goto, TypeOK
      <4>3. <<r, "statement">> \notin leased /\ <<r, "transaction">> \notin leased
        BY <4>2 DEF Used, Takes
      <4> QED BY <4>1, <4>2, <4>3 DEF Used, Step
    <3>7. FailsOnlyWithCause' /\ (status' = "end" => closing')
      BY <2>2, <2>4 DEF Ask, Goto, TypeOK, redisVars
    <3> QED BY <3>4, <3>5, <3>6, <3>7
  <2>5. ASSUME Lease PROVE IInv'
    <3> DEFINE r == Head(queue)
               one == <<r, Use(Step(r))>>
    <3>1. /\ queue # <<>> /\ queue \in Seq(Request) /\ r \in Request /\ r = queue[1]
          /\ Len(queue) \in Nat \ {0} /\ DOMAIN queue = 1 .. Len(queue)
          /\ queue' \in Seq(Request) /\ DOMAIN queue' = 1 .. Len(queue) - 1
          /\ \A i \in 1 .. Len(queue) - 1 : queue'[i] = queue[i + 1]
      BY <2>5 DEF Lease, TypeOK
    <3>2. doing[r] = "asking"
      <4>1. 1 \in DOMAIN queue /\ queue[1] = r
        BY <3>1
      <4> QED BY <3>1, <4>1 DEF TypeOK
    <3>3. \A i \in DOMAIN queue' : queue'[i] # r
      BY <3>1 DEF Queued
    <3>4. \A q \in Request : q # r =>
            ((\E i \in DOMAIN queue : queue[i] = q) <=> (\E i \in DOMAIN queue' : queue'[i] = q))
      <4> SUFFICES ASSUME NEW q \in Request, q # r
                   PROVE  (\E i \in DOMAIN queue : queue[i] = q)
                            <=> (\E i \in DOMAIN queue' : queue'[i] = q)
        OBVIOUS
      <4>1. ASSUME NEW i \in DOMAIN queue, queue[i] = q
            PROVE  \E j \in DOMAIN queue' : queue'[j] = q
        <5>1. i - 1 \in DOMAIN queue' /\ queue'[i - 1] = queue[i]
          BY <3>1, <4>1
        <5> QED BY <4>1, <5>1
      <4>2. ASSUME NEW i \in DOMAIN queue', queue'[i] = q
            PROVE  \E j \in DOMAIN queue : queue[j] = q
        <5>1. i + 1 \in DOMAIN queue /\ queue'[i] = queue[i + 1]
          BY <3>1, <4>2
        <5> QED BY <4>2, <5>1
      <4> QED BY <4>1, <4>2
    <3>5. \A q \in Request : doing'[q] = "asking" <=> \E i \in DOMAIN queue' : queue'[i] = q
      BY <2>5, <3>1, <3>3, <3>4 DEF Lease, Goto, TypeOK
    <3>6. /\ leased' = leased \cup {one}
          /\ IsFiniteSet(leased') /\ Cardinality(leased') <= Limit
      BY <2>5, LeasedFinite DEF Lease, Queued, TypeOK
    <3>7. leased' \subseteq Request \X {"statement", "transaction"}
      BY <3>1, <3>6 DEF Use, TypeOK
    <3>8. doing' = [doing EXCEPT ![r] = "running"]
      BY <2>5 DEF Lease, Goto
    <3>9. TypeOK'
      BY <2>2, <2>5, <3>1, <3>5, <3>6, <3>7, <3>8 DEF Lease, TypeOK, redisVars
    <3>10. Queued'
      <4>1. ASSUME NEW i \in DOMAIN queue', NEW j \in DOMAIN queue', queue'[i] = queue'[j]
            PROVE  i = j
        <5>1. /\ i + 1 \in DOMAIN queue /\ j + 1 \in DOMAIN queue
              /\ queue[i + 1] = queue[j + 1] /\ i \in Nat /\ j \in Nat
          BY <3>1, <4>1
        <5>2. i + 1 = j + 1
          BY <5>1 DEF Queued
        <5> QED BY <5>1, <5>2
      <4> QED BY <3>6, <4>1 DEF Queued
    <3>11. Step(r) \in {"query", "begin"}
      BY <3>1, <3>2 DEF Used, Takes
    <3>12. Used'
      <4>1. \A q \in Request : q # r => doing'[q] = doing[q]
        BY <3>8 DEF TypeOK
      <4>2. doing'[r] = "running" /\ UNCHANGED <<plan, at>>
        BY <2>5, <3>1, <3>8 DEF Lease, TypeOK
      <4>3. <<r, "statement">> \notin leased /\ <<r, "transaction">> \notin leased
        BY <3>1, <3>2, <3>11 DEF Used
      <4>4. /\ <<r, "statement">> \in leased' => Step(r) = "query"
            /\ <<r, "transaction">> \in leased' => Step(r) = "begin"
        BY <3>6, <3>11, <4>3 DEF Use
      <4>5. \A q \in Request : q # r =>
              /\ <<q, "statement">> \in leased' => <<q, "statement">> \in leased
              /\ <<q, "transaction">> \in leased' => <<q, "transaction">> \in leased
        BY <3>6
      <4> QED BY <4>1, <4>2, <4>4, <4>5 DEF Used, Step
    <3>13. FailsOnlyWithCause' /\ (status' = "end" => closing')
      BY <2>2, <2>5, <3>8 DEF Lease, TypeOK, redisVars
    <3> QED BY <3>9, <3>10, <3>12, <3>13
  <2>6. ASSUME NEW r \in Request, Continue(r) PROVE IInv'
    <3>1. TypeOK'
      BY <2>2, <2>6 DEF Continue, Goto, TypeOK, redisVars, poolVars
    <3>2. Queued' /\ Used'
      BY <2>6 DEF Continue, Goto, Takes, TypeOK, Queued, Used, Step, poolVars
    <3>3. FailsOnlyWithCause' /\ (status' = "end" => closing')
      BY <2>2, <2>6 DEF Continue, Goto, TypeOK, redisVars
    <3> QED BY <3>1, <3>2, <3>3
  <2>7. ASSUME NEW r \in Request, Ran(r) PROVE IInv'
    <3> DEFINE back == IF Step(r) = "begin" THEN {} ELSE {<<r, Use(Step(r))>>}
    <3>1. /\ \/ doing' = [doing EXCEPT ![r] = "next"]
             \/ doing' = [doing EXCEPT ![r] = "out"]
          /\ at' \in [Request -> Nat]
          /\ \A q \in Request : at'[q] \in DOMAIN Plan[plan[q]]
          /\ \A q \in Request : q # r => at'[q] = at[q]
          /\ Step(r) \in {"begin", "within"} =>
               Plan[plan[r]][at'[r]] \in {"within", "commit"} /\ doing'[r] = "next"
      BY <2>7, DoneMoves DEF Ran
    <3>2. leased' = leased \ back
      BY <2>7 DEF Ran
    <3>3. IsFiniteSet(leased') /\ Cardinality(leased') <= Limit
      BY <3>2, LeasedFinite DEF Queued, TypeOK
    <3>4. \A q \in Request : doing'[q] = "asking" <=> doing[q] = "asking"
      BY <2>7, <3>1 DEF Ran, TypeOK
    <3>5. TypeOK'
      <4>1. leased' \subseteq Request \X {"statement", "transaction"}
        BY <3>2 DEF TypeOK
      <4>2. \A q \in Request : doing'[q] = "asking" <=> \E i \in DOMAIN queue : queue[i] = q
        BY <3>4 DEF TypeOK
      <4>3. doing' \in [Request -> {"out", "next", "asking", "running", "dialling",
                                    "pending", "unserved"}]
        BY <3>1 DEF TypeOK
      <4>4. UNCHANGED <<redisVars, plan, queue>>
        BY <2>7 DEF Ran
      <4> QED BY <2>2, <3>1, <3>3, <4>1, <4>2, <4>3, <4>4 DEF TypeOK, redisVars
    <3>6. Queued'
      BY <2>7, <3>3 DEF Ran, Queued
    <3>7. Used'
      <4> SUFFICES ASSUME NEW q \in Request
                   PROVE  /\ <<q, "statement">> \in leased' =>
                               doing'[q] = "running" /\ Plan[plan[q]][at'[q]] = "query"
                          /\ <<q, "transaction">> \in leased' =>
                               \/ /\ doing'[q] \in {"next", "running"}
                                  /\ Plan[plan[q]][at'[q]] \in {"within", "commit"}
                               \/ doing'[q] = "running" /\ Plan[plan[q]][at'[q]] = "begin"
                          /\ doing'[q] = "asking" => Takes(Plan[plan[q]][at'[q]])
        BY <2>7 DEF Ran, Used, Step
      <4>1. CASE q # r
        BY <3>1, <3>2, <3>4, <4>1 DEF Used, Step, TypeOK
      <4>2. CASE q = r
        <5>1. doing[r] = "running"
          BY <2>7 DEF Ran
        <5>2. <<r, "statement">> \notin leased'
          BY <3>2 DEF Used, Use
        <5>3. <<r, "transaction">> \in leased' =>
                doing'[r] = "next" /\ Plan[plan[r]][at'[r]] \in {"within", "commit"}
          BY <3>1, <3>2 DEF Used, Use
        <5>4. doing'[r] # "asking"
          BY <3>4, <5>1
        <5> QED BY <4>2, <5>2, <5>3, <5>4
      <4> QED BY <4>1, <4>2
    <3>8. FailsOnlyWithCause' /\ (status' = "end" => closing')
      BY <2>2, <2>7, <3>1 DEF Ran, TypeOK, redisVars
    <3> QED BY <3>5, <3>6, <3>7, <3>8
  <2>8. ASSUME NEW r \in Request, StatementFails(r) PROVE IInv'
    <3> DEFINE back == {r} \X {"statement", "transaction"}
    <3>1. leased' = leased \ back
      BY <2>8 DEF StatementFails
    <3>2. IsFiniteSet(leased') /\ Cardinality(leased') <= Limit
      BY <3>1, LeasedFinite DEF Queued, TypeOK
    <3>3. /\ at' \in [Request -> Nat]
          /\ \A q \in Request : at'[q] \in DOMAIN Plan[plan[q]]
      BY <2>8, PlansNest DEF StatementFails, TypeOK, Nests
    <3>4. TypeOK'
      BY <2>2, <2>8, <3>1, <3>2, <3>3 DEF StatementFails, Goto, TypeOK, redisVars
    <3>5. Queued'
      BY <2>8, <3>2 DEF StatementFails, Queued
    <3>6. Used'
      <4>1. \A q \in Request : q # r => doing'[q] = doing[q] /\ at'[q] = at[q]
        BY <2>8 DEF StatementFails, Goto, TypeOK
      <4>2. doing'[r] = "out" /\ UNCHANGED plan
        BY <2>8 DEF StatementFails, Goto, TypeOK
      <4>3. <<r, "statement">> \notin leased' /\ <<r, "transaction">> \notin leased'
        BY <3>1
      <4>4. \A q \in Request :
              /\ <<q, "statement">> \in leased' => <<q, "statement">> \in leased
              /\ <<q, "transaction">> \in leased' => <<q, "transaction">> \in leased
        BY <3>1
      <4> SUFFICES ASSUME NEW q \in Request
                   PROVE  /\ <<q, "statement">> \in leased' =>
                               doing'[q] = "running" /\ Plan[plan[q]][at'[q]] = "query"
                          /\ <<q, "transaction">> \in leased' =>
                               \/ /\ doing'[q] \in {"next", "running"}
                                  /\ Plan[plan[q]][at'[q]] \in {"within", "commit"}
                               \/ doing'[q] = "running" /\ Plan[plan[q]][at'[q]] = "begin"
                          /\ doing'[q] = "asking" => Takes(Plan[plan[q]][at'[q]])
        BY <4>2 DEF Used, Step
      <4> QED BY <4>1, <4>2, <4>3, <4>4 DEF Used, Step
    <3>7. FailsOnlyWithCause' /\ (status' = "end" => closing')
      BY <2>2, <2>8 DEF StatementFails, Goto, TypeOK, redisVars
    <3> QED BY <3>4, <3>5, <3>6, <3>7
  <2>9. ASSUME NEW r \in Request, Call(r) PROVE IInv'
    <3>1. /\ status' = (IF status = "wait" THEN "connecting" ELSE status)
          /\ \E label \in {"dialling", "unserved", "pending"} :
               /\ doing' = [doing EXCEPT ![r] = label]
               /\ label = "unserved" => status = "end"
          /\ doing[r] = "next" /\ Step(r) = "redis"
          /\ UNCHANGED <<up, tries, closing, leased, queue, plan, at>>
      BY <2>9 DEF Call, Dials, Goto, poolVars
    <3>2. TypeOK'
      BY <2>2, <3>1 DEF TypeOK
    <3>3. Queued' /\ Used'
      BY <3>1 DEF TypeOK, Queued, Used, Step
    <3>4. FailsOnlyWithCause' /\ (status' = "end" => closing')
      BY <2>2, <3>1 DEF TypeOK
    <3> QED BY <3>2, <3>3, <3>4
  <2>10. ASSUME NEW r \in Request, Answered(r) PROVE IInv'
    <3>1. /\ \/ doing' = [doing EXCEPT ![r] = "next"]
             \/ doing' = [doing EXCEPT ![r] = "out"]
          /\ at' \in [Request -> Nat]
          /\ \A q \in Request : at'[q] \in DOMAIN Plan[plan[q]]
          /\ \A q \in Request : q # r => at'[q] = at[q]
      BY <2>10, DoneMoves DEF Answered
    <3>2. doing[r] = "pending" /\ UNCHANGED <<redisVars, poolVars, plan>>
      BY <2>10 DEF Answered
    <3>3. TypeOK'
      <4>1. \A q \in Request : doing'[q] = "asking" <=> doing[q] = "asking"
        BY <3>1, <3>2 DEF TypeOK
      <4>2. \A q \in Request : doing'[q] = "asking" <=> \E i \in DOMAIN queue : queue[i] = q
        BY <4>1 DEF TypeOK
      <4>3. doing' \in [Request -> {"out", "next", "asking", "running", "dialling",
                                    "pending", "unserved"}]
        BY <3>1 DEF TypeOK
      <4> QED BY <2>2, <3>1, <3>2, <4>2, <4>3 DEF TypeOK, redisVars, poolVars
    <3>4. Queued' /\ Used'
      <4>1. \A q \in Request : q # r => doing'[q] = doing[q]
        BY <3>1 DEF TypeOK
      <4>2. doing'[r] \in {"next", "out"}
        BY <3>1 DEF TypeOK
      <4>3. <<r, "statement">> \notin leased /\ <<r, "transaction">> \notin leased
        BY <3>2 DEF Used
      <4> QED BY <3>1, <3>2, <4>1, <4>2, <4>3 DEF Queued, Used, Step, poolVars
    <3>5. FailsOnlyWithCause' /\ (status' = "end" => closing')
      BY <2>2, <3>1, <3>2 DEF TypeOK, redisVars
    <3> QED BY <3>3, <3>4, <3>5
  <2>11. ASSUME NEW r \in Request, Refuse(r) PROVE IInv'
    <3>1. /\ at' \in [Request -> Nat]
          /\ \A q \in Request : at'[q] \in DOMAIN Plan[plan[q]]
      BY <2>11, PlansNest DEF Refuse, TypeOK, Nests
    <3>2. TypeOK'
      BY <2>2, <2>11, <3>1 DEF Refuse, Goto, TypeOK, redisVars, poolVars
    <3>3. Queued' /\ Used'
      <4>1. \A q \in Request : q # r => doing'[q] = doing[q] /\ at'[q] = at[q]
        BY <2>11 DEF Refuse, Goto, TypeOK
      <4>2. doing'[r] = "out" /\ UNCHANGED <<plan, leased, queue>>
        BY <2>11 DEF Refuse, Goto, TypeOK, poolVars
      <4>3. <<r, "statement">> \notin leased /\ <<r, "transaction">> \notin leased
        BY <2>11 DEF Refuse, Used
      <4> QED BY <4>1, <4>2, <4>3 DEF Queued, Used, Step
    <3>4. FailsOnlyWithCause' /\ (status' = "end" => closing')
      BY <2>2, <2>11 DEF Refuse, Goto, TypeOK, redisVars
    <3> QED BY <3>2, <3>3, <3>4
  <2>12. ASSUME UNCHANGED <<leased, queue, plan, at>>,
                \A q \in Request : \/ doing'[q] = doing[q]
                                   \/ /\ doing[q] \in {"dialling", "pending"}
                                      /\ doing'[q] \in {"pending", "unserved"}
         PROVE  /\ Queued' /\ Used'
                /\ \A q \in Request :
                     doing'[q] = "asking" <=> \E i \in DOMAIN queue' : queue'[i] = q
    <3>1. \A q \in Request : doing'[q] = "asking" <=> doing[q] = "asking"
      BY <2>12
    <3>2. \A q \in Request : doing[q] = "asking" <=> \E i \in DOMAIN queue : queue[i] = q
      BY DEF TypeOK
    <3>3. Queued' /\ Used'
      BY <2>12 DEF Queued, Used, Step
    <3> QED BY <2>12, <3>1, <3>2, <3>3
  <2>13. CASE Connected \/ Lost \/ Redial \/ Flip \/ OnModuleDestroy \/ Quit
    <3>1. /\ \A q \in Request : \/ doing'[q] = doing[q]
                                \/ /\ doing[q] \in {"dialling", "pending"}
                                   /\ doing'[q] \in {"pending", "unserved"}
                                   /\ doing'[q] = "unserved" => ~up' \/ closing'
          /\ doing' \in [Request -> {"out", "next", "asking", "running", "dialling",
                                     "pending", "unserved"}]
          /\ UNCHANGED <<leased, queue, plan, at>>
          /\ up' \in BOOLEAN /\ closing' \in BOOLEAN
          /\ status' \in {"wait", "connecting", "ready", "reconnecting", "end"}
          /\ tries' \in 0 .. Patience - 1
          /\ status' = "end" => closing'
      <4>1. CASE Connected
        BY <4>1 DEF Connected, TypeOK, Patience, poolVars
      <4>2. CASE Lost
        BY <4>2 DEF Lost, TypeOK, Patience, poolVars
      <4>3. CASE Redial \/ Flip \/ OnModuleDestroy
        BY <4>3 DEF Redial, Flip, OnModuleDestroy, TypeOK, poolVars
      <4>4. CASE Quit
        BY <4>4 DEF Quit, TypeOK, poolVars
      <4> QED BY <2>13, <4>1, <4>2, <4>3, <4>4
    <3>2. /\ Queued' /\ Used'
          /\ \A q \in Request :
               doing'[q] = "asking" <=> \E i \in DOMAIN queue' : queue'[i] = q
      BY <2>12, <3>1
    <3>3. TypeOK'
      BY <2>2, <3>1, <3>2 DEF TypeOK
    <3>4. FailsOnlyWithCause'
      BY <2>2, <3>1
    <3> QED BY <3>1, <3>2, <3>3, <3>4
  <2>14. CASE Restart
    <3>1. /\ leased' = {} /\ IsFiniteSet(leased') /\ Cardinality(leased') = 0
          /\ queue' = <<>> /\ queue' \in Seq(Request) /\ DOMAIN queue' = {}
      BY <2>14, FS_EmptySet DEF Restart
    <3>2. /\ at' \in [Request -> Nat]
          /\ \A q \in Request : at'[q] \in DOMAIN Plan[plan[q]]
      BY <2>14, PlansNest DEF Restart, TypeOK, Nests
    <3>3. /\ \A q \in Request : doing'[q] = "out"
          /\ doing' \in [Request -> {"out", "next", "asking", "running", "dialling",
                                     "pending", "unserved"}]
          /\ status' = "wait" /\ tries' = 0 /\ closing' = FALSE /\ UNCHANGED <<up, plan>>
      BY <2>14 DEF Restart
    <3>4. \A q \in Request : doing'[q] = "asking" <=> \E i \in DOMAIN queue' : queue'[i] = q
      BY <3>1, <3>3
    <3>5. TypeOK'
      <4>1. tries' \in 0 .. Patience - 1 /\ Cardinality(leased') <= Limit
        BY <3>1, <3>3 DEF Patience
      <4>2. leased' \subseteq Request \X {"statement", "transaction"}
        BY <3>1
      <4> QED BY <2>2, <3>1, <3>2, <3>3, <3>4, <4>1, <4>2 DEF TypeOK
    <3>6. Queued' /\ Used'
      BY <3>1, <3>3 DEF Queued, Used
    <3> QED BY <2>2, <3>3, <3>5, <3>6
  <2> QED
    BY <2>3, <2>4, <2>5, <2>6, <2>7, <2>8, <2>9, <2>10, <2>11, <2>13, <2>14
    DEF Next, RequestStep, ClientStep
<1>3. ASSUME IInv, UNCHANGED vars PROVE IInv'
  BY <1>3 DEF IInv, TypeOK, Queued, Used, FailsOnlyWithCause, Step, vars, redisVars, poolVars
<1> QED BY <1>1, <1>2, <1>3, PTL DEF Spec

\* The client, the requests and the pool keep their types, the limit included.
THEOREM TypeCorrect == Spec => []TypeOK
<1>1. IInv => TypeOK
  BY DEF IInv
<1> QED BY <1>1, Invariance, PTL

\* No request holds a connection of the pool while it waits for another, or for Redis.
THEOREM NobodyHoldsAndWaits == Spec => []WaitsEmptyHanded
<1>1. IInv => WaitsEmptyHanded
  BY DEF IInv, Used, WaitsEmptyHanded, Takes
<1> QED BY <1>1, Invariance, PTL

\* Redis fails only requests that saw it down, or the process closing.
THEOREM FailuresExplained == Spec => []FailsOnlyWithCause
<1>1. IInv => FailsOnlyWithCause
  BY DEF IInv
<1> QED BY <1>1, Invariance, PTL

\* Whoever waits has something to wait for: a connection that is free or is put to
\* use before it is given back, or a client that has not given up.
InUse(use) == \/ doing[use[1]] = "running"
              \/ doing[use[1]] = "next" /\ Step(use[1]) \in {"within", "commit"}
NobodyWaitsInVain ==
    \A r \in Request : /\ doing[r] = "asking" => Free \/ \E use \in leased : InUse(use)
                       /\ doing[r] = "dialling" => status = "connecting"
                       /\ doing[r] = "pending" => status \notin {"wait", "end"}

\* The client of whoever waits for it has been called, and has not given up.
Served == \A r \in Request : /\ doing[r] = "dialling" => status = "connecting"
                             /\ doing[r] = "pending" => status \notin {"wait", "end"}

LEMMA ServedStep == TypeOK /\ Served /\ [Next]_vars => Served'
<1> SUFFICES ASSUME TypeOK, Served, [Next]_vars PROVE Served'
  OBVIOUS
<1>1. CASE UNCHANGED vars
  BY <1>1 DEF vars, redisVars, Served
<1>2. ASSUME NEW r \in Request, Arrive(r) \/ Ask(r) \/ Continue(r) PROVE Served'
  BY <1>2 DEF Arrive, Ask, Continue, Goto, TypeOK, Served, redisVars
<1>3. ASSUME NEW r \in Request, StatementFails(r) \/ Refuse(r) PROVE Served'
  BY <1>3 DEF StatementFails, Refuse, Goto, TypeOK, Served, redisVars
<1>4. ASSUME NEW r \in Request, Ran(r) \/ Answered(r) PROVE Served'
  BY <1>4 DEF Ran, Answered, Done, Goto, TypeOK, Served, redisVars
<1>5. ASSUME NEW r \in Request, Call(r) PROVE Served'
  BY <1>5 DEF Call, Dials, Goto, TypeOK, Served
<1>6. CASE Lease
  <2>1. \A r \in Request : doing'[r] \in {doing[r], "running"}
    BY <1>6 DEF Lease, Goto, TypeOK
  <2> QED BY <1>6, <2>1 DEF Lease, Served, redisVars
<1>7. CASE Connected \/ Lost \/ Redial \/ Flip \/ OnModuleDestroy \/ Quit \/ Restart
  BY <1>7 DEF Connected, Lost, Redial, Flip, OnModuleDestroy, Quit, Restart, TypeOK, Served
<1> QED BY <1>1, <1>2, <1>3, <1>4, <1>5, <1>6, <1>7 DEF Next, RequestStep, ClientStep

\* No request waits for a connection or an answer that nobody is to give back or
\* to send: none of the pool is lost, whatever fails.
THEOREM WaitersAreOwed == Spec => []NobodyWaitsInVain
<1>1. Init => Served
  BY DEF Init, Served
<1>2. IInv /\ Served => NobodyWaitsInVain
  <2> SUFFICES ASSUME IInv, Served, ~Free
               PROVE  \E use \in leased : InUse(use)
    BY DEF Served, NobodyWaitsInVain
  <2>1. leased # {}
    BY FS_EmptySet DEF Free
  <2>2. PICK r \in Request, use \in {"statement", "transaction"} : <<r, use>> \in leased
    <3>1. PICK one \in Request \X {"statement", "transaction"} : one \in leased
      BY <2>1 DEF IInv, TypeOK
    <3>2. one = <<one[1], one[2]>> /\ one[1] \in Request
          /\ one[2] \in {"statement", "transaction"}
      BY <3>1
    <3> QED BY <3>1, <3>2
  <2>3. InUse(<<r, use>>)
    BY <2>2 DEF IInv, Used, InUse, TypeOK
  <2> QED BY <2>2, <2>3
<1>3. IInv /\ Served /\ [Next]_vars => Served'
  BY ServedStep DEF IInv
<1> QED BY <1>1, <1>2, <1>3, Invariance, PTL DEF Spec
=============================================================================
