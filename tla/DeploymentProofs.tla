-------------------------- MODULE DeploymentProofs --------------------------
(***************************************************************************)
(* Proofs about what a deployment runs beside the application: Migrations, *)
(* for any number of containers and of crashes, and Seed, for any number   *)
(* of seeds, codes and ids.                                                *)
(***************************************************************************)
EXTENDS Migrations, Seed, TLAPS

-----------------------------------------------------------------------------
(* The scripts *)

LEMMA Lengths == /\ Len(Script[1]) = 6 /\ Len(Script[2]) = 11 /\ Len(Script[3]) = 1
                 /\ \A m \in Migration : Len(Script[m]) \in 1 .. 11
BY SMT DEF Script, Migration, InitRbac, AddUpdatedAtDeletedAt, AddAuditLogs

\* A statement that asks first adds one thing.
LEMMA OneEach == \A k \in 1 .. 11 : \A x, y \in Adds(2, k) : x = y
BY SMT DEF Adds, Script, Migration, AddUpdatedAtDeletedAt

\* The statement that locks adds something.
LEMMA FirstAdds == \A m \in Migration : ~IfMissing(m) => Adds(m, 1) # {}
<1>1. Adds(1, 1) = {"users", "users.deleted_at"}
  BY SMT DEF Adds, Script, Migration, InitRbac
<1>2. Adds(3, 1) = {"audit_logs"}
  BY SMT DEF Adds, Script, Migration, AddAuditLogs
<1> QED BY <1>1, <1>2 DEF Migration, IfMissing

LEMMA AddsAdded ==
  ASSUME NEW m \in Migration, NEW k \in 1 .. Len(Script[m])
  PROVE  Adds(m, k) \subseteq AddedBy(m) /\ Adds(m, k) \subseteq Everything
BY DEF AddedBy, Everything

-----------------------------------------------------------------------------
(* The inductive invariant *)

InScript(i) == pc[i] \in {"check", "alter"}

\* The statements before a container's own have been done, by whomever.
PrefixIsDone ==
    \A i \in Instance :
        /\ InScript(i) =>
               \A k \in 1 .. 11 : k < run[i].stmt => Adds(run[i].mig, k) \subseteq schema
        /\ pc[i] = "record" => AddedBy(run[i].mig) \subseteq schema

\* Each migration is recorded, or this container's to record, or still before it.
Accounted ==
    \A i \in Instance :
        /\ pc[i] = "next" => Migration \subseteq executed \cup run[i].held \cup run[i].todo
        /\ InScript(i) \/ pc[i] = "record" =>
               Migration \subseteq executed \cup run[i].held \cup run[i].todo \cup {run[i].mig}
        /\ pc[i] = "serving" => Migration \subseteq executed

\* Only what asks first is asked for.
ChecksFirst == \A i \in Instance : pc[i] = "check" => run[i].mig = 2

IInv == TypeOK /\ RecordedIsDone /\ PrefixIsDone /\ Accounted /\ ChecksFirst /\ OneInside

-----------------------------------------------------------------------------
(* Steps *)

\* A container goes on to the next statement, or to the record.
LEMMA Advances ==
  ASSUME TypeOK, NEW i \in Instance, NEW r \in RunState, r.stmt <= Len(Script[r.mig]),
         Advance(i, r)
  PROVE  \/ /\ r.stmt < Len(Script[r.mig])
            /\ run' = [run EXCEPT ![i] = [r EXCEPT !.stmt = @ + 1]]
            /\ pc' = [pc EXCEPT ![i] = Statement(r.mig)]
            /\ [r EXCEPT !.stmt = @ + 1] \in RunState
         \/ /\ r.stmt = Len(Script[r.mig])
            /\ run' = [run EXCEPT ![i] = r]
            /\ pc' = [pc EXCEPT ![i] = "record"]
<1>1. r.mig \in Migration /\ Len(Script[r.mig]) \in 1 .. 11 /\ r.stmt \in 1 .. 11
  BY Lengths DEF RunState
<1>2. CASE r.stmt < Len(Script[r.mig])
  <2>1. r.stmt + 1 \in 1 .. 11
    <3> DEFINE length == Len(Script[r.mig])
               stmt == r.stmt
    <3>1. length \in 1 .. 11 /\ stmt \in 1 .. 11 /\ stmt < length
      BY <1>1, <1>2
    <3> HIDE DEF length, stmt
    <3>2. stmt + 1 \in 1 .. 11
      BY <3>1
    <3> QED BY <3>2 DEF stmt
  <2>2. [r EXCEPT !.stmt = @ + 1] \in RunState
    BY <2>1 DEF RunState
  <2> QED BY <1>2, <2>2 DEF Advance, Length, Goto
<1>3. CASE ~(r.stmt < Len(Script[r.mig]))
  BY <1>1, <1>3 DEF Advance, Length, Goto
<1> QED BY <1>2, <1>3

LEMMA AdvanceType ==
  ASSUME TypeOK, NEW i \in Instance, NEW r \in RunState, r.stmt <= Len(Script[r.mig]),
         Advance(i, r)
  PROVE  /\ run' \in [Instance -> RunState]
         /\ \A j \in Instance : run'[j].stmt <= Len(Script[run'[j].mig])
         /\ pc' \in [Instance -> {"boot", "failed", "serving"} \cup Working]
<1> DEFINE next == [r EXCEPT !.stmt = @ + 1]
<1>1. CASE r.stmt < Len(Script[r.mig])
  <2>1. run' = [run EXCEPT ![i] = next] /\ next \in RunState
        /\ pc' = [pc EXCEPT ![i] = Statement(r.mig)]
    BY <1>1, Advances
  <2>2. next.stmt = r.stmt + 1 /\ next.mig = r.mig
    BY DEF RunState
  <2>3. next.stmt <= Len(Script[next.mig])
    <3>1. r.mig \in Migration /\ r.stmt \in Nat /\ Len(Script[r.mig]) \in Nat
      BY Lengths DEF RunState
    <3> QED BY <1>1, <2>2, <3>1
  <2> HIDE DEF next
  <2> QED BY <2>1, <2>3 DEF TypeOK, Statement, Working
<1>2. CASE ~(r.stmt < Len(Script[r.mig]))
  <2>1. run' = [run EXCEPT ![i] = r] /\ pc' = [pc EXCEPT ![i] = "record"]
    BY <1>2, Advances
  <2> QED BY <2>1 DEF TypeOK, Working
<1> QED BY <1>1, <1>2

LEMMA BlankIsRun == Blank \in RunState /\ Blank.stmt <= Len(Script[Blank.mig])
<1>1. Blank \in RunState /\ Blank.stmt = 1 /\ Blank.mig = 1
  BY DEF Blank, RunState, Migration
<1> QED BY <1>1, Lengths

LEMMA TypeStep == TypeOK /\ [Next]_vars => TypeOK'
<1> SUFFICES ASSUME TypeOK, [Next]_vars PROVE TypeOK'
  OBVIOUS
<1> USE DEF Goto, Working
<1> DEFINE Runs == run' \in [Instance -> RunState]
                   /\ \A j \in Instance : run'[j].stmt <= Len(Script[run'[j].mig])
<1>1. ASSUME NEW i \in Instance, Load(i) PROVE TypeOK'
  <2>1. [Blank EXCEPT !.todo = Pending, !.open = TRUE] \in RunState
    BY BlankIsRun DEF RunState, Pending
  <2> QED BY <1>1, <2>1, BlankIsRun DEF Load, TypeOK, RunState
<1>2. ASSUME NEW i \in Instance, Begin(i) PROVE TypeOK'
  <2>1. PICK m \in run[i].todo :
            /\ run' = [run EXCEPT ![i].todo = @ \ {m}, ![i].mig = m, ![i].stmt = 1]
            /\ pc' = [pc EXCEPT ![i] = Statement(m)]
    BY <1>2 DEF Begin
  <2> DEFINE one == [run[i] EXCEPT !.todo = @ \ {m}]
             two == [one EXCEPT !.mig = m]
             new == [two EXCEPT !.stmt = 1]
  <2>2. m \in Migration
    BY DEF TypeOK, RunState
  <2>3. new \in RunState /\ new.stmt = 1 /\ new.mig = m
    <3>1. one \in RunState
      BY DEF TypeOK, RunState
    <3> HIDE DEF one
    <3>2. two \in RunState /\ two.mig = m
      BY <2>2, <3>1 DEF RunState
    <3> HIDE DEF two
    <3> QED BY <3>2 DEF RunState
  <2>4. 1 <= Len(Script[m])
    <3>1. Len(Script[m]) \in 1 .. 11
      BY <2>2, Lengths
    <3>2. \A length \in 1 .. 11 : 1 <= length
      OBVIOUS
    <3> QED BY <3>1, <3>2
  <2>5. run' = [run EXCEPT ![i] = new]
    BY <2>1 DEF TypeOK
  <2> HIDE DEF new
  <2>6. Runs
    BY <2>3, <2>4, <2>5 DEF TypeOK
  <2> QED BY <1>2, <2>1, <2>6 DEF Begin, TypeOK, Statement
<1>3. ASSUME NEW i \in Instance, Serve(i) PROVE TypeOK'
  BY <1>3, BlankIsRun DEF Serve, TypeOK, RunState
<1>4. ASSUME NEW i \in Instance, Check(i) PROVE TypeOK'
  <2>1. CASE Refused(run[i].mig, run[i].stmt)
    <3>1. Advance(i, run[i]) /\ run[i] \in RunState /\ run[i].stmt <= Len(Script[run[i].mig])
      BY <1>4, <2>1 DEF Check, TypeOK
    <3> QED BY <1>4, <3>1, AdvanceType DEF Check, TypeOK
  <2>2. CASE ~Refused(run[i].mig, run[i].stmt)
    BY <1>4, <2>2 DEF Check, TypeOK
  <2> QED BY <2>1, <2>2
<1>5. ASSUME NEW i \in Instance, Alter(i) PROVE TypeOK'
  <2>1. Committed(i) \in RunState /\ Committed(i).stmt = run[i].stmt /\ Committed(i).mig = run[i].mig
    BY DEF Committed, TypeOK, RunState
  <2>2. Committed(i).stmt <= Len(Script[Committed(i).mig])
    BY <2>1 DEF TypeOK
  <2>3. Advance(i, Committed(i))
    BY <1>5 DEF Alter
  <2>4. schema' \in SUBSET Everything
    <3>1. run[i].mig \in Migration /\ run[i].stmt \in 1 .. Len(Script[run[i].mig])
      BY Lengths DEF TypeOK, RunState
    <3> QED BY <1>5, <3>1, AddsAdded DEF Alter, TypeOK
  <2>5. executed' \in SUBSET Migration
    BY <1>5 DEF Alter, TypeOK, RunState
  <2> QED BY <1>5, <2>1, <2>2, <2>3, <2>4, <2>5, AdvanceType DEF Alter, TypeOK
<1>6. ASSUME NEW i \in Instance, AlterRefused(i) PROVE TypeOK'
  BY <1>6, BlankIsRun DEF AlterRefused, TypeOK, RunState
<1>7. ASSUME NEW i \in Instance, Record(i) PROVE TypeOK'
  <2>1. [run[i] EXCEPT !.held = @ \cup {run[i].mig}] \in RunState
    BY DEF TypeOK, RunState
  <2>2. /\ [run[i] EXCEPT !.held = @ \cup {run[i].mig}].stmt = run[i].stmt
        /\ [run[i] EXCEPT !.held = @ \cup {run[i].mig}].mig = run[i].mig
    BY DEF TypeOK, RunState
  <2>3. \/ run' = run
        \/ run' = [run EXCEPT ![i] = [run[i] EXCEPT !.held = @ \cup {run[i].mig}]]
    BY <1>7 DEF Record
  <2>4. Runs
    BY <2>1, <2>2, <2>3 DEF TypeOK
  <2>5. executed' \in SUBSET Migration
    BY <1>7 DEF Record, TypeOK, RunState
  <2> QED BY <1>7, <2>4, <2>5 DEF Record, TypeOK
<1>8. ASSUME NEW i \in Instance, Crash(i) PROVE TypeOK'
  BY <1>8, BlankIsRun, MigrationsAssumption DEF Crash, TypeOK
<1>9. ASSUME NEW i \in Instance, Restart(i) PROVE TypeOK'
  BY <1>9 DEF Restart, TypeOK, AfterFailure
<1>10. CASE UNCHANGED vars
  BY <1>10 DEF vars, TypeOK
<1> QED
  BY <1>1, <1>2, <1>3, <1>4, <1>5, <1>6, <1>7, <1>8, <1>9, <1>10 DEF Next, Step

\* What has been done and what has been recorded stays; a step concerns one container.
LEMMA NothingUndone ==
  ASSUME [Next]_vars
  PROVE  schema \subseteq schema' /\ executed \subseteq executed'
BY DEF Next, Step, Load, Begin, Serve, Check, Alter, AlterRefused, Record, Crash,
   Restart, vars

LEMMA OneMoves ==
  ASSUME TypeOK, [Next]_vars
  PROVE  \/ UNCHANGED vars
         \/ \E i \in Instance : /\ Step(i) \/ Crash(i)
                                /\ \A j \in Instance \ {i} : pc'[j] = pc[j] /\ run'[j] = run[j]
<1>1. ASSUME NEW i \in Instance, Step(i) \/ Crash(i)
      PROVE  \A j \in Instance \ {i} : pc'[j] = pc[j] /\ run'[j] = run[j]
  BY <1>1 DEF TypeOK, Step, Load, Begin, Serve, Check, Alter, AlterRefused, Record, Crash,
     Restart, Advance, Goto
<1> QED BY <1>1 DEF Next

LEMMA AllAdded ==
  ASSUME NEW m \in Migration, NEW S, \A k \in 1 .. Len(Script[m]) : Adds(m, k) \subseteq S
  PROVE  AddedBy(m) \subseteq S
BY DEF AddedBy

\* A container that is done with a statement, and with those before it.
LEMMA AdvanceDone ==
  ASSUME TypeOK, NEW i \in Instance, NEW r \in RunState, r.stmt <= Len(Script[r.mig]),
         Advance(i, r), NEW S,
         \A k \in 1 .. 11 : k <= r.stmt => Adds(r.mig, k) \subseteq S
  PROVE  /\ pc'[i] \in {"check", "alter", "record"}
         /\ run'[i].mig = r.mig /\ run'[i].held = r.held /\ run'[i].todo = r.todo
         /\ pc'[i] = "check" => r.mig = 2
         /\ pc'[i] \in {"check", "alter"} =>
                \A k \in 1 .. 11 : k < run'[i].stmt => Adds(run'[i].mig, k) \subseteq S
         /\ pc'[i] = "record" => AddedBy(run'[i].mig) \subseteq S
<1> DEFINE next == [r EXCEPT !.stmt = @ + 1]
<1>1. CASE r.stmt < Len(Script[r.mig])
  <2>1. run' = [run EXCEPT ![i] = next] /\ next \in RunState
        /\ pc' = [pc EXCEPT ![i] = Statement(r.mig)]
    BY <1>1, Advances
  <2>2. next.stmt = r.stmt + 1 /\ next.mig = r.mig /\ next.held = r.held /\ next.todo = r.todo
    BY DEF RunState
  <2> HIDE DEF next
  <2>3. run'[i] = next /\ pc'[i] = Statement(r.mig)
    BY <2>1 DEF TypeOK
  <2>4. \A k \in 1 .. 11 : k < next.stmt => Adds(r.mig, k) \subseteq S
    <3>1. r.stmt \in 1 .. 11
      BY DEF RunState
    <3>2. \A k \in 1 .. 11 : k < r.stmt + 1 => k <= r.stmt
      BY <3>1
    <3> QED BY <2>2, <3>2
  <2> QED BY <2>2, <2>3, <2>4 DEF Statement, IfMissing
<1>2. CASE ~(r.stmt < Len(Script[r.mig]))
  <2>1. run' = [run EXCEPT ![i] = r] /\ pc' = [pc EXCEPT ![i] = "record"]
        /\ r.stmt = Len(Script[r.mig])
    BY <1>2, Advances
  <2>2. run'[i] = r /\ pc'[i] = "record"
    BY <2>1 DEF TypeOK
  <2>3. r.mig \in Migration /\ r.stmt \in 1 .. 11
    BY DEF RunState
  <2>4. \A k \in 1 .. r.stmt : Adds(r.mig, k) \subseteq S
    <3>1. \A k \in 1 .. r.stmt : k \in 1 .. 11 /\ k <= r.stmt
      BY <2>3
    <3> QED BY <3>1
  <2>5. AddedBy(r.mig) \subseteq S
    BY <2>1, <2>3, <2>4, AllAdded
  <2> QED BY <2>2, <2>5
<1> QED BY <1>1, <1>2

LEMMA AdvanceKeeps ==
  ASSUME TypeOK, NEW i \in Instance, NEW r \in RunState, r.stmt <= Len(Script[r.mig]),
         Advance(i, r)
  PROVE  run'[i].mig = r.mig
<1> DEFINE all == UNION {Adds(r.mig, j) : j \in 1 .. 11}
<1>1. \A k \in 1 .. 11 : k <= r.stmt => Adds(r.mig, k) \subseteq all
  OBVIOUS
<1> HIDE DEF all
<1> QED BY <1>1, AdvanceDone

\* What a step does for the container that takes it.
LEMMA MoverStep ==
  ASSUME IInv, NEW i \in Instance, Step(i) \/ Crash(i)
  PROVE  /\ pc'[i] \in {"check", "alter"} =>
                \A k \in 1 .. 11 : k < run'[i].stmt => Adds(run'[i].mig, k) \subseteq schema'
         /\ pc'[i] = "record" => AddedBy(run'[i].mig) \subseteq schema'
         /\ pc'[i] = "next" => Migration \subseteq executed' \cup run'[i].held \cup run'[i].todo
         /\ pc'[i] \in {"check", "alter", "record"} =>
                Migration \subseteq executed' \cup run'[i].held \cup run'[i].todo
                                              \cup {run'[i].mig}
         /\ pc'[i] = "serving" => Migration \subseteq executed'
         /\ pc'[i] = "check" => run'[i].mig = 2
         /\ \A m \in executed' \cup run'[i].held : AddedBy(m) \subseteq schema'
<1> DEFINE Goal ==
         /\ pc'[i] \in {"check", "alter"} =>
                \A k \in 1 .. 11 : k < run'[i].stmt => Adds(run'[i].mig, k) \subseteq schema'
         /\ pc'[i] = "record" => AddedBy(run'[i].mig) \subseteq schema'
         /\ pc'[i] = "next" => Migration \subseteq executed' \cup run'[i].held \cup run'[i].todo
         /\ pc'[i] \in {"check", "alter", "record"} =>
                Migration \subseteq executed' \cup run'[i].held \cup run'[i].todo
                                              \cup {run'[i].mig}
         /\ pc'[i] = "serving" => Migration \subseteq executed'
         /\ pc'[i] = "check" => run'[i].mig = 2
         /\ \A m \in executed' \cup run'[i].held : AddedBy(m) \subseteq schema'
<1> SUFFICES Goal
  OBVIOUS
<1>0. /\ TypeOK
      /\ \A m \in executed \cup run[i].held : AddedBy(m) \subseteq schema
      /\ run[i] \in RunState /\ run[i].stmt <= Len(Script[run[i].mig])
      /\ run[i].mig \in Migration /\ run[i].stmt \in 1 .. 11
  <2>1. TypeOK /\ run[i] \in RunState
    BY DEF IInv, TypeOK
  <2>2. \A m \in executed \cup run[i].held : m \in Migration
    BY <2>1 DEF TypeOK, RunState
  <2> QED BY <2>1, <2>2 DEF IInv, TypeOK, RunState, RecordedIsDone
<1>p. PrefixIsDone /\ Accounted /\ ChecksFirst
  BY DEF IInv
<1>1. CASE Load(i)
  <2>1. pc'[i] = "next" /\ run'[i] = [Blank EXCEPT !.todo = Pending, !.open = TRUE]
        /\ schema' = schema /\ executed' = executed
    BY <1>0, <1>1 DEF Load, Goto, TypeOK
  <2>2. run'[i].todo = Migration \ executed /\ run'[i].held = {}
    BY <2>1 DEF Blank, Pending
  <2> QED BY <1>0, <2>1, <2>2
<1>2. CASE Begin(i)
  <2>1. PICK m \in run[i].todo :
            /\ run' = [run EXCEPT ![i].todo = @ \ {m}, ![i].mig = m, ![i].stmt = 1]
            /\ pc' = [pc EXCEPT ![i] = Statement(m)]
    BY <1>2 DEF Begin, Goto
  <2>2. pc[i] = "next" /\ schema' = schema /\ executed' = executed
    BY <1>2 DEF Begin
  <2>3. /\ run'[i].mig = m /\ run'[i].stmt = 1 /\ run'[i].held = run[i].held
        /\ run'[i].todo = run[i].todo \ {m}
    BY <1>0, <2>1 DEF TypeOK, RunState
  <2>4. pc'[i] \in {"check", "alter"} /\ (pc'[i] = "check" => m = 2)
    BY <1>0, <2>1 DEF TypeOK, Statement, IfMissing
  <2>5. \A k \in 1 .. 11 : ~(k < 1)
    OBVIOUS
  <2>6. Migration \subseteq executed \cup run[i].held \cup run[i].todo
    BY <1>p, <2>2 DEF Accounted
  <2> QED BY <1>0, <2>2, <2>3, <2>4, <2>5, <2>6
<1>3. CASE Serve(i)
  <2>1. /\ pc'[i] = "serving" /\ run'[i] = Blank /\ schema' = schema
        /\ executed' = executed \cup run[i].held /\ pc[i] = "next" /\ run[i].todo = {}
    BY <1>0, <1>3 DEF Serve, Goto, TypeOK
  <2>2. run'[i].held = {}
    BY <2>1 DEF Blank
  <2> QED BY <1>0, <1>p, <2>1, <2>2 DEF Accounted
<1>4. CASE Check(i)
  <2>0. pc[i] = "check" /\ schema' = schema /\ executed' = executed
    BY <1>4 DEF Check
  <2>1. CASE Refused(run[i].mig, run[i].stmt)
    <3>1. run[i].mig = 2
      BY <1>p, <2>0 DEF ChecksFirst
    <3>2. Adds(run[i].mig, run[i].stmt) \subseteq schema
      BY <1>0, <2>1, <3>1, OneEach DEF Refused
    <3>3. \A k \in 1 .. 11 : k <= run[i].stmt => Adds(run[i].mig, k) \subseteq schema
      <4>1. \A k \in 1 .. 11 : k <= run[i].stmt => k < run[i].stmt \/ k = run[i].stmt
        BY <1>0
      <4>2. \A k \in 1 .. 11 : k < run[i].stmt => Adds(run[i].mig, k) \subseteq schema
        BY <1>p, <2>0 DEF PrefixIsDone, InScript
      <4> QED BY <3>2, <4>1, <4>2
    <3>4. Advance(i, run[i])
      BY <1>4, <2>1 DEF Check
    <3>5. /\ pc'[i] \in {"check", "alter", "record"}
          /\ run'[i].mig = run[i].mig /\ run'[i].held = run[i].held /\ run'[i].todo = run[i].todo
          /\ pc'[i] = "check" => run[i].mig = 2
          /\ pc'[i] \in {"check", "alter"} =>
                \A k \in 1 .. 11 : k < run'[i].stmt => Adds(run'[i].mig, k) \subseteq schema
          /\ pc'[i] = "record" => AddedBy(run'[i].mig) \subseteq schema
      BY <1>0, <3>3, <3>4, AdvanceDone
    <3>6. Migration \subseteq executed \cup run[i].held \cup run[i].todo \cup {run[i].mig}
      BY <1>p, <2>0 DEF Accounted, InScript
    <3> QED BY <1>0, <2>0, <3>5, <3>6
  <2>2. CASE ~Refused(run[i].mig, run[i].stmt)
    <3>1. pc'[i] = "alter" /\ run'[i] = run[i]
      BY <1>0, <1>4, <2>2 DEF Check, Goto, TypeOK
    <3>2. Migration \subseteq executed \cup run[i].held \cup run[i].todo \cup {run[i].mig}
      BY <1>p, <2>0 DEF Accounted, InScript
    <3>3. \A k \in 1 .. 11 : k < run[i].stmt => Adds(run[i].mig, k) \subseteq schema
      BY <1>p, <2>0 DEF PrefixIsDone, InScript
    <3> QED BY <1>0, <2>0, <3>1, <3>2, <3>3
  <2> QED BY <2>1, <2>2
<1>5. CASE Alter(i)
  <2>0. /\ pc[i] = "alter" /\ schema' = schema \cup Adds(run[i].mig, run[i].stmt)
        /\ executed' = executed \cup run[i].held /\ Advance(i, Committed(i))
    BY <1>5 DEF Alter
  <2>1. /\ Committed(i) \in RunState
        /\ Committed(i).stmt = run[i].stmt /\ Committed(i).mig = run[i].mig
        /\ Committed(i).held = {} /\ Committed(i).todo = run[i].todo
    BY <1>0 DEF Committed, RunState
  <2>2. \A k \in 1 .. 11 : k <= run[i].stmt => Adds(run[i].mig, k) \subseteq schema'
    <3>1. \A k \in 1 .. 11 : k <= run[i].stmt => k < run[i].stmt \/ k = run[i].stmt
      BY <1>0
    <3>2. \A k \in 1 .. 11 : k < run[i].stmt => Adds(run[i].mig, k) \subseteq schema
      BY <1>p, <2>0 DEF PrefixIsDone, InScript
    <3> QED BY <2>0, <3>1, <3>2
  <2>3. /\ pc'[i] \in {"check", "alter", "record"}
        /\ run'[i].mig = run[i].mig /\ run'[i].held = {} /\ run'[i].todo = run[i].todo
        /\ pc'[i] = "check" => run[i].mig = 2
        /\ pc'[i] \in {"check", "alter"} =>
                \A k \in 1 .. 11 : k < run'[i].stmt => Adds(run'[i].mig, k) \subseteq schema'
        /\ pc'[i] = "record" => AddedBy(run'[i].mig) \subseteq schema'
    <3> DEFINE r == Committed(i)
               done == schema'
    <3>1. /\ r \in RunState /\ r.stmt <= Len(Script[r.mig]) /\ Advance(i, r)
          /\ \A k \in 1 .. 11 : k <= r.stmt => Adds(r.mig, k) \subseteq done
      BY <1>0, <2>0, <2>1, <2>2
    <3>2. r.mig = run[i].mig /\ r.held = {} /\ r.todo = run[i].todo
      BY <2>1
    <3> HIDE DEF r, done
    <3>3. /\ pc'[i] \in {"check", "alter", "record"}
          /\ run'[i].mig = r.mig /\ run'[i].held = r.held /\ run'[i].todo = r.todo
          /\ pc'[i] = "check" => r.mig = 2
          /\ pc'[i] \in {"check", "alter"} =>
                \A k \in 1 .. 11 : k < run'[i].stmt => Adds(run'[i].mig, k) \subseteq done
          /\ pc'[i] = "record" => AddedBy(run'[i].mig) \subseteq done
      BY <1>0, <3>1, AdvanceDone
    <3> QED BY <3>2, <3>3 DEF done
  <2>4. Migration \subseteq executed' \cup run[i].todo \cup {run[i].mig}
    BY <1>p, <2>0 DEF Accounted, InScript
  <2>5. \A m \in executed' : AddedBy(m) \subseteq schema'
    BY <1>0, <2>0
  <2> QED BY <2>3, <2>4, <2>5
<1>6. CASE AlterRefused(i)
  <2>1. /\ pc'[i] = "failed" /\ run'[i] = Blank /\ schema' = schema
        /\ executed' = executed \cup run[i].held
    BY <1>0, <1>6 DEF AlterRefused, Goto, TypeOK
  <2> QED BY <1>0, <2>1 DEF Blank
<1>7. CASE Record(i)
  <2>0. pc[i] = "record" /\ pc'[i] = "next" /\ schema' = schema
    BY <1>0, <1>7 DEF Record, Goto, TypeOK
  <2>1. AddedBy(run[i].mig) \subseteq schema
    BY <1>p, <2>0 DEF PrefixIsDone
  <2>2. Migration \subseteq executed \cup run[i].held \cup run[i].todo \cup {run[i].mig}
    BY <1>p, <2>0 DEF Accounted, InScript
  <2>3. CASE run[i].open
    <3>1. /\ executed' = executed /\ run'[i].todo = run[i].todo
          /\ run'[i].held = run[i].held \cup {run[i].mig}
      BY <1>0, <1>7, <2>3 DEF Record, TypeOK, RunState
    <3> QED BY <1>0, <2>0, <2>1, <2>2, <3>1
  <2>4. CASE ~run[i].open
    <3>1. executed' = executed \cup {run[i].mig} /\ run' = run
      BY <1>7, <2>4 DEF Record
    <3> QED BY <1>0, <2>0, <2>1, <2>2, <3>1
  <2> QED BY <2>3, <2>4
<1>8. CASE Crash(i)
  <2>1. pc'[i] = "failed" /\ run'[i] = Blank /\ schema' = schema /\ executed' = executed
    BY <1>0, <1>8 DEF Crash, Goto, TypeOK
  <2> QED BY <1>0, <2>1 DEF Blank
<1>9. CASE Restart(i)
  <2>1. pc'[i] = "boot" /\ run' = run /\ schema' = schema /\ executed' = executed
    BY <1>0, <1>9 DEF Restart, Goto, TypeOK, AfterFailure
  <2> QED BY <1>0, <2>1
<1> QED BY <1>1, <1>2, <1>3, <1>4, <1>5, <1>6, <1>7, <1>8, <1>9 DEF Step

LEMMA IInvExceptLock ==
  IInv /\ [Next]_vars => RecordedIsDone' /\ PrefixIsDone' /\ Accounted' /\ ChecksFirst'
<1> SUFFICES ASSUME IInv, [Next]_vars
             PROVE  RecordedIsDone' /\ PrefixIsDone' /\ Accounted' /\ ChecksFirst'
  OBVIOUS
<1>1. TypeOK /\ RecordedIsDone /\ PrefixIsDone /\ Accounted /\ ChecksFirst
  BY DEF IInv
<1>2. CASE UNCHANGED vars
  BY <1>1, <1>2 DEF vars, RecordedIsDone, PrefixIsDone, Accounted, ChecksFirst, InScript
<1>3. ASSUME NEW q \in Instance, Step(q) \/ Crash(q),
             \A j \in Instance \ {q} : pc'[j] = pc[j] /\ run'[j] = run[j]
      PROVE  RecordedIsDone' /\ PrefixIsDone' /\ Accounted' /\ ChecksFirst'
  <2>1. schema \subseteq schema' /\ executed \subseteq executed'
    BY NothingUndone
  <2>2. /\ pc'[q] \in {"check", "alter"} =>
                \A k \in 1 .. 11 : k < run'[q].stmt => Adds(run'[q].mig, k) \subseteq schema'
        /\ pc'[q] = "record" => AddedBy(run'[q].mig) \subseteq schema'
        /\ pc'[q] = "next" => Migration \subseteq executed' \cup run'[q].held \cup run'[q].todo
        /\ pc'[q] \in {"check", "alter", "record"} =>
                Migration \subseteq executed' \cup run'[q].held \cup run'[q].todo
                                              \cup {run'[q].mig}
        /\ pc'[q] = "serving" => Migration \subseteq executed'
        /\ pc'[q] = "check" => run'[q].mig = 2
        /\ \A m \in executed' \cup run'[q].held : AddedBy(m) \subseteq schema'
    BY <1>3, MoverStep
  <2>3. RecordedIsDone'
    <3> SUFFICES ASSUME NEW m \in Migration,
                        m \in executed' \/ \E i \in Instance : m \in run'[i].held
                 PROVE  AddedBy(m) \subseteq schema'
      BY DEF RecordedIsDone
    <3>1. CASE m \in executed' \cup run'[q].held
      BY <2>2, <3>1
    <3>2. ASSUME NEW i \in Instance \ {q}, m \in run'[i].held
          PROVE  AddedBy(m) \subseteq schema'
      <4>1. AddedBy(m) \subseteq schema
        BY <1>1, <1>3, <3>2 DEF RecordedIsDone
      <4> QED BY <2>1, <4>1
    <3> QED BY <3>1, <3>2
  <2>4. PrefixIsDone'
    <3> SUFFICES ASSUME NEW i \in Instance
                 PROVE  /\ pc'[i] \in {"check", "alter"} =>
                             \A k \in 1 .. 11 : k < run'[i].stmt =>
                                 Adds(run'[i].mig, k) \subseteq schema'
                        /\ pc'[i] = "record" => AddedBy(run'[i].mig) \subseteq schema'
      BY DEF PrefixIsDone, InScript
    <3>1. CASE i = q
      BY <2>2, <3>1
    <3>2. CASE i # q
      BY <1>1, <1>3, <2>1, <3>2 DEF PrefixIsDone, InScript
    <3> QED BY <3>1, <3>2
  <2>5. Accounted'
    <3> SUFFICES ASSUME NEW i \in Instance
                 PROVE  /\ pc'[i] = "next" =>
                             Migration \subseteq executed' \cup run'[i].held \cup run'[i].todo
                        /\ pc'[i] \in {"check", "alter", "record"} =>
                             Migration \subseteq executed' \cup run'[i].held \cup run'[i].todo
                                                           \cup {run'[i].mig}
                        /\ pc'[i] = "serving" => Migration \subseteq executed'
      BY DEF Accounted, InScript
    <3>1. CASE i = q
      BY <2>2, <3>1
    <3>2. CASE i # q
      BY <1>1, <1>3, <2>1, <3>2 DEF Accounted, InScript
    <3> QED BY <3>1, <3>2
  <2>6. ChecksFirst'
    BY <1>1, <1>3, <2>2 DEF ChecksFirst
  <2> QED BY <2>3, <2>4, <2>5, <2>6
<1> QED BY <1>1, <1>2, <1>3, OneMoves

-----------------------------------------------------------------------------
(* The first table as a lock *)

\* Whoever is inside a migration that does not ask has added its first table.
LEMMA InsideHasLocked ==
  ASSUME TypeOK, PrefixIsDone, NEW m \in Migration, ~IfMissing(m),
         NEW j \in Instance, Inside(j, m)
  PROVE  Refused(m, 1)
<1>1. Adds(m, 1) # {}
  BY FirstAdds
<1>2. Adds(m, 1) \subseteq schema
  <2>1. CASE pc[j] = "record"
    <3>1. Len(Script[m]) \in 1 .. 11
      BY Lengths
    <3>2. \A length \in 1 .. 11 : 1 \in 1 .. length
      OBVIOUS
    <3>3. Adds(m, 1) \subseteq AddedBy(m)
      BY <3>1, <3>2, AddsAdded
    <3> QED BY <2>1, <3>3 DEF Inside, PrefixIsDone
  <2>2. CASE pc[j] = "alter"
    <3>1. run[j].stmt > 1 /\ run[j].stmt \in 1 .. 11
      BY <2>2 DEF Inside, TypeOK, RunState
    <3>2. 1 \in 1 .. 11 /\ 1 < run[j].stmt
      BY <3>1
    <3> QED BY <2>2, <3>2 DEF Inside, PrefixIsDone, InScript
  <2> QED BY <2>1, <2>2 DEF Inside
<1> QED BY <1>1, <1>2 DEF Refused

\* A container comes inside only by adding that table.
LEMMA EntersByLocking ==
  ASSUME TypeOK, ChecksFirst, NEW m \in Migration, ~IfMissing(m),
         NEW q \in Instance, Step(q) \/ Crash(q),
         pc'[q] \in {"alter", "record"}, run'[q].mig = m,
         run'[q].stmt > 1 \/ pc'[q] = "record"
  PROVE  Inside(q, m) \/ ~Refused(m, 1)
<1>0. /\ run[q] \in RunState /\ run[q].stmt <= Len(Script[run[q].mig])
      /\ run[q].mig \in Migration /\ run[q].stmt \in 1 .. 11
  BY DEF TypeOK, RunState
<1>1. Begin(q) \/ Check(q) \/ Alter(q)
  BY DEF Step, Load, Serve, AlterRefused, Record, Crash, Restart, Goto, TypeOK, AfterFailure
<1>2. CASE Begin(q)
  <2>1. PICK n \in run[q].todo :
            /\ run' = [run EXCEPT ![q].todo = @ \ {n}, ![q].mig = n, ![q].stmt = 1]
            /\ pc' = [pc EXCEPT ![q] = Statement(n)]
    BY <1>2 DEF Begin, Goto
  <2>2. run'[q].stmt = 1 /\ pc'[q] # "record"
    BY <1>0, <2>1 DEF TypeOK, RunState, Statement
  <2> QED BY <2>2
<1>3. CASE Check(q)
  <2>1. run[q].mig = 2
    BY <1>3 DEF Check, ChecksFirst
  <2>2. run'[q].mig = 2
    <3>1. CASE Refused(run[q].mig, run[q].stmt)
      <4>1. Advance(q, run[q])
        BY <1>3, <3>1 DEF Check
      <4> QED BY <1>0, <2>1, <4>1, AdvanceKeeps
    <3>2. CASE ~Refused(run[q].mig, run[q].stmt)
      BY <1>3, <2>1, <3>2 DEF Check
    <3> QED BY <3>1, <3>2
  <2> QED BY <2>2 DEF IfMissing
<1>4. CASE Alter(q)
  <2>1. /\ Committed(q) \in RunState
        /\ Committed(q).stmt = run[q].stmt /\ Committed(q).mig = run[q].mig
    BY <1>0 DEF Committed, RunState
  <2>2. Committed(q).stmt <= Len(Script[Committed(q).mig])
    BY <1>0, <2>1
  <2>3. Advance(q, Committed(q))
    BY <1>4 DEF Alter
  <2>4. run[q].mig = m
    BY <2>1, <2>2, <2>3, AdvanceKeeps
  <2>5. CASE run[q].stmt = 1
    BY <1>4, <2>4, <2>5 DEF Alter
  <2>6. CASE run[q].stmt > 1
    BY <1>4, <2>4, <2>6 DEF Alter, Inside
  <2>7. run[q].stmt = 1 \/ run[q].stmt > 1
    BY <1>0
  <2> QED BY <2>5, <2>6, <2>7
<1> QED BY <1>1, <1>2, <1>3, <1>4

LEMMA OneInsideStep == IInv /\ [Next]_vars => OneInside'
<1> SUFFICES ASSUME IInv, [Next]_vars PROVE OneInside'
  OBVIOUS
<1>1. TypeOK /\ PrefixIsDone /\ ChecksFirst /\ OneInside
  BY DEF IInv
<1>2. CASE UNCHANGED vars
  BY <1>1, <1>2 DEF vars, OneInside, Inside
<1>3. ASSUME NEW q \in Instance, Step(q) \/ Crash(q),
             \A j \in Instance \ {q} : pc'[j] = pc[j] /\ run'[j] = run[j]
      PROVE  OneInside'
  <2>1. ASSUME NEW m \in Migration, ~IfMissing(m), NEW j \in Instance \ {q}, Inside(j, m),
               pc'[q] \in {"alter", "record"}, run'[q].mig = m,
               run'[q].stmt > 1 \/ pc'[q] = "record"
        PROVE  FALSE
    <3>1. Refused(m, 1)
      BY <1>1, <2>1, InsideHasLocked
    <3>2. Inside(q, m)
      BY <1>1, <1>3, <2>1, <3>1, EntersByLocking
    <3> QED BY <1>1, <2>1, <3>2 DEF OneInside
  <2> SUFFICES ASSUME NEW m \in Migration, ~IfMissing(m),
                      NEW i \in Instance, NEW j \in Instance,
                      pc'[i] \in {"alter", "record"}, run'[i].mig = m,
                      run'[i].stmt > 1 \/ pc'[i] = "record",
                      pc'[j] \in {"alter", "record"}, run'[j].mig = m,
                      run'[j].stmt > 1 \/ pc'[j] = "record"
               PROVE  i = j
    BY DEF OneInside, Inside, IfMissing
  <2>2. CASE i # q /\ j # q
    <3>1. Inside(i, m) /\ Inside(j, m)
      BY <1>3, <2>2 DEF Inside
    <3> QED BY <1>1, <3>1 DEF OneInside
  <2>3. CASE i = q /\ j # q
    <3>1. Inside(j, m)
      BY <1>3, <2>3 DEF Inside
    <3> QED BY <2>1, <2>3, <3>1
  <2>4. CASE i # q /\ j = q
    <3>1. Inside(i, m)
      BY <1>3, <2>4 DEF Inside
    <3> QED BY <2>1, <2>4, <3>1
  <2> QED BY <2>2, <2>3, <2>4
<1> QED BY <1>1, <1>2, <1>3, OneMoves

LEMMA InitIInv == Init => IInv
<1> SUFFICES ASSUME Init PROVE IInv
  OBVIOUS
<1>1. \A i \in Instance : pc[i] = "boot" /\ run[i] = Blank
  BY DEF Init
<1>2. TypeOK
  BY BlankIsRun, MigrationsAssumption DEF Init, TypeOK
<1>3. RecordedIsDone
  BY <1>1 DEF Init, RecordedIsDone, Blank
<1>4. PrefixIsDone /\ Accounted /\ ChecksFirst /\ OneInside
  BY <1>1 DEF PrefixIsDone, Accounted, ChecksFirst, OneInside, Inside, InScript
<1> QED BY <1>2, <1>3, <1>4 DEF IInv

LEMMA IInvAlways == Spec => []IInv
<1>1. IInv /\ [Next]_vars => IInv'
  BY TypeStep, IInvExceptLock, OneInsideStep DEF IInv
<1> QED BY InitIInv, <1>1, PTL DEF Spec

-----------------------------------------------------------------------------
(* Theorems *)

\* Every variable keeps its type, and no container runs off a script's end.
THEOREM TypeCorrect == Spec => []TypeOK
<1>1. IInv => TypeOK
  BY DEF IInv
<1> QED BY IInvAlways, <1>1, PTL

\* What the table migrations records, or a transaction will, has been done in
\* full, whoever did it and however often containers crashed.
THEOREM RecordsAreDone == Spec => []RecordedIsDone
<1>1. IInv => RecordedIsDone
  BY DEF IInv
<1> QED BY IInvAlways, <1>1, PTL

\* No application serves a schema that lacks a migration.
THEOREM ServedSchemaIsComplete == Spec => []ServesMigrated
<1>1. IInv => ServesMigrated
  <2> SUFFICES ASSUME IInv, NEW i \in Instance, pc[i] = "serving"
               PROVE  executed = Migration /\ Everything \subseteq schema
    BY DEF ServesMigrated
  <2>1. executed = Migration
    BY DEF IInv, TypeOK, Accounted
  <2>2. \A m \in Migration : AddedBy(m) \subseteq schema
    BY <2>1 DEF IInv, RecordedIsDone
  <2> QED BY <2>1, <2>2 DEF Everything
<1> QED BY IInvAlways, <1>1, PTL

\* At most one container is past the first statement of a migration that creates
\* tables, with nothing but that table to keep the others out.
THEOREM FirstTableLocks == Spec => []OneInside
<1>1. IInv => OneInside
  BY DEF IInv
<1> QED BY IInvAlways, <1>1, PTL

-----------------------------------------------------------------------------
(* Migrations cut off: the inductive invariant *)

\* Nothing of a migration that creates tables is there before its first table.
FirstIsFirst ==
    \A m \in Migration : ~IfMissing(m) /\ AddedBy(m) \cap schema # {} => Refused(m, 1)

\* The tables of InitRbac are altered after it only.
InOrder == \A i \in Instance : (InScript(i) \/ pc[i] = "record") /\ run[i].mig = 2 =>
               1 \in executed \cup run[i].held

\* What a container is inside of is not recorded yet.
NotRecorded == \A m \in Migration, i \in Instance : ~IfMissing(m) /\ Inside(i, m) =>
                   m \notin executed /\ \A j \in Instance : m \notin run[j].held

\* Nobody has been ahead of a container inside InitRbac.
Ahead == \A i \in Instance : Inside(i, 1) /\ pc[i] = "alter" =>
             \A k \in 1 .. 6 : k >= run[i].stmt => ~Refused(1, k)

\* A container that does not migrate has nothing left to commit.
NothingHeld == \A i \in Instance : pc[i] \in {"boot", "failed", "serving"} => run[i].held = {}

CutInv == IInv /\ FirstIsFirst /\ InOrder /\ NotRecorded /\ Ahead /\ NothingHeld

-----------------------------------------------------------------------------
(* Migrations cut off: the scripts *)

LEMMA AddedByInitRbac ==
  AddedBy(1) = {"users", "users.deleted_at", "roles", "roles.deleted_at", "permissions",
                "user_roles", "role_permissions", "refresh_tokens"}
<1>1. \A k : k \in 1 .. 6 <=> k \in {1, 2, 3, 4, 5, 6}
  OBVIOUS
<1>2. AddedBy(1) = UNION {Adds(1, k) : k \in {1, 2, 3, 4, 5, 6}}
  BY <1>1, Lengths DEF AddedBy
<1> QED BY <1>2, SMT DEF Adds, Script, Migration, InitRbac

LEMMA AddedByAuditLogs == AddedBy(3) = {"audit_logs"}
<1>1. \A k : k \in 1 .. 1 <=> k = 1
  OBVIOUS
<1> QED BY <1>1, Lengths, SMT DEF AddedBy, Adds, Script, Migration, AddAuditLogs

\* No two statements of InitRbac add the same.
LEMMA OnceEach == \A j, k \in 1 .. 6 : j # k => Adds(1, j) \cap Adds(1, k) = {}
BY SMTT(60) DEF Adds, Script, Migration, InitRbac

\* All that two migrations share is what AddUpdatedAtDeletedAt starts with.
LEMMA Shared ==
  ASSUME NEW m \in Migration, ~IfMissing(m), NEW n \in Migration, n # m,
         NEW k \in 1 .. Len(Script[n]), AddedBy(m) \cap Adds(n, k) # {}
  PROVE  m = 1 /\ n = 2 /\ k \in {1, 2}
<1>1. \A l \in 1 .. 11 : AddedBy(1) \cap Adds(2, l) # {} => l \in {1, 2}
  BY AddedByInitRbac, SMT DEF Adds, Script, Migration, AddUpdatedAtDeletedAt
<1>2. \A l \in 1 .. 11 : AddedBy(3) \cap Adds(2, l) = {}
  BY AddedByAuditLogs, SMT DEF Adds, Script, Migration, AddUpdatedAtDeletedAt
<1>3. AddedBy(3) \cap AddedBy(1) = {}
  BY AddedByInitRbac, AddedByAuditLogs, SMT
<1>4. Adds(n, k) \subseteq AddedBy(n)
  BY AddsAdded
<1>5. m \in {1, 3} /\ n \in {1, 2, 3}
  BY DEF Migration, IfMissing
<1>6. CASE n = 2
  <2>1. k \in 1 .. 11
    BY <1>6, Lengths
  <2> QED BY <1>1, <1>2, <1>5, <1>6, <2>1
<1>7. CASE n # 2
  BY <1>3, <1>4, <1>5, <1>7
<1> QED BY <1>6, <1>7

LEMMA FirstColumns == Adds(2, 1) \subseteq Adds(1, 1) /\ Adds(2, 1) # {}
BY SMT DEF Adds, Script, Migration, InitRbac, AddUpdatedAtDeletedAt

LEMMA FirstIsAdded ==
  ASSUME NEW m \in Migration
  PROVE  1 \in 1 .. Len(Script[m]) /\ Adds(m, 1) \subseteq AddedBy(m)
<1>1. Len(Script[m]) \in 1 .. 11
  BY Lengths
<1>2. \A length \in 1 .. 11 : 1 \in 1 .. length
  OBVIOUS
<1> QED BY <1>1, <1>2, AddsAdded

-----------------------------------------------------------------------------
(* Migrations cut off: steps *)

\* A statement that alters leaves its container inside the migration.
LEMMA AlterEnters ==
  ASSUME TypeOK, NEW q \in Instance, Alter(q)
  PROVE  /\ run'[q].mig = run[q].mig /\ run'[q].held = {}
         /\ \/ pc'[q] = Statement(run[q].mig) /\ run'[q].stmt = run[q].stmt + 1
            \/ pc'[q] = "record"
<1> DEFINE r == Committed(q)
           next == [r EXCEPT !.stmt = @ + 1]
<1>1. /\ r \in RunState /\ r.stmt = run[q].stmt /\ r.mig = run[q].mig /\ r.held = {}
      /\ r.stmt <= Len(Script[r.mig])
  BY DEF Committed, TypeOK, RunState
<1>2. Advance(q, r)
  BY DEF Alter
<1> HIDE DEF r
<1>3. CASE r.stmt < Len(Script[r.mig])
  <2>1. run' = [run EXCEPT ![q] = next] /\ pc' = [pc EXCEPT ![q] = Statement(r.mig)]
    <3>1. r \in RunState /\ r.stmt <= Len(Script[r.mig])
      BY <1>1
    <3>2. r.stmt # Len(Script[r.mig])
      BY <1>1, <1>3, Lengths DEF RunState
    <3> QED BY <1>2, <3>1, <3>2, Advances
  <2>2. next.stmt = r.stmt + 1 /\ next.mig = r.mig /\ next.held = r.held
    BY <1>1 DEF RunState
  <2> HIDE DEF next
  <2> QED BY <1>1, <2>1, <2>2 DEF TypeOK
<1>4. CASE ~(r.stmt < Len(Script[r.mig]))
  <2>1. run' = [run EXCEPT ![q] = r] /\ pc' = [pc EXCEPT ![q] = "record"]
    BY <1>1, <1>2, <1>4, Advances
  <2> QED BY <1>1, <2>1 DEF TypeOK
<1> QED BY <1>3, <1>4

\* A look changes neither the migration nor what is held.
LEMMA CheckKeeps ==
  ASSUME TypeOK, NEW q \in Instance, Check(q)
  PROVE  run'[q].mig = run[q].mig /\ run'[q].held = run[q].held
<1>1. CASE ~Refused(run[q].mig, run[q].stmt)
  BY <1>1 DEF Check
<1>2. CASE Refused(run[q].mig, run[q].stmt)
  <2> DEFINE all == UNION {Adds(run[q].mig, j) : j \in 1 .. 11}
             r == run[q]
  <2>1. /\ r \in RunState /\ r.stmt <= Len(Script[r.mig]) /\ Advance(q, r)
        /\ \A k \in 1 .. 11 : k <= r.stmt => Adds(r.mig, k) \subseteq all
    BY <1>2 DEF Check, TypeOK
  <2> HIDE DEF all, r
  <2>2. run'[q].mig = r.mig /\ run'[q].held = r.held
    BY <2>1, AdvanceDone
  <2> QED BY <2>2 DEF r
<1> QED BY <1>1, <1>2

\* Beginning takes the first migration that is still to be done.
LEMMA BeginTakes ==
  ASSUME TypeOK, NEW q \in Instance, Begin(q)
  PROVE  /\ pc'[q] = Statement(run'[q].mig) /\ run'[q].held = run[q].held
         /\ run'[q].stmt = 1 /\ \A n \in run[q].todo : run'[q].mig <= n
<1>1. PICK m \in run[q].todo :
          /\ \A n \in run[q].todo : m <= n
          /\ run' = [run EXCEPT ![q].todo = @ \ {m}, ![q].mig = m, ![q].stmt = 1]
          /\ pc' = [pc EXCEPT ![q] = Statement(m)]
  BY DEF Begin, Goto
<1>2. run'[q].mig = m /\ run'[q].held = run[q].held /\ run'[q].stmt = 1
  BY <1>1 DEF TypeOK, RunState
<1> QED BY <1>1, <1>2 DEF TypeOK

\* Only these lead into a script.
LEMMA IntoScript ==
  ASSUME TypeOK, NEW q \in Instance, Step(q) \/ Crash(q),
         pc'[q] \in {"check", "alter", "record"}
  PROVE  Begin(q) \/ Check(q) \/ Alter(q)
BY DEF Step, Load, Serve, AlterRefused, Record, Crash, Restart, Goto, TypeOK, AfterFailure

\* Only these change what is recorded or held.
LEMMA Recording ==
  ASSUME TypeOK, NEW q \in Instance, Step(q) \/ Crash(q),
         NEW m \in executed' \cup run'[q].held
  PROVE  m \in executed \cup run[q].held \/ (Record(q) /\ m = run[q].mig)
<1>1. CASE Load(q) \/ Serve(q) \/ AlterRefused(q) \/ Crash(q) \/ Restart(q)
  <2>1. executed' \subseteq executed \cup run[q].held
    BY <1>1 DEF Load, Serve, AlterRefused, Crash, Restart
  <2>2. run'[q].held \subseteq run[q].held
    <3>1. CASE Load(q)
      <4>1. [Blank EXCEPT !.todo = Pending, !.open = TRUE].held = {}
        BY DEF Blank
      <4> QED BY <3>1, <4>1 DEF Load, TypeOK
    <3>2. CASE Serve(q) \/ AlterRefused(q) \/ Crash(q) \/ Restart(q)
      BY <3>2 DEF Serve, AlterRefused, Crash, Restart, Blank, TypeOK
    <3> QED BY <1>1, <3>1, <3>2
  <2> QED BY <2>1, <2>2
<1>2. CASE Begin(q)
  BY <1>2, BeginTakes DEF Begin
<1>3. CASE Check(q)
  BY <1>3, CheckKeeps DEF Check
<1>4. CASE Alter(q)
  BY <1>4, AlterEnters DEF Alter
<1>5. CASE Record(q)
  BY <1>5 DEF Record, TypeOK, RunState
<1> QED BY <1>1, <1>2, <1>3, <1>4, <1>5 DEF Step

\* What is held is committed in the end, unless its container dies.
LEMMA HeldIsCommitted ==
  ASSUME TypeOK, NothingHeld, NEW q \in Instance, Step(q), NEW m \in run[q].held
  PROVE  m \in executed' \cup run'[q].held
<1>1. CASE Load(q) \/ Restart(q)
  BY <1>1 DEF Load, Restart, NothingHeld
<1>2. CASE Begin(q)
  BY <1>2, BeginTakes DEF Begin
<1>3. CASE Check(q)
  BY <1>3, CheckKeeps DEF Check
<1>4. CASE Alter(q) \/ AlterRefused(q) \/ Serve(q)
  BY <1>4 DEF Alter, AlterRefused, Serve
<1>5. CASE Record(q)
  BY <1>5 DEF Record, TypeOK, RunState
<1> QED BY <1>1, <1>2, <1>3, <1>4, <1>5 DEF Step

\* Only an alteration adds to the schema.
LEMMA OnlyAlterAdds ==
  ASSUME NEW q \in Instance, Step(q) \/ Crash(q), NEW x \in schema', x \notin schema
  PROVE  Alter(q) /\ x \in Adds(run[q].mig, run[q].stmt)
BY DEF Step, Load, Begin, Serve, Check, Alter, AlterRefused, Record, Crash, Restart

\* What altering adds to a migration that creates tables: it is that migration,
\* or AddUpdatedAtDeletedAt with InitRbac recorded.
LEMMA WhoAdds ==
  ASSUME TypeOK, InOrder, NEW q \in Instance, Alter(q), NEW m \in Migration, ~IfMissing(m),
         AddedBy(m) \cap Adds(run[q].mig, run[q].stmt) # {}
  PROVE  \/ run[q].mig = m
         \/ /\ m = 1 /\ run[q].mig = 2 /\ run[q].stmt \in {1, 2}
            /\ 1 \in executed \cup run[q].held
<1>1. /\ run[q].mig \in Migration /\ run[q].stmt \in 1 .. Len(Script[run[q].mig])
      /\ pc[q] = "alter"
  BY Lengths DEF TypeOK, RunState, Alter
<1>2. CASE run[q].mig # m
  <2>1. m = 1 /\ run[q].mig = 2 /\ run[q].stmt \in {1, 2}
    BY <1>1, <1>2, Shared
  <2> QED BY <1>1, <2>1 DEF InOrder, InScript
<1> QED BY <1>2

-----------------------------------------------------------------------------
(* Migrations cut off: the invariant holds *)

LEMMA FirstIsFirstStep ==
  ASSUME IInv, FirstIsFirst, InOrder, [Next]_vars
  PROVE  FirstIsFirst'
<1> SUFFICES ASSUME NEW m \in Migration, ~IfMissing(m), AddedBy(m) \cap schema' # {}
             PROVE  Adds(m, 1) \cap schema' # {}
  BY DEF FirstIsFirst, Refused, IfMissing
<1>1. schema \subseteq schema'
  BY NothingUndone
<1>2. CASE Refused(m, 1)
  BY <1>1, <1>2 DEF Refused
<1>3. CASE ~Refused(m, 1)
  <2>1. AddedBy(m) \cap schema = {}
    BY <1>3 DEF FirstIsFirst
  <2>2. PICK x \in AddedBy(m) : x \in schema' /\ x \notin schema
    BY <2>1
  <2>3. PICK q \in Instance : Step(q) \/ Crash(q)
    BY <2>2 DEF Next, vars
  <2>4. Alter(q) /\ x \in Adds(run[q].mig, run[q].stmt)
    BY <2>2, <2>3, OnlyAlterAdds
  <2>5. /\ TypeOK /\ PrefixIsDone /\ pc[q] = "alter" /\ run[q].stmt \in 1 .. 11
        /\ schema' = schema \cup Adds(run[q].mig, run[q].stmt)
    BY <2>4 DEF IInv, TypeOK, RunState, Alter
  <2>6. CASE run[q].mig = m
    <3>1. CASE run[q].stmt = 1
      BY <2>2, <2>4, <2>5, <2>6, <3>1
    <3>2. CASE run[q].stmt # 1
      <4>1. Inside(q, m)
        BY <2>5, <2>6, <3>2 DEF Inside
      <4> QED BY <1>3, <2>5, <4>1, InsideHasLocked
    <3> QED BY <3>1, <3>2
  <2>7. CASE run[q].mig # m
    <3>1. m = 1 /\ run[q].mig = 2 /\ run[q].stmt \in {1, 2}
      BY <2>2, <2>4, <2>5, <2>7, WhoAdds
    <3>2. Adds(2, 1) \subseteq schema'
      <4>1. CASE run[q].stmt = 1
        BY <2>5, <3>1, <4>1
      <4>2. CASE run[q].stmt = 2
        <5>1. 1 \in 1 .. 11 /\ 1 < 2
          OBVIOUS
        <5>2. Adds(2, 1) \subseteq schema
          BY <2>5, <3>1, <4>2, <5>1 DEF PrefixIsDone, InScript
        <5> QED BY <1>1, <5>2
      <4> QED BY <3>1, <4>1, <4>2
    <3> QED BY <3>1, <3>2, FirstColumns
  <2> QED BY <2>6, <2>7
<1> QED BY <1>2, <1>3

LEMMA InOrderStep ==
  ASSUME IInv, InOrder, [Next]_vars
  PROVE  InOrder'
<1>1. TypeOK /\ Accounted /\ executed \subseteq executed'
  BY NothingUndone DEF IInv
<1>2. CASE UNCHANGED vars
  BY <1>2 DEF vars, InOrder, InScript
<1>3. ASSUME NEW q \in Instance, Step(q) \/ Crash(q),
             \A j \in Instance \ {q} : pc'[j] = pc[j] /\ run'[j] = run[j]
      PROVE  InOrder'
  <2> SUFFICES ASSUME NEW i \in Instance, pc'[i] \in {"check", "alter", "record"},
                      run'[i].mig = 2
               PROVE  1 \in executed' \cup run'[i].held
    BY DEF InOrder, InScript
  <2>1. CASE i # q
    BY <1>1, <1>3, <2>1 DEF InOrder, InScript
  <2>2. CASE i = q
    <3>1. CASE Begin(q)
      <4>1. run'[q].held = run[q].held /\ \A n \in run[q].todo : run'[q].mig <= n
        BY <1>1, <3>1, BeginTakes
      <4>2. 1 \notin run[q].todo
        BY <2>2, <4>1
      <4>3. pc[q] = "next" /\ executed' = executed
        BY <3>1 DEF Begin
      <4>4. 1 \in executed \cup run[q].held \cup run[q].todo
        BY <1>1, <4>3 DEF Accounted, Migration
      <4> QED BY <2>2, <4>1, <4>2, <4>3, <4>4
    <3>2. CASE Check(q)
      <4>1. run'[q].mig = run[q].mig /\ run'[q].held = run[q].held /\ pc[q] = "check"
        BY <1>1, <3>2, CheckKeeps DEF Check
      <4> QED BY <1>1, <2>2, <4>1 DEF InOrder, InScript
    <3>3. CASE Alter(q)
      <4>1. run'[q].mig = run[q].mig /\ pc[q] = "alter" /\ executed' = executed \cup run[q].held
        BY <1>1, <3>3, AlterEnters DEF Alter
      <4> QED BY <2>2, <4>1 DEF InOrder, InScript
    <3> QED BY <1>1, <1>3, <2>2, <3>1, <3>2, <3>3, IntoScript
  <2> QED BY <2>1, <2>2
<1> QED BY <1>1, <1>2, <1>3, OneMoves

LEMMA NothingHeldStep ==
  ASSUME TypeOK, NothingHeld, [Next]_vars
  PROVE  NothingHeld'
<1>1. CASE UNCHANGED vars
  BY <1>1 DEF vars, NothingHeld
<1>2. ASSUME NEW q \in Instance, Step(q) \/ Crash(q),
             \A j \in Instance \ {q} : pc'[j] = pc[j] /\ run'[j] = run[j]
      PROVE  NothingHeld'
  <2>1. pc'[q] \in {"boot", "failed", "serving"} => run'[q].held = {}
    <3>1. CASE Begin(q) \/ Check(q) \/ Alter(q)
      <4>1. pc'[q] \in {"check", "alter", "record"}
        BY <3>1, BeginTakes, AlterEnters DEF Statement, Check, Advance, Goto, TypeOK
      <4> QED BY <4>1
    <3>2. CASE Load(q) \/ Record(q)
      BY <3>2 DEF Load, Record, Goto, TypeOK
    <3>3. CASE Serve(q) \/ AlterRefused(q) \/ Crash(q)
      BY <3>3 DEF Serve, AlterRefused, Crash, Blank, TypeOK
    <3>4. CASE Restart(q)
      BY <3>4 DEF Restart, NothingHeld
    <3> QED BY <1>2, <3>1, <3>2, <3>3, <3>4 DEF Step
  <2> QED BY <1>2, <2>1 DEF NothingHeld
<1> QED BY <1>1, <1>2, OneMoves

LEMMA NotRecordedStep ==
  ASSUME IInv, NotRecorded, [Next]_vars
  PROVE  NotRecorded'
<1>1. TypeOK /\ PrefixIsDone /\ ChecksFirst /\ OneInside /\ RecordedIsDone
  BY DEF IInv
<1>2. CASE UNCHANGED vars
  BY <1>2 DEF vars, NotRecorded, Inside
<1>3. ASSUME NEW q \in Instance, Step(q) \/ Crash(q),
             \A j \in Instance \ {q} : pc'[j] = pc[j] /\ run'[j] = run[j]
      PROVE  NotRecorded'
  <2> SUFFICES ASSUME NEW m \in Migration, NEW i \in Instance, ~IfMissing(m),
                      pc'[i] \in {"alter", "record"}, run'[i].mig = m,
                      run'[i].stmt > 1 \/ pc'[i] = "record"
               PROVE  m \notin executed' /\ \A j \in Instance : m \notin run'[j].held
    BY DEF NotRecorded, Inside, IfMissing
  <2>1. m \notin executed /\ \A j \in Instance : m \notin run[j].held
    <3>1. CASE Inside(i, m)
      BY <3>1 DEF NotRecorded
    <3>2. CASE ~Inside(i, m)
      <4>1. i = q
        BY <1>3, <3>2 DEF Inside
      <4>2. ~Refused(m, 1)
        BY <1>1, <1>3, <3>2, <4>1, EntersByLocking
      <4>3. ~(AddedBy(m) \subseteq schema)
        BY <4>2, FirstAdds, FirstIsAdded DEF Refused
      <4> QED BY <1>1, <4>3 DEF RecordedIsDone
    <3> QED BY <3>1, <3>2
  <2>2. ~(Record(q) /\ run[q].mig = m)
    <3> SUFFICES ASSUME Record(q), run[q].mig = m PROVE FALSE
      OBVIOUS
    <3>1. Inside(q, m) /\ pc'[q] = "next"
      BY <1>1 DEF Record, Inside, Goto, TypeOK
    <3>2. Inside(i, m)
      BY <1>3, <3>1 DEF Inside
    <3> QED BY <1>1, <3>1, <3>2 DEF OneInside
  <2>3. m \notin executed' \cup run'[q].held
    BY <1>1, <1>3, <2>1, <2>2, Recording
  <2> QED BY <1>3, <2>1, <2>3
<1> QED BY <1>1, <1>2, <1>3, OneMoves

LEMMA AheadStep ==
  ASSUME IInv, FirstIsFirst, InOrder, NotRecorded, Ahead, [Next]_vars
  PROVE  Ahead'
<1>1. TypeOK /\ PrefixIsDone /\ ChecksFirst /\ OneInside
  BY DEF IInv
<1>2. 1 \in Migration /\ ~IfMissing(1) /\ \A k \in 1 .. 6 : Adds(1, k) \subseteq AddedBy(1)
  <2>1. 1 \in Migration /\ ~IfMissing(1)
    BY DEF Migration, IfMissing
  <2>2. \A k \in 1 .. 6 : k \in 1 .. Len(Script[1])
    BY Lengths
  <2> QED BY <2>1, <2>2, AddsAdded
<1>3. CASE UNCHANGED vars
  BY <1>3 DEF vars, Ahead, Inside, Refused
<1>4. ASSUME NEW q \in Instance, Step(q) \/ Crash(q),
             \A j \in Instance \ {q} : pc'[j] = pc[j] /\ run'[j] = run[j]
      PROVE  Ahead'
  <2> SUFFICES ASSUME NEW i \in Instance, pc'[i] = "alter", run'[i].mig = 1,
                      run'[i].stmt > 1, NEW k \in 1 .. 6, k >= run'[i].stmt
               PROVE  Adds(1, k) \cap schema' = {}
    BY DEF Ahead, Inside, Refused
  <2>1. CASE i = q
    <3>1. ~Begin(q)
      BY <1>1, <2>1, BeginTakes
    <3>2. ~Check(q)
      BY <1>1, <2>1, CheckKeeps DEF Check, ChecksFirst
    <3>3. Alter(q)
      BY <1>1, <1>4, <2>1, <3>1, <3>2, IntoScript
    <3>4. run[q].mig = 1 /\ run'[q].stmt = run[q].stmt + 1
      BY <1>1, <2>1, <3>3, AlterEnters
    <3>5. /\ pc[q] = "alter" /\ ~Refused(1, run[q].stmt)
          /\ schema' = schema \cup Adds(1, run[q].stmt)
      BY <3>3, <3>4 DEF Alter
    <3>6. run[q].stmt \in 1 .. 6 /\ k > run[q].stmt
      <4>1. run[q].stmt \in 1 .. 11
        BY <1>1 DEF TypeOK, RunState
      <4> QED BY <2>1, <3>4, <4>1
    <3>7. Adds(1, k) \cap schema = {}
      <4>1. CASE run[q].stmt = 1
        BY <1>2, <3>5, <4>1 DEF FirstIsFirst
      <4>2. CASE run[q].stmt # 1
        <5>1. Inside(q, 1)
          BY <3>4, <3>5, <3>6, <4>2 DEF Inside
        <5> QED BY <3>5, <3>6, <5>1 DEF Ahead, Refused
      <4> QED BY <4>1, <4>2
    <3> QED BY <3>5, <3>6, <3>7, OnceEach
  <2>2. CASE i # q
    <3>1. Inside(i, 1) /\ Adds(1, k) \cap schema = {}
      <4>1. Inside(i, 1) /\ pc[i] = "alter" /\ k >= run[i].stmt
        BY <1>4, <2>2 DEF Inside
      <4> QED BY <4>1 DEF Ahead, Refused
    <3> SUFFICES ASSUME NEW x \in Adds(1, k), x \in schema' PROVE FALSE
      OBVIOUS
    <3>2. Alter(q) /\ x \in Adds(run[q].mig, run[q].stmt)
      BY <1>4, <3>1, OnlyAlterAdds
    <3>3. x \in AddedBy(1)
      BY <1>2
    <3>4. CASE run[q].mig = 1
      <4>1. CASE run[q].stmt = 1
        BY <1>1, <1>2, <3>1, <3>2, <3>4, <4>1, InsideHasLocked DEF Alter
      <4>2. CASE run[q].stmt # 1
        <5>1. Inside(q, 1)
          BY <1>1, <3>2, <3>4, <4>2 DEF Alter, Inside, TypeOK, RunState
        <5> QED BY <1>1, <1>2, <2>2, <3>1, <5>1 DEF OneInside
      <4> QED BY <4>1, <4>2
    <3>5. CASE run[q].mig # 1
      <4>1. 1 \in executed \cup run[q].held
        BY <1>1, <1>2, <3>2, <3>3, <3>5, WhoAdds
      <4> QED BY <1>2, <3>1, <4>1 DEF NotRecorded
    <3> QED BY <3>4, <3>5
  <2> QED BY <2>1, <2>2
<1> QED BY <1>1, <1>3, <1>4, OneMoves

\* A container leaves a migration that creates tables by recording it or by
\* dying: the statements after the first are never refused.
LEMMA LeavesByRecording ==
  ASSUME CutInv, NEW q \in Instance, Step(q), NEW m \in Migration, ~IfMissing(m), Inside(q, m)
  PROVE  \/ /\ pc'[q] \in {"alter", "record"} /\ run'[q].mig = m
            /\ run'[q].stmt > 1 \/ pc'[q] = "record"
         \/ m \in executed' \cup run'[q].held
<1>0. /\ TypeOK /\ run[q].mig = m /\ run[q].stmt \in 1 .. 11 /\ run[q].stmt <= Len(Script[m])
      /\ pc[q] \in {"alter", "record"}
  BY DEF CutInv, IInv, TypeOK, RunState, Inside
<1>1. Alter(q) \/ AlterRefused(q) \/ Record(q)
  BY <1>0 DEF Step, Load, Begin, Serve, Check, Restart
<1>2. CASE Alter(q)
  <2>1. /\ run'[q].mig = m
        /\ (pc'[q] = "alter" /\ run'[q].stmt = run[q].stmt + 1) \/ pc'[q] = "record"
    BY <1>0, <1>2, AlterEnters DEF Statement
  <2> QED BY <1>0, <2>1
<1>3. CASE Record(q)
  BY <1>0, <1>3 DEF Record, TypeOK, RunState
<1>4. CASE AlterRefused(q)
  <2>1. pc[q] = "alter" /\ Refused(m, run[q].stmt) /\ run[q].stmt > 1
    BY <1>0, <1>4 DEF AlterRefused, Inside
  <2>2. m = 1 /\ run[q].stmt \in 1 .. 6
    <3>1. m \in {1, 3} /\ Len(Script[1]) = 6 /\ Len(Script[3]) = 1
      BY Lengths DEF Migration, IfMissing
    <3> DEFINE length == Len(Script[m])
               stmt == run[q].stmt
    <3>2. stmt \in 1 .. 11 /\ stmt <= length /\ stmt > 1
      BY <1>0, <2>1
    <3>3. (m = 1 /\ length = 6) \/ (m = 3 /\ length = 1)
      BY <3>1
    <3> HIDE DEF length, stmt
    <3>4. m = 1 /\ stmt \in 1 .. 6
      BY <3>2, <3>3
    <3> QED BY <3>4 DEF stmt
  <2> QED BY <2>1, <2>2 DEF CutInv, Ahead
<1> QED BY <1>1, <1>2, <1>3, <1>4

LEMMA CutOffStep ==
  ASSUME CutInv, [Next]_vars, ~HalfDone
  PROVE  HalfDone' => crashes' > crashes
<1>1. TypeOK /\ PrefixIsDone /\ InOrder /\ NothingHeld
  BY DEF CutInv, IInv
<1>2. CASE UNCHANGED vars
  BY <1>2 DEF vars, HalfDone, Inside
<1>3. ASSUME NEW q \in Instance, Step(q) \/ Crash(q),
             \A j \in Instance \ {q} : pc'[j] = pc[j] /\ run'[j] = run[j]
      PROVE  HalfDone' => crashes' > crashes
  <2>1. CASE Crash(q)
    <3>1. crashes \in Nat /\ crashes' = crashes + 1
      BY <1>1, <2>1, MigrationsAssumption DEF TypeOK, Crash
    <3> QED BY <3>1
  <2>2. CASE Step(q)
    <3> SUFFICES ASSUME NEW m \in Migration, ~IfMissing(m), m \notin executed',
                        AddedBy(m) \cap schema' # {},
                        \A i \in Instance :
                            /\ ~(/\ pc'[i] \in {"alter", "record"} /\ run'[i].mig = m
                                 /\ run'[i].stmt > 1 \/ pc'[i] = "record")
                            /\ m \notin run'[i].held
                 PROVE  FALSE
      BY DEF HalfDone, Inside, IfMissing
    <3>1. \/ AddedBy(m) \cap schema = {}
          \/ \E i \in Instance : Inside(i, m) \/ m \in run[i].held
      <4>1. executed \subseteq executed'
        BY NothingUndone
      <4> QED BY <4>1 DEF HalfDone
    <3>2. CASE AddedBy(m) \cap schema = {}
      <4>1. PICK x \in AddedBy(m) : x \in schema' /\ x \notin schema
        BY <3>2
      <4>2. Alter(q) /\ x \in Adds(run[q].mig, run[q].stmt)
        BY <1>3, <4>1, OnlyAlterAdds
      <4>3. /\ run'[q].mig = run[q].mig
            /\ \/ pc'[q] = Statement(run[q].mig) /\ run'[q].stmt = run[q].stmt + 1
               \/ pc'[q] = "record"
            /\ executed' = executed \cup run[q].held /\ run[q].stmt \in 1 .. 11
        BY <1>1, <4>2, AlterEnters DEF Alter, TypeOK, RunState
      <4>4. CASE run[q].mig = m
        BY <4>3, <4>4 DEF Statement
      <4>5. CASE run[q].mig # m
        <5>1. m = 1 /\ 1 \in executed \cup run[q].held
          BY <1>1, <4>1, <4>2, <4>5, WhoAdds
        <5> QED BY <4>3, <5>1
      <4> QED BY <4>4, <4>5
    <3>3. ASSUME NEW i \in Instance, Inside(i, m) PROVE FALSE
      <4>1. i = q
        BY <1>3, <3>3 DEF Inside
      <4> QED BY <2>2, <3>3, <4>1, LeavesByRecording
    <3>4. ASSUME NEW i \in Instance, m \in run[i].held PROVE FALSE
      <4>1. i = q
        BY <1>3, <3>4
      <4> QED BY <1>1, <2>2, <3>4, <4>1, HeldIsCommitted
    <3> QED BY <3>1, <3>2, <3>3, <3>4
  <2> QED BY <1>3, <2>1, <2>2
<1> QED BY <1>1, <1>2, <1>3, OneMoves

LEMMA CutInvAlways == Spec => []CutInv
<1>1. Init => CutInv
  <2> SUFFICES ASSUME Init PROVE CutInv
    OBVIOUS
  <2>1. \A i \in Instance : pc[i] = "boot" /\ run[i].held = {}
    BY DEF Init, Blank
  <2>2. schema = {}
    BY DEF Init
  <2> QED BY <2>1, <2>2, InitIInv DEF CutInv, FirstIsFirst, InOrder, NotRecorded, Ahead, NothingHeld,
         InScript, Inside
<1>2. CutInv /\ [Next]_vars => CutInv'
  <2> SUFFICES ASSUME CutInv, [Next]_vars PROVE CutInv'
    OBVIOUS
  <2>1. IInv /\ FirstIsFirst /\ InOrder /\ NotRecorded /\ Ahead /\ NothingHeld /\ TypeOK
    BY DEF CutInv, IInv
  <2>2. IInv'
    BY <2>1, TypeStep, IInvExceptLock, OneInsideStep DEF IInv
  <2> QED BY <2>1, <2>2, FirstIsFirstStep, InOrderStep, NotRecordedStep, AheadStep,
         NothingHeldStep DEF CutInv
<1> QED BY <1>1, <1>2, PTL DEF Spec

\* However many containers race, only a crash leaves a migration that creates
\* tables half done, and then it stays so: no restart heals what MySQL's implicit
\* commits leave behind.
THEOREM OnlyCrashesCutOff == Spec => CutOffForGood
<1>1. CutInv /\ [Next]_vars => (HalfDone => HalfDone')
  <2> SUFFICES ASSUME CutInv, [Next]_vars,
                      NEW m \in Migration, ~IfMissing(m), m \notin executed,
                      AddedBy(m) \cap schema # {},
                      \A i \in Instance : ~Inside(i, m) /\ m \notin run[i].held
               PROVE  /\ m \notin executed' /\ AddedBy(m) \cap schema' # {}
                      /\ \A i \in Instance :
                            /\ ~(/\ pc'[i] \in {"alter", "record"} /\ run'[i].mig = m
                                 /\ run'[i].stmt > 1 \/ pc'[i] = "record")
                            /\ m \notin run'[i].held
    BY DEF HalfDone, Inside, IfMissing
  <2>1. TypeOK /\ ChecksFirst /\ Refused(m, 1) /\ schema \subseteq schema'
    BY NothingUndone DEF CutInv, IInv, FirstIsFirst
  <2>2. CASE UNCHANGED vars
    BY <2>2 DEF vars, Inside
  <2>3. ASSUME NEW q \in Instance, Step(q) \/ Crash(q),
               \A j \in Instance \ {q} : pc'[j] = pc[j] /\ run'[j] = run[j]
        PROVE  /\ m \notin executed'
               /\ \A i \in Instance :
                     /\ ~(/\ pc'[i] \in {"alter", "record"} /\ run'[i].mig = m
                          /\ run'[i].stmt > 1 \/ pc'[i] = "record")
                     /\ m \notin run'[i].held
    <3>1. ~(Record(q) /\ m = run[q].mig)
      BY DEF Record, Inside
    <3>2. m \notin executed' \cup run'[q].held
      BY <2>1, <2>3, <3>1, Recording
    <3>3. ~(/\ pc'[q] \in {"alter", "record"} /\ run'[q].mig = m
            /\ run'[q].stmt > 1 \/ pc'[q] = "record")
      BY <2>1, <2>3, EntersByLocking
    <3> QED BY <2>3, <3>2, <3>3 DEF Inside
  <2> QED BY <2>1, <2>2, <2>3, OneMoves
<1>2. CutInv /\ [Next]_vars => (HalfDone' => HalfDone \/ crashes' > crashes)
  BY CutOffStep
<1>3. CutInv /\ [Next]_vars => [/\ HalfDone => HalfDone'
                                /\ HalfDone' => HalfDone \/ crashes' > crashes]_vars
  BY <1>1, <1>2
<1> QED BY CutInvAlways, <1>3, PTL DEF Spec, CutOffForGood

-----------------------------------------------------------------------------
(* Seed: the inductive invariant *)

PastGrants == {"adduser", "assigned", "assign", "done"}
PastCodes  == {"granted", "grant"} \cup PastGrants
PastRole   == {"codes", "addcode"} \cup PastCodes

\* A code that is to be added is one of those still to be seen to.
Picks == \A s \in Process : at[s] = "addcode" => codes[s] # {}

\* What a seed has found or added by now is there.
Seen(s) ==
    /\ at[s] = "addrole" => codes[s] = PermissionCodes
    /\ at[s] \in PastRole =>
           superAdmin = "live" /\ \A c \in PermissionCodes \ codes[s] : code[c] # None
    /\ at[s] \in PastCodes => codes[s] = {}
    /\ at[s] = "granted" => Ids \subseteq missing[s]
    /\ at[s] = "grant" => Ids \subseteq grants \cup missing[s]
    /\ at[s] \in PastGrants => Ids \subseteq grants
    /\ at[s] \in {"assigned", "assign", "done"} => admin = "live"
    /\ at[s] = "done" => holds
HasSeen == \A s \in quiet : Seen(s)

IsAlone == \A s \in alone : \A q \in Process \ {s} : at[q] \in AtRest

\* What a seed has found missing still is.
Lacks(s) ==
    /\ at[s] = "addrole" => superAdmin # "live"
    /\ at[s] = "addcode" => code[NextCode(s)] = None
    /\ at[s] = "granted" => missing[s] \subseteq Ids
    /\ at[s] = "grant" => missing[s] \subseteq Ids \ grants
    /\ at[s] = "adduser" => admin # "live"
    /\ at[s] = "assign" => ~holds
    /\ at[s] = "refused" => superAdmin = "deleted" \/ admin = "deleted"
StillLacks == \A s \in quiet \cap alone : Lacks(s)

SeedInv == SeedTypeOK /\ Picks /\ HasSeen /\ IsAlone /\ StillLacks

-----------------------------------------------------------------------------
(* Seed: steps *)

LEMMA NextCodeIsOne ==
  ASSUME NEW s \in Process, codes[s] # {}
  PROVE  NextCode(s) \in codes[s]
BY DEF NextCode

\* A row more is an id more.
LEMMA RowAdded ==
  ASSUME SeedTypeOK, NEW c \in Code, code[c] = None, NEW p \in Perm, AddRow(c, p)
  PROVE  /\ code' \in [Code -> Perm \cup {None}]
         /\ issued' \in SUBSET Perm
         /\ Ids \subseteq Ids'
         /\ \A d \in Code : code[d] # None => code'[d] = code[d]
         /\ code'[c] # None
BY SeedAssumption DEF SeedTypeOK, AddRow, Ids

LEMMA SeedInitInv == SeedInit => SeedInv
BY DEF SeedInit, SeedInv, SeedTypeOK, Row, AtRest, Ids, Picks, HasSeen, IsAlone, StillLacks

\* No step of a seed gives a table a value that it may not have.
LEMMA SeedingType ==
  ASSUME SeedTypeOK, Picks, NEW s \in Process, Seeding(s)
  PROVE  SeedTypeOK'
<1> USE DEF SeedTypeOK, MoveTo, AtRest, Running, Row, Ids, tables, permissions, history
<1>1. CASE FindRole(s)
  BY <1>1 DEF FindRole
<1>2. CASE AddRole(s)
  BY <1>2 DEF AddRole
<1>3. CASE FindCode(s)
  BY <1>3 DEF FindCode
<1>4. CASE AddCode(s)
  <2>1. NextCode(s) \in codes[s]
    BY <1>4, NextCodeIsOne DEF AddCode, Picks
  <2> QED BY <1>4, <2>1, RowAdded, SeedAssumption DEF AddCode
<1>5. CASE FindPerms(s)
  BY <1>5 DEF FindPerms, AllPerms
<1>6. CASE FindGrants(s)
  BY <1>6 DEF FindGrants, Lacking
<1>7. CASE AddGrant(s)
  BY <1>7 DEF AddGrant, Grantable
<1>8. CASE FindAdmin(s)
  BY <1>8 DEF FindAdmin
<1>9. CASE AddAdmin(s)
  BY <1>9 DEF AddAdmin
<1>10. CASE FindAssignment(s)
  BY <1>10 DEF FindAssignment
<1>11. CASE AddAssignment(s)
  BY <1>11 DEF AddAssignment
<1>12. CASE InsertRefused(s)
  BY <1>12 DEF InsertRefused
<1>13. CASE SeedDies(s)
  BY <1>13 DEF SeedDies
<1> QED BY <1>1, <1>2, <1>3, <1>4, <1>5, <1>6, <1>7, <1>8, <1>9, <1>10, <1>11, <1>12, <1>13 DEF Seeding

LEMMA AdministrationType ==
  ASSUME SeedTypeOK, Administration
  PROVE  SeedTypeOK'
<1> USE DEF SeedTypeOK, Row, Ids, permissions, seeds
<1>1. CASE ChangeRole
  BY <1>1 DEF ChangeRole, Changed, Administration
<1>2. CASE ChangeAdmin
  BY <1>2 DEF ChangeAdmin, Changed, Administration
<1>3. CASE ChangeAssignment
  BY <1>3 DEF ChangeAssignment, Administration
<1>4. CASE \E c \in Code : CreatePermission(c)
  BY <1>4, RowAdded DEF CreatePermission, Administration
<1>5. CASE \E p \in Perm : DeletePermission(p)
  BY <1>5, SeedAssumption DEF DeletePermission, Cascaded, Administration
<1>6. CASE \E S \in SUBSET Perm : UpdateRole(S)
  BY <1>6 DEF UpdateRole, Administration
<1> QED BY <1>1, <1>2, <1>3, <1>4, <1>5, <1>6 DEF Administration

LEMMA SeedTypeStep == SeedTypeOK /\ Picks /\ [SeedNext]_seedVars => SeedTypeOK'
<1> SUFFICES ASSUME SeedTypeOK, Picks, [SeedNext]_seedVars PROVE SeedTypeOK'
  OBVIOUS
<1>1. CASE UNCHANGED seedVars
  BY <1>1 DEF seedVars, SeedTypeOK, Ids
<1> QED BY <1>1, SeedingType, AdministrationType DEF SeedNext

LEMMA PicksStep == SeedTypeOK /\ Picks /\ [SeedNext]_seedVars => Picks'
<1> SUFFICES ASSUME SeedTypeOK, Picks, [SeedNext]_seedVars,
                    NEW q \in Process, at'[q] = "addcode"
             PROVE  codes'[q] # {}
  BY DEF Picks
<1>1. CASE UNCHANGED seedVars \/ Administration
  BY <1>1 DEF seedVars, Administration, seeds, Picks
<1>2. ASSUME NEW s \in Process, Seeding(s) PROVE codes'[q] # {}
  BY <1>2 DEF SeedTypeOK, Picks, MoveTo, Seeding, FindRole, AddRole, FindCode, AddCode, FindPerms,
     FindGrants, AddGrant, FindAdmin, AddAdmin, FindAssignment, AddAssignment, InsertRefused, SeedDies
<1> QED BY <1>1, <1>2 DEF SeedNext

\* A seed only adds, an id only for a code that had none.
LEMMA SeedsOnlyAdd ==
  ASSUME SeedTypeOK, Picks, NEW s \in Process, Seeding(s)
  PROVE  /\ superAdmin = "live" => superAdmin' = "live"
         /\ admin = "live" => admin' = "live"
         /\ holds => holds'
         /\ grants \subseteq grants'
         /\ \A c \in Code : code[c] # None => code'[c] = code[c]
         /\ Ids' = Ids \/ \E c \in PermissionCodes : code[c] = None
<1> USE DEF SeedTypeOK, MoveTo, Ids, tables, permissions, history
<1>1. CASE FindRole(s)
  BY <1>1 DEF FindRole
<1>2. CASE AddRole(s)
  BY <1>2 DEF AddRole
<1>3. CASE FindCode(s)
  BY <1>3 DEF FindCode
<1>4. CASE AddCode(s)
  <2>1. NextCode(s) \in codes[s]
    BY <1>4, NextCodeIsOne DEF AddCode, Picks
  <2> QED BY <1>4, <2>1, RowAdded, SeedAssumption DEF AddCode
<1>5. CASE FindPerms(s)
  BY <1>5 DEF FindPerms, AllPerms
<1>6. CASE FindGrants(s)
  BY <1>6 DEF FindGrants, Lacking
<1>7. CASE AddGrant(s)
  BY <1>7 DEF AddGrant, Grantable
<1>8. CASE FindAdmin(s)
  BY <1>8 DEF FindAdmin
<1>9. CASE AddAdmin(s)
  BY <1>9 DEF AddAdmin
<1>10. CASE FindAssignment(s)
  BY <1>10 DEF FindAssignment
<1>11. CASE AddAssignment(s)
  BY <1>11 DEF AddAssignment
<1>12. CASE InsertRefused(s)
  BY <1>12 DEF InsertRefused
<1>13. CASE SeedDies(s)
  BY <1>13 DEF SeedDies
<1> QED BY <1>1, <1>2, <1>3, <1>4, <1>5, <1>6, <1>7, <1>8, <1>9, <1>10, <1>11, <1>12, <1>13 DEF Seeding

\* ... and leaves what another seed remembers alone.
LEMMA SeedsKeepApart ==
  ASSUME SeedTypeOK, NEW s \in Process, NEW q \in Process \ {s}, Seeding(s)
  PROVE  /\ at'[q] = at[q] /\ codes'[q] = codes[q] /\ missing'[q] = missing[q]
         /\ q \in quiet' => q \in quiet
<1> USE DEF SeedTypeOK, MoveTo, history
<1>1. CASE FindRole(s)
  BY <1>1 DEF FindRole
<1>2. CASE AddRole(s)
  BY <1>2 DEF AddRole
<1>3. CASE FindCode(s)
  BY <1>3 DEF FindCode
<1>4. CASE AddCode(s)
  BY <1>4 DEF AddCode
<1>5. CASE FindPerms(s)
  BY <1>5 DEF FindPerms, AllPerms
<1>6. CASE FindGrants(s)
  BY <1>6 DEF FindGrants, Lacking
<1>7. CASE AddGrant(s)
  BY <1>7 DEF AddGrant, Grantable
<1>8. CASE FindAdmin(s)
  BY <1>8 DEF FindAdmin
<1>9. CASE AddAdmin(s)
  BY <1>9 DEF AddAdmin
<1>10. CASE FindAssignment(s)
  BY <1>10 DEF FindAssignment
<1>11. CASE AddAssignment(s)
  BY <1>11 DEF AddAssignment
<1>12. CASE InsertRefused(s)
  BY <1>12 DEF InsertRefused
<1>13. CASE SeedDies(s)
  BY <1>13 DEF SeedDies
<1> QED BY <1>1, <1>2, <1>3, <1>4, <1>5, <1>6, <1>7, <1>8, <1>9, <1>10, <1>11, <1>12, <1>13 DEF Seeding

LEMMA OwnStepSeen ==
  ASSUME SeedInv, NEW s \in quiet', s \in Process, Seeding(s)
  PROVE  Seen(s)'
<1> USE DEF SeedInv, SeedTypeOK, HasSeen, Seen, MoveTo, Ids, tables, permissions, history, AtRest,
            PastRole, PastCodes, PastGrants
<1>1. CASE FindRole(s)
  BY <1>1 DEF FindRole
<1>2. CASE AddRole(s)
  BY <1>2 DEF AddRole
<1>3. CASE FindCode(s)
  <2>1. NextCode(s) \in codes[s]
    BY <1>3, NextCodeIsOne DEF FindCode
  <2> QED BY <1>3, <2>1 DEF FindCode
<1>4. CASE AddCode(s)
  <2>1. NextCode(s) \in codes[s]
    BY <1>4, NextCodeIsOne DEF AddCode, Picks
  <2> QED BY <1>4, <2>1, RowAdded, SeedAssumption DEF AddCode
<1>5. CASE FindPerms(s)
  BY <1>5 DEF FindPerms, AllPerms
<1>6. CASE FindGrants(s)
  BY <1>6 DEF FindGrants, Lacking
<1>7. CASE AddGrant(s)
  BY <1>7 DEF AddGrant, Grantable
<1>8. CASE FindAdmin(s)
  BY <1>8 DEF FindAdmin
<1>9. CASE AddAdmin(s)
  BY <1>9 DEF AddAdmin
<1>10. CASE FindAssignment(s)
  BY <1>10 DEF FindAssignment
<1>11. CASE AddAssignment(s)
  BY <1>11 DEF AddAssignment
<1>12. CASE InsertRefused(s)
  BY <1>12 DEF InsertRefused
<1>13. CASE SeedDies(s)
  BY <1>13 DEF SeedDies
<1> QED BY <1>1, <1>2, <1>3, <1>4, <1>5, <1>6, <1>7, <1>8, <1>9, <1>10, <1>11, <1>12, <1>13 DEF Seeding

LEMMA OwnStepLacks ==
  ASSUME SeedInv, NEW s \in quiet' \cap alone', s \in Process, Seeding(s)
  PROVE  Lacks(s)'
<1> USE DEF SeedInv, SeedTypeOK, StillLacks, Lacks, MoveTo, Ids, tables, permissions, history,
            AtRest, Row
<1>1. CASE FindRole(s)
  BY <1>1 DEF FindRole
<1>2. CASE AddRole(s)
  BY <1>2 DEF AddRole
<1>3. CASE FindCode(s)
  <2> DEFINE next == NextCode(s)
  <2>1. CASE code[next] # None
    BY <1>3, <2>1 DEF FindCode
  <2>2. CASE code[next] = None
    <3>1. codes' = codes /\ NextCode(s)' = next
      BY <1>3, <2>2 DEF FindCode, NextCode
    <3> QED BY <1>3, <2>2, <3>1 DEF FindCode
  <2> QED BY <2>1, <2>2
<1>4. CASE AddCode(s)
  BY <1>4 DEF AddCode
<1>5. CASE FindPerms(s)
  BY <1>5 DEF FindPerms, AllPerms
<1>6. CASE FindGrants(s)
  BY <1>6 DEF FindGrants, Lacking
<1>7. CASE AddGrant(s)
  BY <1>7 DEF AddGrant, Grantable
<1>8. CASE FindAdmin(s)
  BY <1>8 DEF FindAdmin
<1>9. CASE AddAdmin(s)
  BY <1>9 DEF AddAdmin
<1>10. CASE FindAssignment(s)
  BY <1>10 DEF FindAssignment
<1>11. CASE AddAssignment(s)
  BY <1>11 DEF AddAssignment
<1>12. CASE InsertRefused(s)
  BY <1>12 DEF InsertRefused, Clashes, Grantable
<1>13. CASE SeedDies(s)
  BY <1>13 DEF SeedDies
<1> QED BY <1>1, <1>2, <1>3, <1>4, <1>5, <1>6, <1>7, <1>8, <1>9, <1>10, <1>11, <1>12, <1>13 DEF Seeding

LEMMA HasSeenStep == SeedInv /\ [SeedNext]_seedVars => HasSeen'
<1> SUFFICES ASSUME SeedInv, [SeedNext]_seedVars, NEW q \in quiet' PROVE Seen(q)'
  BY DEF HasSeen
<1>1. CASE UNCHANGED seedVars
  BY <1>1 DEF seedVars, SeedInv, HasSeen, Seen, Ids
<1>2. CASE Administration
  BY <1>2 DEF Administration
<1>3. ASSUME NEW s \in Process, Seeding(s) PROVE Seen(q)'
  <2>1. SeedTypeOK' /\ q \in Process
    BY <1>3, SeedingType DEF SeedInv, SeedTypeOK
  <2>2. CASE q = s
    BY <1>3, <2>1, <2>2, OwnStepSeen
  <2>3. CASE q # s
    <3>1. SeedTypeOK /\ Picks
      BY DEF SeedInv
    <3>2. /\ superAdmin = "live" => superAdmin' = "live"
          /\ admin = "live" => admin' = "live"
          /\ holds => holds'
          /\ grants \subseteq grants'
      BY <1>3, <3>1, SeedsOnlyAdd
    <3>3. \A c \in PermissionCodes : code[c] # None => code'[c] # None
      BY <1>3, <3>1, SeedsOnlyAdd, SeedAssumption
    <3>4. q \in quiet /\ at'[q] = at[q] /\ codes'[q] = codes[q] /\ missing'[q] = missing[q]
      BY <1>3, <2>1, <2>3, <3>1, SeedsKeepApart
    <3>5. Seen(q)
      BY <3>4 DEF SeedInv, HasSeen
    <3>6. at[q] \in PastCodes => Ids' = Ids
      BY <1>3, <3>1, <3>5, SeedsOnlyAdd DEF Seen, PastRole
    <3> HIDE DEF Ids
    <3> QED BY <3>2, <3>3, <3>4, <3>5, <3>6 DEF Seen, PastCodes, PastGrants
  <2> QED BY <2>2, <2>3
<1> QED BY <1>1, <1>2, <1>3 DEF SeedNext

LEMMA IsAloneStep == SeedTypeOK /\ IsAlone /\ [SeedNext]_seedVars => IsAlone'
<1> SUFFICES ASSUME SeedTypeOK, IsAlone, [SeedNext]_seedVars,
                    NEW a \in alone', NEW q \in Process \ {a}
             PROVE  at'[q] \in AtRest
  BY DEF IsAlone
<1>1. CASE UNCHANGED seedVars \/ Administration
  BY <1>1 DEF seedVars, Administration, seeds, IsAlone
<1>2. ASSUME NEW s \in Process, Seeding(s) PROVE at'[q] \in AtRest
  <2>1. CASE FindRole(s)
    BY <2>1 DEF FindRole, MoveTo, SeedTypeOK
  <2>2. CASE ~FindRole(s)
    <3>1. alone' = alone /\ at[s] \notin AtRest
      BY <1>2, <2>2 DEF Seeding, AddRole, FindCode, AddCode, FindPerms, FindGrants, AddGrant,
         FindAdmin, AddAdmin, FindAssignment, AddAssignment, InsertRefused, Clashes, SeedDies,
         history, AtRest, Running
    <3>2. s = a
      BY <3>1 DEF IsAlone
    <3>3. at'[q] = at[q]
      BY <1>2, <2>2, <3>2 DEF SeedTypeOK, MoveTo, Seeding, AddRole, FindCode, AddCode, FindPerms,
         FindGrants, AddGrant, FindAdmin, AddAdmin, FindAssignment, AddAssignment, InsertRefused,
         SeedDies
    <3> QED BY <3>1, <3>3 DEF IsAlone
  <2> QED BY <2>1, <2>2
<1> QED BY <1>1, <1>2 DEF SeedNext

LEMMA StillLacksStep == SeedInv /\ [SeedNext]_seedVars => StillLacks'
<1> SUFFICES ASSUME SeedInv, [SeedNext]_seedVars, NEW q \in quiet' \cap alone' PROVE Lacks(q)'
  BY DEF StillLacks
<1>1. CASE UNCHANGED seedVars
  BY <1>1 DEF seedVars, SeedInv, StillLacks, Lacks, NextCode, Ids
<1>2. CASE Administration
  BY <1>2 DEF Administration
<1>3. ASSUME NEW s \in Process, Seeding(s) PROVE Lacks(q)'
  <2>1. q \in Process
    BY <1>3, SeedingType DEF SeedInv, SeedTypeOK
  <2>2. CASE q = s
    BY <1>3, <2>1, <2>2, OwnStepLacks
  <2>3. CASE q # s
    <3>1. CASE FindRole(s)
      BY <2>3, <3>1 DEF FindRole
    <3>2. CASE ~FindRole(s)
      <4>1. q \in quiet \cap alone /\ at[s] \notin AtRest
        BY <1>3, <3>2 DEF Seeding, AddRole, FindCode, AddCode, FindPerms, FindGrants, AddGrant,
           FindAdmin, AddAdmin, FindAssignment, AddAssignment, InsertRefused, Clashes, SeedDies,
           history, AtRest, Running
      <4> QED BY <2>3, <4>1 DEF SeedInv, IsAlone
    <3> QED BY <3>1, <3>2
  <2> QED BY <2>2, <2>3
<1> QED BY <1>1, <1>2, <1>3 DEF SeedNext

LEMMA SeedInvAlways == SeedSpec => []SeedInv
<1>1. SeedInv /\ [SeedNext]_seedVars => SeedInv'
  BY SeedTypeStep, PicksStep, HasSeenStep, IsAloneStep, StillLacksStep DEF SeedInv
<1> QED BY SeedInitInv, <1>1, PTL DEF SeedSpec

-----------------------------------------------------------------------------
(* Seed: the theorems *)

\* The tables keep their types under any number of seeds and whatever the
\* administration does: SUPER_ADMIN is granted only permissions that exist.
THEOREM SeedTypeCorrect == SeedSpec => []SeedTypeOK
BY SeedInvAlways, PTL DEF SeedInv

\* A seed that ends with 0 undisturbed has seeded everything, whatever other
\* seeds did between its awaits and whatever earlier ones left half done.
THEOREM SeedIsComplete == SeedSpec => []SeededWhenDone
<1>1. SeedInv => SeededWhenDone
  BY DEF SeedInv, SeededWhenDone, HasSeen, Seen, PastRole, PastCodes, PastGrants
<1> QED BY SeedInvAlways, <1>1, PTL

\* A seed that runs alone is not hindered by what seeds that died have left.
THEOREM SeedCanBeRerun == SeedSpec => []RefusedOnlyByDeleted
<1>1. SeedInv => RefusedOnlyByDeleted
  BY DEF SeedInv, RefusedOnlyByDeleted, StillLacks, Lacks
<1> QED BY SeedInvAlways, <1>1, PTL

=============================================================================
