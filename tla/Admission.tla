------------------------------ MODULE Admission ------------------------------
(***************************************************************************)
(* What the guards of a route promise, whatever they read and when: a      *)
(* request is let in only after each condition was met at some instant of  *)
(* its stay, and refused only after one was not.  A condition read through *)
(* a copy counts as met, or as unmet, if the copy or the truth says so.    *)
(***************************************************************************)
CONSTANTS Visitor, Condition

VARIABLES stay,     \* where each visitor is
          holding,  \* the conditions it can be said to meet now
          lacking,  \* the conditions it can be said not to meet now
          met,      \* history: the conditions met at some instant of its stay
          missed    \* history: those not met at some instant of its stay

promise == <<stay, holding, lacking, met, missed>>

Stage == {"out", "waiting", "inside", "refused"}
Judgement == [Visitor -> SUBSET Condition]

\* What has been seen of a visitor that waits; nothing is kept once it is judged.
Witnessed(v, seen, now) == IF stay'[v] = "waiting" THEN seen[v] \cup now[v] ELSE {}

Init == /\ stay = [v \in Visitor |-> "out"]
        /\ holding \in Judgement /\ lacking \in Judgement
        /\ met = [v \in Visitor |-> {}] /\ missed = [v \in Visitor |-> {}]

\* A visitor may come, and may always go, be it because something has failed.
Moves(v) == \/ stay'[v] \in {stay[v], "out"}
            \/ stay[v] = "out" /\ stay'[v] = "waiting"
            \/ stay[v] = "waiting" /\ stay'[v] = "inside" /\ met[v] = Condition
            \/ stay[v] = "waiting" /\ stay'[v] = "refused" /\ missed[v] # {}

Next == /\ stay' \in [Visitor -> Stage] /\ \A v \in Visitor : Moves(v)
        /\ holding' \in Judgement /\ lacking' \in Judgement
        /\ met' = [v \in Visitor |-> Witnessed(v, met, holding')]
        /\ missed' = [v \in Visitor |-> Witnessed(v, missed, lacking')]

Spec == Init /\ [][Next]_promise
=============================================================================
