---------------------------- MODULE TokenLedger ----------------------------
(***************************************************************************)
(* What the refresh_tokens table promises to the rest of the system, with  *)
(* no mention of requests, clocks or hashes: an entry is written once, is  *)
(* live until it is revoked, and stays revoked; it is revoked alone, or    *)
(* together with every live entry of its own user and of no other.         *)
(***************************************************************************)
CONSTANTS Entry, Owner

VARIABLES ledger,   \* the state of every entry
          owner     \* the user an entry is written for

vars == <<ledger, owner>>

LedgerOK == /\ ledger \in [Entry -> {"absent", "live", "revoked"}]
            /\ owner \in [Entry -> Owner]

Init == /\ ledger = [e \in Entry |-> "absent"]
        /\ owner \in [Entry -> Owner]

Write(e) == /\ ledger[e] = "absent"
            /\ ledger' = [ledger EXCEPT ![e] = "live"]
            /\ UNCHANGED owner

RevokeOne(e) == /\ ledger[e] = "live"
                /\ ledger' = [ledger EXCEPT ![e] = "revoked"]
                /\ UNCHANGED owner

RevokeOwner(u) ==
    /\ ledger' = [e \in Entry |-> IF owner[e] = u /\ ledger[e] = "live"
                                  THEN "revoked" ELSE ledger[e]]
    /\ UNCHANGED owner

Next == \/ \E e \in Entry : Write(e) \/ RevokeOne(e)
        \/ \E u \in Owner : RevokeOwner(u)

Spec == Init /\ [][Next]_vars
=============================================================================
