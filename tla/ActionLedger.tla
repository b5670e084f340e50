---------------------------- MODULE ActionLedger ----------------------------
(***************************************************************************)
(* What doAction promises about a merchant's requests, seen from the books:*)
(* the provider executes a request at most once, and the history gets at   *)
(* most one entry for it, only after the provider has executed it, for the *)
(* amount it executed if the request names one.  Nothing is promised about *)
(* an entry that never comes: a request may end between the two.           *)
(***************************************************************************)
EXTENDS Integers

CONSTANT Requests

VARIABLES
    named,      \* the amount each request names, 0 if none
    executed,   \* the requests the provider has executed
    recorded,   \* the requests with a history entry
    noted       \* the amount of each entry, 0 while there is none

ledgerVars == <<named, executed, recorded, noted>>

Init ==
    /\ named = [r \in Requests |-> 0]
    /\ executed = {}
    /\ recorded = {}
    /\ noted = [r \in Requests |-> 0]

\* The provider executes r for the amount it names: from here on that is fixed.
Execute(r) ==
    /\ r \notin executed
    /\ executed' = executed \cup {r}
    /\ named' = [named EXCEPT ![r] = named'[r]]
    /\ UNCHANGED <<recorded, noted>>

Record(r) ==
    /\ r \in executed \ recorded
    /\ recorded' = recorded \cup {r}
    /\ noted' = [noted EXCEPT ![r] = noted'[r]]
    /\ named[r] # 0 => noted'[r] = named[r]
    /\ UNCHANGED <<named, executed>>

Next == \E r \in Requests : Execute(r) \/ Record(r)

Spec == Init /\ [][Next]_ledgerVars
=============================================================================
