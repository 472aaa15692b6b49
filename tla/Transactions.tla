---------------------------- MODULE Transactions -----------------------------
(***************************************************************************)
(* What the functions of the store promise to those who call them: each    *)
(* writes one row in a transaction of its own.  A call that returns has    *)
(* stored its row and a call that raises has not, unless a failure at the  *)
(* database disturbed it while it was under way; and no call raises before *)
(* something has failed.                                                   *)
(***************************************************************************)
EXTENDS Naturals

CONSTANT Calls

VARIABLES
    stored,         \* calls whose row is stored
    ended,          \* how each call has ended: "returned", "raised" or "no"
    disturbed,      \* calls that were under way when something failed
    failures        \* failures so far

txVars == <<stored, ended, disturbed, failures>>

UnderWay == {c \in Calls : ended[c] = "no"}

TxInit ==
    /\ stored = {}
    /\ ended = [c \in Calls |-> "no"]
    /\ disturbed = {}
    /\ failures = 0

(* The rows of calls under way may be stored before these calls return. *)
Return(c) ==
    /\ c \in stored' \cup disturbed
    /\ c \in UnderWay
    /\ stored \subseteq stored'
    /\ stored' \ stored \subseteq UnderWay \ disturbed
    /\ ended' = [ended EXCEPT ![c] = "returned"]
    /\ UNCHANGED <<disturbed, failures>>

Raise(c) ==
    /\ failures > 0
    /\ c \in UnderWay
    /\ c \in stored => c \in disturbed
    /\ ended' = [ended EXCEPT ![c] = "raised"]
    /\ UNCHANGED <<stored, disturbed, failures>>

(* A failure disturbs calls that are under way.  The rows of these may be  *)
(* stored all the same, and one of the other calls raises with it.         *)
Fail ==
    /\ failures' = failures + 1
    /\ disturbed \subseteq disturbed'
    /\ disturbed' \ disturbed \subseteq UnderWay
    /\ stored \subseteq stored'
    /\ stored' \ stored \subseteq disturbed' \ disturbed
    /\ \/ ended' = ended
       \/ \E c \in UnderWay \ stored' : ended' = [ended EXCEPT ![c] = "raised"]

TxNext == (\E c \in Calls : Return(c) \/ Raise(c)) \/ Fail

TxSpec == TxInit /\ [][TxNext]_txVars
=============================================================================
