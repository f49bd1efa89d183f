-------------------------- MODULE DeliveryContract --------------------------
(***************************************************************************)
(* What the transactional outbox promises its users, with no relay, lease, *)
(* retry or clock in it: a staged message is carried to the bus or parked, *)
(* `published` is said only of what the bus has stored, nothing that was   *)
(* never staged appears on the bus, and no outcome is taken back.          *)
(***************************************************************************)
EXTENDS Naturals

CONSTANTS Row, Poison, StoreCap

VARIABLES
    phase,  \* [Row -> "none", "staged", "done" or "dead"]
    onBus   \* [Row -> messages the bus stored for the row, up to StoreCap]

contractVars == <<phase, onBus>>

Init ==
    /\ phase = [r \in Row |-> IF r \in Poison THEN "staged" ELSE "none"]
    /\ onBus = [r \in Row |-> 0]

\* A domain transaction commits with its outbox row.
Stage(r) ==
    /\ r \notin Poison
    /\ phase[r] = "none"
    /\ phase' = [phase EXCEPT ![r] = "staged"]
    /\ UNCHANGED onBus

\* At least once: copies may arrive while the row waits and after, never
\* before it was staged, and never of a row that is not publishable.
Store(r) ==
    /\ r \notin Poison
    /\ phase[r] # "none" \/ onBus[r] > 0
    /\ onBus' = [onBus EXCEPT ![r] = IF @ < StoreCap THEN @ + 1 ELSE @]
    /\ UNCHANGED phase

\* Said to be published: only what the bus has, several rows at once where one
\* transaction marks them.
Complete ==
    \E S \in SUBSET {r \in Row : phase[r] = "staged" /\ onBus[r] > 0} :
        /\ S # {}
        /\ phase' = [r \in Row |-> IF r \in S THEN "done" ELSE phase[r]]
        /\ UNCHANGED onBus

\* Dead-lettered, for ever.
Park(r) ==
    /\ phase[r] = "staged"
    /\ phase' = [phase EXCEPT ![r] = "dead"]
    /\ UNCHANGED onBus

\* Retention forgets completed rows, any number at once.
Forget ==
    \E S \in SUBSET {r \in Row : phase[r] = "done"} :
        /\ S # {}
        /\ phase' = [r \in Row |-> IF r \in S THEN "none" ELSE phase[r]]
        /\ UNCHANGED onBus

Next ==
    \/ \E r \in Row : Stage(r) \/ Store(r) \/ Park(r)
    \/ Complete
    \/ Forget

Spec == Init /\ [][Next]_contractVars
=============================================================================
