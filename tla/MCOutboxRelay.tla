--------------------------- MODULE MCOutboxRelay ---------------------------
(* Instances of OutboxRelay for TLC.                                       *)
EXTENDS OutboxRelay, TLC

CONSTANT FirstRow \* the oldest row

\* created_at: FirstRow before the others, which are as old as each other.
SomeCreatedAt == [r \in Row |-> IF r = FirstRow THEN 0 ELSE 1]

\* All as old as each other: a batch may hold them in either order.
SameCreatedAt == [r \in Row |-> 0]

\* Relays and claim ids are interchangeable; rows are not (created_at).
RelaySymmetry == Permutations(Relay) \union Permutations(Owner)
=============================================================================
