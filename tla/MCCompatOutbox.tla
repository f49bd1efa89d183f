--------------------------- MODULE MCCompatOutbox ---------------------------
(* An instance of CompatOutbox for TLC.                                    *)
EXTENDS CompatOutbox

CONSTANT FirstRow \* the oldest row

\* created_at: FirstRow before the others, which are as old as each other.
SomeCreatedAt == [r \in Row |-> IF r = FirstRow THEN 0 ELSE 1]
=============================================================================
