----------------------------- MODULE MCInboxes -----------------------------
(* Instances of PoolInbox and MemoryInbox for TLC.  Of three messages, m1   *)
(* and m2 share only the text of the business key, m1 and m3 tenant and key *)
(* too, m2 and m3 the message id.                                           *)
EXTENDS PoolInbox, MemoryInbox, TLC

CONSTANTS m1, m2, m3, id1, id2, tA, tB, text

SomeIds == (m1 :> id1) @@ (m2 :> id2) @@ (m3 :> id2)
SomeTenants == (m1 :> tA) @@ (m2 :> tB) @@ (m3 :> tA)
OneKey == [m \in Msg |-> text]
HandlerSymmetry == Permutations(Handler)

\* The two inboxes share nothing and no property is about both, so each is
\* explored while the other has not begun.
InboxesInit == Init /\ MemoryInit
InboxesNext ==
    \/ Next /\ MemoryInit /\ UNCHANGED memory
    \/ MemoryNext /\ Init /\ UNCHANGED vars
InboxesSpec == InboxesInit /\ [][InboxesNext]_<<vars, memory>>
=============================================================================
