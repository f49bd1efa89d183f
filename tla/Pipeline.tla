------------------------------ MODULE Pipeline ------------------------------
(***************************************************************************)
(* End to end: messages staged in the outbox, carried to the bus as the    *)
(* delivery contract promises (which OutboxRelay implements), and handled  *)
(* by the consumers of the per-consumer inbox.                             *)
(***************************************************************************)
EXTENDS ConsumerInbox

VARIABLE phase \* [Msg -> where the message's outbox row is]

Outbox == INSTANCE DeliveryContract WITH Row <- Msg, Poison <- {}, onBus <- bus

pipelineVars == <<phase, claims, session, acked, effects, bus, horizon, aborts>>

Init ==
    /\ Outbox!Init
    /\ InboxInit

\* The outbox acts by itself.
OutboxStep ==
    /\ \/ \E m \in Msg : Outbox!Stage(m) \/ Outbox!Park(m)
       \/ Outbox!Complete
       \/ Outbox!Forget
    /\ UNCHANGED inboxVars

\* A copy leaves the outbox and arrives on the bus.
Carry(m) ==
    /\ Outbox!Store(m)
    /\ Arrives(m)

Next ==
    \/ OutboxStep
    \/ \E m \in Msg : Carry(m)
    \/ InboxStep /\ UNCHANGED phase

Spec == Init /\ [][Next]_pipelineVars

\* Handlers are scheduled; JetStream delivers an unacknowledged copy again
\* and again, to some handler of each consumer.
Fairness ==
    /\ \A s \in Session : WF_pipelineVars(Handle(s) /\ UNCHANGED phase)
    /\ \A c \in Consumer, m \in Msg :
        SF_pipelineVars((\E s \in Session : ConsumerOf[s] = c /\ Deliver(s, m))
                            /\ UNCHANGED phase)

FairSpec == Spec /\ Fairness

----------------------------------------------------------------------------
(* What the pipeline promises.                                             *)

\* What the outbox reports as published takes effect at every consumer, unless
\* the transport's horizon ends first or another tenant's message of the same
\* id took effect before it (TenantMismatch).
EffectFollows ==
    \A c \in Consumer, m \in Msg :
        phase[m] = "done" ~>
            \/ horizon[m] = 0
            \/ \E n \in Msg : IdOf[n] = IdOf[m] /\ effects[<<c, n>>] > 0
=============================================================================
