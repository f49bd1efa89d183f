----------------------------- MODULE PoolInbox -----------------------------
(***************************************************************************)
(* The message-keyed inbox (inbox_try_insert and inbox_mark_processed of   *)
(* src/db.rs) as handlers of one consumer use it.  The claim commits by    *)
(* itself, before the effect: a crash between the two loses the effect,    *)
(* which the code says; the properties are about what else may happen.     *)
(***************************************************************************)
EXTENDS Naturals

CONSTANTS
    Msg,               \* messages
    IdOf, TenantOf, KeyOf, \* message_id, tenant_id, idempotency_key
    Handler,           \* handlers of the consumer
    NoMsg,             \* no message in hand
    RetentionOn, Retention, \* RELAY_RETENTION_HOURS
    Horizon,           \* how long copies of a message may be delivered and handled
    MaxCrashes         \* bound: handlers that die

ASSUME PoolAssumption ==
    /\ NoMsg \notin Msg
    /\ RetentionOn \in BOOLEAN
    /\ Horizon \in Nat \ {0}
    /\ Retention \in Nat /\ Retention >= Horizon
    /\ MaxCrashes \in Nat

VARIABLES
    rows,    \* message_inbox: [Msg -> the row inserted for the message]
    hand,    \* [Handler -> its program counter and message]
    effects, \* [Msg -> effects run]
    skipped, \* messages acknowledged as duplicates
    cut,     \* messages whose handler died between claim and effect
    left,    \* [Msg -> how long copies may come; Horizon + 1: not yet published]
    crashes  \* against MaxCrashes

vars == <<rows, hand, effects, skipped, cut, left, crashes>>

\* retain_left is processed_at as the time left until a purge may take it (as a
\* mutation: kept past the retention age).
RowState == [status : {"absent", "claimed", "processed"}, retain_left : 0..Retention]
NoRow == [status |-> "absent", retain_left |-> 0]
Claimed == [status |-> "claimed", retain_left |-> 0]
ProcessedTooLong == [status |-> "processed", retain_left |-> Retention + 1]
Processed == [status |-> "processed", retain_left |-> Retention]

Label == {"idle", "claim", "effect", "mark", "ack"}
HandState == [pc : Label, msg : Msg \union {NoMsg}]
Free == [pc |-> "idle", msg |-> NoMsg]

Init ==
    /\ rows = [m \in Msg |-> NoRow]
    /\ hand = [h \in Handler |-> Free]
    /\ effects = [m \in Msg |-> 0]
    /\ skipped = {}
    /\ cut = {}
    /\ left = [m \in Msg |-> Horizon + 1]
    /\ crashes = 0

Goto(h, label) == hand' = [hand EXCEPT ![h].pc = label]

----------------------------------------------------------------------------
(* The transport.                                                          *)

Publish(m) ==
    /\ left[m] > Horizon
    /\ left' = [left EXCEPT ![m] = Horizon]
    /\ UNCHANGED <<rows, hand, effects, skipped, cut, crashes>>

Deliverable(m) == left[m] \in 1..Horizon

\* A copy: the first one, a redelivery, or one stored twice.
Deliver(h, m) ==
    /\ hand[h].pc = "idle"
    /\ Deliverable(m)
    /\ hand' = [hand EXCEPT ![h] = [pc |-> "claim", msg |-> m]]
    /\ UNCHANGED <<rows, effects, skipped, cut, left, crashes>>

----------------------------------------------------------------------------
(* The handler.                                                            *)

\* The dedup namespace of two rows is the same: a tenant's, or the global one
\* (as a mutation: everybody's).
SharedNamespace(m, q) == TRUE
SameNamespace(m, q) == TenantOf[m] = TenantOf[q]

\* A row of q violates the primary key or the unique index for a row of m.
Conflicts(m, q) == IdOf[m] = IdOf[q] \/ (SameNamespace(m, q) /\ KeyOf[m] = KeyOf[q])
Conflict(m) == \E q \in Msg : rows[q].status # "absent" /\ Conflicts(m, q)

\* inbox_try_insert: true.
ClaimFresh(h) ==
    /\ hand[h].pc = "claim"
    /\ ~Conflict(hand[h].msg)
    /\ rows' = [rows EXCEPT ![hand[h].msg] = Claimed]
    /\ Goto(h, "effect")
    /\ UNCHANGED <<effects, skipped, cut, left, crashes>>

\* inbox_try_insert: false, the effect is skipped.
ClaimDuplicate(h) ==
    /\ hand[h].pc = "claim"
    /\ Conflict(hand[h].msg)
    /\ skipped' = skipped \union {hand[h].msg}
    /\ Goto(h, "ack")
    /\ UNCHANGED <<rows, effects, cut, left, crashes>>

RunEffect(h) ==
    /\ hand[h].pc = "effect"
    /\ effects' = [effects EXCEPT ![hand[h].msg] = @ + 1]
    /\ Goto(h, "mark")
    /\ UNCHANGED <<rows, skipped, cut, left, crashes>>

\* inbox_mark_processed stamps by message_id alone (as a mutation: by
\* idempotency key).
StampedByKey(m) == {q \in Msg : KeyOf[q] = KeyOf[m]}
Stamped(m) == {q \in Msg : IdOf[q] = IdOf[m]}

MarkProcessed(h) ==
    /\ hand[h].pc = "mark"
    /\ rows' = [q \in Msg |->
                  IF q \in Stamped(hand[h].msg) /\ rows[q].status # "absent"
                  THEN Processed ELSE rows[q]]
    /\ Goto(h, "ack")
    /\ UNCHANGED <<effects, skipped, cut, left, crashes>>

\* The handler is done with the copy.
Finish(h) ==
    /\ hand[h].pc = "ack"
    /\ hand' = [hand EXCEPT ![h] = Free]
    /\ UNCHANGED <<rows, effects, skipped, cut, left, crashes>>

\* It dies, or the statement it is at fails.
Crash(h) ==
    /\ hand[h].pc # "idle"
    /\ crashes < MaxCrashes
    /\ crashes' = crashes + 1
    /\ cut' = IF hand[h].pc = "effect" THEN cut \union {hand[h].msg} ELSE cut
    /\ hand' = [hand EXCEPT ![h] = Free]
    /\ UNCHANGED <<rows, effects, skipped, left>>

----------------------------------------------------------------------------
(* Retention and time.                                                     *)

\* A row that PURGE_PROCESSED_INBOX_SQL deletes (as a mutation: unprocessed
\* ones too).
PurgeableThoughOpen(m) == rows[m].status # "absent" /\ rows[m].retain_left = 0
Purgeable(m) == rows[m].status = "processed" /\ rows[m].retain_left = 0

PurgeRows ==
    /\ RetentionOn
    /\ \E m \in Msg : Purgeable(m)
    /\ rows' = [m \in Msg |-> IF Purgeable(m) THEN NoRow ELSE rows[m]]
    /\ UNCHANGED <<hand, effects, skipped, cut, left, crashes>>

Less(t) == IF t = 0 THEN 0 ELSE t - 1

\* The horizon includes the handling of a copy.
Tick ==
    /\ \A h \in Handler : hand[h].pc # "idle" => left[hand[h].msg] > 1
    /\ \E m \in Msg : Deliverable(m) \/ rows[m].retain_left > 0
    /\ left' = [m \in Msg |-> IF left[m] > Horizon THEN left[m] ELSE Less(left[m])]
    /\ rows' = [m \in Msg |-> [rows[m] EXCEPT !.retain_left = Less(@)]]
    /\ UNCHANGED <<hand, effects, skipped, cut, crashes>>

HandlerStep(h) ==
    \/ \E m \in Msg : Deliver(h, m)
    \/ ClaimFresh(h) \/ ClaimDuplicate(h) \/ RunEffect(h) \/ MarkProcessed(h)
    \/ Finish(h) \/ Crash(h)

Next ==
    \/ \E m \in Msg : Publish(m)
    \/ \E h \in Handler : HandlerStep(h)
    \/ PurgeRows
    \/ Tick

Spec == Init /\ [][Next]_vars

----------------------------------------------------------------------------
(* What the message-keyed inbox promises.                                  *)

TypeOK ==
    /\ rows \in [Msg -> RowState]
    /\ hand \in [Handler -> HandState]
    /\ effects \in [Msg -> Nat]
    /\ skipped \subseteq Msg
    /\ cut \subseteq Msg
    /\ left \in [Msg -> 0..Horizon + 1]
    /\ crashes \in 0..MaxCrashes

\* At most once: whatever crashes, is delivered again or is purged, no message
\* has its effect run twice (inbox_try_insert).
EffectOnce == \A m \in Msg : effects[m] <= 1

\* A handler of m is about to run its effect, or has run it, or died.
Taken(m) ==
    \/ effects[m] > 0
    \/ m \in cut
    \/ \E h \in Handler : hand[h] = [pc |-> "effect", msg |-> m]

\* A message is skipped only for its own claim, or that of a message with its
\* id or its tenant's business key: another tenant's equal business key does
\* not suppress it (inbox_claim_statement binds the tenant).
SkippedForACause ==
    \A m \in skipped : \E q \in Msg :
        /\ Taken(q)
        /\ IdOf[q] = IdOf[m] \/ (TenantOf[q] = TenantOf[m] /\ KeyOf[q] = KeyOf[m])

\* A row says processed only when the effect of its message has run, though
\* the stamp names it by an id that several messages may carry
\* (inbox_mark_processed).
ProcessedHadEffect == \A m \in Msg : rows[m].status = "processed" => effects[m] > 0
=============================================================================
