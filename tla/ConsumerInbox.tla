--------------------------- MODULE ConsumerInbox ---------------------------
(***************************************************************************)
(* The per-consumer inbox (src/inbox.rs, PgInbox) as consumers use it: a   *)
(* transaction that claims the message, runs the effect, stamps the claim  *)
(* and commits, for every copy JetStream delivers, with handlers of one    *)
(* consumer racing, transactions that abort, and the retention task.       *)
(*                                                                         *)
(* A statement is one step.  The database is at READ COMMITTED: an insert  *)
(* waits for another transaction's insert of the same key; a select sees   *)
(* what is committed when it starts.                                       *)
(***************************************************************************)
EXTENDS Naturals

CONSTANTS
    Msg,            \* envelopes
    MsgId, Tenant,  \* message ids and tenants (the global namespace is one)
    IdOf, TenantOf, \* the message_id and tenant_id an envelope carries
    Consumer,       \* consumer names (not blank: begin refuses a blank one)
    Session,        \* handlers
    ConsumerOf,     \* the consumer a handler works for
    NoMsg, NoClaim, \* "no message in hand" and "no row"
    RetentionOn, Retention, \* RELAY_RETENTION_HOURS
    Horizon,        \* how long copies of a message may be delivered and handled
    MaxAborts,      \* bound: transactions and handlers that fail
    StoreCap        \* bound: copies of a message on the bus

Key == Consumer \X MsgId

\* A committed row: its tenant_id, and processed_at as the time left until it
\* may be purged.
ClaimRow == [tenant : Tenant, retain_left : 0..Retention]

ASSUME EnvelopesAssumption ==
    /\ IdOf \in [Msg -> MsgId]
    /\ TenantOf \in [Msg -> Tenant]
    /\ \A m, n \in Msg : IdOf[m] = IdOf[n] /\ TenantOf[m] = TenantOf[n] => m = n
    /\ NoMsg \notin Msg

ASSUME HandlersAssumption ==
    /\ ConsumerOf \in [Session -> Consumer]
    /\ NoClaim \notin ClaimRow

\* db.rs on the purges: "Keep the cutoff far beyond the transport's
\* redelivery horizon".
ASSUME InboxBoundsAssumption ==
    /\ RetentionOn \in BOOLEAN
    /\ Horizon \in Nat \ {0}
    /\ Retention \in Nat /\ Retention >= Horizon
    /\ MaxAborts \in Nat
    /\ StoreCap \in Nat \ {0}

VARIABLES
    claims,   \* message_inbox_consumer, committed: [Key -> ClaimRow or NoClaim]
    session,  \* [Session -> the handler's program counter and transaction]
    acked,    \* [Consumer \X Msg -> copies the consumer has acknowledged]
    effects,  \* [Consumer \X Msg -> effects committed]
    bus,      \* [Msg -> copies the stream has stored]
    horizon,  \* [Msg -> how long its copies may still be delivered]
    aborts    \* failures so far, against MaxAborts

inboxVars == <<claims, session, acked, effects, bus, horizon, aborts>>

----------------------------------------------------------------------------
(* A handler and its transaction.                                          *)

Label == {"idle", "begin", "lookup", "effect", "commit", "skip", "ack"}

SessionState == [pc : Label, msg : Msg \union {NoMsg}, copy : 0..StoreCap,
                 retain_left : 0..Retention, vanished : BOOLEAN]

\* retain_left is what processed_at will be: current_timestamp is the start
\* of the transaction.  vanished: the claim that won was gone when read.
Idle == [pc |-> "idle", msg |-> NoMsg, copy |-> 0, retain_left |-> 0, vanished |-> FALSE]

\* The consumer and message it works on, and the primary key of their claim.
TaskOf(s) == <<ConsumerOf[s], session[s].msg>>
KeyOf(s) == <<ConsumerOf[s], IdOf[session[s].msg]>>

\* The transaction of s holds an uncommitted claim of key k.
Holds(s, k) == session[s].pc \in {"effect", "commit"} /\ KeyOf(s) = k

Goto(s, label) == session' = [session EXCEPT ![s].pc = label]

InboxInit ==
    /\ claims = [k \in Key |-> NoClaim]
    /\ session = [s \in Session |-> Idle]
    /\ acked = [cm \in Consumer \X Msg |-> {}]
    /\ effects = [cm \in Consumer \X Msg |-> 0]
    /\ bus = [m \in Msg |-> 0]
    /\ horizon = [m \in Msg |-> 0]
    /\ aborts = 0

----------------------------------------------------------------------------
(* The transport.                                                          *)

\* The stream stores a copy; from the first one on, for Horizon, copies of
\* the message may come.
Arrives(m) ==
    /\ \/ bus[m] = 0 /\ horizon' = [horizon EXCEPT ![m] = Horizon]
       \/ bus[m] > 0 /\ horizon[m] > 0 /\ UNCHANGED horizon
    /\ bus' = [bus EXCEPT ![m] = IF @ < StoreCap THEN @ + 1 ELSE @]
    /\ UNCHANGED <<claims, session, acked, effects, aborts>>

\* A copy not yet acknowledged is delivered, to any handler of the consumer,
\* again and again; the handler opens its transaction.
Deliver(s, m) ==
    /\ session[s].pc = "idle"
    /\ horizon[m] > 0
    /\ \E n \in 1..bus[m] \ acked[<<ConsumerOf[s], m>>] :
        session' = [session EXCEPT ![s] =
            [pc |-> "begin", msg |-> m, copy |-> n,
             retain_left |-> Retention, vanished |-> FALSE]]
    /\ UNCHANGED <<claims, acked, effects, bus, horizon, aborts>>

----------------------------------------------------------------------------
(* Inbox::begin.                                                           *)

\* The insert waits while another transaction holds the key (as mutations: it
\* does not; it waits for whoever is at work on the key).
NeverWaits(s) == FALSE
WaitsForAnyone(s) ==
    \E v \in Session \ {s} : session[v].pc # "idle" /\ KeyOf(v) = KeyOf(s)
MustWait(s) == \E v \in Session \ {s} : Holds(v, KeyOf(s))

\* decide_fresh_claim: one row inserted, InboxDecision::Process.
WinClaim(s) ==
    /\ session[s].pc = "begin"
    /\ ~MustWait(s)
    /\ claims[KeyOf(s)] = NoClaim
    /\ Goto(s, "effect")
    /\ UNCHANGED <<claims, acked, effects, bus, horizon, aborts>>

\* ON CONFLICT DO NOTHING: no row inserted.
LoseClaim(s) ==
    /\ session[s].pc = "begin"
    /\ ~MustWait(s)
    /\ claims[KeyOf(s)] # NoClaim
    /\ Goto(s, "lookup")
    /\ UNCHANGED <<claims, acked, effects, bus, horizon, aborts>>

\* decide_conflicting_claim on the row read back (as a mutation: whatever its
\* tenant).
AnyonesClaim(s) == claims[KeyOf(s)] # NoClaim
SameTenant(s) ==
    /\ claims[KeyOf(s)] # NoClaim
    /\ claims[KeyOf(s)].tenant = TenantOf[session[s].msg]

Vanished(s) == [session[s] EXCEPT !.pc = "skip", !.vanished = TRUE]

\* This tenant's row, or a row that is gone: InboxDecision::Duplicate.
FindDuplicate(s) ==
    /\ session[s].pc = "lookup"
    /\ \/ SameTenant(s) /\ Goto(s, "skip")
       \/ /\ claims[KeyOf(s)] = NoClaim
          /\ session' = [session EXCEPT ![s] = Vanished(s)]
    /\ UNCHANGED <<claims, acked, effects, bus, horizon, aborts>>

\* Another tenant's row: InboxError::TenantMismatch, and the caller rolls back.
FindMismatch(s) ==
    /\ session[s].pc = "lookup"
    /\ claims[KeyOf(s)] # NoClaim
    /\ ~SameTenant(s)
    /\ session' = [session EXCEPT ![s] = Idle]
    /\ UNCHANGED <<claims, acked, effects, bus, horizon, aborts>>

----------------------------------------------------------------------------
(* The consumer's transaction after begin.                                 *)

\* The effect runs, then Inbox::mark_processed stamps the claim; nobody else
\* sees either yet.
MarkProcessed(s) ==
    /\ session[s].pc = "effect"
    /\ Goto(s, "commit")
    /\ UNCHANGED <<claims, acked, effects, bus, horizon, aborts>>

\* The row that begin inserts and mark_processed stamps (as a mutation: with
\* tenant_id left unset).
UntenantedRow(s) == [tenant |-> NoClaim, retain_left |-> session[s].retain_left]
CommittedRow(s) ==
    [tenant |-> TenantOf[session[s].msg], retain_left |-> session[s].retain_left]

\* Claim and effect become visible together; a duplicate commits nothing.
Commit(s) ==
    /\ \/ /\ session[s].pc = "commit"
          /\ claims' = [claims EXCEPT ![KeyOf(s)] = CommittedRow(s)]
          /\ effects' = [effects EXCEPT ![TaskOf(s)] = @ + 1]
       \/ session[s].pc = "skip" /\ UNCHANGED <<claims, effects>>
    /\ Goto(s, "ack")
    /\ UNCHANGED <<acked, bus, horizon, aborts>>

Ack(s) ==
    /\ session[s].pc = "ack"
    /\ acked' = [acked EXCEPT ![TaskOf(s)] = @ \union {session[s].copy}]
    /\ session' = [session EXCEPT ![s] = Idle]
    /\ UNCHANGED <<claims, effects, bus, horizon, aborts>>

\* A statement or the effect fails, the process dies, or an ack is lost: what
\* is not committed is rolled back, and the copy will be delivered again.
Abort(s) ==
    /\ aborts < MaxAborts
    /\ aborts' = aborts + 1
    /\ session[s].pc # "idle"
    /\ session' = [session EXCEPT ![s] = Idle]
    /\ UNCHANGED <<claims, acked, effects, bus, horizon>>

----------------------------------------------------------------------------
(* Retention and time.                                                     *)

\* The WHERE of PURGE_PROCESSED_CONSUMER_INBOX_SQL (as a mutation: whatever
\* the age).
PurgeableAnyAge(k) == claims[k] # NoClaim
Purgeable(k) == claims[k] # NoClaim /\ claims[k].retain_left = 0

\* purge_processed_consumer_inbox.
PurgeClaims ==
    /\ RetentionOn
    /\ \E k \in Key : Purgeable(k)
    /\ claims' = [k \in Key |-> IF Purgeable(k) THEN NoClaim ELSE claims[k]]
    /\ UNCHANGED <<session, acked, effects, bus, horizon, aborts>>

Earlier(n) == IF n = 0 THEN 0 ELSE n - 1
AgedClaim(k) == [claims[k] EXCEPT !.retain_left = Earlier(@)]
AgedHand(s) == [session[s] EXCEPT !.retain_left = Earlier(@)]

\* The horizon covers the handling of a copy too.
HandledInTime == \A s \in Session : session[s].pc # "idle" => horizon[session[s].msg] > 1

InboxTick ==
    /\ HandledInTime
    /\ \/ \E m \in Msg : horizon[m] > 0
       \/ \E k \in Key : claims[k] # NoClaim /\ claims[k].retain_left > 0
    /\ horizon' = [m \in Msg |-> Earlier(horizon[m])]
    /\ claims' = [k \in Key |-> IF claims[k] = NoClaim THEN NoClaim
                                ELSE AgedClaim(k)]
    /\ session' = [s \in Session |-> AgedHand(s)]
    /\ UNCHANGED <<acked, effects, bus, aborts>>

----------------------------------------------------------------------------
\* What handler s does with a copy in hand when nothing fails.
Handle(s) ==
    \/ WinClaim(s) \/ LoseClaim(s) \/ FindDuplicate(s) \/ FindMismatch(s)
    \/ MarkProcessed(s) \/ Commit(s) \/ Ack(s)

\* Everything but the arrival of copies.
InboxStep ==
    \/ \E s \in Session : Handle(s) \/ Abort(s) \/ (\E m \in Msg : Deliver(s, m))
    \/ PurgeClaims
    \/ InboxTick

InboxNext == InboxStep \/ \E m \in Msg : Arrives(m)

InboxSpec == InboxInit /\ [][InboxNext]_inboxVars

----------------------------------------------------------------------------
(* What the inbox promises.                                                *)

InboxTypeOK ==
    /\ claims \in [Key -> ClaimRow \union {NoClaim}]
    /\ session \in [Session -> SessionState]
    /\ acked \in [Consumer \X Msg -> SUBSET (1..StoreCap)]
    /\ effects \in [Consumer \X Msg -> Nat]
    /\ bus \in [Msg -> 0..StoreCap]
    /\ horizon \in [Msg -> 0..Horizon]
    /\ aborts \in 0..MaxAborts

\* The claim of the message's id is committed, its tenant's.
HasClaim(c, m) ==
    /\ claims[<<c, IdOf[m]>>] # NoClaim
    /\ claims[<<c, IdOf[m]>>].tenant = TenantOf[m]

\* Each consumer commits the effect of a message at most once, however often
\* it is delivered, by whichever handlers, whatever aborts, and although
\* claims are purged (begin and mark_processed in the effect's transaction,
\* retention beyond the horizon).
EffectOnce == \A c \in Consumer, m \in Msg : effects[<<c, m>>] <= 1

\* Effect and claim commit together: as long as a message may be delivered,
\* its effect has run exactly if the claim of its id is its tenant's.
ClaimIffEffect ==
    \A c \in Consumer, m \in Msg :
        horizon[m] > 0 =>
            (effects[<<c, m>>] > 0 <=> HasClaim(c, m))

\* A copy is skipped or acknowledged only if the effect of that very message
\* has run: no other tenant's claim suppresses it, and no abort between
\* delivery and commit loses it (decide_conflicting_claim, the order of commit
\* and ack).
Decided(s) == session[s].pc \in {"skip", "ack"}
NothingSuppressed ==
    \A s \in Session : Decided(s) => effects[TaskOf(s)] > 0

\* The same, but for the row that vanished between the insert it won and the
\* read, which begin takes for a duplicate.
NothingSuppressedByARow ==
    \A s \in Session :
        Decided(s) /\ ~session[s].vanished => effects[TaskOf(s)] > 0

----------------------------------------------------------------------------
(* The inductive invariant that the proofs use.                            *)

\* A copy in hand is of a stored message still within its horizon, and the
\* claim made for it would outlast that horizon.
HandsAreSound ==
    \A s \in Session :
        session[s].pc # "idle" =>
            /\ session[s].msg \in Msg
            /\ bus[session[s].msg] > 0
            /\ horizon[session[s].msg] > 0
            /\ session[s].retain_left >= horizon[session[s].msg]

\* One transaction at most holds a key, and only a key with no committed row.
KeysAreHeldAlone ==
    \A s \in Session :
        session[s].pc \in {"effect", "commit"} =>
            /\ claims[KeyOf(s)] = NoClaim
            /\ \A v \in Session \ {s} : ~Holds(v, KeyOf(s))

\* An effect's claim stays, its tenant's, as long as its copies may come.
EffectsAreClaimed ==
    \A c \in Consumer, m \in Msg :
        effects[<<c, m>>] > 0 =>
            /\ bus[m] > 0
            /\ horizon[m] > 0 =>
                  /\ HasClaim(c, m)
                  /\ claims[<<c, IdOf[m]>>].retain_left >= horizon[m]

\* No claim without the effect.
ClaimsAreOfEffects ==
    \A c \in Consumer, m \in Msg :
        HasClaim(c, m) => effects[<<c, m>>] > 0

\* Handlers hold messages within their horizon and keys nobody else holds, and
\* effects and claims imply each other (begin, mark_processed, the purge).
InboxInv ==
    /\ HandsAreSound
    /\ KeysAreHeldAlone
    /\ EffectsAreClaimed
    /\ ClaimsAreOfEffects
    /\ EffectOnce
    /\ NothingSuppressedByARow
=============================================================================
