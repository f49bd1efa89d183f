---------------------------- MODULE OutboxRelay ----------------------------
(***************************************************************************)
(* The transactional outbox and the relays that drain it: the table        *)
(* message_outbox (migrations/0001..0003), the statements of src/db.rs on  *)
(* it, the drain loop OutboxPublisher::publish_batch / run_until, and, as   *)
(* far as the relays see it, the JetStream stream they publish into.       *)
(*                                                                         *)
(* Every SQL statement is one atomic step; between two statements, and     *)
(* between a publish and its acknowledgement, other relays, the retention  *)
(* task, the broker and the clock may act.  A relay may crash anywhere.    *)
(*                                                                         *)
(* Instants are kept as the time left until them (claim_left is            *)
(* claim_expires_at - now(), at least 0), so the state space is finite; a  *)
(* comparison with now() becomes a comparison with 0.                      *)
(***************************************************************************)
EXTENDS Naturals, FiniteSets

CONSTANTS
    Row,            \* business keys, each with at most one row of message_outbox
    Poison,         \* keys whose row fails validate_for_publish (staged before the guard)
    CreatedAt,      \* created_at of every row: the order rows are drained in
    Relay,          \* relay processes, each running run_until
    Owner,          \* claim owner ids (Uuid::new_v4 of publish_batch)
    NoOwner, NoRow, \* SQL NULL and "no row in hand"
    BatchSize, MaxAttempts, ClaimTTL, MaxBackoff,   \* OutboxPublisher's knobs
    DupWindow,      \* the stream's duplicate_window
    RetentionOn, Retention,                         \* RELAY_RETENTION_HOURS
    PromptBatches,  \* TRUE: a batch takes no time on the scale of a tick
    Faults,         \* kinds of failure that may happen
    MaxFaults,      \* bound: how many of them in one behaviour
    MaxLate,        \* bound: copies of a row still on their way after a give-up
    StoreCap        \* bound: stored copies are counted up to here

ASSUME RowsAssumption ==
    /\ Poison \subseteq Row
    /\ CreatedAt \in [Row -> Nat]
    /\ NoRow \notin Row
    /\ NoOwner \notin Owner

\* with_batch_size and with_max_attempts clamp to at least 1; positive_ms
\* rejects a claim TTL or a retention age that is not positive.
ASSUME KnobsAssumption ==
    /\ BatchSize \in Nat \ {0}
    /\ MaxAttempts \in Nat \ {0}
    /\ ClaimTTL \in Nat \ {0}
    /\ MaxBackoff \in Nat \ {0}
    /\ DupWindow \in Nat \ {0}
    /\ Retention \in Nat \ {0}
    /\ RetentionOn \in BOOLEAN
    /\ PromptBatches \in BOOLEAN

ASSUME BoundsAssumption ==
    /\ Faults \subseteq {"crash", "db", "slow", "stop"}
    /\ MaxFaults \in Nat
    /\ MaxLate \in Nat
    /\ StoreCap \in Nat \ {0}

VARIABLES
    outbox,      \* the table: [Row -> a row's columns]
    relay,       \* [Relay -> program counter and locals of publish_batch]
    stored,      \* [Row -> messages the stream stored for the row's dedup_id]
    dedup_left,  \* [Row -> how long the broker still remembers the dedup_id]
    late,        \* [Row -> copies in transit whose publisher gave up on them]
    offers,      \* history: calls of Publisher::publish since the row was staged
    faults       \* failures so far, against MaxFaults

vars == <<outbox, relay, stored, dedup_left, late, offers, faults>>

----------------------------------------------------------------------------
(* The table and the locals of a relay.                                    *)

Status == {"absent", "pending", "published", "failed"}

RowState == [status : Status, attempts : Nat, available_in : 0..MaxBackoff,
             claim_owner : Owner \union {NoOwner}, claim_left : 0..ClaimTTL,
             retain_left : 0..Retention]

NoRecord == [status |-> "absent", attempts |-> 0, available_in |-> 0,
             claim_owner |-> NoOwner, claim_left |-> 0, retain_left |-> 0]

\* OutboxRecord::pending: a pending row, due at once, nobody's.
Staged == [NoRecord EXCEPT !.status = "pending"]

Label == {"idle", "next", "publish", "mark", "fail", "release", "abort", "stopped"}

RelayState == [pc : Label, owner : Owner \union {NoOwner}, taken : [Row -> Nat],
               cur : Row \union {NoRow}, acked : BOOLEAN]

\* The locals of publish_batch: its claim_owner, the records it has not
\* finished with (taken: the attempt count each was returned with, or 0),
\* the record in hand, and whether the broker has answered for it.
Locals(label, o, taken, r) ==
    [pc |-> label, owner |-> o, taken |-> taken, cur |-> r, acked |-> FALSE]

NothingTaken == [r \in Row |-> 0]

\* Between batches: in the select! of run_until, or not running ("stopped").
AtRest(label) == Locals(label, NoOwner, NothingTaken, NoRow)

Batch(w) == {r \in Row : relay[w].taken[r] > 0}

Oldest(S) == {r \in S : \A q \in S : CreatedAt[r] <= CreatedAt[q]}

----------------------------------------------------------------------------
(* The statements of src/db.rs.                                            *)

LeaseLive(r) == outbox[r].claim_left > 0

\* The WHERE of CLAIM_PENDING_SQL (and, as mutations, without either half of
\* its last condition).
ClaimableThoughLeased(r) == outbox[r].status = "pending" /\ outbox[r].available_in = 0
ClaimableIfUnowned(r) ==
    /\ outbox[r].status = "pending"
    /\ outbox[r].available_in = 0
    /\ outbox[r].claim_owner = NoOwner
Claimable(r) ==
    /\ outbox[r].status = "pending"
    /\ outbox[r].available_in = 0
    /\ ~LeaseLive(r)

\* The filter of mark_published and mark_failed: by id and owner only, not
\* by status and not by the lease's expiry (as a mutation: by id only).
AnyOwnerMatches(r, o) == outbox[r].status # "absent"
OwnerMatches(r, o) == outbox[r].claim_owner = o

Unclaimed(row) == [row EXCEPT !.claim_owner = NoOwner, !.claim_left = 0]

\* An UPDATE of the row r if its claim is o's; a batch ignores whether it matched.
IfOwned(r, o, row) == IF OwnerMatches(r, o) THEN [outbox EXCEPT ![r] = row] ELSE outbox

\* mark_published and mark_failed (as a mutation: leaving the claim in place).
PublishedStillClaimed(row) == [row EXCEPT !.status = "published", !.retain_left = Retention]
PublishedRow(row) == [Unclaimed(row) EXCEPT !.status = "published", !.retain_left = Retention]
FailedRow(row) == [Unclaimed(row) EXCEPT !.status = "failed"]
Published(r, o) == IfOwned(r, o, PublishedRow(outbox[r]))
Failed(r, o) == IfOwned(r, o, FailedRow(outbox[r]))

\* reschedule_publish: 1 s doubled per attempt, the exponent at most 8, the
\* result at most MaxBackoff (as mutations: without the cap, and leaving the
\* claim in place).
Doubled == <<1, 2, 4, 8, 16, 32, 64, 128, 256>>
AtMost(a, b) == IF a <= b THEN a ELSE b
AtLeast(a, b) == IF a >= b THEN a ELSE b
Uncapped(attempts) == Doubled[AtMost(AtLeast(attempts, 1), 9)]
Backoff(attempts) == AtMost(MaxBackoff, Doubled[AtMost(AtLeast(attempts, 1), 9)])

RescheduledRowStillLeased(row) == [row EXCEPT !.available_in = Backoff(row.attempts)]
RescheduledRow(row) == [Unclaimed(row) EXCEPT !.available_in = Backoff(row.attempts)]
Rescheduled(r, o) ==
    IF outbox[r].status = "pending" THEN IfOwned(r, o, RescheduledRow(outbox[r])) ELSE outbox

\* release_outbox_claims (as a mutation: without undoing the claim's increment).
OwnedPending(o) == {r \in Row : outbox[r].status = "pending" /\ outbox[r].claim_owner = o}

ReleasedUncounted(row) == Unclaimed(row)
ReleasedRow(row) == [Unclaimed(row) EXCEPT !.attempts = AtLeast(@, 1) - 1]
Released(o) ==
    [r \in Row |-> IF r \in OwnedPending(o) THEN ReleasedRow(outbox[r]) ELSE outbox[r]]

\* The WHERE of PURGE_PUBLISHED_OUTBOX_SQL (as a mutation: by age only).
PurgeableAnyStatus(r) == outbox[r].status # "absent" /\ outbox[r].retain_left = 0
Purgeable(r) == outbox[r].status = "published" /\ outbox[r].retain_left = 0

----------------------------------------------------------------------------
(* Initial states: rows of the old schema may be waiting (Poison), every   *)
(* relay is up, the stream exists and is empty.                            *)

Init ==
    /\ outbox = [r \in Row |-> IF r \in Poison THEN Staged ELSE NoRecord]
    /\ relay = [w \in Relay |-> AtRest("idle")]
    /\ stored = [r \in Row |-> 0]
    /\ dedup_left = [r \in Row |-> 0]
    /\ late = [r \in Row |-> 0]
    /\ offers = [r \in Row |-> 0]
    /\ faults = 0

\* Every failure is of an enabled kind and spends the budget.
Fault(kind) ==
    /\ kind \in Faults
    /\ faults < MaxFaults
    /\ faults' = faults + 1

----------------------------------------------------------------------------
(* Producers and the retention task.                                       *)

\* validate_for_publish.
Publishable(r) == r \notin Poison

\* enqueue_outbox / enqueue_outbox_tx: the guard keeps poison rows out and
\* ON CONFLICT DO NOTHING makes a repeated key a no-op.
Enqueue(r) ==
    /\ Publishable(r)
    /\ outbox[r].status = "absent"
    /\ outbox' = [outbox EXCEPT ![r] = Staged]
    /\ offers' = [offers EXCEPT ![r] = 0]
    /\ UNCHANGED <<relay, stored, dedup_left, late, faults>>

\* purge_published_outbox, from the hourly task of main.rs.
Purge ==
    /\ RetentionOn
    /\ \E r \in Row : Purgeable(r)
    /\ outbox' = [r \in Row |-> IF Purgeable(r) THEN NoRecord ELSE outbox[r]]
    /\ UNCHANGED <<relay, stored, dedup_left, late, offers, faults>>

----------------------------------------------------------------------------
(* The relay.                                                              *)

\* Uuid::new_v4: an id no row and no running batch carries.
OwnersInUse == {outbox[r].claim_owner : r \in Row} \union {relay[w].owner : w \in Relay}
FreshOwners == Owner \ OwnersInUse

\* Rows another relay's statement may have locked at this moment, which
\* FOR UPDATE SKIP LOCKED then passes over: the one it parks, marks or
\* reschedules, or all it releases.
Updating(v, r) ==
    \/ relay[v].pc = "next" /\ r \in Oldest(Batch(v)) /\ ~Publishable(r)
    \/ relay[v].pc \in {"mark", "fail"} /\ r = relay[v].cur
    \/ relay[v].pc \in {"release", "abort"}
MaybeLocked(w) ==
    {r \in Row : \E v \in Relay \ {w} :
        Updating(v, r) /\ outbox[r].claim_owner = relay[v].owner}

\* What ORDER BY created_at LIMIT may return of the claimable rows.
OldestFirst(avail) ==
    {S \in SUBSET avail :
        /\ S # {}
        /\ Cardinality(S) <= BatchSize
        /\ S = avail \/ Cardinality(S) = BatchSize
        /\ \A r \in S, q \in avail \ S : CreatedAt[r] <= CreatedAt[q]}

Candidates(w) ==
    UNION {OldestFirst({r \in Row : Claimable(r)} \ locked) : locked \in SUBSET MaybeLocked(w)}

ClaimedRow(row, o) ==
    [row EXCEPT !.attempts = @ + 1, !.claim_owner = o, !.claim_left = ClaimTTL]
LeasedTo(S, o) == [r \in Row |-> IF r \in S THEN ClaimedRow(outbox[r], o) ELSE outbox[r]]

\* publish_batch up to the reply of claim_pending_outbox.
Claim(w) ==
    /\ relay[w].pc = "idle"
    /\ \E S \in Candidates(w), o \in FreshOwners :
        /\ outbox' = LeasedTo(S, o)
        /\ relay' = [relay EXCEPT ![w] = Locals("next", o,
                [r \in Row |-> IF r \in S THEN outbox[r].attempts + 1 ELSE 0], NoRow)]
    /\ UNCHANGED <<stored, dedup_left, late, offers, faults>>

\* The claim commits but its reply is lost: publish_batch returns through
\* the ? before there is anything to release, so the leases stand.
ClaimReplyLost(w) ==
    /\ Fault("db")
    /\ relay[w].pc = "idle"
    /\ \E S \in Candidates(w), o \in FreshOwners : outbox' = LeasedTo(S, o)
    /\ UNCHANGED <<relay, stored, dedup_left, late, offers>>

\* The loop of drain_claimed goes on with the next record, or ends the batch.
Without(w, r) ==
    LET rest == [relay[w].taken EXCEPT ![r] = 0]
    IN  IF \E q \in Row : rest[q] > 0
        THEN Locals("next", relay[w].owner, rest, NoRow)
        ELSE AtRest("idle")

\* After `break` or a `?` only the owner id is still needed.
Dropping(w, label) == Locals(label, relay[w].owner, NothingTaken, NoRow)

\* Record r is in hand.
Handling(w, label, r) == Locals(label, relay[w].owner, relay[w].taken, r)

\* The record is refused: park_failed, continue.
ParkPoison(w) ==
    /\ relay[w].pc = "next"
    /\ \E r \in Oldest(Batch(w)) :
        /\ ~Publishable(r)
        /\ outbox' = Failed(r, relay[w].owner)
        /\ relay' = [relay EXCEPT ![w] = Without(w, r)]
    /\ UNCHANGED <<stored, dedup_left, late, offers, faults>>

\* claim_still_held, against the database clock.
StillHeld(w, r) == OwnerMatches(r, relay[w].owner) /\ LeaseLive(r)

\* The lease is live: hand the record to the broker.
CheckHeld(w) ==
    /\ relay[w].pc = "next"
    /\ \E r \in Oldest(Batch(w)) :
        /\ Publishable(r)
        /\ StillHeld(w, r)
        /\ relay' = [relay EXCEPT ![w] = Handling(w, "publish", r)]
        /\ offers' = [offers EXCEPT ![r] = @ + 1]
    /\ UNCHANGED <<outbox, stored, dedup_left, late, faults>>

\* The lease lapsed: break, and nothing is released.
CheckLapsed(w) ==
    /\ relay[w].pc = "next"
    /\ \E r \in Oldest(Batch(w)) : Publishable(r) /\ ~StillHeld(w, r)
    /\ relay' = [relay EXCEPT ![w] = AtRest("idle")]
    /\ UNCHANGED <<outbox, stored, dedup_left, late, offers, faults>>

\* Publisher::publish returned Ok: NatsPublisher awaits the JetStream ack (as
\* a mutation: it returns once the message is sent).
SentIsAcked(w) == TRUE
AckSeen(w) == relay[w].acked

PublishOk(w) ==
    /\ relay[w].pc = "publish"
    /\ AckSeen(w)
    /\ relay' = [relay EXCEPT ![w] = Handling(w, "mark", relay[w].cur)]
    /\ UNCHANGED <<outbox, stored, dedup_left, late, offers, faults>>

\* The row of a copy that is sent and has not reached the stream.
Unanswered(w) ==
    {r \in Row : /\ relay[w].pc = "publish" /\ relay[w].cur = r
                 /\ ~relay[w].acked /\ late[r] < MaxLate}

\* Publisher::publish returned Err: the copy was lost, or was stored and its
\* ack was lost, or is still on its way.
PublishErr(w) ==
    /\ relay[w].pc = "publish"
    /\ relay' = [relay EXCEPT ![w] = Handling(w, "fail", relay[w].cur)]
    /\ late' \in {late} \union
                 {[late EXCEPT ![r] = @ + 1] : r \in Unanswered(w)}
    /\ UNCHANGED <<outbox, stored, dedup_left, offers, faults>>

\* mark_published; whether it matched a row or not, the loop goes on.
MarkPublished(w) ==
    /\ relay[w].pc = "mark"
    /\ outbox' = Published(relay[w].cur, relay[w].owner)
    /\ relay' = [relay EXCEPT ![w] = Without(w, relay[w].cur)]
    /\ UNCHANGED <<stored, dedup_left, late, offers, faults>>

\* record_failure decides on the attempt count of the claim's reply (as a
\* mutation: one attempt too late).
ExhaustedLate(w) == relay[w].taken[relay[w].cur] > MaxAttempts
Exhausted(w) == relay[w].taken[relay[w].cur] >= MaxAttempts

FailureRecorded(w) ==
    IF Exhausted(w) THEN Failed(relay[w].cur, relay[w].owner)
                    ELSE Rescheduled(relay[w].cur, relay[w].owner)

RecordFailure(w) ==
    /\ relay[w].pc = "fail"
    /\ outbox' = FailureRecorded(w)
    /\ relay' = [relay EXCEPT ![w] = Dropping(w, "release")]
    /\ UNCHANGED <<stored, dedup_left, late, offers, faults>>

\* The release after a failed publish, and the one of publish_batch after a
\* database error; both end the batch.
Release(w) ==
    /\ relay[w].pc \in {"release", "abort"}
    /\ outbox' = Released(relay[w].owner)
    /\ relay' = [relay EXCEPT ![w] = AtRest("idle")]
    /\ UNCHANGED <<stored, dedup_left, late, offers, faults>>

\* A statement of drain_claimed fails, with or without having taken effect:
\* the ? leaves the loop for the release in publish_batch.  When that
\* release fails too, the batch ends with its rows leased.
DbError(w) ==
    /\ Fault("db")
    /\ \/ /\ relay[w].pc = "next"
          /\ \E r \in Oldest(Batch(w)) :
                \/ UNCHANGED outbox
                \/ ~Publishable(r) /\ outbox' = Failed(r, relay[w].owner)
       \/ /\ relay[w].pc = "mark"
          /\ outbox' \in {outbox, Published(relay[w].cur, relay[w].owner)}
       \/ /\ relay[w].pc = "fail"
          /\ outbox' \in {outbox, FailureRecorded(w)}
       \/ /\ relay[w].pc \in {"release", "abort"}
          /\ outbox' \in {outbox, Released(relay[w].owner)}
    /\ relay' = [relay EXCEPT ![w] = IF relay[w].pc = "abort" THEN AtRest("idle")
                                                              ELSE Dropping(w, "abort")]
    /\ UNCHANGED <<stored, dedup_left, late, offers>>

\* run_until: the shutdown signal is looked at between batches only (as a
\* mutation: also during one, whose future is then dropped).
LooksAtAnyTime(w) == relay[w].pc # "stopped"
LooksForShutdown(w) == relay[w].pc = "idle"

Shutdown(w) ==
    /\ Fault("stop")
    /\ LooksForShutdown(w)
    /\ relay' = [relay EXCEPT ![w] = AtRest("stopped")]
    /\ UNCHANGED <<outbox, stored, dedup_left, late, offers>>

\* The process dies: its locals are gone, its rows stay leased, and a
\* publish under way may still reach the broker.
Crash(w) ==
    /\ Fault("crash")
    /\ relay[w].pc # "stopped"
    /\ relay' = [relay EXCEPT ![w] = AtRest("stopped")]
    /\ late' \in {late} \union
                 {[late EXCEPT ![r] = @ + 1] : r \in Unanswered(w)}
    /\ UNCHANGED <<outbox, stored, dedup_left, offers>>

Restart(w) ==
    /\ relay[w].pc = "stopped"
    /\ relay' = [relay EXCEPT ![w] = AtRest("idle")]
    /\ UNCHANGED <<outbox, stored, dedup_left, late, offers, faults>>

----------------------------------------------------------------------------
(* JetStream: a copy whose Nats-Msg-Id (the row's dedup_id) the stream has *)
(* seen within duplicate_window is acknowledged and not stored again.      *)

InWindow(r) == dedup_left[r] > 0

Arrive(r) ==
    IF InWindow(r)
    THEN UNCHANGED <<stored, dedup_left>>
    ELSE /\ stored' = [stored EXCEPT ![r] = AtMost(@ + 1, StoreCap)]
         /\ dedup_left' = [dedup_left EXCEPT ![r] = DupWindow]

\* The copy of the publish under way reaches the stream.
Receive(w) ==
    /\ relay[w].pc = "publish"
    /\ ~relay[w].acked
    /\ Arrive(relay[w].cur)
    /\ relay' = [relay EXCEPT ![w].acked = TRUE]
    /\ UNCHANGED <<outbox, late, offers, faults>>

\* A copy nobody waits for any more reaches it, or is lost.
ReceiveLate(r) ==
    /\ late[r] > 0
    /\ Arrive(r)
    /\ late' = [late EXCEPT ![r] = @ - 1]
    /\ UNCHANGED <<outbox, relay, offers, faults>>

LoseLate(r) ==
    /\ late[r] > 0
    /\ late' = [late EXCEPT ![r] = @ - 1]
    /\ UNCHANGED <<outbox, relay, stored, dedup_left, offers, faults>>

----------------------------------------------------------------------------
(* Time.                                                                   *)

Earlier(n) == IF n = 0 THEN 0 ELSE n - 1

AgedRow(row) == [row EXCEPT !.available_in = Earlier(@), !.claim_left = Earlier(@),
                            !.retain_left = Earlier(@)]

TimersRunning ==
    \E r \in Row : outbox[r].available_in + outbox[r].claim_left
                   + outbox[r].retain_left + dedup_left[r] > 0

TimePasses ==
    /\ TimersRunning
    /\ outbox' = [r \in Row |-> AgedRow(outbox[r])]
    /\ dedup_left' = [r \in Row |-> Earlier(dedup_left[r])]
    /\ UNCHANGED <<relay, stored, late, offers>>

\* Relays poll every 500 ms and a batch is short: when a tick's worth of time
\* passes nobody is mid-batch, some relay is up, and no due row was left lying.
Quiet ==
    /\ \A w \in Relay : relay[w].pc \in {"idle", "stopped"}
    /\ \E w \in Relay : relay[w].pc = "idle"
    /\ ~\E r \in Row : Claimable(r)

\* with_claim_ttl: the lease covers the time a whole batch takes.
LeaseCoversBatch ==
    \A w \in Relay, r \in Row :
        relay[w].owner # NoOwner /\ outbox[r].claim_owner = relay[w].owner
            => outbox[r].claim_left # 1

Tick ==
    /\ IF PromptBatches THEN Quiet ELSE LeaseCoversBatch
    /\ TimePasses
    /\ UNCHANGED faults

\* A slow broker or database: a batch outlives its lease.
SlowTick ==
    /\ Fault("slow")
    /\ ~LeaseCoversBatch
    /\ TimePasses

----------------------------------------------------------------------------
(* What relay w does when nothing fails.                                   *)
RelayStep(w) ==
    \/ Claim(w) \/ ParkPoison(w) \/ CheckHeld(w) \/ CheckLapsed(w)
    \/ PublishOk(w) \/ PublishErr(w) \/ MarkPublished(w)
    \/ RecordFailure(w) \/ Release(w)

Next ==
    \/ \E r \in Row : Enqueue(r) \/ ReceiveLate(r) \/ LoseLate(r)
    \/ \E w \in Relay : \/ RelayStep(w) \/ Receive(w) \/ Restart(w)
                        \/ ClaimReplyLost(w) \/ DbError(w) \/ Shutdown(w) \/ Crash(w)
    \/ Purge
    \/ Tick
    \/ SlowTick

Spec == Init /\ [][Next]_vars

\* run_until polls for ever and awaits every call; the runtime schedules it;
\* a supervisor restarts a relay that went down; time goes on.
Fairness ==
    /\ \A w \in Relay : WF_vars(RelayStep(w)) /\ WF_vars(Restart(w))
    /\ WF_vars(Tick)

FairSpec == Spec /\ Fairness

----------------------------------------------------------------------------
(* What the relay promises.                                                *)

\* Every variable has its type: in particular a backoff never exceeds
\* MaxBackoff, whatever the attempt count (reschedule_publish).
TypeOK ==
    /\ outbox \in [Row -> RowState]
    /\ relay \in [Relay -> RelayState]
    /\ stored \in [Row -> 0..StoreCap]
    /\ dedup_left \in [Row -> 0..DupWindow]
    /\ late \in [Row -> 0..MaxLate]
    /\ offers \in [Row -> Nat]
    /\ faults \in 0..MaxFaults

\* No lost message: a row is `published` only if the stream has stored its
\* message, through crashes, lost replies and batches that outlive their
\* lease (the ack is awaited before mark_published).
PublishedWasStored ==
    \A r \in Row : outbox[r].status = "published" => stored[r] > 0

\* A row under a live lease is touched only by the batch that holds the
\* lease: no stale relay marks, parks, reschedules, releases or reclaims it
\* (the claim_owner filter of every statement).
Columns(row) == <<row.status, row.attempts, row.claim_owner>>
FencedStep ==
    \A r \in Row :
        LeaseLive(r) /\ Columns(outbox'[r]) # Columns(outbox[r])
            => \E w \in Relay : /\ relay[w].owner = outbox[r].claim_owner
                                /\ relay'[w] # relay[w]
FencedByOwner == [][FencedStep]_vars

\* Outcomes are final: `failed` rows are kept for ever as the dead letter,
\* `published` rows only ever disappear, after the retention age, and a row
\* still to be delivered is never deleted.
FinalStep ==
    \A r \in Row :
        /\ outbox[r].status = "failed" => outbox'[r].status = "failed"
        /\ outbox[r].status = "published" =>
              \/ outbox'[r].status = "published"
              \/ outbox'[r].status = "absent" /\ RetentionOn /\ outbox[r].retain_left = 0
        /\ outbox[r].status = "pending" => outbox'[r].status # "absent"
TerminalIsFinal == [][FinalStep]_vars

\* A batch that ends on its own, or with the relay's shutdown, leaves no live
\* lease behind: its rows are marked, rescheduled, parked or released, or their
\* lease has lapsed.  Only a crash or a failing statement can strand one.
NoStrandedLease ==
    [][\A w \in Relay, r \in Row :
            /\ relay[w].owner # NoOwner
            /\ relay'[w].owner = NoOwner
            /\ faults' = faults \/ Shutdown(w)
            => ~(outbox'[r].claim_owner = relay[w].owner /\ outbox'[r].claim_left > 0)]_vars

\* While nothing fails but publishing, the attempt count of a waiting row is
\* the number of times it was offered to the broker, plus one for a claim
\* under which its turn has not come: the claim's increment is undone for
\* exactly the rows the batch never reached.
Unoffered(r) ==
    \E w \in Relay : /\ outbox[r].claim_owner = relay[w].owner
                     /\ \/ relay[w].pc = "next"
                        \/ relay[w].pc \in {"publish", "mark", "fail"} /\ relay[w].cur # r
                        \/ relay[w].pc \in {"release", "abort"}
AttemptsCountOffers ==
    faults = 0 => \A r \in Row : outbox[r].status = "pending" =>
        outbox[r].attempts = offers[r] + (IF Unoffered(r) THEN 1 ELSE 0)

\* While nothing fails but publishing, a row is dead-lettered only after
\* MaxAttempts real offers: an outage that stops batch after batch at their
\* first row does not use up the attempts of the rows behind it.
NotParkedEarly ==
    faults = 0 => \A r \in Row \ Poison : outbox[r].status = "failed" => offers[r] >= MaxAttempts

\* Every offer of a row is counted in its attempts, through crashes and
\* batches that outlive their lease.
OffersCounted ==
    \A r \in Row : outbox[r].status = "pending" => offers[r] <= outbox[r].attempts

\* The broker stores no message twice: every re-publish falls inside its
\* duplicate window.
StoredOnce == \A r \in Row : stored[r] <= 1

\* As long as a lease covers its batch, no two relays are publishing the
\* same row, even while others crash or lose the database.
SinglePublisher ==
    \A v, w \in Relay :
        v # w /\ relay[v].pc = "publish" /\ relay[w].pc = "publish"
            => relay[v].cur # relay[w].cur

\* Every staged row is resolved: published, or parked as failed once its
\* attempts are used up, however the publishes go and whoever crashes.
Resolved ==
    \A r \in Row : (outbox[r].status = "pending") ~> (outbox[r].status # "pending")

\* README.md and ARCHITECTURE.md: a completed business key is never enqueued
\* again.
NeverReenqueued ==
    [][\A r \in Row : outbox[r].status = "absent" /\ stored[r] > 0
                        => outbox'[r].status = "absent"]_vars

----------------------------------------------------------------------------
(* Why it holds: what every step preserves.                                *)

\* A row that was staged and whose work is not forgotten before it is stored.
OnceStaged(r) == outbox[r].status # "absent" \/ stored[r] > 0

\* Only a waiting row is claimed, and only a claimed row has a lease running:
\* every statement that settles a row clears its claim, so a claim id that a
\* stale relay still carries matches no settled row.
ClaimsAreOfPendingRows ==
    \A r \in Row : /\ outbox[r].claim_owner # NoOwner => outbox[r].status = "pending"
                   /\ LeaseLive(r) => outbox[r].claim_owner # NoOwner

\* A relay in a batch carries a claim id; what it publishes was staged and is
\* publishable; by the time it marks a row the stream has stored it.
Working(w) == relay[w].pc \notin {"idle", "stopped"}
BatchIsSound(w) ==
    /\ Working(w) => relay[w].owner # NoOwner
    /\ relay[w].pc \in {"publish", "mark", "fail"} =>
          relay[w].cur \in {r \in Row : Publishable(r) /\ OnceStaged(r)}
    /\ relay[w].pc = "mark" \/ relay[w].acked => stored[relay[w].cur] > 0
    /\ relay[w].acked => relay[w].pc = "publish"
BatchesAreSound == \A w \in Relay : BatchIsSound(w)

LateCopiesAreSound == \A r \in Row : late[r] > 0 => Publishable(r) /\ OnceStaged(r)

\* The broker takes a copy for a duplicate only of a message it has stored.
WindowIsSound == \A r \in Row : dedup_left[r] > 0 => stored[r] > 0

\* The inductive invariant behind the theorems of OutboxRelayProofs: whatever
\* relays crash, lag or lose a reply, claims, copies in transit and acks
\* always belong to rows that were staged.
DrainInv ==
    /\ ClaimsAreOfPendingRows
    /\ BatchesAreSound
    /\ LateCopiesAreSound
    /\ WindowIsSound
    /\ PublishedWasStored

----------------------------------------------------------------------------
(* The relay implements the delivery contract its users rely on.           *)
Phase(r) == CASE outbox[r].status = "absent"    -> "none"
              [] outbox[r].status = "pending"   -> "staged"
              [] outbox[r].status = "published" -> "done"
              [] outbox[r].status = "failed"    -> "dead"

Contract == INSTANCE DeliveryContract
                WITH phase <- [r \in Row |-> Phase(r)], onBus <- stored

\* Each step of the table, the relays and the broker is a step of the
\* contract or invisible to it.
ImplementsDelivery == Contract!Spec
=============================================================================
