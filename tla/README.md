# A verification development for fiducia-messaging.rs

`fiducia-messaging` lets a service change its database and announce the change
on a NATS JetStream bus without losing the announcement and without running its
effects twice. This directory holds TLA+ models of it, the TLC configurations
that check them and the proofs TLAPS checks. Paths below are relative to the
repository.

Contents: 1 the system, 2 the modules, 3 how the model corresponds to the code,
4 the runs, 5 fairness, 6 the proofs, 7 what the models disagree with, 8 what
is not modelled, 9 the plan.

## 1. The system

| part | state | operations | interacts through |
|---|---|---|---|
| Transactional outbox, `src/db.rs`, `src/outbox.rs`, `src/entity/message_outbox.rs` | the table `message_outbox`: status, attempts, `available_at`, claim owner and expiry, `published_at` | enqueue, claim, `claim_still_held`, `mark_published`, `mark_failed`, `reschedule_publish`, release, purge | SQL statements of producers, relays and the retention task |
| Relay, `db::OutboxPublisher`, `src/main.rs` | a batch in memory, its claim owner | `publish_batch`, `run_until`, shutdown | the table, the broker |
| Publisher, `src/publisher.rs` | none (JetStream keeps messages and, for `duplicate_window`, their ids) | `publish`, which awaits the ack | the broker |
| Pure relay, `outbox::Relay`, `RecordingPublisher` | none; the messages and ids it has seen | `pending`, `from_envelope`, `drain`; `publish` | a `Publisher`; the caller's table |
| Per-consumer inbox, `src/inbox.rs` | `message_inbox_consumer` | `begin`, `mark_processed` in the consumer's transaction | consumers' transactions, the retention task |
| Message-keyed inbox, `src/db.rs` | `message_inbox` | `inbox_try_insert`, `inbox_mark_processed` | consumers, the retention task |
| In-memory inbox, `outbox::Inbox` | two maps, a tick counter, a capacity | `accept_for_tenant` | one process |
| Compatibility outbox, `src/transactional.rs`, `src/compat_envelope.rs`, `src/bin/` | `message_outbox_compat` | enqueue, `publish_batch` in one transaction | the table, the broker |
| Stream startup, `src/stream.rs` | the stream's deployed configuration | `ensure_stream`, the parsing of its knobs | several deployments |
| Envelope, `src/envelope.rs` | none | validation, expiry, fencing token, the consumption gate | producers and consumers |
| Subjects, `src/subjects.rs` | none | token validation, parsing, wildcards | everything that names a subject |
| Connection, `src/connect.rs` | none | TLS policy, opening the client | the broker |
| `src/error.rs`, `src/lib.rs`, migrations | none | error type, re-exports, DDL | |

What is hard here is what happens *between* statements. A relay commits an
expiring lease on a batch, lets go of the database, talks to the broker row by
row and records each outcome by owner. Meanwhile other relays claim, leases
lapse, acks are lost, copies arrive late, the retention task deletes, and the
process may die anywhere. What must be true of each part:

* **outbox and relay**: a row said to be published is stored; a stale relay
  never touches a row someone else has claimed; outcomes are final; no row is
  stranded; attempts are counted honestly, so that an outage does not
  dead-letter rows that were never tried; the broker's window collapses
  re-publishes; every row is resolved in the end;
* **inboxes**: an effect runs at most once per consumer and message, commits
  together with its claim, and no other tenant can suppress it; the
  message-keyed inbox may lose an effect, and says so;
* **in-memory inbox**: its two maps agree and it evicts the least recently used
  key only;
* **compatibility outbox**: a batch commits as a whole, so a crash repeats
  publishes but never loses a row;
* **stream startup**: no relay leases rows for longer than the window of the
  stream it publishes into, whichever deployment won the race to create it; no
  age is used that nobody asked for, and one that cannot be kept is refused;
  whoever is configured properly comes up;
* **pure relay**: what it reports is what happened, one bad row costs the others
  nothing, one message per tenant and key;
* **envelope, subjects, connection**: what was let in at staging can be read and
  received at the other end; an old fencing token or an expired envelope drives no
  effect; plaintext is deliberate.

`PROJECT.json` lists the parts ("components"), each hazard at its line with the
properties that would catch it ("hazards"), and for every definition the lines
it models ("map").

## 2. The modules

| module | what it is |
|---|---|
| `OutboxRelay` | the outbox table, its statements, relays, retention, the broker as relays see it, and time; the properties |
| `DeliveryContract` | the abstract specification: what the outbox promises, without relays, leases, retries or clock |
| `MCOutboxRelay` | creation times and symmetry for TLC; instantiated by the `Outbox*.cfg` files |
| `OutboxRelayProofs` | theorems about `OutboxRelay` and their proofs |
| `OutboxCountProofs` | further theorems about it, which need to know which batch holds which row |
| `ConsumerInbox` | the per-consumer inbox: the table of claims, the transactions of handlers, redelivery, the purge; the properties |
| `Pipeline` | end to end: the delivery contract feeding the consumers of `ConsumerInbox` |
| `MCPipeline` | message ids, tenants and handlers for TLC; instantiated by `Pipeline.cfg` and `InboxVanished.cfg` |
| `ConsumerInboxProofs` | theorems about `ConsumerInbox` and `Pipeline` and their proofs |
| `CompatOutbox` | the compatibility outbox: its table, the services that drain it, each batch in one transaction; the properties |
| `MCCompatOutbox` | creation times for TLC; instantiated by `Compat.cfg` |
| `CompatOutboxProofs` | theorems about `CompatOutbox` and their proofs |
| `PoolInbox` | the message-keyed inbox: the table `message_inbox`, handlers that claim, run the effect and stamp in three separate commits, the purge; the properties |
| `PoolInboxProofs` | theorems about `PoolInbox` and their proofs |
| `MemoryInbox` | the in-memory inbox: its two maps, its tick counter, and the calls that change them; the properties |
| `MemoryInboxProofs` | theorems about `MemoryInbox` and their proofs |
| `MCInboxes` | messages, tenants and keys for TLC; instantiated by `Inboxes.cfg`, which checks both inboxes |
| `StreamStartup` | the start of both binaries, one await at a time: TLS policy, knobs and their widths, get-or-create of the stream, the window check; then the claims and purges that rely on it; the properties |
| `MCStreamStartup` | environments and operators' edits for TLC; instantiated by `StreamStartup.cfg` |
| `StreamStartupProofs` | theorems about `StreamStartup` and their proofs |
| `Subjects` | subjects as sequences of tokens: parsing, rendering, the group wildcard |
| `Envelopes` | building, validating and decoding envelopes; the consumption gate |
| `OfflineRelay` | staging, the pure relay and the recording publisher, with callers that overlap and crash; uses the two above; the properties |
| `EffectGate` | `OfflineRelay` and the consumers of what it stored, with a resource that checks fencing tokens; the properties |
| `MCOfflineCore` | rows, good and bad, for TLC; instantiated by `OfflineCore.cfg` |
| `EffectGateProofs` | theorems about `OfflineRelay` and `EffectGate` and their proofs |

`DeliveryContract` has a phase per row (none, staged, done, dead) and a count of
the copies on the bus. It allows at-least-once delivery and nothing else: a copy
only of a row that was staged and is publishable, `done` only after a copy is
stored, `dead` for ever, `done` forgotten only by retention. `OutboxRelay`
instantiates it with the status column as the phase and the stream's contents as
the bus, and `ImplementsDelivery` says that it implements it; `CompatOutbox`,
which works by locks instead of leases and marks a batch at once, implements the
same contract. `Pipeline` stands
on the contract instead of the relay: whatever is true of it is true with the
relay in its place, and the state space of two relays stays out of its runs.

## 3. How the model corresponds to the code

One SQL statement is one atomic step. The code between two statements is in the
relay's program counter.

| variable | code |
|---|---|
| `outbox[r]` | the row of business key `r`: `status` ("absent": no row), `attempts`, and three instants kept as the time left until them: `available_in` (`available_at`), `claim_left` (`claim_expires_at`), `retain_left` (`published_at` + the retention age) |
| `relay[w]` | where `publish_batch` / `drain_claimed` is, `claim_owner`, the records not finished with and the attempt count each was returned with (`taken`), the record in hand, whether the broker has acknowledged it |
| `stored`, `dedup_left` | the stream: messages stored for the row's `dedup_id`, and how long the id is still remembered |
| `late` | copies in transit whose publisher gave up (timeout, crash) |
| `offers`, `faults` | a history of the calls of `Publisher::publish` since the row was staged, and the failures so far |

| action | code |
|---|---|
| `Enqueue` | `enqueue_outbox`, `enqueue_outbox_tx`: the guard, then `ON CONFLICT DO NOTHING` on the business key |
| `Claim` | `claim_pending_outbox`: due, unleased, oldest first, at most the batch size, skipping rows that another statement may have locked; count and lease them |
| `ClaimReplyLost` | the claim commits and the `?` of `publish_batch` leaves with an error: nobody releases |
| `ParkPoison` | `validate_for_publish` refuses, `park_failed`, next record |
| `CheckHeld`, `CheckLapsed` | `claim_still_held`: offer the record to the broker, or leave the loop without releasing |
| `PublishOk`, `PublishErr` | `NatsPublisher::publish` returns: only after the ack, or with an error although the copy may be lost, stored or on its way |
| `MarkPublished` | `mark_published`, by id and owner only; the loop goes on whether or not it matched |
| `RecordFailure` | `record_failure`: park at `max_attempts`, else `reschedule_publish` |
| `Release` | `release_outbox_claims` after a failed publish, or in `publish_batch` after a database error |
| `DbError` | a statement of the loop fails, before or after taking effect, and the batch goes to its release; when that fails, the rows stay leased |
| `Shutdown` | `run_until` sees the signal, between batches only |
| `Purge` | `purge_published_outbox` |
| `Crash`, `Restart` | the process dies with its locals; a supervisor brings it back |
| `Receive`, `ReceiveLate`, `LoseLate` | the stream gets a copy, or a copy is lost |
| `Tick`, `SlowTick` | time passes: every running lease, backoff, retention age and window is one unit shorter |

A wait with nothing due (a claim that returns no row) changes nothing and is a
stutter. The locks of `SKIP LOCKED` last for one statement; as statements are
atomic steps here, a claim may skip any set of the rows that another relay is
about to write (`Updating`: the one it parks, marks or reschedules, or all that
it releases). Two claims with no lock between them are ordered by the database,
as here. A claim that the database rolls back locks rows for a moment too; a
relay that passes them over meanwhile finds them at its next poll, and the model
leaves that out.

Time is the subtle point. A unit stands for whatever makes lease, backoff and
window comparable. `LeaseCoversBatch` is the requirement that
`with_claim_ttl` documents ("must cover the expected worst-case time to publish
a whole batch"): an ordinary `Tick` does not let a lease of a running batch run
out, a `SlowTick` does and counts as a failure. With `PromptBatches` time passes
only when nobody is in a batch, some relay is up and no due row is waiting,
which is the scale of minutes on which 500 ms polls are instantaneous; the
window runs use it, since a quantitative bound needs relays that do not dawdle.

Initially the table is empty but for `Poison` rows, which were staged before the
guard existed (the code parks these, `src/db.rs:664`), and the stream is there
and empty (`src/main.rs` ensures it before the first publish).

Abstracted: payload bytes, subjects, ids and `last_error`. A row is its business
key; the `dedup_id` is a digest of it, taken as injective. `created_at` is a
constant per row, drawn equal for some of them. The one-second base of the
backoff is the unit, `MaxBackoff` its cap: in the code the cap of five minutes
is never reached, since the exponent stops at 8 (256 s); the model keeps both. In the
runs `MaxBackoff` is reached instead, and attempts never go far enough for the
exponent to stop.

The inbox, statement by statement, in one transaction per handler:

| variable or action | code |
|---|---|
| `claims[c, id]` | the committed row of `message_inbox_consumer`: its tenant and `processed_at` as the time left until a purge may take it |
| `session[s]` | a handler: where it is in `begin` and after it, the copy in hand, what `processed_at` would be |
| `WinClaim`, `LoseClaim` | `begin`'s insert: it waits (`MustWait`) while another transaction has an uncommitted row of the key, and goes on when that one commits or rolls back |
| `FindDuplicate`, `FindMismatch` | `begin`'s read and `decide_conflicting_claim` |
| `MarkProcessed`, `Commit` | the effect, `mark_processed`, and the commit that shows both |
| `Ack`, `Abort` | the consumer acknowledges after its commit; a failure anywhere rolls back |
| `PurgeClaims` | `purge_processed_consumer_inbox` |
| `Arrives`, `Deliver` | JetStream: copies of a message may come, in any number, for `Horizon`; an unacknowledged copy is delivered again and again to any handler |
| `InboxTick` | the horizon of each message and the retention age of each row shrink |

`src/inbox.rs` fixes the statements; how a consumer uses them (transaction,
effect, `mark_processed`, commit, then the ack) is the pattern of its module
comment and of `ARCHITECTURE.md`. `src/db.rs:529-531` demands a retention "far
beyond the transport's redelivery horizon": the assumption
`Retention >= Horizon`, where the horizon includes the handling of a copy
(`HandledInTime`). `current_timestamp` is the start of the transaction, so a
claim's age runs from delivery, not from the commit.

The compatibility outbox has no leases: its claim is a row lock, held as long as
the transaction of the batch, and what the batch records is invisible before
the commit. So the table in the model is the committed one, and a service keeps
its transaction with its locals:

| variable or action | code |
|---|---|
| `table[r]` | the committed row of `message_outbox_compat`; `attempts` saturates at `AttemptsCap`, as the SQL's `least(attempts, 8)` does at 8 |
| `service[w]` | where `publish_batch` is, the rows locked and still to come, the row in hand, the rows marked and put off so far, whether the connection lives, how long the transaction has been open (`now()` in it is its start) |
| `Claim` | `COMPAT_CLAIM_SQL`, which skips what others have locked |
| `SkipPoison` | `validate_compat_publish` refuses, reschedule, `continue` |
| `Offer`, `PublishOk`, `PublishErr` | `publish_with_headers` and `ack.await`; an error does not mean that the stream has no copy |
| `MarkPublished`, `Reschedule` | the two updates of the loop; the second one is followed by `break` |
| `Commit` | `tx.commit()`: all updates become visible and all locks go |
| `StatementFails` | a `?` drops the transaction, `run` logs it and polls again |
| `Crash`, `Disconnect` | Postgres rolls back and unlocks; after a lost connection the process does not know until its next statement, and offers rows meanwhile |

A commit whose reply is lost is `Commit` as far as any state here goes: `run`
logs an error and polls again. Nothing deletes rows of this table, and
`message_id` is the caller's fresh uuid, so a row is staged once. Every
copy of a row may find its id forgotten: no duplicate window is assumed here.

The message-keyed inbox, where claim, effect and stamp are three steps of a
handler that may die between any two:

| variable or action | code |
|---|---|
| `rows[m]` | the row of `message_inbox` that was inserted for message `m`: absent, claimed (`processed_at` is null) or processed, with the time until a purge may take it |
| `ClaimFresh`, `ClaimDuplicate` | `inbox_try_insert`: `ON CONFLICT DO NOTHING` without a target, so a conflict of the primary key and of either unique index of migration 0002 (`Conflicts`). The global namespace is one more value of `TenantOf` |
| `RunEffect` | the effect, which commits by itself or is no database change at all |
| `MarkProcessed` | `inbox_mark_processed`, by `message_id` alone; no row, no change |
| `PurgeRows` | `purge_processed_inbox` |
| `Crash` | the handler dies or a statement fails; `cut` remembers the effects that this loses |

The in-memory inbox has one operation, `accept_for_tenant` (`accept` is that of
the global namespace), and `&mut self` makes each call one step: `Refresh` when
the id is known, `Admit` when it is not. `seen` and `order` are functions whose
missing entries are `Never` and `NoId`; the eviction loop is the set of ticks that
its `pop_first` calls take. Ids are the tenant-scoped ones, which
`tenant_scoped_dedup_id` keeps apart. The tick counter is 64 bits wide and does
not wrap in the life of a process.

The start of a deployment (either binary, or a service that embeds the relay and
chooses its own lease):

| variable or action | code |
|---|---|
| `env[d]` | its environment: what each variable says, unset, or not a number |
| `pc[d]`, `link[d]`, `info[d]` | where `main` stands, the TLS policy of its connection, `cached_info` of the stream |
| `stream` | the stream's configuration at the broker |
| `Boot`, `Connect` | `DATABASE_URL` and `NATS_URL` are required; `decide_tls_policy`, the credentials file |
| `Configure` | `config_from_env`: replicas, and hours whose product with 3600 must fit 64 bits |
| `Lookup`, `Create` | the two requests of `get_or_create_stream`; between them another deployment may create the stream, and the broker accepts the same configuration again and refuses a different one |
| `Verify` | `verify_duplicate_window`, of the deployed configuration against the lease plus the longest backoff (a saturating sum) |
| `Claim`, `Purge` | `positive_ms`: `as_millis` drops what is finer than a millisecond, and what is left must be a positive 64-bit number or the age is refused |
| `RequestFails`, `CreateReplyLost`, `Stop`, `Supervise`, `Redeploy`, `EditStream` | a `?` ends the program; a reply is lost; SIGTERM or a crash; the supervisor; another environment; an operator's hand on the stream |

A `Duration` is a number of nanoseconds, as an embedding service may choose a
lease that is no whole number of milliseconds. Widths and units are constants, so
that TLC can run over their edges: in the run an hour has 3 seconds, a second 2
milliseconds, a millisecond 2 nanoseconds, and numbers end at 15 and 7. The
proofs are for any values.

The offline core and its consumers:

| variable or action | code |
|---|---|
| `record[r]` | an `OutboxRecord`, staged by `from_envelope` (`typed`) or with a payload of the caller's |
| `Stage` | `from_envelope` with its `validate`, or `pending_for_tenant`, which checks nothing |
| `Take`, `Mark`, `DrainerCrash` | the caller of `drain`: it hands over a slice of its pending rows, marks what was reported published, or dies before that |
| `DrainInvalid`, `DrainPublished`, `DrainFailed` | one row in the loop of `drain`: refused, accepted, or failed by the publisher with or without the message stored |
| `Accept` | `RecordingPublisher::publish`: a `dedup_id` it has seen is a success and changes nothing |
| `Parses`, `AsString`, `GroupWildcard` | `Subject::parse`, its rendering (only the canonical spelling of a version parses), `group_wildcard` |
| `Validates`, `Decodes`, `Consumable` | `validate`, `decode` with the serde default of the version, `ensure_consumable` |
| `Open`, `Act`, `Die` | a consumer decodes and passes the gate; later presents the token it was given; or dies in between, and the message comes again |

`src/envelope.rs` leaves the comparison of tokens to the resource and says what
it must do: refuse a token lower than the highest it has seen. The model's
resource does that, and takes a request without a token at its word, so that a gate
that forgets to require the token is noticed.

## 4. The runs

All instances of `OutboxRelay` have two relays and two rows, so that a batch can fail at its
first row with another behind it and one relay can overtake the other; four
claim ids are enough that a fresh one always exists (two rows and two relays
carry at most four, and a claiming relay carries none). `DupWindow`, `ClaimTTL`
and `MaxBackoff` are one or two units. Relays and claim ids are symmetric in
the safety runs; rows are not, as `created_at` or being poison tells them apart.
Deadlock is not checked: once every row is resolved and nothing is being purged, the system
rightly has nothing to do.

Bounds: `MaxFaults` failures per behaviour, of the kinds in `Faults` ("crash",
"db", "slow", "stop"; failed publishes are free and unbounded), `MaxLate` late
copies per row, `StoreCap` up to which stored copies are counted (2 tells one
from several).

| run | question | result |
|---|---|---|
| `outbox_safety` | With every kind of failure, up to two of them, late copies, retention, and a good row and a poison one that are equally old, so that either may come first in a batch: is a published row stored (`PublishedWasStored`), a leased row touched only by its holder (`FencedByOwner`), an outcome final (`TerminalIsFinal`), no lease left behind by a batch that ends without a failure or by a shutdown (`NoStrandedLease`), the contract kept (`ImplementsDelivery`), the proof's invariant kept (`DrainInv`)? | holds |
| `outbox_batch` | With batches of two good rows and three attempts: do attempts count the offers (`AttemptsCountOffers`), is a row parked only after all its attempts (`NotParkedEarly`), is every offer counted although relays crash and lag (`OffersCounted`)? | holds |
| `outbox_liveness` | With prompt batches and one crash, failing statement or stop: is one copy stored at most when the window is a lease and a backoff plus a unit of rounding (`StoredOnce`), is a row never in two relays' hands at the broker (`SinglePublisher`), is every staged row resolved (`Resolved`)? | holds |
| `outbox_window_gap` | the same window, two crashes | `StoredOnce` fails, see 7 |
| `outbox_release_after_offer` | `OffersCounted` with a failing statement | fails, see 7 |
| `outbox_reenqueue` | `NeverReenqueued` with retention on | fails, see 7 |
| `pipeline` | Two tenants' messages under one id, delivered again and again to two handlers that abort twice, and the purge: does an effect run once at most (`EffectOnce`), exactly when its claim is there (`ClaimIffEffect`), with no row suppressing another tenant's message (`NothingSuppressedByARow`), and does what the outbox reports as published take effect (`EffectFollows`)? And the proof's `InboxInv`, `InboxTypeOK` | holds |
| `inbox_vanished` | `NothingSuppressed`, without the exception for a row purged under `begin` | fails, see 7 |
| `compat` | Batches of two, a good row and two that can never be published, one older and one as old, two failures: do services with open transactions have their rows to themselves (`SinglePublisher`), is a row committed as published only when it is stored (in `CompatInv`), is the contract kept (`ImplementsDelivery`), and is the good row published in the end although poison may fill a batch (`EventuallyPublished`)? And `TypeOK` | holds |
| `inboxes` | The message-keyed inbox: does a message's effect run at most once whatever dies and is purged (`EffectOnce`), is it skipped only for a claim under its id or in its own namespace (`SkippedForACause`), does a row say processed only when the effect of its message has run (`ProcessedHadEffect`)? The in-memory inbox: do the maps agree within the capacity (`MapsAgree`), is an id forgotten exactly when `Capacity` others came after it (`EvictsLeastRecent`)? And `TypeOK` of the first | holds |
| `stream_startup` | Two deployments, nine environments, two failures or operator actions: does a lease in use fit the stream's window (`LeasesAreCovered`), is no age used that nobody asked for, a lease being kept to the millisecond and never cut to nothing, an age in hours exactly (`AgesAreKept`), is plaintext local or asked for (`PlaintextIsDeliberate`), does a deployment in order come up and claim (`EventuallyDrains`)? And `StartupTypeOK` | holds |
| `offline_core` | Two tenants under one key, a second message of one of them, and in each initial state another way for a row to be wrong; two overlapping callers of `drain`, a crash or a failing publish; two handlers: does `drain` account for every row honestly (`OutcomeIsHonest`), is one message stored per tenant and key (`OncePerBusinessKey`), can it be received, and decoded too if `from_envelope` staged it (`StoredIsReceivable`), does no old token overwrite a newer one's work and no expired envelope start a handler (`GatedEffects`)? And `CoreTypeOK` | holds |

What the bounds leave out: two faults let one relay overtake another twice and
let a fault hit the handling of the first one, which is the longest chain the
code has (statement fails, release fails). Three attempts let a row be
rescheduled, released and parked. `SinglePublisher` is checked without "slow",
for it fails with it: the check of the lease and the publish are two steps
(`src/db.rs:675-691`), and a broker slower than the lease lets a second relay
publish. The code knows: it counts such publishes.

The pipeline run has one consumer, for consumers share nothing (the claim's key
holds the consumer), two handlers of it, and two messages of two tenants with one
id, the only way messages interact. `Horizon` and `Retention` are two units, so
that a claim can outlive its message by nothing at all, the tightest case the
assumption allows, and time can pass while a copy is in hand. It counts one copy
per message, redelivered until it is acknowledged; a second copy that comes after
the first one's ack meets the same table as a redelivery after an abort, and the
safety properties are proved for every `StoreCap`. Here too the system may
rightly stop: all rows done, all horizons past.

In the compatibility run two services can claim at the same time, a batch of two
can be marked in part when it is cut off or be filled by the two poison rows, and
two failures let a service that lost its connection meet one that took its rows
over and crashes. `MaxBackoff` and `AttemptsCap` are two, so that a backoff grows
and is then cut at its cap, and the count reaches its own. `SinglePublisher`
speaks of services whose connection lives: without one the locks are gone, and
the model lets both publish. Poison is put off for ever in this path, so the
system never stops, and this run checks for deadlock.

In the startup run every environment differs from the others in what one branch of
the code looks at: a lease of one or two units (two deployments want different
windows), the longer one with a fraction of a millisecond; one below a
millisecond, which the cut leaves nothing of, and one beyond the second width; hours that overflow the first
width or only the second; mixed and empty server lists; switches that are set to
`true`, `1` and to words that do not count; knobs that do not parse; missing
variables. An operator's stream has a window too short for every lease or only
for the longer one. Two failures let a stop and a lost reply, or an edit and a
redeployment, meet. The run needs no more deployments: the stream is the only
thing they share, and one other deployment can do to it all that several could.
It may stop where every deployment is up with a lease that `positive_ms` refuses.

In the offline run the row `r4` is each bad kind in turn (spellings of a subject,
too long, versions, blank fields, another format, no token); the other rows are the
three ways a key can be shared. The consumers of this run start when the producers
are done: what is stored only grows and consumers change nothing that producers
read, so that a consumer with the final set to choose from has every behaviour it
had before (`CoreInTurns`). The theorems are about `CoreSpec`, without that
reduction. It stops when the clock does and no handler is busy.

`StoredOnce` passes with `MaxAttempts` 2, so that after a failed publish there is
one more. With more attempts the run would fail without any crash: an attempt
that the broker never gets does not renew its memory, and the backoffs of
several of them add up. In the deployed numbers that takes eleven attempts
(767 s of backoff against a window of 600 s); the default of eight stays
below (127 s).

In the `inboxes` run the three messages are the three ways to collide: equal key
of two tenants, equal key of one tenant, equal id. Two handlers and one death
let a copy come while its message's effect is running, and after it was lost;
`Retention` equal to `Horizon` is the tightest that the assumption allows, as in
the pipeline. It stops when all horizons are past and all rows are purged. For
the in-memory inbox all 1093 sequences of up to six calls (`MaxTick`) with three
ids and a capacity of two are explored: the shortest one that tells least
recently used from first come takes four (fill, refresh, overflow, ask), so six
repeat it. The two inboxes share nothing, so `InboxesNext` moves each while the
other has not begun.

For each property `PROJECT.json` names a mutation of one mapped definition that
breaks it: for instance a publisher that does not wait for its ack, a
filter by id only, a claim that ignores leases, a claim that never reclaims, a
release that forgets the attempt, a shutdown taken in the middle of a batch, a purge
by age only.

## 5. Fairness

Safety runs assume none. `FairSpec` assumes weak fairness of each relay's next
step, of its restart and of time: `run_until` polls for ever and awaits each
call, the runtime schedules it, a supervisor restarts what is down, and clocks
go on. A publish that is never answered ends with the client's timeout
(`PublishErr`). Nothing is assumed of the broker: `Resolved` holds if every
publish fails, for the attempts run out and the row is parked. Failures are
bounded, as no such system makes progress when every batch dies.

For `CompatOutbox` it is weak fairness of each service and of time, and strong
fairness of the broker for each row that can be published: there are no attempts
to run out, so a row whose every publish fails stays pending for ever. That is a
broker that is up often enough, not one that never fails. It is assumed of every
row the guard lets through, so a row that is valid to `validate_compat_publish` and
that the stream never accepts (beyond its message size, say) is left aside: the
service offers such a row for ever, and nothing is shown of how that delays others.

For `Pipeline` it is weak fairness of each handler's next step and strong
fairness of delivery: JetStream redelivers an unacknowledged copy after its ack
wait, again and again, and each time some handler of the consumer is free. Time
is not fair there: the excuse `horizon[m] = 0` in `EffectFollows` must not be
the way out. What remains excused is a message whose id another tenant's
message has used up, which `begin` refuses by design.

For `StreamStartup` it is weak fairness of each deployment's next step of `main`,
of its claims and of its supervisor. Nothing is assumed of operators; a stream
they leave with a window too short for a deployment keeps it out, which is what
`ensure_stream` is for, and `EventuallyDrains` says no more than that.

The message-keyed inbox, the in-memory inbox and the offline core have no
liveness: the first may lose an effect and says so, the others act when they are
called.

## 6. The proofs

`OutboxRelayProofs` proves, for all rows, relays, claim ids and knobs that
satisfy the three assumptions of `OutboxRelay` (sets and numbers of the right
kind; positive knobs, which `positive_ms` and the builders enforce):

| theorem | statement |
|---|---|
| `TypeInvariant` | `Spec => []TypeOK` |
| `DrainInvariant` | `Spec => []DrainInv`, the inductive invariant |
| `PublishedIsStored` | `Spec => []PublishedWasStored` |
| `LeasesFence` | `Spec => FencedByOwner` |
| `OutcomesAreFinal` | `Spec => TerminalIsFinal` |
| `RelayImplementsContract` | `Spec => ImplementsDelivery` |
| `StoredRowsAreKept` | `~RetentionOn => (Spec => []StoredIsKept)` |
| `KeptKeysAreNotReenqueued` | `~RetentionOn => (Spec => NeverReenqueued)` |

`PublishedWasStored` alone is not inductive: from a state in which a relay is
about to mark a row the stream does not have, one step breaks it. `DrainInv`
adds what excludes such states. *BatchesAreSound*: a relay that marks has its
row stored. That depends on acks, an ack on `Arrive`, and `Arrive` may answer
from memory, hence *WindowIsSound*: the broker remembers only what it has
stored. *ClaimsAreOfPendingRows*: every statement that settles a row clears its
claim, so that the filters by owner, none of which tests the lease and two of
which do not test the status, cannot hit a settled row. Outcomes are final and
the contract's `Complete` and `Park` start from a staged row because of it.
*LateCopiesAreSound* with `OnceStaged` is what the contract needs for copies
that arrive after their row is gone.

Each proof has a step per action of `Next` and under it a step per conjunct that
the action can disturb; lemmas about the rows written by each statement
come first. The refinement maps each action to the contract's action or to a stutter:
`Enqueue` to `Stage`, the arrivals to `Store`, `MarkPublished` (or a failing
one) to `Complete`, the parking ones to `Park`, `Purge` to `Forget`.

The last two give the documented sentence about business keys (section 7) its
condition: as long as nothing is purged, a row that was enqueued is never
absent again, so a key whose message is stored cannot be enqueued a second time.

`ConsumerInboxProofs` proves, for all consumers, handlers, messages, ids and
tenants, and all horizons and retention ages with `Retention >= Horizon`:

| theorem | statement |
|---|---|
| `InboxTypeInvariant` | `InboxSpec => []InboxTypeOK` |
| `InboxInvariant` | `InboxSpec => []InboxInv`, the inductive invariant |
| `EffectsHappenOnce` | `Spec => []EffectOnce`, of the pipeline |
| `EffectsAndClaimsAgree` | `Spec => []ClaimIffEffect` |
| `NoRowSuppresses` | `Spec => []NothingSuppressedByARow` |
| `NothingIsSuppressed` | `~RetentionOn \/ IdsAreUnique => (Spec => []NothingSuppressed)` |

A second effect would need a second commit of the same claim, so the invariant
says when a claim may be won: *KeysAreHeldAlone* (the insert's wait: of two
handlers one holds the key, and only while no row of it is committed) and
*EffectsAreClaimed* (where the effect has run, the row is still there as long as
copies may come: its age is at least the message's horizon, which *HandsAreSound*
carries through a transaction that is open while time passes). The other
direction, *ClaimsAreOfEffects*, needs that id and tenant determine the message.
The pipeline inherits them: each of its steps is a step of the inbox or a
stutter (`PipelineIsAnInbox`).

`NothingIsSuppressed` says when the exception that `NothingSuppressedByARow`
makes for a vanished row is not needed. `FoundInv` follows a handler that lost an
insert until it reads: the effect of its message has run by then, or, without a
purge, the row it lost to is still there and the read finds it
(*LosersAreSecond*). With ids that are unique over the tenants the row it lost to was
its own message's (*ClaimsAreOwn*), and that row is only committed together with
the effect. Shared ids and a purge are both needed for the finding of section 7.

`CompatOutboxProofs` proves, for all rows, services, batch sizes, backoff caps
and failure bounds:

| theorem | statement |
|---|---|
| `CompatTypeInvariant` | `Spec => []TypeOK` |
| `CompatInvariant` | `Spec => []CompatInv`, the inductive invariant |
| `OnePublisher` | `Spec => []SinglePublisher` |
| `PublishedIsStored` | `Spec => []PublishedWasStored` |
| `CompatImplementsContract` | `Spec => ImplementsDelivery` |

The invariant ties a batch to its locks (*BatchIsSound*: what it marks, it has
locked, and the stream has; while the connection lives, it has locked what it
works on), locks to one service (*LocksAreExclusive*) and to pending rows
(*LockedRowsArePending*). The commit can then turn only pending rows into
published ones, which the contract demands of `Complete`, and no two services
share a row. A lemma (`OneServiceMoves`) does the common part of every step: one
service changes, takes no lock of another's, and neither table nor stream
forgets. Types and invariant are proved together, since the row in hand is a row
only by the invariant.

`OutboxCountProofs` adds what depends on who holds which row, under the same
assumptions:

| theorem | statement |
|---|---|
| `HoldInvariant` | `Spec => []HoldInv`, the inductive invariant |
| `NoLeaseIsStranded` | `Spec => NoStrandedLease` |
| `OneRelayPublishes` | `"slow" \notin Faults => (Spec => []SinglePublisher)` |
| `CountInvariant` | `Spec => []CountInv`, which is inductive too |
| `AttemptsAreOffers` | `Spec => []AttemptsCountOffers` |
| `ParkedAfterAllAttempts` | `Spec => []NotParkedEarly` |
| `OffersAreCounted` | `"db" \notin Faults => (Spec => []OffersCounted)` |
| `CopiesAreStoredOnce` | `NothingLags /\ BackoffsFit(wait) /\ WindowCovers(wait) => (Spec => []StoredOnce)`, for every `wait` |
| `AnyBackoffsAreCovered` | the same from `(MaxAttempts - 1) * MaxBackoff + MaxFaults * ClaimTTL < DupWindow` |
| `DefaultsCoverOneFailure` | the same for the default lease, backoff cap and attempts, in seconds, the least window the startup check accepts, and one failure |

Those that hold under a condition have it in the theorem: a batch
that outlives its lease lets two relays publish, a failing statement releases an
offered row (section 7), and how often the stream stores a message is a matter of
how long its broker remembers it. `HoldInv` says that claim ids are of one batch each
(*OwnersAreDistinct*), that the rows of a claim were leased together and so lapse
together (*LeasesAgree*), that a batch knows the attempt count of the rows it owns
(*BatchKnowsItsRows*, which is what `record_failure` decides by), and that of the
rows it has not finished with it owns all or has lost its lease (*BatchOwnsItsRows*).
Every action is one of four kinds as far as rows in hand go (`Claims`, `Moves`,
`TouchesUnclaimed`, time), and the invariant is proved once for each kind. The
counts need a case per action: `CountStep` says that attempts gain at least what
offers and open claims gain, and exactly that while nothing fails. The release
subtracts one with a floor of zero; that the floor is never met is *CountedAtLeast*.

The last three are about the duplicate window. What a broker's memory has to
outlast is the time from a store to the last republish, and `TimeLeft` bounds what of it is
left to a pending row: its backoff, a lease for every failure still to come
(`Budget`), and the backoffs of the attempts it has left, with the rest of its lease if nobody
holds it. `RepublishInv` says that a stored pending row's `TimeLeft` is below
the broker's `dedup_left`, and every step keeps it so: a tick
comes only while the row waits, for its backoff or for a lease, and takes one off
both sides (`PromptBatches`); a failure pays for the lease it leaves
behind; a reschedule pays for its backoff; an arrival that the broker knows is
dropped. So the copy of a stored row always meets a broker that remembers it.
`wait` is what the theorem needs to know of the backoffs, a function that drops
by at least one backoff per attempt: their sum, but a sum over attempts would take an
induction, so the theorem takes any function with that property and
`BackoffsFit` checks it step by step. `LongestWaits` gives each attempt the cap;
`DefaultWaits` has the sums for eight attempts.

`NothingLags` says that batches take no time on the scale of the clock, that no
copy arrives late and that nothing is purged. None of them can be left out: a late copy may come after any window,
and a purged row's key can be enqueued again. The
bound itself is exact. In `outbox_liveness`, `wait[1] + MaxFaults * ClaimTTL` is
1 + 1·2, below the window of 5; in `outbox_window_gap` it is 1 + 2·2, the window itself, and TLC
finds the second copy. For the deployed numbers `DefaultsCoverOneFailure` is
127 + 300 < 600; a second failure makes it 727.

`PoolInboxProofs` proves, for all messages, ids, tenants, keys and handlers, all
ages with `Retention >= Horizon` and any bound on deaths:

| theorem | statement |
|---|---|
| `PoolInvariant` | `Spec => []PoolInv`, the inductive invariant |
| `PoolTypeInvariant` | `Spec => []TypeOK` |
| `PoolEffectsHappenOnce` | `Spec => []EffectOnce` |
| `SkipsHaveACause` | `Spec => []SkippedForACause` |
| `StampsAreHonest` | `Spec => []ProcessedHadEffect` |

*RowsOutliveCopies* is the heart of it: a message whose effect has run, or is
about to, has its row for as long as copies of it may come. The stamp names its
row by the message id, which several messages may share; it is honest because ids are unique over the table, so that a
handler between its claim and its stamp is the one whose row carries the id.

`StreamStartupProofs` proves, for all deployments and environments, whatever the
widths, units and edits by hand that satisfy `StartupAssumption`:

| theorem | statement |
|---|---|
| `StartupInvariant` | `StartupSpec => []StartupInv`, the inductive invariant |
| `StartupTypeInvariant` | `StartupSpec => []StartupTypeOK` |
| `WindowsCoverLeases` | `StartupSpec => []LeasesAreCovered` |
| `PlaintextIsAskedFor` | `StartupSpec => []PlaintextIsDeliberate` |
| `AgesAreHonoured` | `StartupSpec => []AgesAreKept` |

The invariant: unless an operator intervened, what a deployment was told is the
stream as it is, since a stream once created is only ever refused or taken as it
is; who is up has passed the check; and what the saturating sum cuts off does not matter,
as a lease that reaches the cap has no 64-bit number of milliseconds (the
assumption `I64 * NanosPerMs + MaxBackoff <= LongestDuration`, true of the real
widths). A millisecond and a second are whole numbers of the unit below, so an age
in hours survives the cut to milliseconds, and a lease loses less than one.

`EffectGateProofs` proves, for all rows and what they may be made of, callers,
batch sizes, handlers and failure bounds:

| theorem | statement |
|---|---|
| `CoreInvariant` | `CoreSpec => [](RelayInv /\ GateInv)`, the inductive invariant |
| `CoreTypeInvariant` | `CoreSpec => []CoreTypeOK` |
| `OutcomesAreHonest` | `CoreSpec => []OutcomeIsHonest` |
| `KeysPublishOnce` | `CoreSpec => []OncePerBusinessKey` |
| `StoredCanBeReceived` | `CoreSpec => []StoredIsReceivable` |
| `EffectsAreGated` | `CoreSpec => []GatedEffects` |

`RelayInv` splits each batch into what is still to do, published and failed, and
ties what was published to the ids the publisher has seen, which the deduplication
of another caller's copy relies on. A second one, `StagedInv`, carries the check
of `from_envelope` and of `validate_for_publish` along to what is stored; of a
payload made by the caller it says nothing, as nothing looks at it before a
consumer's `decode`. `GateInv` says that a handler of a mutating
message holds a token, since it passed the gate, and that the resource's last
writer has the highest one it has seen.

`MemoryInboxProofs` proves, for every capacity, every set of ids and calls in any
order:

| theorem | statement |
|---|---|
| `MemoryInvariant` | `MemorySpec => []MemoryInv`, the inductive invariant |
| `MapsStayInverse` | `MemorySpec => []MapsAgree` |
| `OnlyLeastRecentForgotten` | `MemorySpec => []EvictsLeastRecent` |

`MapsAgree` is not inductive alone: were the next tick in use already, a call
would overwrite another id's entry. *TicksToCome* says it never is. *LastOffers*
ties the tick of an id to the last time it was offered, and *ForgottenWasOldest*
says that what is not known any more was offered before everything that is, with
the maps full; an id is then forgotten exactly when `Capacity` others came
after its last offer: of an id that is known the others since are
among the known, and of one that is not, the known are among the others since. The pop of the least tick needs a minimum of a set of numbers
(`FirstTick`), which the well-founded inclusion of finite sets gives.

Only model-checked: liveness (`Resolved`, `EffectFollows`, `EventuallyPublished`,
`EventuallyDrains`), since fairness and ENABLED are beyond the prover. Every
safety invariant and every action property of section 4 is a theorem. The sentences that
section 7 refutes are theorems too, under the condition that each leaves unsaid.

## 7. Where the documents and the code differ

1. **The duplicate window** (`outbox_window_gap`). `src/outbox.rs:57-61` bounds
   the gap between two publishes of a row by one lease plus one backoff. A row
   whose ack was lost waits for its backoff and then for the lease of
   each relay that claims it and dies before it publishes. Two such crashes
   exceed the bound, in the deployed numbers too (1 s + 300 s + 300 s > 600 s).
   What the window does cover: `CopiesAreStoredOnce`; one failure of the default
   deployment (`DefaultsCoverOneFailure`).
2. **Releases after an offer** (`outbox_release_after_offer`).
   `src/db.rs:371-377` says that a released row was never offered to the broker.
   When the statement after a publish fails, the offered row is still owned and
   pending; the release gives its attempt back. Without failing statements the
   sentence is true (`OffersAreCounted`).
3. **Re-enqueueing** (`outbox_reenqueue`). `README.md:115-116` and
   `ARCHITECTURE.md:318-320` say that the uniqueness of the outbox row prevents a
   completed business key from ever being enqueued again. With
   `RELAY_RETENTION_HOURS` set the row is purged and its key is free. Without it the sentence
   is true (`KeptKeysAreNotReenqueued`).
4. **A row that vanishes** (`inbox_vanished`). `src/inbox.rs:72-74` says that a
   conflicting row of another tenant is rejected, not reported as a duplicate.
   When that row is purged between `begin`'s insert and its read, `begin` answers
   `Duplicate` (`src/inbox.rs:172-174` calls the skip the safe direction). As long as
   claims outlive the redelivery horizon, a message's own row never vanishes, so
   the row was the other tenant's: the effect has not run, and the message is
   acknowledged. Without a purge, or with ids of one tenant each, it cannot happen
   (`NothingIsSuppressed`).

Smaller ones, not the subject of a run: `src/db.rs:608` says that the crate
cannot set the window, which `src/stream.rs` does; `src/db.rs:776-780` says that
at shutdown every leased row is marked or released, which a failed release or a
lost claim reply does not do; `lost_lease_publishes` (`src/db.rs:270`) also
counts rows that were skipped, not published (`src/db.rs:676`);
`ARCHITECTURE.md:366-368` says that the compatibility path publishes over core
NATS with `flush()`, while `src/transactional.rs:162-170` sends a `Nats-Msg-Id`
and awaits the ack; `migrations/0001_fiducia_messaging.sql:47` and `src/db.rs:415` speak of the first
time a message is seen globally and in its tenant's namespace, and the code does
neither: `message_id` is unique over all tenants and the business key within
one, so `SkippedForACause` has both causes; `ARCHITECTURE.md:76` has its launcher run migrations, which it
leaves to deployment (`src/bin/fiducia-messaging-compat.rs:31-32`).

## 8. What is not modelled

* Text: cutting the host out of a server URL (`host_of` and its bracketed forms;
  the model starts from a loopback host, another one, or none), JSON, the SHA-256
  digest of `tenant_scoped_dedup_id` (taken as injective; its two namespaces and
  its length prefix are kept), the wording of errors and logs. A wrong cut of a URL
  would be a matter of strings, character by character.
* The DDL of `migrations/`, which is one-off I/O: the models have its columns,
  defaults and unique indexes.
* `src/error.rs`, `src/lib.rs`, `src/entity/mod.rs`: declarations and re-exports.
* The encoding of the compatibility envelope: it matters only as bytes that do not
  decode as a current envelope.
* Telemetry and health output of the binaries; transactions of producers that roll
  back (they leave no row, so they are no step of the table); clocks of the relay
  hosts, which only stamp `published_at`.
* A JetStream that loses stored messages: the stream is trusted to keep what it
  acknowledged, up to the ages it is configured with.

## 9. The plan

Done: all modules of section 2, the runs of section 4, the theorems of section 6.
What would add most next:

| order | module | what |
|---|---|---|
| 1 | `Pipeline` with `PoolInbox` | the message-keyed inbox at the end of the contract: what is lost there, and only that |
| 2 | `StreamStartup` with `OutboxRelay` | the stream's age limit against rows that are retried after it, which now are two models |

Modules to be proved about use no RECURSIVE operator.
