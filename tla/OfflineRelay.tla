---------------------------- MODULE OfflineRelay ----------------------------
(***************************************************************************)
(* The offline core (src/outbox.rs, src/publisher.rs): rows staged from    *)
(* envelopes or by hand, the pure outbox::Relay that drains a batch its    *)
(* caller took, and a RecordingPublisher that deduplicates.                *)
(*                                                                         *)
(* The caller owns the table: it marks what drain reported published, and  *)
(* may die in between, so a row is drained again.                          *)
(***************************************************************************)
EXTENDS Subjects, Envelopes, FiniteSets

CONSTANTS
    Row,       \* ids of outbox rows
    Choices,   \* what each row may be made of: Choices[r] is a set of records
    Drainer,   \* callers of Relay::drain
    BatchSize, \* rows a caller takes at a time
    MaxFaults  \* bound: failing publishes and crashes

\* OutboxRecord::pending_for_tenant.  `fits`: at most MAX_MESSAGE_BYTES;
\* `typed`: staged by from_envelope; not typed: the payload is the caller's.
Pending(subject, payload, tenant, key, fits) ==
    [subject |-> subject, envelope |-> payload, tenant |-> tenant, key |-> key,
     fits |-> fits, typed |-> FALSE]

\* OutboxRecord::from_envelope
FromEnvelope(subject, e, fits) ==
    [Pending(subject, e, e.tenant_id, e.idempotency_key, fits) EXCEPT !.typed = TRUE]

IsRecord(rec) ==
    /\ rec.subject \in Seq(STRING)
    /\ {rec.fits, rec.typed} \subseteq BOOLEAN
    /\ rec.typed => /\ rec.envelope.format = "current"
                    /\ rec = FromEnvelope(rec.subject, rec.envelope, rec.fits)

ASSUME OfflineAssumption ==
    /\ \A r \in Row : \A rec \in Choices[r] : IsRecord(rec)
    /\ BatchSize \in Nat \ {0}
    /\ MaxFaults \in Nat

VARIABLES
    record,  \* what each row is made of
    table,   \* the caller's table
    drainer, \* the locals of each caller and of drain
    stored,  \* rows whose message the publisher keeps
    seen,    \* dedup ids it has seen
    faults

offlineVars == <<record, table, drainer, stored, seen, faults>>

----------------------------------------------------------------------------
Subject(r) == record[r].subject
Envelope(r) == record[r].envelope

\* A mutation: the business key alone.
KeyAlone(tenant, key) == <<"global", key>>

\* tenant_scoped_dedup_id: the digest is injective, and its two namespaces
\* and the length before the key keep the parts apart.
DedupId(tenant, key) ==
    IF tenant = None THEN <<"global", key>> ELSE <<"tenant", tenant, key>>

IdOf(r) == DedupId(record[r].tenant, record[r].key)

\* validate_for_publish
Publishable(r) == Parses(Subject(r)) /\ record[r].fits

\* from_envelope refuses what no consumer would decode.
MayStage(r) == record[r].typed => Validates(Envelope(r))

Stage(r) ==
    /\ table[r] = "absent"
    /\ MayStage(r)
    /\ table' = [table EXCEPT ![r] = "pending"]
    /\ UNCHANGED <<record, drainer, stored, seen, faults>>

----------------------------------------------------------------------------
(* Relay::drain, one row at a time, and the caller around it.  The batch is *)
(* the caller's slice, so its order is any.                                 *)

Handed(batch) == [batch |-> batch, todo |-> batch, published |-> {}, failed |-> {}]
NoBatch == Handed({})

\* The caller hands drain a batch of its pending rows; two callers may
\* overlap.
Take(d) ==
    /\ drainer[d] = NoBatch
    /\ \E batch \in SUBSET {r \in Row : table[r] = "pending"} :
          /\ batch # {} /\ Cardinality(batch) <= BatchSize
          /\ drainer' = [drainer EXCEPT ![d] = Handed(batch)]
    /\ UNCHANGED <<record, table, stored, seen, faults>>

\* A mutation: the first failure ends the batch.
NothingLeft(todo, r) == {}

\* A failure is recorded and the drain continues.
LeftAfterFailure(todo, r) == todo \ {r}

Succeeded(d, r) ==
    drainer' = [drainer EXCEPT ![d].todo = @ \ {r}, ![d].published = @ \union {r}]
Failed(d, r) ==
    drainer' = [drainer EXCEPT ![d].todo = LeftAfterFailure(@, r),
                               ![d].failed = @ \union {r}]

\* A mutation: the message is kept and its id is not.
AcceptForgetting(r) == stored' = stored \union {r} /\ UNCHANGED seen

\* RecordingPublisher::publish: a dedup id seen before is a success and
\* changes nothing.
Accept(r) ==
    IF IdOf(r) \in seen
    THEN UNCHANGED <<stored, seen>>
    ELSE /\ seen' = seen \union {IdOf(r)}
         /\ stored' = stored \union {r}

DrainInvalid(d, r) ==
    /\ r \in drainer[d].todo
    /\ ~Publishable(r)
    /\ Failed(d, r)
    /\ UNCHANGED <<record, table, stored, seen, faults>>

DrainPublished(d, r) ==
    /\ r \in drainer[d].todo
    /\ Publishable(r)
    /\ Accept(r)
    /\ Succeeded(d, r)
    /\ UNCHANGED <<record, table, faults>>

Fault == faults < MaxFaults /\ faults' = faults + 1

\* Another publisher than the recorder fails, before or after it stored.
DrainFailed(d, r) ==
    /\ Fault
    /\ r \in drainer[d].todo
    /\ Publishable(r)
    /\ Accept(r) \/ UNCHANGED <<stored, seen>>
    /\ Failed(d, r)
    /\ UNCHANGED <<record, table>>

\* drain has returned.
Returned(d) == drainer[d].batch # {} /\ drainer[d].todo = {}

\* The caller marks what was published; the rest stays pending.
Mark(d) ==
    /\ Returned(d)
    /\ table' = [r \in Row |-> IF r \in drainer[d].published THEN "published" ELSE table[r]]
    /\ drainer' = [drainer EXCEPT ![d] = NoBatch]
    /\ UNCHANGED <<record, stored, seen, faults>>

\* The caller dies before it has marked anything.
DrainerCrash(d) ==
    /\ Fault
    /\ drainer[d] # NoBatch
    /\ drainer' = [drainer EXCEPT ![d] = NoBatch]
    /\ UNCHANGED <<record, table, stored, seen>>

----------------------------------------------------------------------------
OfflineInit ==
    /\ record \in [Row -> UNION {Choices[r] : r \in Row}]
    /\ \A r \in Row : record[r] \in Choices[r]
    /\ table = [r \in Row |-> "absent"]
    /\ drainer = [d \in Drainer |-> NoBatch]
    /\ stored = {}
    /\ seen = {}
    /\ faults = 0

OfflineNext ==
    \/ \E r \in Row : Stage(r)
    \/ \E d \in Drainer : \/ Take(d) \/ Mark(d) \/ DrainerCrash(d)
                          \/ \E r \in Row : \/ DrainInvalid(d, r)
                                            \/ DrainPublished(d, r)
                                            \/ DrainFailed(d, r)

----------------------------------------------------------------------------
OfflineTypeOK ==
    /\ \A r \in Row : record[r] \in Choices[r]
    /\ table \in [Row -> {"absent", "pending", "published"}]
    /\ drainer \in [Drainer -> [batch : SUBSET Row, todo : SUBSET Row,
                                published : SUBSET Row, failed : SUBSET Row]]
    /\ stored \subseteq Row
    /\ seen = {IdOf(r) : r \in stored}
    /\ faults \in 0..MaxFaults

\* What drain returns accounts for the whole batch: every row is reported
\* once, `published` only if the publisher has a message of its business key,
\* and, as long as publishing works, `failed` only if it is invalid: one bad
\* row costs the others nothing (Relay::drain).
OutcomeIsHonest ==
    \A d \in Drainer : Returned(d) =>
        /\ drainer[d].published \union drainer[d].failed = drainer[d].batch
        /\ drainer[d].published \intersect drainer[d].failed = {}
        /\ \A r \in drainer[d].published : IdOf(r) \in seen
        /\ faults = 0 => \A r \in drainer[d].failed : ~Publishable(r)

\* One message per business key of a tenant, through crashes, failing
\* publishes and callers that overlap; and what a tenant was told is published
\* is its own message or one it staged under the same key, never lost to
\* another tenant's (tenant_scoped_dedup_id, RecordingPublisher).
SameKey(q, r) ==
    record[q].tenant = record[r].tenant /\ record[q].key = record[r].key
OncePerBusinessKey ==
    /\ \A q, r \in stored : SameKey(q, r) => q = r
    /\ \A r \in Row : table[r] = "published" => \E q \in stored : SameKey(q, r)

\* Whatever was staged, what reaches the publisher can be received: its subject
\* is the one its class is written as and its group's subscribers get it
\* (Subject::parse).  A consumer can read it if from_envelope staged it; a
\* payload made by the caller is not looked at before `decode` refuses it.
StoredIsReceivable ==
    \A r \in stored :
        /\ AsString(Class(Subject(r))) = Subject(r)
        /\ \E g \in WellFormed \ Uuids, t \in DOMAIN VersionOf :
              VersionOf[t] # 0 /\ Receives(GroupWildcard(g, VersionOf[t]), Subject(r))
        /\ record[r].typed => Decodes(Envelope(r))
=============================================================================
