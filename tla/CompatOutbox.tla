---------------------------- MODULE CompatOutbox ----------------------------
(***************************************************************************)
(* The compatibility outbox (src/transactional.rs): the table              *)
(* message_outbox_compat and services that drain it, each batch in one     *)
(* transaction held open across the broker calls.                          *)
(*                                                                         *)
(* A SELECT ... FOR UPDATE SKIP LOCKED locks the batch until the           *)
(* transaction ends; what the batch has recorded is seen by nobody before  *)
(* its commit and lost if it does not come: a crash, a failing statement,  *)
(* a database connection that drops while the broker is being awaited.     *)
(***************************************************************************)
EXTENDS Naturals, FiniteSets

CONSTANTS
    Row,        \* message ids, each with at most one row
    Poison,     \* rows that fail validate_compat_publish (staged before the guard)
    CreatedAt,  \* created_at of every row
    Service,    \* processes, each running run()
    NoRow,      \* "no row in hand"
    BatchSize,  \* batch_size (100)
    MaxBackoff, \* the cap of the backoff
    AttemptsCap, \* bound: attempts are counted up to here (8: all the SQL reads)
    Faults,     \* kinds of failure that may happen
    MaxFaults,  \* bound: how many of them in one behaviour
    StoreCap    \* bound: stored copies are counted up to here

ASSUME CompatAssumption ==
    /\ Poison \subseteq Row
    /\ CreatedAt \in [Row -> Nat]
    /\ NoRow \notin Row
    /\ BatchSize \in Nat \ {0}
    /\ MaxBackoff \in Nat \ {0}
    /\ AttemptsCap \in 0..8
    /\ Faults \subseteq {"crash", "db", "connection"}
    /\ MaxFaults \in Nat
    /\ StoreCap \in Nat \ {0}

VARIABLES
    table,   \* the committed rows of message_outbox_compat
    service, \* [Service -> program counter, transaction and locals of publish_batch]
    stored,  \* [Row -> messages the stream stored for the id, up to StoreCap]
    faults   \* failures so far

vars == <<table, service, stored, faults>>

----------------------------------------------------------------------------
(* Rows and transactions.                                                  *)

\* published_at and absence as a status; attempts saturates, as it does in the
\* SQL's least(attempts, 8); available_in is available_at - now().
RowState == [status : {"absent", "pending", "published"},
             attempts : 0..AttemptsCap, available_in : 0..MaxBackoff]

NoRecord == [status |-> "absent", attempts |-> 0, available_in |-> 0]
Staged == [NoRecord EXCEPT !.status = "pending"]

Label == {"idle", "next", "offered", "mark", "delay", "commit"}

\* locked: the rows of the open transaction; todo: rows of the batch still to
\* come; marked, delayed: its updates; elapsed: the time since it began.
ServiceState ==
    [pc : Label, locked : SUBSET Row, todo : SUBSET Row, row : Row \union {NoRow},
     marked : SUBSET Row, delayed : SUBSET Row,
     connected : BOOLEAN, elapsed : 0..MaxBackoff]

AtRest == [pc |-> "idle", locked |-> {}, todo |-> {}, row |-> NoRow,
           marked |-> {}, delayed |-> {}, connected |-> TRUE, elapsed |-> 0]

\* What the iteration does to the locals s: the batch is read, a row is refused,
\* taken up, marked, put off; the connection is gone; time goes on.
Began(S) == [AtRest EXCEPT !.pc = "next", !.locked = S, !.todo = S]
Refused(s, r) == [s EXCEPT !.todo = @ \ {r}, !.delayed = @ \union {r}]
TakenUp(s, r) == [s EXCEPT !.pc = "offered", !.todo = @ \ {r}, !.row = r]
Marked(s) == [s EXCEPT !.pc = "next", !.marked = @ \union {s.row}, !.row = NoRow]
PutOff(s) == [s EXCEPT !.pc = "commit", !.delayed = @ \union {s.row}, !.row = NoRow]
Unlocked(s) == [s EXCEPT !.connected = FALSE, !.locked = {}, !.marked = {}, !.delayed = {}]

Init ==
    /\ table = [r \in Row |-> IF r \in Poison THEN Staged ELSE NoRecord]
    /\ service = [w \in Service |-> AtRest]
    /\ stored = [r \in Row |-> 0]
    /\ faults = 0

\* A failure of kind k is within the bound.
Fault(k) == k \in Faults /\ faults < MaxFaults /\ faults' = faults + 1

\* Oldest first, ties in any order.
Oldest(S) == {r \in S : \A q \in S : CreatedAt[r] <= CreatedAt[q]}

----------------------------------------------------------------------------
(* Producers.                                                              *)

Publishable(r) == r \notin Poison

\* Outbox::enqueue in a transaction that commits; message_id is a fresh uuid.
Enqueue(r) ==
    /\ Publishable(r)
    /\ table[r].status = "absent"
    /\ table' = [table EXCEPT ![r] = Staged]
    /\ UNCHANGED <<service, stored, faults>>

----------------------------------------------------------------------------
(* publish_batch.                                                          *)

LockedBySomeone == UNION {service[w].locked : w \in Service}

\* The rows COMPAT_CLAIM_SQL may take (as a mutation: without SKIP LOCKED's
\* respect for other transactions).
DueOrLocked == {r \in Row : table[r].status = "pending" /\ table[r].available_in = 0}
Due == {r \in Row : /\ table[r].status = "pending"
                    /\ table[r].available_in = 0
                    /\ r \notin LockedBySomeone}

\* ORDER BY created_at ... LIMIT.
Batches ==
    {S \in SUBSET Due :
        /\ S # {}
        /\ Cardinality(S) <= BatchSize
        /\ Cardinality(S) < BatchSize => S = Due
        /\ \A r \in S, q \in Due \ S : CreatedAt[r] <= CreatedAt[q]}

\* (A batch without rows commits nothing: a stutter.)
Claim(w) ==
    /\ service[w].pc = "idle"
    /\ \E S \in Batches :
        service' = [service EXCEPT ![w] = Began(S)]
    /\ UNCHANGED <<table, stored, faults>>

\* validate_compat_publish refuses the next row: reschedule it, go on.
SkipPoison(w) ==
    /\ service[w].pc = "next"
    /\ service[w].connected
    /\ \E r \in Oldest(service[w].todo) :
        /\ ~Publishable(r)
        /\ service' = [service EXCEPT ![w] = Refused(service[w], r)]
    /\ UNCHANGED <<table, stored, faults>>

\* publish_with_headers: the database is not asked, the lock is trusted.
Offer(w) ==
    /\ service[w].pc = "next"
    /\ \E r \in Oldest(service[w].todo) :
        /\ Publishable(r)
        /\ service' = [service EXCEPT ![w] = TakenUp(service[w], r)]
    /\ UNCHANGED <<table, stored, faults>>

\* The stream gets a copy of row r; a copy whose Nats-Msg-Id it remembers is
\* not stored again.
Received(r) ==
    \/ stored' = [stored EXCEPT ![r] = IF @ < StoreCap THEN @ + 1 ELSE @]
    \/ stored[r] > 0 /\ UNCHANGED stored

\* Ok from ack.await: the stream has the message (as a mutation: Ok once it is
\* sent, as from flush()).
Sent(r) == Received(r) \/ UNCHANGED stored
Acknowledged(r) == Received(r)

PublishOk(w) ==
    /\ service[w].pc = "offered"
    /\ Acknowledged(service[w].row)
    /\ service' = [service EXCEPT ![w].pc = "mark"]
    /\ UNCHANGED <<table, faults>>

\* An error, although the copy may have been stored and only its ack lost.
PublishErr(w) ==
    /\ service[w].pc = "offered"
    /\ Received(service[w].row) \/ UNCHANGED stored
    /\ service' = [service EXCEPT ![w].pc = "delay"]
    /\ UNCHANGED <<table, faults>>

MarkPublished(w) ==
    /\ service[w].pc = "mark"
    /\ service[w].connected
    /\ service' = [service EXCEPT ![w] = Marked(service[w])]
    /\ UNCHANGED <<table, stored, faults>>

\* Record the failure and break out of the loop.
Reschedule(w) ==
    /\ service[w].pc = "delay"
    /\ service[w].connected
    /\ service' = [service EXCEPT ![w] = PutOff(service[w])]
    /\ UNCHANGED <<table, stored, faults>>

\* The loop is over.
Finished(w) ==
    \/ service[w].pc = "commit"
    \/ service[w].pc = "next" /\ service[w].todo = {}

\* least(interval '5 minutes', power(2, least(attempts, 8))), of the attempts
\* before this one, from now(), which is the start of the transaction (as a
\* mutation: without the cap).
Doubled == <<1, 2, 4, 8, 16, 32, 64, 128, 256>>
AtMost(a, b) == IF a <= b THEN a ELSE b
Less(a, b) == IF a <= b THEN 0 ELSE a - b
Uncapped(attempts) == Doubled[attempts + 1]
Backoff(attempts) == AtMost(MaxBackoff, Doubled[attempts + 1])

PublishedRow(row) == [status |-> "published", attempts |-> AtMost(row.attempts + 1, AttemptsCap),
                      available_in |-> row.available_in]

\* COMPAT_RESCHEDULE_SQL (as a mutation: without a backoff).
DelayedRowStillDue(row, elapsed) == [row EXCEPT !.attempts = AtMost(@ + 1, AttemptsCap)]
DelayedRow(row, elapsed) ==
    [status |-> row.status, attempts |-> AtMost(row.attempts + 1, AttemptsCap),
     available_in |-> Less(Backoff(row.attempts), elapsed)]

\* The updates of the batch become visible together.
Commit(w) ==
    /\ Finished(w)
    /\ service[w].connected
    /\ table' = [r \in Row |->
                    IF r \in service[w].marked THEN PublishedRow(table[r])
                    ELSE IF r \in service[w].delayed
                         THEN DelayedRow(table[r], service[w].elapsed)
                         ELSE table[r]]
    /\ service' = [service EXCEPT ![w] = AtRest]
    /\ UNCHANGED <<stored, faults>>

\* Where publish_batch is at a statement of its transaction.
AtStatement(w) ==
    \/ service[w].pc \in {"mark", "delay"}
    \/ Finished(w)
    \/ \E r \in Oldest(service[w].todo) : service[w].pc = "next" /\ ~Publishable(r)

\* The statement fails (always, on a dropped connection) and `?` drops the
\* transaction: run() logs and comes back at its next tick.
StatementFails(w) ==
    /\ AtStatement(w)
    /\ \/ ~service[w].connected /\ UNCHANGED faults
       \/ Fault("db")
    /\ service' = [service EXCEPT ![w] = AtRest]
    /\ UNCHANGED <<table, stored>>

----------------------------------------------------------------------------
(* Failures and time.                                                      *)

\* The process dies, perhaps with a copy on its way, and is started again:
\* Postgres rolls back.
Crash(w) ==
    /\ service[w].pc # "idle"
    /\ Fault("crash")
    /\ \/ UNCHANGED stored
       \/ service[w].pc = "offered" /\ Received(service[w].row)
    /\ service' = [service EXCEPT ![w] = AtRest]
    /\ UNCHANGED table

\* The connection of the open transaction drops: Postgres rolls back and
\* unlocks, and the process notices at its next statement.
Disconnect(w) ==
    /\ service[w].pc # "idle"
    /\ service[w].connected
    /\ Fault("connection")
    /\ service' = [service EXCEPT ![w] = Unlocked(service[w])]
    /\ UNCHANGED <<table, stored>>

\* On the scale of the backoff, a service that is free claims at once what is
\* due (every 250 ms).
PollsArePrompt == Due # {} => \A w \in Service : service[w].pc # "idle"

Tick ==
    /\ PollsArePrompt
    /\ \/ \E r \in Row : table[r].available_in > 0
       \/ \E w \in Service : service[w].pc # "idle" /\ service[w].elapsed < MaxBackoff
    /\ table' = [r \in Row |-> [table[r] EXCEPT !.available_in = Less(@, 1)]]
    /\ service' = [w \in Service |->
                      IF service[w].pc = "idle" THEN service[w]
                      ELSE [service[w] EXCEPT !.elapsed = AtMost(@ + 1, MaxBackoff)]]
    /\ UNCHANGED <<stored, faults>>

----------------------------------------------------------------------------
\* What a service does by itself.
ServiceStep(w) ==
    \/ Claim(w) \/ SkipPoison(w) \/ Offer(w) \/ PublishOk(w) \/ PublishErr(w)
    \/ MarkPublished(w) \/ Reschedule(w) \/ Commit(w) \/ StatementFails(w)

Next ==
    \/ \E r \in Row : Enqueue(r)
    \/ \E w \in Service : ServiceStep(w) \/ Crash(w) \/ Disconnect(w)
    \/ Tick

Spec == Init /\ [][Next]_vars

\* Services are scheduled and clocks go on; the broker takes and acknowledges a
\* message that is offered again and again.
Fairness ==
    /\ \A w \in Service : WF_vars(ServiceStep(w))
    /\ \A r \in Row \ Poison :
          SF_vars(\E w \in Service : service[w].row = r /\ PublishOk(w))
    /\ WF_vars(Tick)

FairSpec == Spec /\ Fairness

----------------------------------------------------------------------------
(* What the compatibility outbox promises.                                 *)

TypeOK ==
    /\ table \in [Row -> RowState]
    /\ service \in [Service -> ServiceState]
    /\ stored \in [Row -> 0..StoreCap]
    /\ faults \in 0..MaxFaults

\* No two services whose transactions are open have the same row at the broker
\* (FOR UPDATE SKIP LOCKED, the transaction held across the publish).
SinglePublisher ==
    \A w, v \in Service :
        /\ w # v
        /\ service[w].connected /\ service[w].row # NoRow
        /\ service[v].connected
        => service[w].row # service[v].row

\* A row is committed as published only after the stream has stored its
\* message, whatever was rolled back or dropped in between (ack.await before
\* COMPAT_MARK_PUBLISHED_SQL).
PublishedWasStored ==
    \A r \in Row : table[r].status = "published" => stored[r] > 0

\* A row that can be published is published in the end, although rows that
\* never can be stay in the table and take places in the batches
\* (COMPAT_RESCHEDULE_SQL and the loop's `continue` and `break`).
EventuallyPublished ==
    \A r \in Row \ Poison :
        table[r].status = "pending" ~> table[r].status = "published"

\* The table's part in the delivery contract.
Phase(r) == CASE table[r].status = "absent" -> "none"
              [] table[r].status = "pending" -> "staged"
              [] table[r].status = "published" -> "done"
Contract == INSTANCE DeliveryContract WITH
    phase <- [r \in Row |-> Phase(r)],
    onBus <- stored

\* The service implements the delivery contract: nothing is on the bus that was
\* not staged or must not be sent, nothing is marked that is not on the bus,
\* and no mark is taken back (commits and rollbacks of publish_batch).
ImplementsDelivery == Contract!Spec

----------------------------------------------------------------------------
(* The inductive invariant that the proofs use.                            *)

AtBroker == {"offered", "mark", "delay"}

\* Of the locals s of a service: while its connection lives, it has the rows it
\* still works on locked; what is on its way to the broker was staged and may
\* be sent; what is marked is stored.
BatchIsSound(s) ==
    /\ s.connected => s.todo \subseteq s.locked
    /\ s.marked \union s.delayed \subseteq s.locked
    /\ \A r \in s.todo : table[r].status # "absent"
    /\ \A r \in s.marked : stored[r] > 0
    /\ s.pc \notin AtBroker => s.row = NoRow
    /\ s.pc \in AtBroker =>
          /\ s.row \in Row /\ Publishable(s.row)
          /\ table[s.row].status # "absent"
          /\ s.connected => s.row \in s.locked
    /\ s.pc = "mark" => stored[s.row] > 0

LocksAreExclusive ==
    \A w, v \in Service : w # v => service[w].locked \intersect service[v].locked = {}

LockedRowsArePending ==
    \A w \in Service : \A r \in service[w].locked : table[r].status = "pending"

\* Open batches have their rows to themselves and mark only what is stored;
\* committed marks are of stored messages (publish_batch).
CompatInv ==
    /\ \A w \in Service : BatchIsSound(service[w])
    /\ LocksAreExclusive
    /\ LockedRowsArePending
    /\ PublishedWasStored
=============================================================================
