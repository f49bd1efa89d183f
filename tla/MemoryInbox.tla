---------------------------- MODULE MemoryInbox ----------------------------
(***************************************************************************)
(* The in-memory inbox (outbox::Inbox, src/outbox.rs): two maps that must  *)
(* stay each other's inverse, from dedup ids to the tick of their last use *)
(* and back, so that the first tick names the id to evict.                 *)
(***************************************************************************)
EXTENDS Naturals, FiniteSets, Sequences

CONSTANTS
    DedupId,  \* tenant-scoped dedup ids
    Capacity, \* capacity.max(1)
    NoId,     \* no entry in `order`
    Never,    \* no entry in `seen`
    MaxTick   \* bound: calls of accept_for_tenant in the life of an inbox (2^64)

ASSUME MemoryAssumption ==
    /\ Capacity \in Nat \ {0}
    /\ NoId \notin DedupId
    /\ Never \notin Nat
    /\ MaxTick \in Nat

VARIABLES
    seen,      \* [DedupId -> tick of the last use, or Never]
    order,     \* [tick -> the id used at it, or NoId]
    next_tick,
    offers     \* history: the ids of the calls so far

memory == <<seen, order, next_tick, offers>>

Instant == 0..(MaxTick - 1)

MemoryInit ==
    /\ seen = [k \in DedupId |-> Never]
    /\ order = [t \in Instant |-> NoId]
    /\ next_tick = 0
    /\ offers = <<>>

Known == {k \in DedupId : seen[k] # Never}

\* order.remove of the previous tick (as a mutation: forgotten).
NotRemoved(old) == order
Removed(old) == [order EXCEPT ![old] = NoId]

\* The ticks that n times pop_first takes off an order (as a mutation:
\* pop_last).
PoppedLast(entries, n) ==
    {t \in Instant : /\ entries[t] # NoId
                     /\ Cardinality({u \in Instant : u > t /\ entries[u] # NoId}) < n}
Popped(entries, n) ==
    {t \in Instant : /\ entries[t] # NoId
                     /\ Cardinality({u \in Instant : u < t /\ entries[u] # NoId}) < n}

\* What every call of accept_for_tenant does.
Called(k) ==
    /\ next_tick < MaxTick
    /\ next_tick' = next_tick + 1
    /\ offers' = Append(offers, k)

\* accept_for_tenant: false, the recency of a known id is refreshed.
Refresh(k) ==
    /\ Called(k)
    /\ seen[k] # Never
    /\ seen' = [seen EXCEPT ![k] = next_tick]
    /\ order' = [Removed(seen[k]) EXCEPT ![next_tick] = k]

\* accept_for_tenant: true, a new id is entered and what is over capacity evicted.
Admit(k) ==
    LET entered == [order EXCEPT ![next_tick] = k]
        popped == Popped(entered, Cardinality(Known) + 1 - Capacity)
        evicted == {entered[t] : t \in popped}
    IN  /\ Called(k)
        /\ seen[k] = Never
        /\ seen' = [q \in DedupId |-> IF q \in evicted THEN Never
                                      ELSE IF q = k THEN next_tick ELSE seen[q]]
        /\ order' = [t \in Instant |-> IF t \in popped THEN NoId ELSE entered[t]]

MemoryNext == \E k \in DedupId : Refresh(k) \/ Admit(k)

MemorySpec == MemoryInit /\ [][MemoryNext]_memory

----------------------------------------------------------------------------
(* What the in-memory inbox promises.                                      *)

\* The two maps of the inbox are inverse to each other, and never outgrow the
\* capacity (the paired inserts and removes of accept_for_tenant).
MapsAgree ==
    /\ \A k \in Known : order[seen[k]] = k
    /\ \A t \in Instant : order[t] # NoId => seen[order[t]] = t
    /\ Cardinality(Known) <= Capacity

\* An id is known exactly if fewer than Capacity other ids were offered since it
\* was offered last: only the least recently used one is ever evicted
\* (accept_for_tenant's refresh and pop_first).
Recent(k) ==
    \E i \in DOMAIN offers :
        /\ offers[i] = k
        /\ Cardinality({offers[j] : j \in i..Len(offers)} \ {k}) < Capacity

EvictsLeastRecent == \A k \in DedupId : seen[k] # Never <=> Recent(k)
=============================================================================
