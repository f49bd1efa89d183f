------------------------- MODULE MemoryInboxProofs -------------------------
(***************************************************************************)
(* Theorems about MemoryInbox: for any capacity, any set of ids and any    *)
(* sequence of calls its two maps agree, and it forgets the least recently *)
(* used id only.                                                           *)
(***************************************************************************)
EXTENDS MemoryInbox, FiniteSetTheorems, WellFoundedInduction, TLAPS

USE MemoryAssumption

----------------------------------------------------------------------------
(* The inductive invariant.                                                *)

MemoryTypeOK ==
    /\ seen \in [DedupId -> Instant \union {Never}]
    /\ order \in [Instant -> DedupId \union {NoId}]
    /\ next_tick \in 0..MaxTick
    /\ offers \in Seq(DedupId)
    /\ Len(offers) = next_tick
    /\ IsFiniteSet(Known)

\* Ticks to come are free.
TicksToCome == \A t \in Instant : t >= next_tick => order[t] = NoId

\* What is known of an id is its last offer (offers[t + 1] was made at tick t).
LastOffers ==
    \A k \in Known : /\ offers[seen[k] + 1] = k
                     /\ \A j \in 1..Len(offers) : offers[j] = k => j <= seen[k] + 1

\* What is forgotten was offered before all that is known, of which there is
\* as much as there may be.
ForgottenWasOldest ==
    \A j \in 1..Len(offers) : offers[j] \notin Known =>
        /\ Cardinality(Known) = Capacity
        /\ \A q \in Known : j <= seen[q]

MemoryInv ==
    /\ MemoryTypeOK
    /\ MapsAgree
    /\ TicksToCome
    /\ LastOffers
    /\ ForgottenWasOldest

----------------------------------------------------------------------------
(* Ticks.                                                                  *)

\* Of the occupied ticks one comes first: the one with the fewest before it.
LEMMA FirstTick ==
    ASSUME NEW T \in SUBSET Nat, T # {}
    PROVE  \E t \in T : \A u \in T : t <= u
  <1> DEFINE Before(t) == {u \in T : u < t}
             Initials == {Before(t) : t \in T}
  <1>0. \A t \in T : t \in Nat
    OBVIOUS
  <1>1. Initials \subseteq FiniteSubsetsOf(Nat) /\ Initials # {}
    <2>1. \A t \in T : Before(t) \in SUBSET Nat /\ IsFiniteSet(Before(t))
      <3> SUFFICES ASSUME NEW t \in T
                   PROVE  Before(t) \in SUBSET Nat /\ IsFiniteSet(Before(t))
        OBVIOUS
      <3>1. \A u \in Before(t) : u \in T /\ u < t
        OBVIOUS
      <3> HIDE DEF Before
      <3>2. t \in Nat /\ Before(t) \in SUBSET Nat
        BY <1>0, <3>1
      <3>3. ASSUME NEW u \in Before(t)
            PROVE  u <= t
        <4>1. u \in Nat /\ t \in Nat /\ u < t
          BY <1>0, <3>1
        <4> QED  BY <4>1
      <3> QED  BY <3>2, <3>3, FS_BoundedSetOfNaturals
    <2> QED  BY <2>1 DEF FiniteSubsetsOf
  <1>2. PICK B \in Initials : \A C \in Initials : <<C, B>> \notin StrictSubsetOrdering(Nat)
    <2> HIDE DEF Initials
    <2> QED  BY <1>1, WFMin, FS_StrictSubsetOrderingWellFounded
  <1>3. PICK t \in T : B = Before(t)
    OBVIOUS
  <1>4. ASSUME NEW u \in T, u < t
        PROVE  FALSE
    <2>1. ASSUME NEW v \in Before(u)
          PROVE  v \in Before(t)
      BY <1>0, <1>4
    <2>2. u \in Before(t) /\ u \notin Before(u)
      BY <1>0, <1>4
    <2>3. Before(u) \in SUBSET Nat /\ Before(t) \in SUBSET Nat
      OBVIOUS
    <2>4. Before(u) \in Initials
      OBVIOUS
    <2> HIDE DEF Before, Initials
    <2> QED  BY <1>2, <1>3, <2>1, <2>2, <2>3, <2>4 DEF StrictSubsetOrdering
  <1> QED  BY <1>4

\* Any number of ticks is a number.
LEMMA TicksAreFinite ==
    ASSUME NEW T \in SUBSET Instant
    PROVE  /\ IsFiniteSet(T)
           /\ Cardinality(T) \in Nat
           /\ Cardinality(T) = 0 <=> T = {}
  <1>1. IsFiniteSet(Instant)
    BY FS_Interval DEF Instant
  <1>2. IsFiniteSet(T)
    BY <1>1, FS_Subset
  <1> QED  BY <1>2, FS_CardinalityType, FS_EmptySet

\* Nothing is taken off while there is room.
LEMMA NothingPopped ==
    ASSUME NEW entries, NEW n \in Int, n <= 0
    PROVE  Popped(entries, n) = {}
  <1> SUFFICES ASSUME NEW t \in Popped(entries, n)
               PROVE  FALSE
    OBVIOUS
  <1>1. Cardinality({u \in Instant : u < t /\ entries[u] # NoId}) < n
    BY DEF Popped
  <1>2. Cardinality({u \in Instant : u < t /\ entries[u] # NoId}) \in Nat
    BY TicksAreFinite
  <1> QED  BY <1>1, <1>2

\* A single pop takes the first occupied tick.
LEMMA FirstPopped ==
    ASSUME NEW entries, NEW t \in Instant, entries[t] # NoId,
           \A u \in Instant : entries[u] # NoId => t <= u
    PROVE  Popped(entries, 1) = {t}
  <1> DEFINE Before(u) == {v \in Instant : v < u /\ entries[v] # NoId}
  <1>1. \A u \in Instant : Cardinality(Before(u)) < 1 <=> Before(u) = {}
    BY TicksAreFinite
  <1>2. \A u \in Instant : entries[u] # NoId => (Before(u) = {} <=> u = t)
    BY DEF Instant
  <1>3. Popped(entries, 1) = {u \in Instant : entries[u] # NoId /\ Cardinality(Before(u)) < 1}
    BY DEF Popped
  <1> HIDE DEF Before
  <1> QED  BY <1>1, <1>2, <1>3

----------------------------------------------------------------------------
(* The invariant is inductive.                                             *)

LEMMA MemoryInitial == MemoryInit => MemoryInv
  <1> SUFFICES ASSUME MemoryInit
               PROVE  MemoryInv
    OBVIOUS
  <1>1. \A k \in DedupId : seen[k] = Never
    BY DEF MemoryInit
  <1>2. Known = {} /\ IsFiniteSet(Known) /\ Cardinality(Known) = 0
    BY <1>1, FS_EmptySet DEF Known
  <1>3. MemoryTypeOK
    BY <1>2 DEF MemoryInit, MemoryTypeOK
  <1>4. MapsAgree /\ TicksToCome
    BY <1>2 DEF MemoryInit, MapsAgree, TicksToCome
  <1>5. LastOffers /\ ForgottenWasOldest
    BY <1>2 DEF MemoryInit, LastOffers, ForgottenWasOldest
  <1> QED  BY <1>3, <1>4, <1>5 DEF MemoryInv

\* What every call does to the history.
LEMMA CalledFacts ==
    ASSUME MemoryTypeOK, NEW k \in DedupId, Called(k)
    PROVE  /\ next_tick \in Nat /\ next_tick \in Instant
           /\ next_tick' = next_tick + 1 /\ next_tick' \in 0..MaxTick
           /\ offers' \in Seq(DedupId) /\ Len(offers') = next_tick'
           /\ Len(offers) = next_tick
           /\ \A j \in 1..next_tick : offers'[j] = offers[j]
           /\ offers'[next_tick + 1] = k
  BY DEF MemoryTypeOK, Called, Instant

\* Known ids were used at ticks gone by, and different ones at different ticks.
LEMMA KnownFacts ==
    ASSUME MemoryInv
    PROVE  /\ \A k \in Known : /\ k \in DedupId /\ seen[k] \in Instant /\ seen[k] \in Nat
                               /\ seen[k] < next_tick /\ order[seen[k]] = k
           /\ \A k \in Known, q \in Known : seen[k] = seen[q] => k = q
           /\ \A t \in Instant : order[t] # NoId => order[t] \in Known /\ seen[order[t]] = t
           /\ Cardinality(Known) \in 0..Capacity
  <1>1. ASSUME NEW k \in Known
        PROVE  k \in DedupId /\ seen[k] \in Instant /\ order[seen[k]] = k
    BY DEF MemoryInv, MemoryTypeOK, MapsAgree, Known
  <1>2. ASSUME NEW k \in Known
        PROVE  seen[k] \in Nat /\ seen[k] < next_tick
    <2>1. order[seen[k]] # NoId /\ seen[k] \in Instant
      BY <1>1
    <2>2. seen[k] \in Nat /\ next_tick \in Nat
      BY <2>1 DEF Instant, MemoryInv, MemoryTypeOK
    <2>3. ~(seen[k] >= next_tick)
      BY <2>1 DEF MemoryInv, TicksToCome
    <2> QED  BY <2>2, <2>3
  <1>3. ASSUME NEW t \in Instant, order[t] # NoId
        PROVE  order[t] \in Known /\ seen[order[t]] = t
    <2>1. order[t] \in DedupId /\ seen[order[t]] = t
      BY <1>3 DEF MemoryInv, MemoryTypeOK, MapsAgree
    <2>2. t # Never
      BY DEF Instant
    <2> QED  BY <2>1, <2>2 DEF Known
  <1>4. Cardinality(Known) \in Nat /\ Cardinality(Known) <= Capacity
    BY FS_CardinalityType DEF MemoryInv, MemoryTypeOK, MapsAgree
  <1> QED  BY <1>1, <1>2, <1>3, <1>4

\* The last offers are known as long as the id in the call gets its tick and
\* the others keep theirs.
LEMMA LastOffersKept ==
    ASSUME MemoryInv, NEW k \in DedupId, Called(k), Known' \subseteq Known \union {k},
           seen'[k] = next_tick, \A q \in Known \ {k} : q \in Known' => seen'[q] = seen[q]
    PROVE  LastOffers'
  <1>0. MemoryTypeOK
    BY DEF MemoryInv
  <1> DEFINE n == next_tick
  <1> SUFFICES ASSUME NEW q \in Known'
               PROVE  /\ offers'[seen'[q] + 1] = q
                      /\ \A j \in 1..(n + 1) : offers'[j] = q => j <= seen'[q] + 1
    BY <1>0, CalledFacts DEF LastOffers
  <1>1. CASE q = k
    BY <1>0, <1>1, CalledFacts
  <1>2. CASE q # k
    <2>1. /\ seen'[q] = seen[q] /\ seen[q] \in Nat /\ seen[q] < n /\ n \in Nat
          /\ offers[seen[q] + 1] = q
          /\ \A j \in 1..n : offers[j] = q => j <= seen[q] + 1
      BY <1>0, <1>2, CalledFacts, KnownFacts DEF MemoryInv, LastOffers
    <2>2. seen[q] + 1 \in 1..n
      BY <2>1
    <2>3. \A j \in 1..(n + 1) : j \in 1..n \/ j = n + 1
      BY <2>1
    <2> QED  BY <1>0, <1>2, <2>1, <2>2, <2>3, CalledFacts
  <1> QED  BY <1>1, <1>2

LEMMA RefreshKeeps ==
    ASSUME MemoryInv, NEW k \in DedupId, Refresh(k)
    PROVE  MemoryInv'
  <1>0. MemoryTypeOK /\ Called(k) /\ k \in Known
    BY DEF MemoryInv, Refresh, Known
  <1> DEFINE n == next_tick
             old == seen[k]
  <1>1. /\ n \in Nat /\ n \in Instant /\ n # Never /\ old \in Instant /\ old # n
    BY <1>0, CalledFacts, KnownFacts
  <1>2. /\ seen'[k] = n
        /\ \A q \in DedupId \ {k} : seen'[q] = seen[q]
        /\ seen' \in [DedupId -> Instant \union {Never}]
    BY <1>0, <1>1 DEF Refresh, MemoryTypeOK
  <1>3. /\ order'[n] = k /\ order'[old] = NoId
        /\ \A t \in Instant \ {n, old} : order'[t] = order[t]
        /\ order' \in [Instant -> DedupId \union {NoId}]
    BY <1>0, <1>1 DEF Refresh, Removed, MemoryTypeOK
  <1>4. Known' = Known
    BY <1>0, <1>1, <1>2 DEF Known
  <1> HIDE DEF n, old
  <1>5. MemoryTypeOK'
    BY <1>0, <1>2, <1>3, <1>4, CalledFacts DEF MemoryTypeOK
  <1>6. MapsAgree'
    <2>1. ASSUME NEW q \in Known
          PROVE  order'[seen'[q]] = q
      <3>1. CASE q = k
        BY <1>2, <1>3, <3>1
      <3>2. CASE q # k
        <4>1. /\ q \in DedupId /\ seen[q] \in Instant /\ seen[q] # n /\ seen[q] # old
              /\ order[seen[q]] = q
          BY <1>0, <1>1, <3>2, KnownFacts DEF n, old
        <4> QED  BY <1>2, <1>3, <3>2, <4>1
      <3> QED  BY <3>1, <3>2
    <2>2. ASSUME NEW t \in Instant, order'[t] # NoId
          PROVE  seen'[order'[t]] = t
      <3>1. CASE t = n
        BY <1>2, <1>3, <3>1
      <3>2. CASE t # n
        <4>1. t # old /\ order'[t] = order[t]
          BY <1>3, <2>2, <3>2
        <4>2. order[t] \in Known /\ order[t] \in DedupId /\ seen[order[t]] = t
          BY <2>2, <4>1, KnownFacts
        <4>3. order[t] # k
          BY <4>1, <4>2 DEF old
        <4> QED  BY <1>2, <4>1, <4>2, <4>3
      <3> QED  BY <3>1, <3>2
    <2> QED  BY <1>4, <2>1, <2>2 DEF MemoryInv, MapsAgree
  <1>7. TicksToCome'
    <2> SUFFICES ASSUME NEW t \in Instant, t >= n + 1
                 PROVE  order'[t] = NoId
      BY <1>0, CalledFacts DEF TicksToCome, n
    <2>1. t \in Nat /\ t >= next_tick /\ t # n
      BY <1>1 DEF n, Instant
    <2> QED  BY <1>3, <2>1 DEF MemoryInv, TicksToCome
  <1>8. LastOffers'
    <2>1. \A q \in Known \ {k} : seen'[q] = seen[q]
      BY <1>2, KnownFacts
    <2> QED  BY <1>0, <1>2, <1>4, <2>1, LastOffersKept DEF n
  <1>9. ForgottenWasOldest'
    <2> SUFFICES ASSUME NEW j \in 1..(n + 1), offers'[j] \notin Known
                 PROVE  Cardinality(Known) = Capacity /\ \A q \in Known : j <= seen'[q]
      BY <1>0, <1>4, CalledFacts DEF ForgottenWasOldest, n
    <2>1. j \in 1..n /\ offers'[j] = offers[j]
      BY <1>0, <1>1, CalledFacts DEF n
    <2>2. Cardinality(Known) = Capacity /\ \A q \in Known : j <= seen[q]
      BY <1>0, <2>1, CalledFacts DEF n, MemoryInv, ForgottenWasOldest
    <2> QED  BY <1>1, <1>2, <2>1, <2>2, KnownFacts
  <1> QED
    BY <1>5, <1>6, <1>7, <1>8, <1>9 DEF MemoryInv

\* A new id while there is room: nothing is evicted.
LEMMA AdmitWithRoomKeeps ==
    ASSUME MemoryInv, NEW k \in DedupId, Admit(k), Cardinality(Known) < Capacity
    PROVE  MemoryInv'
  <1>0. MemoryTypeOK /\ Called(k) /\ k \notin Known
    BY DEF MemoryInv, Admit, Known
  <1> DEFINE n == next_tick
  <1>1. n \in Nat /\ n \in Instant /\ n # Never
    BY <1>0, CalledFacts
  <1>2. Popped([order EXCEPT ![n] = k], Cardinality(Known) + 1 - Capacity) = {}
    BY KnownFacts, NothingPopped
  <1>3. /\ seen' = [q \in DedupId |-> IF q = k THEN n ELSE seen[q]]
        /\ order' = [order EXCEPT ![n] = k]
    BY <1>2 DEF Admit, MemoryInv, MemoryTypeOK
  <1>4. /\ seen'[k] = n /\ \A q \in DedupId \ {k} : seen'[q] = seen[q]
        /\ seen' \in [DedupId -> Instant \union {Never}]
        /\ order'[n] = k /\ \A t \in Instant \ {n} : order'[t] = order[t]
        /\ order' \in [Instant -> DedupId \union {NoId}]
    BY <1>0, <1>1, <1>3 DEF MemoryTypeOK
  <1>5. Known' = Known \union {k}
    BY <1>0, <1>1, <1>4 DEF Known
  <1>6. IsFiniteSet(Known') /\ Cardinality(Known') <= Capacity
    <2>1. Cardinality(Known') = Cardinality(Known) + 1
      BY <1>0, <1>5, FS_AddElement DEF MemoryTypeOK
    <2> QED  BY <1>0, <1>5, <2>1, FS_AddElement, KnownFacts DEF MemoryTypeOK
  <1> HIDE DEF n
  <1>7. MemoryTypeOK'
    BY <1>0, <1>4, <1>6, CalledFacts DEF MemoryTypeOK
  <1>8. MapsAgree'
    <2>1. \A q \in Known' : order'[seen'[q]] = q
      <3> SUFFICES ASSUME NEW q \in Known, q # k
                   PROVE  order'[seen'[q]] = q
        BY <1>4, <1>5
      <3>1. q \in DedupId /\ seen[q] \in Instant /\ seen[q] # n /\ order[seen[q]] = q
        BY <1>1, KnownFacts DEF n
      <3> QED  BY <1>4, <3>1
    <2>2. ASSUME NEW t \in Instant, order'[t] # NoId
          PROVE  seen'[order'[t]] = t
      <3>1. CASE t = n
        BY <1>4, <3>1
      <3>2. CASE t # n
        <4>1. order'[t] = order[t] /\ order[t] \in Known /\ seen[order[t]] = t
          BY <1>4, <2>2, <3>2, KnownFacts
        <4> QED  BY <1>0, <1>4, <4>1 DEF Known
      <3> QED  BY <3>1, <3>2
    <2> QED  BY <1>6, <2>1, <2>2 DEF MapsAgree
  <1>9. TicksToCome'
    <2> SUFFICES ASSUME NEW t \in Instant, t >= n + 1
                 PROVE  order'[t] = NoId
      BY <1>0, CalledFacts DEF TicksToCome, n
    <2>1. t \in Nat /\ t >= next_tick /\ t # n
      BY <1>1 DEF n, Instant
    <2> QED  BY <1>4, <2>1 DEF MemoryInv, TicksToCome
  <1>10. LastOffers'
    <2>1. \A q \in Known \ {k} : seen'[q] = seen[q]
      BY <1>4, KnownFacts
    <2> QED  BY <1>0, <1>4, <1>5, <2>1, LastOffersKept DEF n
  <1>11. ForgottenWasOldest'
    <2> SUFFICES ASSUME NEW j \in 1..(n + 1), offers'[j] \notin Known'
                 PROVE  FALSE
      BY <1>0, CalledFacts DEF ForgottenWasOldest, n
    <2>1. j \in 1..n /\ offers'[j] = offers[j] /\ offers[j] \notin Known
      BY <1>0, <1>1, <1>5, CalledFacts DEF n
    <2>2. Cardinality(Known) = Capacity
      BY <1>0, <2>1, CalledFacts DEF n, MemoryInv, ForgottenWasOldest
    <2> QED  BY <2>2, KnownFacts
  <1> QED
    BY <1>7, <1>8, <1>9, <1>10, <1>11 DEF MemoryInv

\* A new id at capacity: the id of the first occupied tick makes room.
LEMMA AdmitAtCapacityKeeps ==
    ASSUME MemoryInv, NEW k \in DedupId, Admit(k), Cardinality(Known) = Capacity
    PROVE  MemoryInv'
  <1>0. MemoryTypeOK /\ Called(k) /\ k \notin Known
    BY DEF MemoryInv, Admit, Known
  <1> DEFINE n == next_tick
             Occupied == {t \in Instant : order[t] # NoId}
             entered == [order EXCEPT ![n] = k]
  <1>1. n \in Nat /\ n \in Instant /\ n # Never
    BY <1>0, CalledFacts
  <1>2. PICK first \in Occupied : \A t \in Occupied : first <= t
    <2>1. Occupied \in SUBSET Nat
      BY DEF Instant
    <2>2. Occupied # {}
      <3>1. Known # {}
        BY FS_EmptySet
      <3> QED  BY <3>1, KnownFacts
    <2> HIDE DEF Occupied
    <2> QED  BY <2>1, <2>2, FirstTick
  <1> DEFINE oldest == order[first]
  <1>3. /\ first \in Instant /\ first \in Nat /\ first < n
        /\ oldest \in Known /\ oldest \in DedupId /\ oldest # k /\ seen[oldest] = first
    BY <1>0, KnownFacts
  <1>4. Popped(entered, Cardinality(Known) + 1 - Capacity) = {first}
    <2>1. entered[first] # NoId /\ \A t \in Instant : entered[t] # NoId => first <= t
      BY <1>0, <1>1, <1>2, <1>3 DEF MemoryTypeOK
    <2>2. Cardinality(Known) + 1 - Capacity = 1
      OBVIOUS
    <2> HIDE DEF entered
    <2> QED  BY <1>3, <2>1, <2>2, FirstPopped
  <1>5. {entered[t] : t \in {first}} = {oldest}
    BY <1>0, <1>1, <1>3 DEF MemoryTypeOK
  <1>6. /\ seen' = [q \in DedupId |-> IF q \in {oldest} THEN Never
                                      ELSE IF q = k THEN n ELSE seen[q]]
        /\ order' = [t \in Instant |-> IF t \in {first} THEN NoId ELSE entered[t]]
    <2> DEFINE popped == Popped(entered, Cardinality(Known) + 1 - Capacity)
               evicted == {entered[t] : t \in popped}
    <2>1. /\ seen' = [q \in DedupId |-> IF q \in evicted THEN Never
                                        ELSE IF q = k THEN n ELSE seen[q]]
          /\ order' = [t \in Instant |-> IF t \in popped THEN NoId ELSE entered[t]]
      BY DEF Admit
    <2>2. popped = {first}
      BY <1>4
    <2>3. evicted = {oldest}
      BY <1>5, <2>2
    <2> HIDE DEF popped, evicted, entered, oldest
    <2> QED  BY <2>1, <2>2, <2>3
  <1>7. /\ seen'[k] = n /\ seen'[oldest] = Never
        /\ \A q \in DedupId \ {k, oldest} : seen'[q] = seen[q]
        /\ seen' \in [DedupId -> Instant \union {Never}]
    BY <1>0, <1>1, <1>3, <1>6 DEF MemoryTypeOK
  <1>8. /\ order'[n] = k /\ order'[first] = NoId
        /\ \A t \in Instant \ {n, first} : order'[t] = order[t]
        /\ order' \in [Instant -> DedupId \union {NoId}]
    BY <1>0, <1>1, <1>3, <1>6 DEF MemoryTypeOK
  <1> HIDE DEF entered, Occupied, oldest, n
  <1>9. Known' = (Known \ {oldest}) \union {k}
    BY <1>0, <1>1, <1>3, <1>7 DEF Known
  <1>10. IsFiniteSet(Known') /\ Cardinality(Known') = Capacity
    <2>1. IsFiniteSet(Known \ {oldest}) /\ Cardinality(Known \ {oldest}) = Capacity - 1
      BY <1>0, <1>3, FS_RemoveElement DEF MemoryTypeOK
    <2> DEFINE stay == Known \ {oldest}
    <2>2. k \notin stay
      BY <1>0
    <2> HIDE DEF stay
    <2>3. IsFiniteSet(stay \union {k}) /\ Cardinality(stay \union {k}) = Cardinality(stay) + 1
      BY <2>1, <2>2, FS_AddElement DEF stay
    <2>4. Cardinality(stay) + 1 = Capacity
      BY <2>1 DEF stay
    <2> QED  BY <1>9, <2>3, <2>4 DEF stay
  <1>11. MemoryTypeOK'
    BY <1>0, <1>7, <1>8, <1>10, CalledFacts DEF MemoryTypeOK
  \* Who stays known was used after the first occupied tick.
  <1>12. ASSUME NEW q \in Known, q # oldest
         PROVE  /\ q \in DedupId /\ q # k /\ seen'[q] = seen[q]
                /\ seen[q] \in Instant \ {n, first} /\ seen[q] \in Nat /\ first < seen[q]
                /\ order'[seen[q]] = q
    <2>1. /\ q \in DedupId /\ q # k /\ seen[q] \in Instant /\ seen[q] \in Nat
          /\ seen[q] < n /\ order[seen[q]] = q
      BY <1>0, KnownFacts DEF n
    <2>2. seen[q] # first
      BY <1>3, <1>12, KnownFacts
    <2>3. q # NoId
      BY <2>1
    <2>4. seen[q] \in Occupied
      BY <2>1, <2>3 DEF Occupied
    <2>5. first <= seen[q]
      BY <1>2, <2>4
    <2> QED  BY <1>1, <1>3, <1>7, <1>8, <1>12, <2>1, <2>2, <2>5
  <1>13. MapsAgree'
    <2>1. \A q \in Known' : order'[seen'[q]] = q
      BY <1>7, <1>8, <1>9, <1>12
    <2>2. ASSUME NEW t \in Instant, order'[t] # NoId
          PROVE  seen'[order'[t]] = t
      <3>1. CASE t = n
        BY <1>7, <1>8, <3>1
      <3>2. CASE t # n
        <4>1. t # first /\ order'[t] = order[t] /\ order[t] \in Known /\ seen[order[t]] = t
          BY <1>8, <2>2, <3>2, KnownFacts
        <4>2. order[t] # oldest
          BY <1>3, <4>1
        <4> QED  BY <1>12, <4>1, <4>2
      <3> QED  BY <3>1, <3>2
    <2> QED  BY <1>10, <2>1, <2>2 DEF MapsAgree
  <1>14. TicksToCome'
    <2> SUFFICES ASSUME NEW t \in Instant, t >= n + 1
                 PROVE  order'[t] = NoId
      BY <1>0, CalledFacts DEF TicksToCome, n
    <2>1. t \in Nat /\ t >= next_tick /\ t # n
      BY <1>1 DEF n, Instant
    <2> QED  BY <1>8, <2>1 DEF MemoryInv, TicksToCome
  <1>15. LastOffers'
    <2>1. \A q \in Known \ {k} : q \in Known' => seen'[q] = seen[q]
      BY <1>3, <1>9, <1>12
    <2> QED  BY <1>0, <1>7, <1>9, <2>1, LastOffersKept DEF n
  <1>16. ForgottenWasOldest'
    <2> SUFFICES ASSUME NEW j \in 1..(n + 1), offers'[j] \notin Known',
                        NEW q \in Known'
                 PROVE  j <= seen'[q]
      BY <1>0, <1>10, CalledFacts DEF ForgottenWasOldest, n
    <2>1. j \in 1..n /\ j \in Nat /\ offers'[j] = offers[j]
      BY <1>0, <1>1, <1>9, CalledFacts DEF n
    <2>2. CASE q = k
      BY <1>1, <1>7, <2>1, <2>2
    <2>3. CASE q # k /\ offers[j] \notin Known
      <3>1. q \in Known /\ q # oldest
        BY <1>3, <1>9, <2>3
      <3>2. j <= seen[q]
        BY <1>0, <2>1, <2>3, <3>1, CalledFacts DEF n, MemoryInv, ForgottenWasOldest
      <3> QED  BY <1>12, <3>1, <3>2
    <2>4. CASE q # k /\ offers[j] = oldest
      <3>1. q \in Known /\ q # oldest
        BY <1>3, <1>9, <2>4
      <3>2. j <= first + 1
        BY <1>0, <1>3, <2>1, <2>4, CalledFacts DEF n, MemoryInv, LastOffers
      <3>3. first < seen[q] /\ seen[q] \in Nat /\ seen'[q] = seen[q]
        BY <1>12, <3>1
      <3> QED  BY <1>3, <2>1, <3>2, <3>3
    <2> QED  BY <1>9, <2>1, <2>2, <2>3, <2>4
  <1> QED
    BY <1>11, <1>13, <1>14, <1>15, <1>16 DEF MemoryInv

LEMMA MemoryStep == MemoryInv /\ [MemoryNext]_memory => MemoryInv'
  <1> SUFFICES ASSUME MemoryInv, [MemoryNext]_memory
               PROVE  MemoryInv'
    OBVIOUS
  <1>1. CASE UNCHANGED memory
    <2>1. Known' = Known
      BY <1>1 DEF memory, Known
    <2>2. MemoryTypeOK' /\ MapsAgree' /\ TicksToCome'
      BY <1>1, <2>1 DEF memory, MemoryInv, MemoryTypeOK, MapsAgree, TicksToCome
    <2>3. LastOffers' /\ ForgottenWasOldest'
      BY <1>1, <2>1 DEF memory, MemoryInv, LastOffers, ForgottenWasOldest
    <2> QED  BY <2>2, <2>3 DEF MemoryInv
  <1>2. ASSUME NEW k \in DedupId, Refresh(k)
        PROVE  MemoryInv'
    BY <1>2, RefreshKeeps
  <1>3. ASSUME NEW k \in DedupId, Admit(k)
        PROVE  MemoryInv'
    <2>1. Cardinality(Known) < Capacity \/ Cardinality(Known) = Capacity
      BY KnownFacts
    <2> QED  BY <1>3, <2>1, AdmitWithRoomKeeps, AdmitAtCapacityKeeps
  <1> QED  BY <1>1, <1>2, <1>3 DEF MemoryNext

\* In a state of the invariant, what is known is what is recent.
LEMMA KnownIsRecent ==
    ASSUME MemoryInv
    PROVE  EvictsLeastRecent
  <1>0. MemoryTypeOK
    BY DEF MemoryInv
  <1> DEFINE Since(i) == {offers[j] : j \in i..Len(offers)}
  <1>1. ASSUME NEW k \in DedupId, seen[k] # Never
        PROVE  Recent(k)
    <2> DEFINE i == seen[k] + 1
    <2>1. k \in Known /\ seen[k] \in Nat /\ seen[k] < next_tick
      BY <1>1, KnownFacts DEF Known
    <2>2. i \in DOMAIN offers /\ offers[i] = k
      BY <1>0, <2>1 DEF MemoryTypeOK, MemoryInv, LastOffers
    <2>3. Since(i) \ {k} \subseteq Known \ {k}
      <3> SUFFICES ASSUME NEW j \in i..Len(offers), offers[j] \notin Known
                   PROVE  FALSE
        OBVIOUS
      <3>1. j \in 1..Len(offers) /\ j > seen[k]
        BY <1>0, <2>1 DEF MemoryTypeOK
      <3>2. j <= seen[k]
        BY <2>1, <3>1 DEF MemoryInv, ForgottenWasOldest
      <3> QED  BY <2>1, <3>1, <3>2
    <2>4. /\ IsFiniteSet(Known \ {k})
          /\ Cardinality(Known \ {k}) \in Nat /\ Cardinality(Known \ {k}) < Capacity
      <3>1. IsFiniteSet(Known \ {k}) /\ Cardinality(Known \ {k}) = Cardinality(Known) - 1
        BY <1>0, <2>1, FS_RemoveElement DEF MemoryTypeOK
      <3> QED  BY <3>1, KnownFacts, FS_CardinalityType
    <2>5. IsFiniteSet(Since(i) \ {k}) /\ Cardinality(Since(i) \ {k}) <= Cardinality(Known \ {k})
      <3> HIDE DEF Since, i
      <3> QED  BY <2>3, <2>4, FS_Subset
    <2>6. Cardinality(Since(i) \ {k}) < Capacity
      <3>1. Cardinality(Since(i) \ {k}) \in Nat
        BY <2>5, FS_CardinalityType
      <3> HIDE DEF Since, i
      <3> QED  BY <2>4, <2>5, <3>1
    <2> QED  BY <2>2, <2>6 DEF Recent
  <1>2. ASSUME NEW k \in DedupId, Recent(k), seen[k] = Never
        PROVE  FALSE
    <2>1. PICK i \in DOMAIN offers : offers[i] = k /\ Cardinality(Since(i) \ {k}) < Capacity
      BY <1>2 DEF Recent
    <2>2. i \in 1..Len(offers) /\ Len(offers) \in Nat /\ k \notin Known
      BY <1>0, <1>2 DEF MemoryTypeOK, Known
    <2>3. Cardinality(Known) = Capacity /\ \A q \in Known : i <= seen[q]
      BY <2>1, <2>2 DEF MemoryInv, ForgottenWasOldest
    <2>4. Known \subseteq Since(i) \ {k}
      <3> SUFFICES ASSUME NEW q \in Known
                   PROVE  q \in Since(i) /\ q # k
        OBVIOUS
      <3>1. /\ seen[q] \in Nat /\ seen[q] < next_tick /\ i <= seen[q]
            /\ offers[seen[q] + 1] = q
        BY <2>3, KnownFacts DEF MemoryInv, LastOffers
      <3>2. seen[q] + 1 \in i..Len(offers)
        BY <1>0, <2>2, <3>1 DEF MemoryTypeOK
      <3> QED  BY <2>2, <3>1, <3>2
    <2>5. IsFiniteSet(Since(i))
      <3> DEFINE f == [j \in i..Len(offers) |-> offers[j]]
      <3>1. f \in Surjection(i..Len(offers), Since(i))
        BY DEF Surjection
      <3>2. IsFiniteSet(i..Len(offers))
        BY <2>2, FS_Interval
      <3> HIDE DEF f, Since
      <3> QED  BY <3>1, <3>2, FS_Surjection
    <2>6. IsFiniteSet(Since(i) \ {k}) /\ Cardinality(Since(i) \ {k}) \in Nat
      <3> HIDE DEF Since
      <3> QED  BY <2>5, FS_RemoveElement, FS_CardinalityType
    <2>7. Cardinality(Known) <= Cardinality(Since(i) \ {k})
      <3> HIDE DEF Since
      <3> QED  BY <2>4, <2>6, FS_Subset
    <2> HIDE DEF Since
    <2> QED  BY <2>1, <2>3, <2>6, <2>7
  <1> QED  BY <1>1, <1>2 DEF EvictsLeastRecent

----------------------------------------------------------------------------
(* The theorems.                                                           *)

\* The maps, the tick counter and the history of calls agree in every state,
\* for any capacity and any number of ids (accept_for_tenant).
THEOREM MemoryInvariant == MemorySpec => []MemoryInv
  <1> QED  BY MemoryInitial, MemoryStep, PTL DEF MemorySpec

\* `seen` and `order` stay each other's inverse and within the capacity,
\* whatever ids are offered in whatever order (accept_for_tenant's paired
\* inserts and removes).
THEOREM MapsStayInverse == MemorySpec => []MapsAgree
  <1>1. MemoryInv => MapsAgree
    BY DEF MemoryInv
  <1> QED  BY <1>1, MemoryInvariant, PTL

\* A duplicate is recognised exactly while fewer than Capacity other ids have
\* been offered since its last offer (pop_first takes the least recently used).
THEOREM OnlyLeastRecentForgotten == MemorySpec => []EvictsLeastRecent
  <1>1. MemoryInv => EvictsLeastRecent
    BY KnownIsRecent
  <1> QED  BY <1>1, MemoryInvariant, PTL
=============================================================================
