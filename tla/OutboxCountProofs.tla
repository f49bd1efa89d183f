------------------------- MODULE OutboxCountProofs -------------------------
(***************************************************************************)
(* Theorems about OutboxRelay that need to know who holds which row: that  *)
(* one relay publishes a row at a time, that no batch strands a lease,     *)
(* that attempts are counted honestly, and that the stream stores a        *)
(* message once.  Each is proved for the failures under which it holds.    *)
(***************************************************************************)
EXTENDS OutboxRelayProofs

USE RowsAssumption, KnobsAssumption, BoundsAssumption

----------------------------------------------------------------------------
(* The inductive invariant.                                                *)

Owned(w, r) == relay[w].owner # NoOwner /\ outbox[r].claim_owner = relay[w].owner

InLoop(w) == relay[w].pc \in {"next", "publish", "mark", "fail"}
InHand(w) == relay[w].pc \in {"publish", "mark", "fail"}

\* No batch outlives its lease: it may not, or nothing has failed yet.
NothingSlow == "slow" \notin Faults \/ faults = 0

\* No statement fails.
NoDbError == "db" \notin Faults \/ faults = 0

\* Claim ids are of one batch each, and a relay at rest has none.
OwnersAreDistinct ==
    \A v, w \in Relay : v # w /\ relay[v].owner # NoOwner => relay[v].owner # relay[w].owner
RestIsIdle == \A w \in Relay : ~Working(w) => relay[w].owner = NoOwner

\* The rows of a claim were leased together.
LeasesAgree ==
    \A q, r \in Row : outbox[q].claim_owner # NoOwner
                      /\ outbox[q].claim_owner = outbox[r].claim_owner
                          => outbox[q].claim_left = outbox[r].claim_left

LeasesCover == NothingSlow => \A w \in Relay, r \in Row : Owned(w, r) => LeaseLive(r)

\* A batch knows the rows it owns, with their attempts; and of the rows it has
\* not finished with it owns all, or else its lease has lapsed.
BatchKnowsItsRows ==
    \A w \in Relay, r \in Row : InLoop(w) /\ Owned(w, r) =>
        relay[w].taken[r] > 0 /\ relay[w].taken[r] = outbox[r].attempts
BatchOwnsItsRows ==
    \A w \in Relay, r \in Row : InLoop(w) /\ relay[w].taken[r] > 0 =>
        \/ Owned(w, r)
        \/ ~NothingSlow /\ \A q \in Row : Owned(w, q) => ~LeaseLive(q)
RecordIsInBatch == \A w \in Relay : InHand(w) => relay[w].taken[relay[w].cur] > 0

HoldInv ==
    /\ OwnersAreDistinct
    /\ RestIsIdle
    /\ LeasesAgree
    /\ LeasesCover
    /\ BatchKnowsItsRows
    /\ BatchOwnsItsRows
    /\ RecordIsInBatch

\* A claim whose turn has not come is one attempt ahead of the offers.
Ahead(r) == IF Unoffered(r) THEN 1 ELSE 0
CountedAtLeast ==
    NoDbError => \A r \in Row : outbox[r].status = "pending" =>
        offers[r] + Ahead(r) <= outbox[r].attempts

CountInv == HoldInv /\ CountedAtLeast /\ AttemptsCountOffers /\ NotParkedEarly

----------------------------------------------------------------------------
(* What the statements do to attempts and leases.                          *)

LEMMA ClaimedRowCounts ==
    ASSUME NEW row \in RowState, NEW o \in Owner
    PROVE  /\ ClaimedRow(row, o).attempts = row.attempts + 1
           /\ ClaimedRow(row, o).claim_left = ClaimTTL
  <1> DEFINE counted == [row EXCEPT !.attempts = @ + 1]
             owned == [counted EXCEPT !.claim_owner = o]
  <1>1. counted \in RowState /\ counted.attempts = row.attempts + 1
    BY DEF RowState
  <1> HIDE DEF counted
  <1>2. owned \in RowState /\ owned.attempts = row.attempts + 1
    BY <1>1 DEF RowState
  <1>3. ClaimedRow(row, o) = [owned EXCEPT !.claim_left = ClaimTTL]
    BY DEF ClaimedRow, counted
  <1> HIDE DEF owned
  <1> QED  BY <1>2, <1>3 DEF RowState

LEMMA RescheduledRowCounts ==
    ASSUME NEW row \in RowState
    PROVE  RescheduledRow(row).attempts = row.attempts
  BY UnclaimedRowFacts DEF RescheduledRow, RowState

LEMMA ReleasedRowCounts ==
    ASSUME NEW row \in RowState, row.attempts > 0
    PROVE  ReleasedRow(row).attempts = row.attempts - 1
  <1>1. /\ Unclaimed(row) \in RowState /\ Unclaimed(row).attempts = row.attempts
        /\ row.attempts \in Nat
    BY UnclaimedRowFacts DEF RowState
  <1> QED  BY <1>1 DEF ReleasedRow, RowState, AtLeast

LEMMA AgedRowLapses ==
    ASSUME NEW row \in RowState
    PROVE  AgedRow(row).claim_left = Earlier(row.claim_left)
  BY DEF AgedRow, RowState

----------------------------------------------------------------------------
(* Kinds of steps, as far as holding rows is concerned.                    *)

\* A claim commits, whether or not its reply arrives.
Claims(w, S, o) ==
    /\ S \in SUBSET Row /\ (\A r \in S : Claimable(r)) /\ o \in FreshOwners
    /\ outbox' = LeasedTo(S, o)
    /\ \/ relay' = relay
       \/ relay' = [relay EXCEPT ![w] = Locals("next", o,
                        [r \in Row |-> IF r \in S THEN outbox[r].attempts + 1 ELSE 0], NoRow)]

\* A relay goes on: it takes nothing new, and leaves its loop or is done with
\* the rows its statement changed.
Moves(w) ==
    /\ \A v \in Relay : v # w => relay'[v] = relay[v]
    /\ relay'[w].owner \in {relay[w].owner, NoOwner}
    /\ relay'[w].pc \in {"idle", "stopped"} => relay'[w].owner = NoOwner
    /\ ActsOnClaim(relay[w].owner, outbox')
    /\ outbox' = outbox \/ Working(w)
    /\ InLoop(w)' =>
          /\ InLoop(w) /\ relay'[w].owner = relay[w].owner
          /\ \A r \in Row :
                /\ relay'[w].taken[r] \in {relay[w].taken[r], 0}
                /\ outbox'[r] # outbox[r] => relay'[w].taken[r] = 0
                /\ relay'[w].taken[r] # relay[w].taken[r] =>
                      outbox'[r].claim_owner # relay[w].owner
    /\ InHand(w)' => relay'[w].taken[relay'[w].cur] > 0

\* Producers and retention touch only rows that nobody has claimed.
TouchesUnclaimed ==
    /\ relay' = relay
    /\ \A r \in Row : \/ outbox'[r] = outbox[r]
                      \/ /\ outbox[r].claim_owner = NoOwner
                         /\ outbox'[r].claim_owner = NoOwner

\* What has failed, has failed for good.
LEMMA FaultsGrow ==
    ASSUME TypeOK, [Next]_vars
    PROVE  /\ NothingSlow' => NothingSlow
           /\ NoDbError' => NoDbError
           /\ faults' = 0 => faults = 0
  <1>1. faults' = faults \/ (faults' = faults + 1 /\ faults \in Nat)
    BY DEF Next, RelayStep, Enqueue, ReceiveLate, LoseLate, Purge, Tick, SlowTick,
           Claim, ParkPoison, CheckHeld, CheckLapsed, PublishOk, PublishErr, MarkPublished,
           RecordFailure, Release, Receive, Restart, ClaimReplyLost, DbError, Shutdown,
           Crash, vars, Fault, TypeOK
  <1> QED  BY <1>1 DEF NothingSlow, NoDbError

LEMMA ClaimsHold ==
    ASSUME TypeOK, TypeOK', HoldInv, [Next]_vars, NEW w \in Relay, NEW S, NEW o, Claims(w, S, o),
           relay'[w] = relay[w] \/ relay[w].pc = "idle"
    PROVE  HoldInv'
  <1>1. /\ o \in Owner /\ o # NoOwner
        /\ \A r \in Row : outbox[r].claim_owner # o
        /\ \A v \in Relay : relay[v].owner # o
    BY DEF Claims, FreshOwners, OwnersInUse
  <1>2. \A r \in S : /\ r \in Row
                     /\ outbox'[r].claim_owner = o /\ outbox'[r].claim_left = ClaimTTL
                     /\ outbox'[r].attempts = outbox[r].attempts + 1
                     /\ ~LeaseLive(r)
    BY <1>1, ClaimedRowFacts, ClaimedRowCounts DEF Claims, LeasedTo, TypeOK, Claimable
  <1>3. \A r \in Row \ S : outbox'[r] = outbox[r]
    BY DEF Claims, LeasedTo
  <1>4. \A v \in Relay : v # w => relay'[v] = relay[v]
    BY DEF Claims, TypeOK
  <1>5. relay'[w] # relay[w] =>
            /\ relay'[w].pc = "next" /\ relay'[w].owner = o
            /\ \A r \in Row : relay'[w].taken[r] = IF r \in S THEN outbox[r].attempts + 1 ELSE 0
    BY DEF Claims, TypeOK, Locals
  <1>6. \A v \in Relay : relay'[v] = relay[v] =>
            \A r \in Row : Owned(v, r)' => r \notin S /\ Owned(v, r)
    BY <1>1, <1>2, <1>3 DEF Owned
  <1>7. OwnersAreDistinct' /\ RestIsIdle'
    BY <1>1, <1>4, <1>5 DEF HoldInv, OwnersAreDistinct, RestIsIdle, Working
  <1>8. LeasesAgree'
    BY <1>1, <1>2, <1>3 DEF HoldInv, LeasesAgree
  <1>9. LeasesCover'
    <2> SUFFICES ASSUME NothingSlow', NEW v \in Relay, NEW r \in Row, Owned(v, r)'
                 PROVE  outbox'[r].claim_left > 0
      BY DEF LeasesCover, LeaseLive
    <2>1. CASE r \in S
      BY <1>2, <2>1
    <2>2. CASE r \notin S
      <3>1. relay'[v] = relay[v]
        BY <1>1, <1>3, <1>4, <1>5, <2>2 DEF Owned
      <3>2. Owned(v, r)
        BY <1>6, <3>1
      <3> QED  BY <1>3, <2>2, <3>2, FaultsGrow DEF HoldInv, LeasesCover, LeaseLive
    <2> QED  BY <2>1, <2>2
  <1>10. BatchKnowsItsRows'
    <2> SUFFICES ASSUME NEW v \in Relay, NEW r \in Row, InLoop(v)', Owned(v, r)'
                 PROVE  relay'[v].taken[r] > 0 /\ relay'[v].taken[r] = outbox'[r].attempts
      BY DEF BatchKnowsItsRows
    <2>1. CASE relay'[v] = relay[v]
      BY <1>3, <1>6, <2>1 DEF HoldInv, BatchKnowsItsRows, InLoop
    <2>2. CASE relay'[v] # relay[v]
      <3>1. v = w /\ outbox'[r].claim_owner = o
        BY <1>4, <1>5, <2>2 DEF Owned
      <3>2. r \in S
        BY <1>1, <1>3, <3>1
      <3>3. outbox[r].attempts \in Nat
        BY DEF TypeOK, RowState
      <3> QED  BY <1>2, <1>5, <2>2, <3>1, <3>2, <3>3
    <2> QED  BY <2>1, <2>2
  <1>11. BatchOwnsItsRows'
    <2> SUFFICES ASSUME NEW v \in Relay, NEW r \in Row, InLoop(v)', relay'[v].taken[r] > 0
                 PROVE  \/ Owned(v, r)'
                        \/ ~NothingSlow' /\ \A q \in Row : Owned(v, q)' => outbox'[q].claim_left = 0
      BY DEF BatchOwnsItsRows, LeaseLive
    <2>1. CASE relay'[v] # relay[v]
      <3>1. v = w /\ r \in S
        BY <1>4, <1>5, <2>1
      <3> QED  BY <1>1, <1>2, <1>5, <2>1, <3>1 DEF Owned
    <2>2. CASE relay'[v] = relay[v] /\ Owned(v, r) /\ r \notin S
      BY <1>3, <2>2 DEF Owned
    <2>3. CASE relay'[v] = relay[v] /\ ~(Owned(v, r) /\ r \notin S)
      <3>1. ~NothingSlow /\ \A q \in Row : Owned(v, q) => outbox[q].claim_left = 0
        <4>1. CASE ~Owned(v, r)
          BY <2>3, <4>1 DEF HoldInv, BatchOwnsItsRows, LeaseLive, InLoop, TypeOK, RowState
        <4>2. CASE Owned(v, r) /\ r \in S
          <5>1. outbox[r].claim_left = 0
            BY <1>2, <4>2 DEF LeaseLive, TypeOK, RowState
          <5>2. ~NothingSlow
            BY <1>2, <4>2 DEF HoldInv, LeasesCover
          <5> QED  BY <4>2, <5>1, <5>2 DEF HoldInv, LeasesAgree, Owned
        <4> QED  BY <2>3, <4>1, <4>2
      <3> QED  BY <1>3, <1>6, <2>3, <3>1, FaultsGrow
    <2> QED  BY <2>1, <2>2, <2>3
  <1>12. RecordIsInBatch'
    BY <1>4, <1>5 DEF HoldInv, RecordIsInBatch, InHand
  <1> QED
    BY <1>7, <1>8, <1>9, <1>10, <1>11, <1>12 DEF HoldInv

LEMMA MovesHold ==
    ASSUME TypeOK, TypeOK', HoldInv, BatchesAreSound, [Next]_vars, NEW w \in Relay, Moves(w)
    PROVE  HoldInv'
  <1>1. \A v \in Relay : v # w => relay'[v] = relay[v]
    BY DEF Moves
  <1>2. \A r \in Row : outbox'[r] # outbox[r] =>
            /\ outbox[r].claim_owner = relay[w].owner /\ relay[w].owner # NoOwner
            /\ outbox'[r].claim_owner = NoOwner
    BY DEF Moves, ActsOnClaim, BatchesAreSound, BatchIsSound
  <1>3. \A v \in Relay, r \in Row : Owned(v, r)' => outbox'[r] = outbox[r] /\ Owned(v, r)
    BY <1>1, <1>2 DEF Moves, Owned
  <1>4. OwnersAreDistinct'
    BY <1>1 DEF Moves, HoldInv, OwnersAreDistinct
  <1>5. RestIsIdle'
    BY <1>1 DEF Moves, HoldInv, RestIsIdle, Working
  <1>6. LeasesAgree'
    BY <1>2 DEF HoldInv, LeasesAgree
  <1>7. LeasesCover'
    BY <1>3, FaultsGrow DEF HoldInv, LeasesCover, LeaseLive
  <1>8. BatchKnowsItsRows'
    <2> SUFFICES ASSUME NEW v \in Relay, NEW r \in Row, InLoop(v)', Owned(v, r)'
                 PROVE  relay'[v].taken[r] > 0 /\ relay'[v].taken[r] = outbox'[r].attempts
      BY DEF BatchKnowsItsRows
    <2>1. outbox'[r] = outbox[r] /\ Owned(v, r)
      BY <1>3
    <2>2. CASE v # w
      BY <1>1, <2>1, <2>2 DEF HoldInv, BatchKnowsItsRows, InLoop
    <2>3. CASE v = w
      <3>1. InLoop(w) /\ relay'[w].taken[r] = relay[w].taken[r]
        BY <2>1, <2>3 DEF Moves, Owned
      <3> QED  BY <2>1, <2>3, <3>1 DEF HoldInv, BatchKnowsItsRows
    <2> QED  BY <2>2, <2>3
  <1>9. BatchOwnsItsRows'
    <2> SUFFICES ASSUME NEW v \in Relay, NEW r \in Row, InLoop(v)', relay'[v].taken[r] > 0
                 PROVE  \/ Owned(v, r)'
                        \/ ~NothingSlow' /\ \A q \in Row : Owned(v, q)' => ~(outbox'[q].claim_left > 0)
      BY DEF BatchOwnsItsRows, LeaseLive
    <2>1. InLoop(v) /\ relay'[v].taken[r] = relay[v].taken[r]
      BY <1>1 DEF Moves, InLoop
    <2>2. CASE Owned(v, r)
      <3>1. CASE v # w
        <4>1. outbox'[r] = outbox[r]
          BY <1>2, <2>2, <3>1 DEF Owned, HoldInv, OwnersAreDistinct
        <4> QED  BY <1>1, <2>2, <3>1, <4>1 DEF Owned
      <3>2. CASE v = w
        <4>0. InLoop(w)' /\ relay'[w].taken[r] # 0
          BY <3>2 DEF InLoop
        <4>1. outbox'[r] = outbox[r]
          BY <4>0 DEF Moves
        <4>2. relay'[w].owner = relay[w].owner
          BY <4>0 DEF Moves
        <4> QED  BY <2>2, <3>2, <4>1, <4>2 DEF Owned
      <3> QED  BY <3>1, <3>2
    <2>3. CASE ~Owned(v, r)
      BY <1>3, <2>1, <2>3, FaultsGrow DEF HoldInv, BatchOwnsItsRows, LeaseLive
    <2> QED  BY <2>2, <2>3
  <1>10. RecordIsInBatch'
    BY <1>1 DEF Moves, HoldInv, RecordIsInBatch, InHand
  <1> QED
    BY <1>4, <1>5, <1>6, <1>7, <1>8, <1>9, <1>10 DEF HoldInv

LEMMA UnclaimedHold ==
    ASSUME TypeOK, TypeOK', HoldInv, [Next]_vars, TouchesUnclaimed
    PROVE  HoldInv'
  <1>1. \A v \in Relay, r \in Row : /\ Owned(v, r)' <=> Owned(v, r)
                                    /\ Owned(v, r) => outbox'[r] = outbox[r]
    BY DEF TouchesUnclaimed, Owned
  <1>2. OwnersAreDistinct' /\ RestIsIdle' /\ RecordIsInBatch'
    BY DEF TouchesUnclaimed, HoldInv, OwnersAreDistinct, RestIsIdle, RecordIsInBatch, InHand, Working
  <1>3. LeasesAgree'
    BY DEF TouchesUnclaimed, HoldInv, LeasesAgree
  <1>4. LeasesCover'
    BY <1>1, FaultsGrow DEF HoldInv, LeasesCover, LeaseLive
  <1>5. BatchKnowsItsRows' /\ BatchOwnsItsRows'
    BY <1>1, FaultsGrow
    DEF TouchesUnclaimed, HoldInv, BatchKnowsItsRows, BatchOwnsItsRows, LeaseLive, InLoop
  <1> QED
    BY <1>2, <1>3, <1>4, <1>5 DEF HoldInv

LEMMA TimeHolds ==
    ASSUME TypeOK, TypeOK', HoldInv, [Next]_vars, Tick \/ SlowTick
    PROVE  HoldInv'
  <1>1. /\ relay' = relay
        /\ \A r \in Row : /\ outbox'[r].claim_owner = outbox[r].claim_owner
                          /\ outbox'[r].attempts = outbox[r].attempts
                          /\ outbox'[r].claim_left = Earlier(outbox[r].claim_left)
                          /\ outbox[r].claim_left \in Nat
    BY AgedRowFacts, AgedRowLapses DEF Tick, SlowTick, TimePasses, TypeOK, RowState
  <1>2. OwnersAreDistinct' /\ RestIsIdle' /\ RecordIsInBatch'
    BY <1>1 DEF HoldInv, OwnersAreDistinct, RestIsIdle, RecordIsInBatch, InHand, Working
  <1>3. LeasesAgree'
    BY <1>1 DEF HoldInv, LeasesAgree
  <1>4. LeasesCover'
    <2> SUFFICES ASSUME NothingSlow', NEW v \in Relay, NEW r \in Row, Owned(v, r)
                 PROVE  outbox'[r].claim_left > 0
      BY <1>1 DEF LeasesCover, LeaseLive, Owned
    <2>1. ~SlowTick
      BY DEF SlowTick, Fault, NothingSlow, TypeOK
    <2>2. LeaseCoversBatch
      BY <2>1 DEF Tick, Quiet, HoldInv, RestIsIdle, Working, Owned
    <2>3. outbox[r].claim_left # 1
      BY <2>2 DEF LeaseCoversBatch, Owned
    <2>4. outbox[r].claim_left > 0
      BY FaultsGrow DEF HoldInv, LeasesCover, LeaseLive
    <2> QED  BY <1>1, <2>3, <2>4 DEF Earlier
  <1>5. BatchKnowsItsRows'
    BY <1>1 DEF HoldInv, BatchKnowsItsRows, Owned, InLoop
  <1>6. BatchOwnsItsRows'
    <2>1. \A r \in Row : outbox'[r].claim_left > 0 => outbox[r].claim_left > 0
      BY <1>1 DEF Earlier
    <2> QED
      BY <1>1, <2>1, FaultsGrow DEF HoldInv, BatchOwnsItsRows, Owned, InLoop, LeaseLive
  <1> QED
    BY <1>2, <1>3, <1>4, <1>5, <1>6 DEF HoldInv

----------------------------------------------------------------------------
(* Every step is of one of these kinds.                                    *)

\* What the relay's next locals say about its batch.
LEMMA NextLocals ==
    ASSUME TypeOK, NEW w \in Relay
    PROVE  /\ \A r \in Row :
                 LET next == Without(w, r) IN
                 /\ next.pc = "idle" => /\ next.owner = NoOwner
                                        /\ \A q \in Row \ {r} : relay[w].taken[q] = 0
                 /\ next.pc = "next" =>
                       \A q \in Row : next.taken[q] = IF q = r THEN 0 ELSE relay[w].taken[q]
           /\ \A label, r : Handling(w, label, r).taken = relay[w].taken
           /\ \A label : AtRest(label).owner = NoOwner
  <1>1. ASSUME NEW r \in Row
        PROVE  LET next == Without(w, r) IN
                 /\ next.pc = "idle" => /\ next.owner = NoOwner
                                        /\ \A q \in Row \ {r} : relay[w].taken[q] = 0
                 /\ next.pc = "next" =>
                       \A q \in Row : next.taken[q] = IF q = r THEN 0 ELSE relay[w].taken[q]
    <2> DEFINE rest == [relay[w].taken EXCEPT ![r] = 0]
    <2>1. /\ rest \in [Row -> Nat]
          /\ \A q \in Row : rest[q] = IF q = r THEN 0 ELSE relay[w].taken[q]
      BY DEF TypeOK, RelayState
    <2>2. CASE \E q \in Row : rest[q] > 0
      <3>1. Without(w, r) = Locals("next", relay[w].owner, rest, NoRow)
        BY <2>2 DEF Without
      <3> QED  BY <2>1, <3>1 DEF Locals
    <2>3. CASE ~\E q \in Row : rest[q] > 0
      <3>1. Without(w, r) = AtRest("idle")
        BY <2>3 DEF Without
      <3>2. \A q \in Row : rest[q] = 0
        BY <2>1, <2>3
      <3> QED  BY <2>1, <3>1, <3>2 DEF AtRest, Locals
    <2> QED  BY <2>2, <2>3
  <1>2. \A label, r : Handling(w, label, r).taken = relay[w].taken
    BY DEF Handling, Locals
  <1>3. \A label : AtRest(label).owner = NoOwner
    BY DEF AtRest, Locals
  <1> QED  BY <1>1, <1>2, <1>3

\* A statement about row r and what the batch then does without r.
LEMMA FinishesMoves ==
    ASSUME TypeOK, TypeOK', NEW w \in Relay, NEW r \in Row, Working(w), InLoop(w),
           relay' = [relay EXCEPT ![w] = Without(w, r)],
           ActsOnClaim(relay[w].owner, outbox'),
           \A q \in Row \ {r} : outbox'[q] = outbox[q],
           outbox'[r].claim_owner # relay[w].owner
    PROVE  Moves(w)
  <1>1. relay'[w] = Without(w, r) /\ \A v \in Relay : v # w => relay'[v] = relay[v]
    BY DEF TypeOK
  <1>2. relay[w].taken \in [Row -> Nat]
    BY DEF TypeOK, RelayState
  <1>3. relay'[w].pc \in {"next", "idle"}
    BY <1>1, LocalsFacts
  <1>4. relay'[w].pc = "next" => relay'[w].owner = relay[w].owner
    BY <1>1, LocalsFacts
  <1>5. relay'[w].pc = "idle" => relay'[w].owner = NoOwner
    BY <1>1, NextLocals
  <1>6. relay'[w].pc = "next" =>
           \A q \in Row : relay'[w].taken[q] = IF q = r THEN 0 ELSE relay[w].taken[q]
    BY <1>1, NextLocals
  <1> QED
    BY <1>1, <1>3, <1>4, <1>5, <1>6 DEF Moves, InLoop, InHand

\* The relay leaves its loop.
LEMMA LeavesMoves ==
    ASSUME TypeOK, TypeOK', NEW w \in Relay, NEW x,
           relay' = [relay EXCEPT ![w] = x],
           \/ \E label \in {"idle", "stopped"} : x = AtRest(label)
           \/ \E label \in {"release", "abort"} : x = Dropping(w, label),
           ActsOnClaim(relay[w].owner, outbox'),
           outbox' = outbox \/ Working(w)
    PROVE  Moves(w)
  <1>1. relay'[w] = x /\ \A v \in Relay : v # w => relay'[v] = relay[v]
    BY DEF TypeOK
  <1>2. \/ relay'[w].pc \in {"idle", "stopped"} /\ relay'[w].owner = NoOwner
        \/ relay'[w].pc \in {"release", "abort"} /\ relay'[w].owner = relay[w].owner
    BY <1>1, LocalsFacts, NextLocals
  <1> QED
    BY <1>1, <1>2 DEF Moves, InLoop, InHand

\* The relay goes on with a record of its batch.
LEMMA HandlesMoves ==
    ASSUME TypeOK, TypeOK', NEW w \in Relay, NEW r \in Row, NEW label,
           InLoop(w), label \in {"publish", "mark", "fail"},
           relay[w].taken[r] > 0, outbox' = outbox,
           relay' = [relay EXCEPT ![w] = Handling(w, label, r)]
    PROVE  Moves(w)
  <1>1. relay'[w] = Handling(w, label, r) /\ \A v \in Relay : v # w => relay'[v] = relay[v]
    BY DEF TypeOK
  <1>2. /\ relay'[w].pc = label /\ relay'[w].owner = relay[w].owner
        /\ relay'[w].cur = r /\ relay'[w].taken = relay[w].taken
    BY <1>1, LocalsFacts, NextLocals
  <1>3. ActsOnClaim(relay[w].owner, outbox')
    BY NothingActs DEF TypeOK
  <1> QED
    BY <1>1, <1>2, <1>3 DEF Moves, InLoop, InHand

\* What a statement that names a row and a claim leaves: other rows alone, and
\* the row in nobody's hands if the claim was on it.
LEMMA StatementNames ==
    ASSUME TypeOK, DrainInv, NEW w \in Relay, NEW r \in Row, relay[w].owner # NoOwner,
           NEW table \in {Published(r, relay[w].owner), Failed(r, relay[w].owner),
                          Rescheduled(r, relay[w].owner)}
    PROVE  /\ \A q \in Row \ {r} : table[q] = outbox[q]
           /\ table[r].claim_owner # relay[w].owner
  <1>1. outbox[r] \in RowState
    BY DEF TypeOK
  <1>2. /\ PublishedRow(outbox[r]).claim_owner = NoOwner
        /\ FailedRow(outbox[r]).claim_owner = NoOwner
        /\ RescheduledRow(outbox[r]).claim_owner = NoOwner
    BY <1>1, PublishedRowFacts, FailedRowFacts, RescheduledRowFacts
  <1>3. outbox[r].claim_owner # NoOwner => outbox[r].status = "pending"
    BY DEF DrainInv, ClaimsAreOfPendingRows
  <1> QED
    BY <1>2, <1>3 DEF TypeOK, Published, Failed, Rescheduled, IfOwned, OwnerMatches

LEMMA RelayStepMoves ==
    ASSUME TypeOK, TypeOK', DrainInv, HoldInv, NEW w \in Relay,
           \/ ParkPoison(w) \/ CheckHeld(w) \/ CheckLapsed(w) \/ PublishOk(w) \/ PublishErr(w)
           \/ MarkPublished(w) \/ RecordFailure(w) \/ Release(w) \/ Receive(w) \/ Restart(w)
           \/ DbError(w) \/ Shutdown(w) \/ Crash(w)
    PROVE  Moves(w)
  <1>1. Working(w) => relay[w].owner # NoOwner
    BY DEF DrainInv, BatchesAreSound, BatchIsSound
  <1>2. outbox \in [Row -> RowState] /\ ActsOnClaim(relay[w].owner, outbox)
    BY NothingActs DEF TypeOK
  <1>3. InHand(w) => relay[w].cur \in Row /\ relay[w].taken[relay[w].cur] > 0
    BY DEF DrainInv, BatchesAreSound, BatchIsSound, HoldInv, RecordIsInBatch, InHand
  <1>4. \A r \in Oldest(Batch(w)) : r \in Row /\ relay[w].taken[r] > 0
    BY DEF Oldest, Batch
  <1>5. CASE ParkPoison(w)
    <2>1. PICK r \in Row : /\ outbox' = Failed(r, relay[w].owner)
                           /\ relay' = [relay EXCEPT ![w] = Without(w, r)]
      BY <1>4, <1>5 DEF ParkPoison
    <2>2. Working(w) /\ InLoop(w)
      BY <1>5 DEF ParkPoison, Working, InLoop
    <2>3. ActsOnClaim(relay[w].owner, outbox')
      BY <1>2, <2>1, FailedActs
    <2>4. (\A q \in Row \ {r} : outbox'[q] = outbox[q]) /\ outbox'[r].claim_owner # relay[w].owner
      BY <1>1, <2>1, <2>2, StatementNames
    <2> QED  BY <2>1, <2>2, <2>3, <2>4, FinishesMoves
  <1>6. CASE MarkPublished(w)
    <2> DEFINE r == relay[w].cur
    <2>1. r \in Row /\ Working(w) /\ InLoop(w)
      BY <1>3, <1>6 DEF MarkPublished, Working, InLoop, InHand
    <2>2. ActsOnClaim(relay[w].owner, outbox')
      BY <1>2, <1>6, PublishedActs DEF MarkPublished
    <2>3. (\A q \in Row \ {r} : outbox'[q] = outbox[q]) /\ outbox'[r].claim_owner # relay[w].owner
      BY <1>1, <1>6, <2>1, StatementNames DEF MarkPublished
    <2> QED  BY <1>6, <2>1, <2>2, <2>3, FinishesMoves DEF MarkPublished
  <1>7. CASE CheckHeld(w)
    <2>1. PICK r \in Row : /\ relay[w].taken[r] > 0
                           /\ relay' = [relay EXCEPT ![w] = Handling(w, "publish", r)]
      BY <1>4, <1>7 DEF CheckHeld
    <2> QED  BY <1>7, <2>1, HandlesMoves DEF CheckHeld, InLoop
  <1>8. CASE PublishOk(w) \/ PublishErr(w)
    BY <1>3, <1>8, HandlesMoves DEF PublishOk, PublishErr, InLoop, InHand
  <1>9. CASE CheckLapsed(w) \/ Restart(w) \/ Shutdown(w) \/ Crash(w)
    BY <1>2, <1>9, LeavesMoves DEF CheckLapsed, Restart, Shutdown, Crash
  <1>10. CASE RecordFailure(w)
    BY <1>2, <1>10, FailedActs, RescheduledActs, LeavesMoves
    DEF RecordFailure, FailureRecorded, Working
  <1>11. CASE Release(w)
    BY <1>2, <1>11, ReleasedActs, LeavesMoves DEF Release, Working
  <1>12. CASE DbError(w)
    <2>1. Working(w)
      BY <1>12 DEF DbError, Working
    <2>2. ActsOnClaim(relay[w].owner, outbox')
      BY <1>2, <1>12, FailedActs, PublishedActs, RescheduledActs, ReleasedActs
      DEF DbError, FailureRecorded
    <2> QED  BY <1>12, <2>1, <2>2, LeavesMoves DEF DbError
  <1>13. CASE Receive(w)
    <2>1. /\ \A v \in Relay : v # w => relay'[v] = relay[v]
          /\ relay'[w] = [relay[w] EXCEPT !.acked = TRUE]
          /\ outbox' = outbox /\ relay[w].pc = "publish"
      BY <1>13 DEF Receive, TypeOK
    <2>2. /\ relay'[w].pc = relay[w].pc /\ relay'[w].owner = relay[w].owner
          /\ relay'[w].cur = relay[w].cur /\ relay'[w].taken = relay[w].taken
      BY <2>1 DEF TypeOK, RelayState
    <2> QED  BY <1>2, <1>3, <2>1, <2>2 DEF Moves, InLoop, InHand
  <1> QED
    BY <1>5, <1>6, <1>7, <1>8, <1>9, <1>10, <1>11, <1>12, <1>13

LEMMA TableStepTouches ==
    ASSUME TypeOK, DrainInv,
           \/ \E r \in Row : Enqueue(r) \/ ReceiveLate(r) \/ LoseLate(r)
           \/ Purge
           \/ UNCHANGED vars
    PROVE  TouchesUnclaimed
  <1>1. \A r \in Row : outbox[r].status # "pending" => outbox[r].claim_owner = NoOwner
    BY DEF DrainInv, ClaimsAreOfPendingRows
  <1>2. Staged.claim_owner = NoOwner /\ NoRecord.claim_owner = NoOwner
    BY DEF Staged, NoRecord
  <1>3. ASSUME NEW r \in Row, Enqueue(r) PROVE TouchesUnclaimed
    BY <1>1, <1>2, <1>3 DEF Enqueue, TouchesUnclaimed, TypeOK
  <1>4. CASE Purge
    BY <1>1, <1>2, <1>4 DEF Purge, Purgeable, TouchesUnclaimed, TypeOK
  <1> QED
    BY <1>3, <1>4 DEF ReceiveLate, LoseLate, vars, TouchesUnclaimed

\* Every step keeps who holds what.
LEMMA HoldStep ==
    ASSUME TypeOK, TypeOK', DrainInv, HoldInv, [Next]_vars
    PROVE  HoldInv'
  <1>1. ASSUME NEW w \in Relay, Claim(w) \/ ClaimReplyLost(w) PROVE HoldInv'
    <2>1. PICK S \in Candidates(w), o \in FreshOwners : Claims(w, S, o)
      BY <1>1, CandidatesFacts DEF Claim, ClaimReplyLost, Claims
    <2>2. relay'[w] = relay[w] \/ relay[w].pc = "idle"
      BY <1>1 DEF Claim, ClaimReplyLost
    <2> QED  BY <2>1, <2>2, ClaimsHold
  <1>2. ASSUME NEW w \in Relay, Moves(w) PROVE HoldInv'
    BY <1>2, MovesHold DEF DrainInv
  <1>3. CASE TouchesUnclaimed
    BY <1>3, UnclaimedHold
  <1>4. CASE Tick \/ SlowTick
    BY <1>4, TimeHolds
  <1> QED
    BY <1>1, <1>2, <1>3, <1>4, RelayStepMoves, TableStepTouches DEF Next, RelayStep

LEMMA HoldInit == ASSUME Init PROVE HoldInv
  <1>1. /\ \A w \in Relay : relay[w].pc = "idle" /\ relay[w].owner = NoOwner
        /\ \A r \in Row : outbox[r].claim_owner = NoOwner
    BY LocalsFacts DEF Init, AtRest, Locals, Staged, NoRecord
  <1> QED
    BY <1>1
    DEF HoldInv, OwnersAreDistinct, RestIsIdle, LeasesAgree, LeasesCover, BatchKnowsItsRows,
        BatchOwnsItsRows, RecordIsInBatch, InLoop, InHand, Owned

\* Who holds which row, in every reachable state: claim ids are of one batch,
\* a batch knows what it holds, and holds all of it until its lease lapses.
THEOREM HoldInvariant == Spec => []HoldInv
  <1>1. Init => HoldInv
    BY HoldInit
  <1>2. TypeOK /\ TypeOK' /\ DrainInv /\ HoldInv /\ [Next]_vars => HoldInv'
    BY HoldStep
  <1> QED  BY <1>1, <1>2, TypeInvariant, DrainInvariant, PTL DEF Spec

\* Where no batch outlives its lease no two relays publish the same row, even
\* while others crash or lose the database (claim_still_held and the lease).
THEOREM OneRelayPublishes == "slow" \notin Faults => (Spec => []SinglePublisher)
  <1>1. ASSUME "slow" \notin Faults, TypeOK, DrainInv, HoldInv PROVE SinglePublisher
    <2> SUFFICES ASSUME NEW v \in Relay, NEW w \in Relay, v # w,
                        relay[v].pc = "publish", relay[w].pc = "publish",
                        relay[v].cur = relay[w].cur
                 PROVE  FALSE
      BY DEF SinglePublisher
    <2>1. \A u \in {v, w} : /\ relay[u].cur \in Row /\ relay[u].taken[relay[u].cur] > 0
                            /\ InLoop(u)
      BY <1>1 DEF DrainInv, BatchesAreSound, BatchIsSound, HoldInv, RecordIsInBatch, InHand, InLoop
    <2>2. \A u \in {v, w} : Owned(u, relay[u].cur)
      BY <1>1, <2>1 DEF HoldInv, BatchOwnsItsRows, NothingSlow
    <2> QED  BY <1>1, <2>2 DEF HoldInv, OwnersAreDistinct, Owned
  <1> SUFFICES ASSUME "slow" \notin Faults PROVE Spec => []SinglePublisher
    OBVIOUS
  <1>2. TypeOK /\ DrainInv /\ HoldInv => SinglePublisher
    BY <1>1
  <1> QED  BY <1>2, TypeInvariant, DrainInvariant, HoldInvariant, PTL

----------------------------------------------------------------------------
(* What a batch leaves behind.                                             *)

\* Relay w ends its batch without a failure and leaves r leased.
Strands(w, r) ==
    /\ relay[w].owner # NoOwner
    /\ relay'[w].owner = NoOwner
    /\ faults' = faults \/ Shutdown(w)
    /\ outbox'[r].claim_owner = relay[w].owner
    /\ outbox'[r].claim_left > 0

LEMMA NoneStrands ==
    ASSUME TypeOK, TypeOK', DrainInv, HoldInv, Next, NEW w \in Relay, NEW r \in Row, Strands(w, r)
    PROVE  FALSE
  <1> USE DEF Strands
  <1>1. Working(w) /\ relay'[w] # relay[w]
    BY DEF HoldInv, RestIsIdle
  <1>2. faults' = faults /\ faults' # faults + 1
    <2>1. ~Shutdown(w)
      BY <1>1 DEF Shutdown, LooksForShutdown, Working
    <2> QED  BY <2>1 DEF TypeOK
  <1>3. ~(Tick \/ SlowTick \/ Purge \/ \E q \in Row : Enqueue(q) \/ ReceiveLate(q) \/ LoseLate(q))
    BY <1>1 DEF Tick, SlowTick, TimePasses, Purge, Enqueue, ReceiveLate, LoseLate
  <1>4. ~\E v \in Relay : ClaimReplyLost(v) \/ DbError(v) \/ Shutdown(v) \/ Crash(v)
    BY <1>2 DEF ClaimReplyLost, DbError, Shutdown, Crash, Fault
  <1>5. ~\E v \in Relay : Claim(v) \/ Restart(v)
    BY <1>1 DEF Claim, Restart, Working, TypeOK
  <1>6. PICK v \in Relay : \/ ParkPoison(v) \/ CheckHeld(v) \/ CheckLapsed(v) \/ PublishOk(v)
                           \/ PublishErr(v) \/ MarkPublished(v) \/ RecordFailure(v) \/ Release(v)
                           \/ Receive(v)
    BY <1>3, <1>4, <1>5 DEF Next, RelayStep
  <1>7. v = w /\ Moves(w)
    BY <1>1, <1>6, RelayStepMoves DEF Moves
  <1>8. outbox'[r] = outbox[r] /\ Owned(w, r)
    BY <1>7 DEF Moves, ActsOnClaim, Owned
  <1>9. ~Release(w)
    <2>1. outbox[r].status = "pending"
      BY <1>8 DEF DrainInv, ClaimsAreOfPendingRows, Owned
    <2>2. outbox[r] \in RowState
      BY DEF TypeOK
    <2>3. ReleasedRow(outbox[r]).claim_owner = NoOwner
      BY <2>2, ReleasedRowFacts
    <2> QED  BY <1>8, <2>1, <2>3 DEF Release, Released, OwnedPending, Owned
  <1>10. ~CheckLapsed(w)
    <2> SUFFICES ASSUME NEW q \in Oldest(Batch(w)), relay[w].pc = "next", ~StillHeld(w, q)
                 PROVE  FALSE
      BY DEF CheckLapsed
    <2>1. q \in Row /\ relay[w].taken[q] > 0 /\ InLoop(w)
      BY DEF Oldest, Batch, InLoop
    <2>2. LeaseLive(r)
      BY <1>8 DEF LeaseLive
    <2>3. Owned(w, q)
      BY <1>8, <2>1, <2>2 DEF HoldInv, BatchOwnsItsRows
    <2> QED
      BY <1>8, <2>1, <2>2, <2>3
      DEF HoldInv, LeasesAgree, Owned, StillHeld, OwnerMatches, LeaseLive
  <1>11. ASSUME NEW q \in Row, InLoop(w), relay'[w] = Without(w, q),
                outbox'[q].claim_owner # relay[w].owner
         PROVE  FALSE
    <2>1. relay'[w].pc = "idle"
      BY <1>11, LocalsFacts
    <2>2. r # q
      BY <1>11
    <2>3. relay[w].taken[r] = 0
      <3>1. \A p \in Row \ {q} : relay[w].taken[p] = 0
        <4>1. Without(w, q).pc = "idle"
          BY <1>11, <2>1
        <4> QED  BY <4>1, NextLocals
      <3> QED  BY <2>2, <3>1
    <2> QED  BY <1>8, <1>11, <2>3 DEF HoldInv, BatchKnowsItsRows
  <1>12. ~ParkPoison(w) /\ ~MarkPublished(w)
    <2>1. CASE ParkPoison(w)
      <3>1. PICK q \in Row : /\ outbox' = Failed(q, relay[w].owner)
                             /\ relay'[w] = Without(w, q)
        BY <2>1 DEF ParkPoison, Oldest, Batch, TypeOK
      <3>2. outbox'[q].claim_owner # relay[w].owner
        BY <3>1, StatementNames
      <3> QED  BY <1>11, <2>1, <3>1, <3>2 DEF ParkPoison, InLoop
    <2>2. CASE MarkPublished(w)
      <3>1. /\ relay[w].cur \in Row
            /\ outbox' = Published(relay[w].cur, relay[w].owner)
            /\ relay'[w] = Without(w, relay[w].cur)
        BY <2>2 DEF MarkPublished, TypeOK, DrainInv, BatchesAreSound, BatchIsSound
      <3>2. outbox'[relay[w].cur].claim_owner # relay[w].owner
        BY <3>1, StatementNames
      <3> QED  BY <1>11, <2>2, <3>1, <3>2 DEF MarkPublished, InLoop
    <2> QED  BY <2>1, <2>2
  <1>13. CASE CheckHeld(w) \/ PublishOk(w) \/ PublishErr(w) \/ RecordFailure(w) \/ Receive(w)
    <2>1. relay'[w].owner = relay[w].owner
      BY <1>13, LocalsFacts
      DEF CheckHeld, PublishOk, PublishErr, RecordFailure, Receive, TypeOK, RelayState
    <2> QED  BY <2>1
  <1> QED  BY <1>6, <1>7, <1>9, <1>10, <1>12, <1>13

\* A batch that ends on its own, or with the relay's shutdown, leaves no live
\* lease behind, in any state: its rows are marked, rescheduled, parked or
\* released, or their lease has lapsed (drain_claimed, release_outbox_claims,
\* run_until).
THEOREM NoLeaseIsStranded == Spec => NoStrandedLease
  <1>1. ASSUME TypeOK, TypeOK', DrainInv, HoldInv, [Next]_vars
        PROVE  [\A w \in Relay, r \in Row :
                  /\ relay[w].owner # NoOwner
                  /\ relay'[w].owner = NoOwner
                  /\ faults' = faults \/ Shutdown(w)
                  => ~(outbox'[r].claim_owner = relay[w].owner /\ outbox'[r].claim_left > 0)]_vars
    BY <1>1, NoneStrands DEF Strands
  <1> QED
    BY <1>1, TypeInvariant, DrainInvariant, HoldInvariant, PTL DEF Spec, NoStrandedLease

----------------------------------------------------------------------------
(* Counting.                                                               *)

\* Row r is claimed under w's id and its turn has not come.
Waits(w, r) ==
    /\ outbox[r].claim_owner = relay[w].owner
    /\ \/ relay[w].pc = "next"
       \/ InHand(w) /\ relay[w].cur # r
       \/ relay[w].pc \in {"release", "abort"}

\* One step of the counts of a row that is waiting after it: it was staged
\* just now, or attempts gain no less than offers and claims do.
CountStep(r) ==
    \/ offers'[r] = 0 /\ outbox'[r].attempts = 0 /\ Ahead(r)' = 0
    \/ /\ outbox[r].status = "pending"
       /\ offers'[r] + Ahead(r)' + outbox[r].attempts <= offers[r] + Ahead(r) + outbox'[r].attempts
       /\ faults' = 0 =>
            offers'[r] + Ahead(r)' + outbox[r].attempts = offers[r] + Ahead(r) + outbox'[r].attempts

LEMMA AheadIs ==
    ASSUME NEW r \in Row
    PROVE  /\ Ahead(r) = IF \E w \in Relay : Waits(w, r) THEN 1 ELSE 0
           /\ Ahead(r)' = IF \E w \in Relay : Waits(w, r)' THEN 1 ELSE 0
           /\ Ahead(r) \in {0, 1} /\ Ahead(r)' \in {0, 1}
  <1>1. Unoffered(r) <=> \E w \in Relay : Waits(w, r)
    BY DEF Unoffered, Waits, InHand
  <1>2. Unoffered(r)' <=> \E w \in Relay : Waits(w, r)'
    BY DEF Unoffered, Waits, InHand
  <1> QED  BY <1>1, <1>2 DEF Ahead

LEMMA Numbers ==
    ASSUME TypeOK, TypeOK', NEW r \in Row
    PROVE  /\ offers[r] \in Nat /\ offers'[r] \in Nat
           /\ outbox[r].attempts \in Nat /\ outbox'[r].attempts \in Nat
           /\ faults \in Nat /\ faults' \in Nat
           /\ outbox[r] \in RowState /\ outbox'[r] \in RowState
  BY DEF TypeOK, RowState

\* The row and everybody's place in his batch are as before.
LEMMA SameCount ==
    ASSUME TypeOK, TypeOK', NEW r \in Row, outbox'[r].status = "pending",
           outbox'[r].status = outbox[r].status, outbox'[r].attempts = outbox[r].attempts,
           offers'[r] = offers[r], \A w \in Relay : Waits(w, r)' <=> Waits(w, r)
    PROVE  CountStep(r)
  BY AheadIs, Numbers DEF CountStep

\* A batch is gone and its row stays leased.
LEMMA FewerWait ==
    ASSUME TypeOK, TypeOK', NEW r \in Row, outbox'[r].status = "pending",
           outbox'[r] = outbox[r], offers'[r] = offers[r], faults' # 0,
           \A w \in Relay : Waits(w, r)' => Waits(w, r)
    PROVE  CountStep(r)
  BY AheadIs, Numbers DEF CountStep

\* A row nobody has claimed waits for nobody.
LEMMA NobodyWaits ==
    ASSUME DrainInv', NEW r \in Row, outbox'[r].claim_owner = NoOwner
    PROVE  Ahead(r)' = 0
  <1>1. \A w \in Relay : ~Waits(w, r)'
    BY DEF DrainInv, BatchesAreSound, BatchIsSound, Waits, InHand, Working
  <1> QED  BY <1>1, AheadIs

\* Of two relays one at most waits for a row.
LEMMA WaitsAlone ==
    ASSUME DrainInv, HoldInv, NEW r \in Row, NEW v \in Relay, NEW w \in Relay,
           Waits(v, r), Owned(w, r)
    PROVE  v = w
  BY DEF HoldInv, OwnersAreDistinct, Waits, Owned

Counting ==
    /\ TypeOK /\ TypeOK' /\ DrainInv /\ DrainInv' /\ HoldInv /\ HoldInv'
    /\ [Next]_vars /\ NoDbError'

LEMMA EnqueueCounts ==
    ASSUME Counting, NEW q \in Row, Enqueue(q), NEW r \in Row, outbox'[r].status = "pending"
    PROVE  CountStep(r)
  <1> USE DEF Counting
  <1>1. CASE r = q
    <2>1. outbox'[r] = Staged /\ offers'[r] = 0
      BY <1>1 DEF Enqueue, TypeOK
    <2>2. Staged.attempts = 0 /\ Staged.claim_owner = NoOwner
      BY DEF Staged, NoRecord
    <2> QED  BY <2>1, <2>2, NobodyWaits DEF CountStep
  <1>2. CASE r # q
    <2>1. outbox'[r] = outbox[r] /\ offers'[r] = offers[r] /\ relay' = relay
      BY <1>2 DEF Enqueue, TypeOK
    <2> QED  BY <2>1, SameCount DEF Waits, InHand
  <1> QED  BY <1>1, <1>2

LEMMA QuietCounts ==
    ASSUME Counting, NEW r \in Row, outbox'[r].status = "pending",
           \/ UNCHANGED vars \/ Purge \/ Tick \/ SlowTick
           \/ \E q \in Row : ReceiveLate(q) \/ LoseLate(q)
    PROVE  CountStep(r)
  <1> USE DEF Counting
  <1>1. relay' = relay /\ offers' = offers
    BY DEF vars, Purge, Tick, SlowTick, TimePasses, ReceiveLate, LoseLate
  <1>2. /\ outbox'[r].status = outbox[r].status
        /\ outbox'[r].attempts = outbox[r].attempts
        /\ outbox'[r].claim_owner = outbox[r].claim_owner
    <2>1. CASE Tick \/ SlowTick
      BY <2>1, AgedRowFacts, Numbers DEF Tick, SlowTick, TimePasses
    <2>2. CASE Purge
      BY <2>2 DEF Purge, NoRecord
    <2>3. CASE ~(Tick \/ SlowTick \/ Purge)
      BY <2>3 DEF vars, ReceiveLate, LoseLate
    <2> QED  BY <2>1, <2>2, <2>3
  <1> QED
    BY <1>1, <1>2, SameCount DEF Waits, InHand

LEMMA ClaimCounts ==
    ASSUME Counting, NEW w \in Relay, Claim(w), NEW r \in Row, outbox'[r].status = "pending"
    PROVE  CountStep(r)
  <1> USE DEF Counting
  <1>1. PICK S \in Candidates(w), o \in FreshOwners :
            /\ outbox' = LeasedTo(S, o)
            /\ relay' = [relay EXCEPT ![w] = Locals("next", o,
                    [q \in Row |-> IF q \in S THEN outbox[q].attempts + 1 ELSE 0], NoRow)]
    BY DEF Claim
  <1>2. S \in SUBSET Row /\ (\A q \in S : Claimable(q)) /\ o \in Owner
    BY CandidatesFacts DEF FreshOwners
  <1>3. /\ relay[w].pc = "idle" /\ relay'[w].pc = "next" /\ relay'[w].owner = o
        /\ \A v \in Relay : v # w => relay'[v] = relay[v]
        /\ offers' = offers /\ faults' = faults
    BY <1>1, LocalsFacts DEF Claim, TypeOK
  <1>4. outbox[r].claim_owner # o
    BY DEF FreshOwners, OwnersInUse
  <1>5. CASE r \in S
    <2>1. outbox'[r] = ClaimedRow(outbox[r], o)
      BY <1>1, <1>5 DEF LeasedTo
    <2>2. outbox'[r].attempts = outbox[r].attempts + 1 /\ outbox'[r].claim_owner = o
      BY <1>2, <2>1, ClaimedRowFacts, ClaimedRowCounts, Numbers
    <2>3. Ahead(r)' = 1
      BY <1>3, <2>2, AheadIs DEF Waits
    <2>4. outbox[r].status = "pending" /\ ~LeaseLive(r)
      BY <1>2, <1>5 DEF Claimable
    <2>5. faults' = 0 => Ahead(r) = 0
      <3> SUFFICES ASSUME faults' = 0, NEW v \in Relay, Waits(v, r) PROVE FALSE
        BY AheadIs
      <3>1. relay[v].owner # NoOwner
        BY DEF DrainInv, BatchesAreSound, BatchIsSound, Waits, InHand, Working
      <3> QED  BY <1>3, <2>4, <3>1 DEF HoldInv, LeasesCover, NothingSlow, Owned, Waits
    <2> QED  BY <1>3, <2>2, <2>3, <2>4, <2>5, AheadIs, Numbers DEF CountStep
  <1>6. CASE r \notin S
    <2>1. outbox'[r] = outbox[r]
      BY <1>1, <1>6 DEF LeasedTo
    <2>2. \A v \in Relay : Waits(v, r)' <=> Waits(v, r)
      BY <1>3, <1>4, <2>1 DEF Waits, InHand
    <2> QED  BY <1>3, <2>1, <2>2, SameCount
  <1> QED  BY <1>5, <1>6

\* The row and w's place in its batch are as before, and so are all others'.
LEMMA KeepsItsPlace ==
    ASSUME Counting, NEW w \in Relay, NEW r \in Row, outbox'[r].status = "pending",
           outbox'[r] = outbox[r], offers'[r] = offers[r],
           \A v \in Relay : v # w => relay'[v] = relay[v],
           Waits(w, r)' <=> Waits(w, r)
    PROVE  CountStep(r)
  <1>1. ASSUME NEW v \in Relay PROVE Waits(v, r)' <=> Waits(v, r)
    BY <1>1 DEF Waits, InHand
  <1> QED  BY <1>1, SameCount DEF Counting

\* The batch is done with q: every row it still owns is still to come.
LEMMA FinishCounts ==
    ASSUME Counting, NEW w \in Relay, NEW q \in Row, InLoop(w),
           relay[w].pc = "next" \/ relay[w].cur = q,
           relay' = [relay EXCEPT ![w] = Without(w, q)], offers' = offers,
           outbox' \in {Published(q, relay[w].owner), Failed(q, relay[w].owner)},
           NEW r \in Row, outbox'[r].status = "pending"
    PROVE  CountStep(r)
  <1> USE DEF Counting
  <1>1. relay'[w] = Without(w, q) /\ \A v \in Relay : v # w => relay'[v] = relay[v]
    BY DEF TypeOK
  <1>2. relay[w].owner # NoOwner
    BY DEF DrainInv, BatchesAreSound, BatchIsSound, InLoop, Working
  <1>3. /\ \A p \in Row \ {q} : outbox'[p] = outbox[p]
        /\ outbox'[q].claim_owner # relay[w].owner
    BY <1>2, StatementNames
  <1>4. /\ relay'[w].pc \in {"next", "idle"}
        /\ relay'[w].pc = "next" => relay'[w].owner = relay[w].owner
    BY <1>1, LocalsFacts
  <1>5. CASE r = q
    <2>1. outbox'[q] = outbox[q]
      BY <1>5, PublishedRowFacts, FailedRowFacts, Numbers
      DEF Published, Failed, IfOwned, OwnerMatches, TypeOK
    <2> QED  BY <1>1, <1>3, <1>4, <1>5, <2>1, KeepsItsPlace DEF Waits, InHand
  <1>6. CASE r # q
    <2>1. relay'[w].pc = "idle" => ~Owned(w, r)
      BY <1>1, <1>6, NextLocals DEF HoldInv, BatchKnowsItsRows
    <2>2. Waits(w, r) <=> Owned(w, r)
      BY <1>2, <1>6 DEF Waits, Owned, InLoop, InHand
    <2>3. Waits(w, r)' <=> Owned(w, r)
      BY <1>2, <1>3, <1>4, <1>6, <2>1 DEF Waits, Owned, InHand
    <2> QED  BY <1>1, <1>3, <1>6, <2>2, <2>3, KeepsItsPlace
  <1> QED  BY <1>5, <1>6

LEMMA SettlingCounts ==
    ASSUME Counting, NEW w \in Relay, ParkPoison(w) \/ MarkPublished(w),
           NEW r \in Row, outbox'[r].status = "pending"
    PROVE  CountStep(r)
  <1> USE DEF Counting
  <1>1. CASE ParkPoison(w)
    <2>1. PICK q \in Row : /\ outbox' = Failed(q, relay[w].owner)
                           /\ relay' = [relay EXCEPT ![w] = Without(w, q)]
      BY <1>1 DEF ParkPoison, Oldest, Batch
    <2> QED  BY <1>1, <2>1, FinishCounts DEF ParkPoison, InLoop
  <1>2. CASE MarkPublished(w)
    <2>1. relay[w].cur \in Row
      BY <1>2 DEF MarkPublished, DrainInv, BatchesAreSound, BatchIsSound
    <2> QED  BY <1>2, <2>1, FinishCounts DEF MarkPublished, InLoop
  <1> QED  BY <1>1, <1>2

\* The record goes to the broker: it is no longer ahead of its offers.
LEMMA CheckHeldCounts ==
    ASSUME Counting, NEW w \in Relay, CheckHeld(w), NEW r \in Row, outbox'[r].status = "pending"
    PROVE  CountStep(r)
  <1> USE DEF Counting
  <1>1. PICK q \in Row : /\ StillHeld(w, q)
                         /\ relay' = [relay EXCEPT ![w] = Handling(w, "publish", q)]
                         /\ offers' = [offers EXCEPT ![q] = @ + 1]
    BY DEF CheckHeld, Oldest, Batch
  <1>2. /\ relay[w].pc = "next" /\ outbox' = outbox /\ faults' = faults
        /\ relay'[w].pc = "publish" /\ relay'[w].cur = q /\ relay'[w].owner = relay[w].owner
        /\ \A v \in Relay : v # w => relay'[v] = relay[v]
    BY <1>1, LocalsFacts DEF CheckHeld, TypeOK
  <1>3. CASE r = q
    <2>1. Owned(w, r) /\ Waits(w, r)
      BY <1>1, <1>2, <1>3
      DEF StillHeld, OwnerMatches, Owned, Waits, DrainInv, BatchesAreSound, BatchIsSound, Working
    <2>2. \A v \in Relay : ~Waits(v, r)'
      BY <1>2, <1>3, <2>1, WaitsAlone DEF Waits, InHand
    <2>3. Ahead(r) = 1 /\ Ahead(r)' = 0
      BY <2>1, <2>2, AheadIs
    <2>4. offers'[r] = offers[r] + 1
      BY <1>1, <1>3 DEF TypeOK
    <2> QED  BY <1>2, <2>3, <2>4, Numbers DEF CountStep
  <1>4. CASE r # q
    <2>1. offers'[r] = offers[r]
      BY <1>1, <1>4 DEF TypeOK
    <2> QED  BY <1>2, <1>4, <2>1, KeepsItsPlace DEF Waits, InHand
  <1> QED  BY <1>3, <1>4

\* The publish goes its way.
LEMMA PublishCounts ==
    ASSUME Counting, NEW w \in Relay, PublishOk(w) \/ PublishErr(w) \/ Receive(w),
           NEW r \in Row, outbox'[r].status = "pending"
    PROVE  CountStep(r)
  <1> USE DEF Counting
  <1>1. /\ outbox' = outbox /\ offers' = offers /\ relay[w].pc = "publish"
        /\ \A v \in Relay : v # w => relay'[v] = relay[v]
    BY DEF PublishOk, PublishErr, Receive, TypeOK
  <1>2. /\ relay'[w].pc \in {"publish", "mark", "fail"}
        /\ relay'[w].owner = relay[w].owner /\ relay'[w].cur = relay[w].cur
    <2>1. CASE Receive(w)
      <3>1. relay[w] \in RelayState /\ relay'[w] = [relay[w] EXCEPT !.acked = TRUE]
        BY <2>1 DEF Receive, TypeOK
      <3> QED  BY <1>1, <3>1, AnsweredFacts
    <2>2. CASE PublishOk(w) \/ PublishErr(w)
      <3>1. \E label \in {"mark", "fail"} : relay'[w] = Handling(w, label, relay[w].cur)
        BY <2>2 DEF PublishOk, PublishErr, TypeOK
      <3> QED  BY <3>1, LocalsFacts
    <2> QED  BY <2>1, <2>2
  <1> QED  BY <1>1, <1>2, KeepsItsPlace DEF Waits, InHand

\* A batch that finds its lease lapsed has met a failure, and leaves its rows
\* one attempt ahead.
LEMMA CheckLapsedCounts ==
    ASSUME Counting, NEW w \in Relay, CheckLapsed(w), NEW r \in Row, outbox'[r].status = "pending"
    PROVE  CountStep(r)
  <1> USE DEF Counting
  <1>1. /\ outbox' = outbox /\ offers' = offers /\ faults' = faults
        /\ relay'[w] = AtRest("idle") /\ \A v \in Relay : v # w => relay'[v] = relay[v]
    BY DEF CheckLapsed, TypeOK
  <1>2. ASSUME NEW v \in Relay, Waits(v, r)' PROVE Waits(v, r)
    BY <1>1, <1>2, LocalsFacts DEF Waits, InHand
  <1>3. faults' # 0
    <2>1. PICK q \in Row : relay[w].taken[q] > 0 /\ ~StillHeld(w, q)
      BY DEF CheckLapsed, Oldest, Batch
    <2>2. ~Owned(w, q) \/ ~LeaseLive(q)
      BY <2>1 DEF StillHeld, OwnerMatches, Owned
    <2>3. ~NothingSlow
      BY <2>1, <2>2 DEF CheckLapsed, InLoop, HoldInv, BatchOwnsItsRows, LeasesCover
    <2> QED  BY <1>1, <2>3 DEF NothingSlow
  <1> QED  BY <1>1, <1>2, <1>3, FewerWait

\* A failed publish keeps its attempt, and the rows behind it wait for the
\* release.
LEMMA RecordFailureCounts ==
    ASSUME Counting, NEW w \in Relay, RecordFailure(w), NEW r \in Row, outbox'[r].status = "pending"
    PROVE  CountStep(r)
  <1> USE DEF Counting
  <1> DEFINE c == relay[w].cur
             o == relay[w].owner
  <1>1. /\ relay[w].pc = "fail" /\ c \in Row /\ o # NoOwner
        /\ offers' = offers /\ faults' = faults
        /\ outbox' \in {Failed(c, o), Rescheduled(c, o)}
    BY DEF RecordFailure, FailureRecorded, DrainInv, BatchesAreSound, BatchIsSound, Working
  <1>2. /\ relay'[w].pc = "release" /\ relay'[w].owner = o
        /\ \A v \in Relay : v # w => relay'[v] = relay[v]
    BY LocalsFacts DEF RecordFailure, TypeOK
  <1>3. (\A p \in Row \ {c} : outbox'[p] = outbox[p]) /\ outbox'[c].claim_owner # o
    BY <1>1, StatementNames
  <1>4. CASE r # c
    BY <1>1, <1>2, <1>3, <1>4, KeepsItsPlace DEF Waits, InHand
  <1>5. CASE r = c /\ ~Owned(w, r)
    <2>1. outbox'[r] = outbox[r]
      BY <1>1, <1>5 DEF Owned, Failed, Rescheduled, IfOwned, OwnerMatches
    <2> QED  BY <1>1, <1>2, <1>3, <1>5, <2>1, KeepsItsPlace DEF Waits, InHand
  <1>6. CASE r = c /\ Owned(w, r)
    <2>1. outbox[r].status = "pending" /\ outbox[r].claim_owner = o
      BY <1>6 DEF Owned, DrainInv, ClaimsAreOfPendingRows
    <2>2. outbox'[r] \in {FailedRow(outbox[r]), RescheduledRow(outbox[r])}
      BY <1>1, <1>6, <2>1 DEF Failed, Rescheduled, IfOwned, OwnerMatches, TypeOK
    <2>3. outbox'[r].attempts = outbox[r].attempts /\ outbox'[r].claim_owner = NoOwner
      BY <2>2, Numbers, FailedRowFacts, RescheduledRowFacts, RescheduledRowCounts
    <2>4. Ahead(r)' = 0
      BY <2>3, NobodyWaits
    <2>5. \A v \in Relay : ~Waits(v, r)
      BY <1>1, <1>6, WaitsAlone DEF Waits, InHand
    <2>6. Ahead(r) = 0
      BY <2>5, AheadIs
    <2> QED  BY <1>1, <2>1, <2>3, <2>4, <2>6, Numbers DEF CountStep
  <1> QED  BY <1>4, <1>5, <1>6

\* The release takes back the attempt of every row the batch still owns; the
\* count is above the offers, so it does not stop at zero.
LEMMA ReleaseCounts ==
    ASSUME Counting, CountedAtLeast, NEW w \in Relay, Release(w),
           NEW r \in Row, outbox'[r].status = "pending"
    PROVE  CountStep(r)
  <1> USE DEF Counting
  <1>1. /\ relay[w].pc \in {"release", "abort"} /\ relay[w].owner # NoOwner
        /\ outbox' = Released(relay[w].owner) /\ offers' = offers /\ faults' = faults
        /\ relay'[w].pc = "idle" /\ \A v \in Relay : v # w => relay'[v] = relay[v]
    BY LocalsFacts DEF Release, TypeOK, DrainInv, BatchesAreSound, BatchIsSound, Working
  <1>2. CASE r \in OwnedPending(relay[w].owner)
    <2>1. /\ outbox[r].status = "pending" /\ outbox[r].claim_owner = relay[w].owner
          /\ outbox'[r] = ReleasedRow(outbox[r])
      BY <1>1, <1>2 DEF OwnedPending, Released
    <2>2. Ahead(r) = 1
      BY <1>1, <2>1, AheadIs DEF Waits
    <2>3. offers[r] + 1 <= outbox[r].attempts
      BY <2>1, <2>2, FaultsGrow DEF CountedAtLeast
    <2>4. outbox'[r].attempts = outbox[r].attempts - 1 /\ outbox'[r].claim_owner = NoOwner
      BY <2>1, <2>3, Numbers, ReleasedRowFacts, ReleasedRowCounts
    <2>5. Ahead(r)' = 0
      BY <2>4, NobodyWaits
    <2> QED  BY <1>1, <2>1, <2>2, <2>4, <2>5, Numbers DEF CountStep
  <1>3. CASE r \notin OwnedPending(relay[w].owner)
    <2>1. outbox'[r] = outbox[r]
      BY <1>1, <1>3 DEF Released
    <2>2. outbox[r].claim_owner # relay[w].owner
      BY <1>3, <2>1 DEF OwnedPending
    <2> QED  BY <1>1, <2>1, <2>2, KeepsItsPlace DEF Waits, InHand
  <1> QED  BY <1>2, <1>3

LEMMA DownCounts ==
    ASSUME Counting, NEW w \in Relay, Restart(w) \/ Shutdown(w) \/ Crash(w),
           NEW r \in Row, outbox'[r].status = "pending"
    PROVE  CountStep(r)
  <1> USE DEF Counting
  <1>1. /\ outbox' = outbox /\ offers' = offers
        /\ relay'[w].pc \in {"idle", "stopped"} /\ \A v \in Relay : v # w => relay'[v] = relay[v]
    BY LocalsFacts DEF Restart, Shutdown, Crash, TypeOK
  <1>2. CASE Restart(w) \/ Shutdown(w)
    <2>1. relay[w].pc \in {"idle", "stopped"}
      BY <1>2 DEF Restart, Shutdown, LooksForShutdown
    <2> QED  BY <1>1, <2>1, KeepsItsPlace DEF Waits, InHand
  <1>3. CASE Crash(w)
    <2>1. faults' # 0
      BY <1>3, Numbers DEF Crash, Fault
    <2> QED  BY <1>1, <2>1, FewerWait DEF Waits, InHand
  <1> QED  BY <1>2, <1>3

LEMMA EveryCountStep ==
    ASSUME Counting, CountedAtLeast, NEW r \in Row, outbox'[r].status = "pending"
    PROVE  CountStep(r)
  <1>1. ASSUME NEW w \in Relay, ClaimReplyLost(w) \/ DbError(w) PROVE FALSE
    BY <1>1 DEF ClaimReplyLost, DbError, Fault, Counting, NoDbError, TypeOK
  <1> QED
    BY <1>1, EnqueueCounts, QuietCounts, ClaimCounts, SettlingCounts, CheckHeldCounts, PublishCounts,
       CheckLapsedCounts, RecordFailureCounts, ReleaseCounts, DownCounts
    DEF Counting, Next, RelayStep

----------------------------------------------------------------------------
(* Dead letters.                                                           *)

\* A row is parked by the park of a poison row or by the failure record of its
\* last attempt.
LEMMA ParkedBy ==
    ASSUME Counting, NEW r \in Row \ Poison,
           outbox'[r].status = "failed", outbox[r].status # "failed"
    PROVE  \E w \in Relay : RecordFailure(w) /\ relay[w].cur = r /\ Exhausted(w) /\ Owned(w, r)
  <1> USE DEF Counting
  <1>1. outbox \in [Row -> RowState] /\ outbox'[r] # outbox[r]
    BY DEF TypeOK
  <1>2. ~(Tick \/ SlowTick \/ Purge \/ \E q \in Row : Enqueue(q) \/ ReceiveLate(q) \/ LoseLate(q))
    <2>1. ~(Tick \/ SlowTick)
      BY AgedRowFacts, Numbers DEF Tick, SlowTick, TimePasses
    <2>2. ~Purge
      BY DEF Purge, NoRecord
    <2>3. ~\E q \in Row : Enqueue(q)
      BY DEF Enqueue, Staged, NoRecord, TypeOK
    <2> QED  BY <1>1, <2>1, <2>2, <2>3 DEF ReceiveLate, LoseLate
  <1>3. PICK w \in Relay : \/ Claim(w) \/ ParkPoison(w) \/ MarkPublished(w)
                           \/ RecordFailure(w) \/ Release(w)
    <2>1. ~\E w \in Relay : ClaimReplyLost(w) \/ DbError(w)
      BY DEF ClaimReplyLost, DbError, Fault, NoDbError, TypeOK
    <2> QED
      BY <1>1, <1>2, <2>1
      DEF Next, RelayStep, vars, CheckHeld, CheckLapsed, PublishOk, PublishErr, Receive, Restart,
          Shutdown, Crash
  <1>4. ~Claim(w)
    <2> SUFFICES ASSUME NEW S \in Candidates(w), NEW o \in FreshOwners, outbox' = LeasedTo(S, o)
                 PROVE  FALSE
      BY DEF Claim
    <2>1. S \in SUBSET Row /\ o \in Owner
      BY CandidatesFacts DEF FreshOwners
    <2>2. LeasedTo(S, o)[r].status = outbox[r].status
      BY <1>1, <2>1, LeasedToFacts
    <2> QED  BY <2>2
  <1>5. ~Release(w)
    <2>1. StatusKept(Released(relay[w].owner))
      BY <1>1, StatusOfStatements
    <2> QED  BY <2>1 DEF Release, StatusKept
  <1>6. ~MarkPublished(w)
    BY <1>1, StatusOfStatements DEF MarkPublished, StatusKeptBut
  <1>7. ~ParkPoison(w)
    <2> SUFFICES ASSUME NEW q \in Row, ~Publishable(q), outbox' = Failed(q, relay[w].owner)
                 PROVE  FALSE
      BY DEF ParkPoison, Oldest, Batch
    <2>1. r # q
      BY DEF Publishable
    <2> QED  BY <1>1, <2>1, StatusOfStatements DEF StatusKeptBut
  <1>8. relay[w].owner # NoOwner /\ RecordFailure(w)
    BY <1>3, <1>4, <1>5, <1>6, <1>7
    DEF RecordFailure, DrainInv, BatchesAreSound, BatchIsSound, Working
  <1>9. Exhausted(w) /\ outbox' = Failed(relay[w].cur, relay[w].owner)
    BY <1>1, <1>8, StatusOfStatements DEF RecordFailure, FailureRecorded, StatusKept
  <1>10. relay[w].cur = r
    BY <1>1, <1>9, StatusOfStatements DEF StatusKeptBut
  <1>11. outbox[r].claim_owner = relay[w].owner
    BY <1>1, <1>9, <1>10, StatusOfStatements
  <1> QED  BY <1>8, <1>9, <1>10, <1>11 DEF Owned

\* Offers of a row that is not staged anew only grow.
LEMMA OffersGrow ==
    ASSUME TypeOK, [Next]_vars, NEW r \in Row, outbox[r].status # "absent"
    PROVE  offers'[r] >= offers[r] /\ offers'[r] \in Nat /\ offers[r] \in Nat
  <1>1. offers[r] \in Nat
    BY DEF TypeOK
  <1>2. offers'[r] \in {offers[r], offers[r] + 1}
    BY DEF TypeOK, Next, RelayStep, Enqueue, ReceiveLate, LoseLate, Purge, Tick, SlowTick,
           TimePasses, Claim, ParkPoison, CheckHeld, CheckLapsed, PublishOk, PublishErr,
           MarkPublished, RecordFailure, Release, Receive, Restart, ClaimReplyLost, DbError,
           Shutdown, Crash, vars
  <1> QED  BY <1>1, <1>2

LEMMA NotParkedEarlyStep ==
    ASSUME Counting, AttemptsCountOffers, NotParkedEarly
    PROVE  NotParkedEarly'
  <1> USE DEF Counting
  <1> SUFFICES ASSUME faults' = 0, NEW r \in Row \ Poison, outbox'[r].status = "failed"
               PROVE  offers'[r] >= MaxAttempts
    BY DEF NotParkedEarly
  <1>1. faults = 0
    BY FaultsGrow
  <1>2. CASE outbox[r].status = "failed"
    BY <1>1, <1>2, OffersGrow DEF NotParkedEarly
  <1>3. CASE outbox[r].status # "failed"
    <2>1. PICK w \in Relay : RecordFailure(w) /\ relay[w].cur = r /\ Exhausted(w) /\ Owned(w, r)
      BY <1>3, ParkedBy
    <2>2. relay[w].pc = "fail" /\ offers' = offers
      BY <2>1 DEF RecordFailure
    <2>3. outbox[r].attempts >= MaxAttempts
      BY <2>1, <2>2 DEF Exhausted, HoldInv, BatchKnowsItsRows, InLoop
    <2>4. outbox[r].status = "pending"
      BY <2>1 DEF Owned, DrainInv, ClaimsAreOfPendingRows
    <2>5. Ahead(r) = 0
      <3>1. \A v \in Relay : ~Waits(v, r)
        BY <2>1, <2>2, WaitsAlone DEF Waits, InHand
      <3> QED  BY <3>1, AheadIs
    <2>6. outbox[r].attempts = offers[r] + Ahead(r)
      BY <1>1, <2>4 DEF AttemptsCountOffers, Ahead
    <2> QED  BY <2>2, <2>3, <2>5, <2>6, Numbers
  <1> QED  BY <1>2, <1>3

----------------------------------------------------------------------------
(* The counts, in every reachable state.                                   *)

LEMMA CountedStep ==
    ASSUME Counting, CountedAtLeast, AttemptsCountOffers
    PROVE  CountedAtLeast' /\ AttemptsCountOffers'
  <1> USE DEF Counting
  <1>1. \A r \in Row : outbox[r].status = "pending" => offers[r] + Ahead(r) <= outbox[r].attempts
    BY FaultsGrow DEF CountedAtLeast
  <1>2. faults' = 0 => \A r \in Row : outbox[r].status = "pending" =>
                                        outbox[r].attempts = offers[r] + Ahead(r)
    BY FaultsGrow DEF AttemptsCountOffers, Ahead
  <1>3. ASSUME NEW r \in Row, outbox'[r].status = "pending"
        PROVE  /\ offers'[r] + Ahead(r)' <= outbox'[r].attempts
               /\ faults' = 0 => outbox'[r].attempts = offers'[r] + Ahead(r)'
    <2>1. CountStep(r)
      BY <1>3, EveryCountStep
    <2> QED  BY <1>1, <1>2, <2>1, AheadIs, Numbers DEF CountStep
  <1>4. CountedAtLeast'
    BY <1>3 DEF CountedAtLeast
  <1>5. AttemptsCountOffers'
    BY <1>3 DEF AttemptsCountOffers, Ahead
  <1> QED  BY <1>4, <1>5

\* After a failed statement nothing is claimed of the counts.
LEMMA CountStepHolds ==
    ASSUME TypeOK, TypeOK', DrainInv, DrainInv', HoldInv', CountInv, [Next]_vars
    PROVE  CountInv'
  <1>1. CASE NoDbError'
    <2>1. Counting
      BY <1>1 DEF Counting, CountInv
    <2> QED  BY <2>1, CountedStep, NotParkedEarlyStep DEF CountInv
  <1>2. CASE ~NoDbError'
    BY <1>2 DEF CountInv, CountedAtLeast, NoDbError, AttemptsCountOffers, NotParkedEarly
  <1> QED  BY <1>1, <1>2

LEMMA CountInit == ASSUME Init PROVE CountInv
  <1>1. \A w \in Relay : relay[w].pc = "idle"
    BY LocalsFacts DEF Init, AtRest
  <1>2. \A r \in Row : /\ Ahead(r) = 0 /\ offers[r] = 0 /\ outbox[r].attempts = 0
                       /\ outbox[r].status # "failed"
    BY <1>1 DEF Init, Staged, NoRecord, Ahead, Unoffered
  <1> QED
    BY <1>2, HoldInit
    DEF CountInv, CountedAtLeast, AttemptsCountOffers, NotParkedEarly, Ahead

\* The counts behind the next three theorems, in every reachable state.
THEOREM CountInvariant == Spec => []CountInv
  <1>1. Init => CountInv
    BY CountInit
  <1>2. TypeOK /\ TypeOK' /\ DrainInv /\ DrainInv' /\ HoldInv' /\ CountInv /\ [Next]_vars => CountInv'
    BY CountStepHolds
  <1> QED  BY <1>1, <1>2, TypeInvariant, DrainInvariant, HoldInvariant, PTL DEF Spec

\* As long as no statement fails every offer of a row is counted in its
\* attempts, through crashes and batches that outlive their lease.
THEOREM OffersAreCounted == "db" \notin Faults => (Spec => []OffersCounted)
  <1>1. ASSUME "db" \notin Faults, TypeOK, CountInv PROVE OffersCounted
    <2> SUFFICES ASSUME NEW r \in Row, outbox[r].status = "pending"
                 PROVE  offers[r] <= outbox[r].attempts
      BY DEF OffersCounted
    <2>1. offers[r] + Ahead(r) <= outbox[r].attempts
      BY <1>1 DEF CountInv, CountedAtLeast, NoDbError
    <2> QED  BY <1>1, <2>1 DEF Ahead, TypeOK, RowState
  <1> SUFFICES ASSUME "db" \notin Faults PROVE Spec => []OffersCounted
    OBVIOUS
  <1>2. TypeOK /\ CountInv => OffersCounted
    BY <1>1
  <1> QED  BY <1>2, TypeInvariant, CountInvariant, PTL

\* While nothing fails but publishing, the attempt count of a waiting row is
\* the number of its offers, plus one while a claim's turn for it has not come
\* (the claim's increment and release_outbox_claims).
THEOREM AttemptsAreOffers == Spec => []AttemptsCountOffers
  BY CountInvariant, PTL DEF CountInv

\* While nothing fails but publishing, a row is dead-lettered only after
\* MaxAttempts real offers (record_failure).
THEOREM ParkedAfterAllAttempts == Spec => []NotParkedEarly
  BY CountInvariant, PTL DEF CountInv

----------------------------------------------------------------------------
(* How long a stored message may still be published again.                 *)

\* Nothing holds a copy up: a batch takes no time on the scale of a tick, no
\* copy arrives after its publisher gave up on it, and no row is deleted.
NothingLags == PromptBatches /\ "slow" \notin Faults /\ MaxLate = 0 /\ ~RetentionOn

\* wait[a] bounds the backoffs that are left to a row with a attempts.
BackoffsFit(wait) ==
    /\ wait \in [Nat -> Nat]
    /\ \A a \in Nat : wait[a + 1] <= wait[a]
    /\ \A a \in Nat \ {0} : wait[a] <= wait[1]
    /\ \A a \in Nat \ {0} : a < MaxAttempts => Backoff(a) + wait[a + 1] <= wait[a]

\* The broker remembers a message through every backoff of its row and
\* through a lapsing lease for every failure.
WindowCovers(wait) == wait[1] + MaxFaults * ClaimTTL < DupWindow

\* What the failures still to come can cost.
Budget(n) == (MaxFaults - n) * ClaimTTL

Held(r) == \E w \in Relay : Owned(w, r)

TimeLeft(wait, r) ==
    outbox[r].available_in + Budget(faults)
        + (IF Held(r) THEN wait[outbox[r].attempts]
                      ELSE outbox[r].claim_left + wait[outbox[r].attempts + 1])

HeldIsDue == \A r \in Row : Held(r) => outbox[r].available_in = 0
Remembered(wait) ==
    \A r \in Row : stored[r] > 0 /\ outbox[r].status = "pending" => TimeLeft(wait, r) < dedup_left[r]

RepublishInv(wait) == HeldIsDue /\ Remembered(wait) /\ StoredOnce

\* A step from a state in which all this holds.
Republishing(wait) ==
    /\ TypeOK /\ TypeOK' /\ DrainInv /\ DrainInv' /\ HoldInv /\ HoldInv' /\ StoredIsKept
    /\ [Next]_vars /\ NothingLags /\ BackoffsFit(wait) /\ WindowCovers(wait) /\ RepublishInv(wait)

----------------------------------------------------------------------------
(* The statements' effect on when a row is due.                            *)

LEMMA BudgetFacts ==
    ASSUME NEW n \in 0..MaxFaults
    PROVE  /\ Budget(n) \in Nat
           /\ Budget(n) <= MaxFaults * ClaimTTL
           /\ n + 1 <= MaxFaults => Budget(n + 1) + ClaimTTL = Budget(n)
  <1>1. MaxFaults \in Nat /\ ClaimTTL \in Nat /\ n \in Nat /\ n <= MaxFaults
    OBVIOUS
  <1>2. ASSUME NEW m \in Nat, NEW k \in Nat, NEW t \in Nat, k <= m
        PROVE  (m - k) * t \in Nat /\ (m - k) * t <= m * t
    <2>1. PICK j \in Nat : j = m - k
      BY <1>2
    <2>2. j * t \in Nat /\ k * t \in Nat /\ m * t = j * t + k * t
      BY <2>1
    <2> QED  BY <2>1, <2>2
  <1>3. ASSUME NEW m \in Nat, NEW k \in Nat, NEW t \in Nat
        PROVE  (m - (k + 1)) * t + t = (m - k) * t
    OBVIOUS
  <1> QED  BY <1>1, <1>2, <1>3 DEF Budget

LEMMA ClaimedRowDue ==
    ASSUME NEW row \in RowState, NEW o \in Owner
    PROVE  ClaimedRow(row, o).available_in = row.available_in
  <1> DEFINE counted == [row EXCEPT !.attempts = @ + 1]
             owned == [counted EXCEPT !.claim_owner = o]
  <1>1. counted \in RowState /\ counted.available_in = row.available_in
    BY DEF RowState
  <1> HIDE DEF counted
  <1>2. owned \in RowState /\ owned.available_in = row.available_in
    BY <1>1 DEF RowState
  <1>3. ClaimedRow(row, o) = [owned EXCEPT !.claim_left = ClaimTTL]
    BY DEF ClaimedRow, counted
  <1> HIDE DEF owned
  <1> QED  BY <1>2, <1>3 DEF RowState

LEMMA RescheduledRowDue ==
    ASSUME NEW row \in RowState
    PROVE  RescheduledRow(row).available_in = Backoff(row.attempts)
  BY UnclaimedRowFacts DEF RescheduledRow, RowState

LEMMA ReleasedRowDue ==
    ASSUME NEW row \in RowState
    PROVE  /\ ReleasedRow(row).available_in = row.available_in
           /\ ReleasedRow(row).attempts = AtLeast(row.attempts, 1) - 1
  <1> DEFINE disowned == [row EXCEPT !.claim_owner = NoOwner]
  <1>1. disowned \in RowState /\ disowned.available_in = row.available_in
    BY DEF RowState
  <1>2. Unclaimed(row) = [disowned EXCEPT !.claim_left = 0]
    BY DEF Unclaimed
  <1> HIDE DEF disowned
  <1>3. Unclaimed(row).available_in = row.available_in
    BY <1>1, <1>2 DEF RowState
  <1>4. Unclaimed(row) \in RowState /\ Unclaimed(row).attempts = row.attempts
    BY UnclaimedRowFacts
  <1> QED  BY <1>3, <1>4 DEF ReleasedRow, RowState

LEMMA AgedRowDue ==
    ASSUME NEW row \in RowState
    PROVE  AgedRow(row).available_in = Earlier(row.available_in)
  BY DEF AgedRow, RowState

LEMMA RowNumbers ==
    ASSUME TypeOK, NEW r \in Row
    PROVE  /\ outbox[r] \in RowState
           /\ outbox[r].available_in \in Nat /\ outbox[r].claim_left \in Nat
           /\ outbox[r].claim_left <= ClaimTTL
           /\ outbox[r].attempts \in Nat /\ outbox[r].attempts + 1 \in Nat
           /\ stored[r] \in Nat /\ dedup_left[r] \in Nat
           /\ faults \in 0..MaxFaults /\ Budget(faults) \in Nat
  BY BudgetFacts DEF TypeOK, RowState

----------------------------------------------------------------------------
(* How each kind of step changes the time left.                            *)

LEMMA FaultSpent ==
    ASSUME TypeOK, [Next]_vars
    PROVE  faults' = faults \/ faults' = faults + 1
  BY DEF Next, RelayStep, Enqueue, ReceiveLate, LoseLate, Purge, Tick, SlowTick,
         Claim, ParkPoison, CheckHeld, CheckLapsed, PublishOk, PublishErr, MarkPublished,
         RecordFailure, Release, Receive, Restart, ClaimReplyLost, DbError, Shutdown,
         Crash, vars, Fault, TypeOK

LEMMA BudgetSpent ==
    ASSUME TypeOK, TypeOK', [Next]_vars
    PROVE  Budget(faults)' <= Budget(faults)
  <1>1. CASE faults' = faults
    BY <1>1, BudgetFacts DEF TypeOK
  <1>2. CASE faults' = faults + 1
    <2>1. Budget(faults)' + ClaimTTL = Budget(faults) /\ Budget(faults)' \in Nat
      BY <1>2, BudgetFacts DEF TypeOK
    <2> QED  BY <2>1
  <1> QED  BY <1>1, <1>2, FaultSpent

LEMMA TimeLeftType ==
    ASSUME NEW CONSTANT wait, Republishing(wait), NEW r \in Row
    PROVE  TimeLeft(wait, r) \in Nat /\ TimeLeft(wait, r)' \in Nat
  <1>1. ASSUME NEW n \in Nat PROVE wait[n] \in Nat /\ wait[n + 1] \in Nat
    BY DEF Republishing, BackoffsFit
  <1>2. /\ outbox[r].available_in \in Nat /\ outbox[r].claim_left \in Nat
        /\ outbox[r].attempts \in Nat /\ Budget(faults) \in Nat
    BY RowNumbers DEF Republishing
  <1>3. /\ outbox'[r].available_in \in Nat /\ outbox'[r].claim_left \in Nat
        /\ outbox'[r].attempts \in Nat /\ Budget(faults)' \in Nat
    BY BudgetFacts DEF Republishing, TypeOK, RowState
  <1> QED  BY <1>1, <1>2, <1>3 DEF TimeLeft

\* A row whose columns, and whether it is held, are as before.
LEMMA SameTimeLeft ==
    ASSUME NEW CONSTANT wait, Republishing(wait), NEW r \in Row,
           outbox'[r] = outbox[r], Held(r)' <=> Held(r)
    PROVE  TimeLeft(wait, r)' <= TimeLeft(wait, r)
  <1>1. Budget(faults)' <= Budget(faults)
    BY BudgetSpent DEF Republishing
  <1>2. /\ wait[outbox[r].attempts] \in Nat /\ wait[outbox[r].attempts + 1] \in Nat
        /\ Budget(faults) \in Nat /\ Budget(faults)' \in Nat
        /\ outbox[r].available_in \in Nat /\ outbox[r].claim_left \in Nat
    BY RowNumbers, BudgetFacts DEF Republishing, BackoffsFit, TypeOK
  <1> QED  BY <1>1, <1>2 DEF TimeLeft

\* A claim: the row is due and nobody's, and the claim is the next attempt; if
\* its reply is lost the row waits for the lease, and a failure is spent.
LEMMA ClaimTimeLeft ==
    ASSUME NEW CONSTANT wait, Republishing(wait), NEW w \in Relay, Claim(w) \/ ClaimReplyLost(w),
           NEW r \in Row
    PROVE  /\ TimeLeft(wait, r)' <= TimeLeft(wait, r)
           /\ Held(r)' => outbox'[r].available_in = 0
  <1> USE DEF Republishing
  <1>1. PICK S \in Candidates(w), o \in FreshOwners : Claims(w, S, o)
    BY CandidatesFacts DEF Claim, ClaimReplyLost, Claims
  <1>2. /\ o \in Owner /\ o # NoOwner /\ relay[w].owner = NoOwner
        /\ \A q \in Row : outbox[q].claim_owner # o
        /\ \A v \in Relay : relay[v].owner # o
    BY DEF FreshOwners, OwnersInUse, Claim, ClaimReplyLost, HoldInv, RestIsIdle, Working
  <1>3. \A v \in Relay : v # w => relay'[v] = relay[v]
    BY <1>1 DEF Claims, TypeOK
  <1>4. relay'[w].owner \in {NoOwner, o}
    BY <1>1, <1>2, LocalsFacts DEF Claims, TypeOK
  <1>5. CASE r \notin S
    <2>1. outbox'[r] = outbox[r]
      BY <1>1, <1>5 DEF Claims, LeasedTo
    <2>2. Held(r)' <=> Held(r)
      BY <1>2, <1>3, <1>4, <2>1 DEF Held, Owned
    <2> QED  BY <2>1, <2>2, SameTimeLeft DEF RepublishInv, HeldIsDue
  <1>6. CASE r \in S
    <2>1. outbox[r].available_in = 0 /\ outbox[r].claim_left = 0
      BY <1>1, <1>6, RowNumbers DEF Claims, Claimable, LeaseLive
    <2>2. outbox'[r] = ClaimedRow(outbox[r], o) /\ outbox[r] \in RowState
      BY <1>1, <1>6, RowNumbers DEF Claims, LeasedTo
    <2>3. /\ outbox'[r].available_in = 0 /\ outbox'[r].claim_left = ClaimTTL
          /\ outbox'[r].attempts = outbox[r].attempts + 1 /\ outbox'[r].claim_owner = o
      BY <1>2, <2>1, <2>2, ClaimedRowDue, ClaimedRowCounts, ClaimedRowFacts
    <2>4. ~Held(r)
      BY <2>1 DEF Held, HoldInv, LeasesCover, NothingSlow, NothingLags, LeaseLive
    <2>5. PICK a \in Nat : a = outbox[r].attempts /\ a + 1 \in Nat /\ (a + 1) + 1 \in Nat
      BY RowNumbers
    <2>6. /\ wait[a + 1] \in Nat /\ wait[(a + 1) + 1] \in Nat
          /\ wait[(a + 1) + 1] <= wait[a + 1]
          /\ Budget(faults) \in Nat /\ Budget(faults)' \in Nat
      BY <2>5, RowNumbers, BudgetFacts DEF BackoffsFit, TypeOK
    <2>7. TimeLeft(wait, r) = Budget(faults) + wait[a + 1]
      BY <2>1, <2>4, <2>5, <2>6 DEF TimeLeft
    <2>8. CASE Claim(w)
      <3>1. relay'[w].owner = o /\ faults' = faults
        BY <1>1, <1>2, <1>3, <2>8, LocalsFacts DEF Claim, Claims, TypeOK
      <3>2. TimeLeft(wait, r)' = Budget(faults) + wait[a + 1]
        BY <1>2, <2>3, <2>5, <2>6, <3>1 DEF TimeLeft, Held, Owned
      <3> QED  BY <2>3, <2>6, <2>7, <3>2
    <2>9. CASE ClaimReplyLost(w)
      <3>1. relay' = relay /\ faults' = faults + 1
        BY <2>9 DEF ClaimReplyLost, Fault
      <3>2. ~Held(r)'
        BY <1>2, <2>3, <3>1 DEF Held, Owned
      <3>3. Budget(faults)' + ClaimTTL = Budget(faults)
        BY <3>1, BudgetFacts DEF TypeOK
      <3>4. TimeLeft(wait, r)' = Budget(faults)' + (ClaimTTL + wait[(a + 1) + 1])
        BY <2>3, <2>5, <2>6, <3>2 DEF TimeLeft
      <3> QED  BY <2>3, <2>6, <2>7, <3>3, <3>4
    <2> QED  BY <2>8, <2>9
  <1> QED  BY <1>5, <1>6

\* A relay hands a row back only for another try: after a backoff, or at once
\* and with its attempt undone.
LEMMA HandedBack ==
    ASSUME NEW CONSTANT wait, Republishing(wait), NEW w \in Relay,
           \/ ParkPoison(w) \/ CheckHeld(w) \/ CheckLapsed(w) \/ PublishOk(w) \/ PublishErr(w)
           \/ MarkPublished(w) \/ RecordFailure(w) \/ Release(w) \/ Receive(w) \/ Restart(w)
           \/ DbError(w) \/ Shutdown(w) \/ Crash(w),
           NEW r \in Row, outbox'[r] # outbox[r], outbox'[r].status = "pending"
    PROVE  \/ outbox'[r] = ReleasedRow(outbox[r])
           \/ /\ outbox'[r] = RescheduledRow(outbox[r])
              /\ outbox[r].attempts \in Nat \ {0} /\ outbox[r].attempts < MaxAttempts
  <1> USE DEF Republishing
  <1>1. outbox \in [Row -> RowState] /\ outbox[r] \in RowState
    BY DEF TypeOK
  <1>2. ASSUME NEW q, NEW o, outbox' = Failed(q, o) \/ outbox' = Published(q, o) PROVE FALSE
    BY <1>1, <1>2, FailedRowFacts, PublishedRowFacts DEF Failed, Published, IfOwned
  <1>3. ASSUME NEW o, outbox' = Released(o) PROVE outbox'[r] = ReleasedRow(outbox[r])
    BY <1>1, <1>3 DEF Released
  <1>4. ASSUME relay[w].pc = "fail", outbox' = FailureRecorded(w)
        PROVE  /\ outbox'[r] = RescheduledRow(outbox[r])
               /\ outbox[r].attempts \in Nat \ {0} /\ outbox[r].attempts < MaxAttempts
    <2>1. ~Exhausted(w) /\ outbox' = Rescheduled(relay[w].cur, relay[w].owner)
      BY <1>2, <1>4 DEF FailureRecorded
    <2>2. /\ r = relay[w].cur /\ outbox[r].claim_owner = relay[w].owner
          /\ outbox'[r] = RescheduledRow(outbox[r])
      BY <1>1, <2>1 DEF Rescheduled, IfOwned, OwnerMatches
    <2>3. Owned(w, r) /\ InLoop(w)
      BY <1>4, <2>2 DEF Owned, InLoop, DrainInv, BatchesAreSound, BatchIsSound, Working
    <2>4. relay[w].taken[r] > 0 /\ relay[w].taken[r] = outbox[r].attempts
      BY <2>3 DEF HoldInv, BatchKnowsItsRows
    <2> QED  BY <2>1, <2>2, <2>4, RowNumbers DEF Exhausted
  <1> QED
    BY <1>2, <1>3, <1>4
    DEF ParkPoison, CheckHeld, CheckLapsed, PublishOk, PublishErr, MarkPublished, RecordFailure,
        Release, Receive, Restart, DbError, Shutdown, Crash

\* A relay's step: it hands rows back within the time they have, and what it
\* drops without a word lapses at the cost of a failure.
LEMMA MoveTimeLeft ==
    ASSUME NEW CONSTANT wait, Republishing(wait), NEW w \in Relay,
           \/ ParkPoison(w) \/ CheckHeld(w) \/ CheckLapsed(w) \/ PublishOk(w) \/ PublishErr(w)
           \/ MarkPublished(w) \/ RecordFailure(w) \/ Release(w) \/ Receive(w) \/ Restart(w)
           \/ DbError(w) \/ Shutdown(w) \/ Crash(w),
           NEW r \in Row
    PROVE  /\ outbox'[r].status = "pending" => TimeLeft(wait, r)' <= TimeLeft(wait, r)
           /\ Held(r)' => outbox'[r].available_in = 0
  <1> USE DEF Republishing
  <1>1. Moves(w)
    BY RelayStepMoves
  <1>2. PICK a \in Nat : a = outbox[r].attempts /\ a + 1 \in Nat
    BY RowNumbers
  <1>3. /\ wait[a] \in Nat /\ wait[a + 1] \in Nat /\ wait[a + 1] <= wait[a]
        /\ Budget(faults) \in Nat /\ Budget(faults)' \in Nat
    BY <1>2, RowNumbers, BudgetFacts DEF BackoffsFit, TypeOK
  <1>4. CASE outbox'[r] = outbox[r]
    <2>1. Held(r)' => Held(r)
      BY <1>1, <1>4 DEF Moves, Held, Owned
    <2>2. CASE Held(r)' <=> Held(r)
      BY <1>4, <2>2, SameTimeLeft DEF RepublishInv, HeldIsDue
    <2>3. CASE Held(r) /\ ~Held(r)'
      <3>1. PICK v \in Relay : Owned(v, r)
        BY <2>3 DEF Held
      <3>2. v = w /\ relay'[w].owner = NoOwner
        BY <1>1, <1>4, <2>3, <3>1 DEF Moves, Held, Owned
      <3>3. outbox'[r].claim_left > 0
        BY <1>4, <3>1 DEF HoldInv, LeasesCover, NothingSlow, NothingLags, LeaseLive
      <3>4. faults' # faults
        <4>1. Next
          BY <3>1, <3>2 DEF Owned, vars
        <4>2. ~Strands(w, r)
          BY <4>1, NoneStrands
        <4> QED  BY <1>4, <3>1, <3>2, <3>3, <4>2 DEF Strands, Owned
      <3>5. Budget(faults)' + ClaimTTL = Budget(faults)
        BY <3>4, FaultSpent, BudgetFacts DEF TypeOK
      <3>6. TimeLeft(wait, r) = outbox[r].available_in + Budget(faults) + wait[a]
        BY <1>2, <2>3 DEF TimeLeft
      <3>7. TimeLeft(wait, r)'
                = outbox[r].available_in + Budget(faults)' + (outbox[r].claim_left + wait[a + 1])
        BY <1>2, <1>4, <2>3 DEF TimeLeft
      <3> QED  BY <1>3, <2>3, <3>5, <3>6, <3>7, RowNumbers
    <2> QED  BY <2>1, <2>2, <2>3
  <1>5. CASE outbox'[r] # outbox[r]
    <2>1. /\ Working(w) /\ outbox[r].claim_owner = relay[w].owner
          /\ outbox'[r].claim_owner = NoOwner /\ outbox'[r].claim_left = 0
      BY <1>1, <1>5 DEF Moves, ActsOnClaim
    <2>2. Held(r) /\ ~Held(r)'
      BY <2>1 DEF Held, Owned, DrainInv, BatchesAreSound, BatchIsSound
    <2>3. outbox[r].available_in = 0
      BY <2>2 DEF RepublishInv, HeldIsDue
    <2>4. TimeLeft(wait, r) = Budget(faults) + wait[a]
      BY <1>2, <1>3, <2>2, <2>3 DEF TimeLeft
    <2>5. Budget(faults)' <= Budget(faults)
      BY BudgetSpent
    <2>6. TimeLeft(wait, r)'
              = outbox'[r].available_in + Budget(faults)' + (0 + wait[outbox'[r].attempts + 1])
      BY <2>1, <2>2 DEF TimeLeft
    <2>7. CASE outbox'[r] = ReleasedRow(outbox[r])
      <3>1. outbox'[r].available_in = 0 /\ outbox'[r].attempts = AtLeast(a, 1) - 1
        BY <1>2, <2>3, <2>7, ReleasedRowDue, RowNumbers
      <3>2. wait[outbox'[r].attempts + 1] <= wait[a] /\ wait[outbox'[r].attempts + 1] \in Nat
        <4>1. CASE a = 0
          BY <1>3, <3>1, <4>1 DEF AtLeast
        <4>2. CASE a # 0
          <5>1. outbox'[r].attempts + 1 = a
            BY <3>1, <4>2 DEF AtLeast
          <5> QED  BY <1>3, <5>1
        <4> QED  BY <4>1, <4>2
      <3> QED  BY <1>3, <2>2, <2>4, <2>5, <2>6, <3>1, <3>2
    <2>8. CASE /\ outbox'[r] = RescheduledRow(outbox[r])
               /\ a \in Nat \ {0} /\ a < MaxAttempts
      <3>1. /\ outbox'[r].available_in = Backoff(a) /\ outbox'[r].attempts = a
            /\ Backoff(a) \in Nat
        BY <1>2, <2>8, RescheduledRowDue, RescheduledRowCounts, BackoffType, RowNumbers
      <3>2. Backoff(a) + wait[a + 1] <= wait[a]
        BY <2>8 DEF BackoffsFit
      <3> QED  BY <1>3, <2>2, <2>4, <2>5, <2>6, <3>1, <3>2
    <2> QED  BY <1>2, <1>5, <2>2, <2>7, <2>8, HandedBack
  <1> QED  BY <1>4, <1>5

\* Nothing is in transit without a publisher, nothing is deleted, and what is
\* staged was never stored.
LEMMA TableKeeps ==
    ASSUME NEW CONSTANT wait, Republishing(wait), NEW r \in Row, stored[r] > 0,
           \/ \E q \in Row : Enqueue(q) \/ ReceiveLate(q) \/ LoseLate(q)
           \/ Purge
           \/ UNCHANGED vars
    PROVE  /\ outbox'[r] = outbox[r] /\ relay' = relay /\ faults' = faults
           /\ stored' = stored /\ dedup_left' = dedup_left
  <1> USE DEF Republishing
  <1>1. ~Purge /\ \A q \in Row : ~ReceiveLate(q) /\ ~LoseLate(q)
    BY DEF Purge, ReceiveLate, LoseLate, NothingLags, TypeOK
  <1>2. ASSUME NEW q \in Row, Enqueue(q)
        PROVE  /\ outbox'[r] = outbox[r] /\ relay' = relay /\ faults' = faults
               /\ stored' = stored /\ dedup_left' = dedup_left
    <2>1. q # r
      BY <1>2 DEF Enqueue, StoredIsKept
    <2> QED  BY <1>2, <2>1 DEF Enqueue, TypeOK
  <1> QED  BY <1>1, <1>2 DEF vars

\* Time passes only while nobody holds a row and no row is due: it runs for
\* every waiting row, as it runs for the broker.
LEMMA TickTimeLeft ==
    ASSUME NEW CONSTANT wait, Republishing(wait), Tick \/ SlowTick, NEW r \in Row
    PROVE  /\ ~Held(r) /\ ~Held(r)' /\ stored' = stored
           /\ outbox'[r].status = outbox[r].status
           /\ outbox[r].status = "pending" /\ TimeLeft(wait, r) < dedup_left[r]
                 => TimeLeft(wait, r)' < dedup_left'[r]
  <1> USE DEF Republishing
  <1>1. Tick /\ Quiet
    BY DEF Tick, SlowTick, Fault, NothingLags
  <1>2. /\ relay' = relay /\ faults' = faults /\ stored' = stored
        /\ outbox'[r] = AgedRow(outbox[r]) /\ dedup_left'[r] = Earlier(dedup_left[r])
    BY <1>1 DEF Tick, TimePasses
  <1>3. \A v \in Relay : relay[v].owner = NoOwner
    BY <1>1 DEF Quiet, HoldInv, RestIsIdle, Working
  <1>4. ~Held(r) /\ ~Held(r)'
    BY <1>2, <1>3 DEF Held, Owned
  <1>5. /\ outbox'[r].status = outbox[r].status
        /\ outbox'[r].attempts = outbox[r].attempts
        /\ outbox'[r].available_in = Earlier(outbox[r].available_in)
        /\ outbox'[r].claim_left = Earlier(outbox[r].claim_left)
    BY <1>2, AgedRowFacts, AgedRowLapses, AgedRowDue, RowNumbers
  <1>6. ASSUME outbox[r].status = "pending", TimeLeft(wait, r) < dedup_left[r]
        PROVE  TimeLeft(wait, r)' < dedup_left'[r]
    <2>1. outbox[r].available_in > 0 \/ outbox[r].claim_left > 0
      BY <1>1, <1>6, RowNumbers DEF Quiet, Claimable, LeaseLive
    <2>2. PICK x \in Nat, y \in Nat, b \in Nat, u \in Nat, d \in Nat :
              /\ x = outbox[r].available_in /\ y = outbox[r].claim_left /\ b = Budget(faults)
              /\ u = wait[outbox[r].attempts + 1] /\ d = dedup_left[r]
      BY RowNumbers DEF BackoffsFit
    <2>3. TimeLeft(wait, r) = x + b + (y + u)
      BY <1>4, <2>2 DEF TimeLeft
    <2>4. TimeLeft(wait, r)' = Earlier(x) + b + (Earlier(y) + u)
      BY <1>2, <1>4, <1>5, <2>2 DEF TimeLeft
    <2> QED  BY <1>2, <1>6, <2>1, <2>2, <2>3, <2>4 DEF Earlier
  <1> QED  BY <1>2, <1>4, <1>5, <1>6

----------------------------------------------------------------------------
(* The copies a stream stores.                                             *)

\* A copy that arrives finds its row held: the broker remembers the row, or
\* has never stored it.
LEMMA ReceiveStores ==
    ASSUME NEW CONSTANT wait, Republishing(wait), NEW w \in Relay, Receive(w),
           NEW r \in Row, stored'[r] > 0
    PROVE  /\ stored'[r] <= 1
           /\ outbox'[r].status = "pending" => TimeLeft(wait, r)' < dedup_left'[r]
  <1> USE DEF Republishing
  <1>1. /\ TimeLeft(wait, r)' <= TimeLeft(wait, r) \/ outbox'[r].status # "pending"
        /\ outbox' = outbox
    BY MoveTimeLeft DEF Receive
  <1>2. PICK x \in Nat, y \in Nat : x = TimeLeft(wait, r) /\ y = TimeLeft(wait, r)'
    BY TimeLeftType
  <1>3. CASE r = relay[w].cur /\ ~InWindow(r)
    <2>1. InHand(w) /\ InLoop(w)
      BY DEF Receive, InHand, InLoop
    <2>2. Owned(w, r) /\ relay[w].taken[r] > 0 /\ relay[w].taken[r] = outbox[r].attempts
      BY <1>3, <2>1
      DEF HoldInv, RecordIsInBatch, BatchOwnsItsRows, BatchKnowsItsRows, NothingSlow, NothingLags
    <2>3. outbox[r].status = "pending" /\ Held(r) /\ outbox[r].available_in = 0
      BY <2>2 DEF Owned, Held, DrainInv, ClaimsAreOfPendingRows, RepublishInv, HeldIsDue
    <2>4. dedup_left[r] = 0
      BY <1>3, RowNumbers DEF InWindow
    <2>5. stored[r] = 0
      BY <1>2, <2>3, <2>4, RowNumbers DEF RepublishInv, Remembered
    <2>6. stored'[r] = 1 /\ dedup_left'[r] = DupWindow
      BY <1>3, <2>5 DEF Receive, Arrive, AtMost, TypeOK
    <2>7. PICK a \in Nat \ {0} : a = outbox[r].attempts
      BY <2>2, RowNumbers
    <2>8. TimeLeft(wait, r) = Budget(faults) + wait[a]
      BY <2>3, <2>7, RowNumbers DEF TimeLeft, BackoffsFit
    <2>9. /\ Budget(faults) \in Nat /\ Budget(faults) <= MaxFaults * ClaimTTL
          /\ MaxFaults * ClaimTTL \in Nat
          /\ wait[a] \in Nat /\ wait[1] \in Nat /\ wait[a] <= wait[1]
      BY <2>7, BudgetFacts DEF BackoffsFit, TypeOK
    <2>10. TimeLeft(wait, r) < DupWindow
      BY <2>8, <2>9 DEF WindowCovers
    <2> QED  BY <1>1, <1>2, <2>3, <2>6, <2>10
  <1>4. CASE ~(r = relay[w].cur /\ ~InWindow(r))
    <2>1. stored'[r] = stored[r] /\ dedup_left'[r] = dedup_left[r]
      BY <1>4 DEF Receive, Arrive, TypeOK
    <2>2. /\ stored[r] <= 1
          /\ outbox[r].status = "pending" => TimeLeft(wait, r) < dedup_left[r]
      BY <2>1 DEF RepublishInv, StoredOnce, Remembered
    <2> QED  BY <1>1, <1>2, <2>1, <2>2, RowNumbers
  <1> QED  BY <1>3, <1>4

\* A row that is waiting after a claim or a relay's step was waiting before.
LEMMA WasWaiting ==
    ASSUME NEW CONSTANT wait, Republishing(wait), NEW r \in Row, outbox[r].status # "absent",
           outbox'[r].status = "pending"
    PROVE  outbox[r].status = "pending"
  <1>1. RowStep(r)
    BY EveryRowStep DEF Republishing
  <1>2. outbox[r].claim_owner # NoOwner => outbox[r].status = "pending"
    BY DEF Republishing, DrainInv, ClaimsAreOfPendingRows
  <1>3. \A w \in Relay : Working(w) => relay[w].owner # NoOwner
    BY DEF Republishing, DrainInv, BatchesAreSound, BatchIsSound
  <1> QED
    BY <1>1, <1>2, <1>3
    DEF RowStep, StagedNow, ClaimedNow, Claimable, AgedNow, PurgedNow, NoRecord, SettledNow

LEMMA RepublishStep ==
    ASSUME NEW CONSTANT wait, Republishing(wait)
    PROVE  RepublishInv(wait)'
  <1> USE DEF Republishing
  <1>1. ASSUME NEW r \in Row
        PROVE  /\ Held(r)' => outbox'[r].available_in = 0
               /\ stored'[r] > 0 =>
                     /\ stored'[r] <= 1
                     /\ outbox'[r].status = "pending" => TimeLeft(wait, r)' < dedup_left'[r]
    <2>1. /\ Held(r) => outbox[r].available_in = 0
          /\ stored[r] > 0 => /\ stored[r] <= 1
                              /\ outbox'[r].status = "pending" => outbox[r].status = "pending"
                              /\ outbox[r].status = "pending" => TimeLeft(wait, r) < dedup_left[r]
      BY WasWaiting DEF RepublishInv, HeldIsDue, StoredOnce, StoredIsKept, Remembered
    <2>2. TimeLeft(wait, r) \in Nat /\ TimeLeft(wait, r)' \in Nat /\ dedup_left[r] \in Nat
      BY TimeLeftType, RowNumbers
    <2>3. ASSUME NEW w \in Relay, Claim(w) \/ ClaimReplyLost(w)
          PROVE  /\ Held(r)' => outbox'[r].available_in = 0
                 /\ TimeLeft(wait, r)' <= TimeLeft(wait, r)
                 /\ stored' = stored /\ dedup_left' = dedup_left
      BY <2>3, ClaimTimeLeft DEF Claim, ClaimReplyLost
    <2>4. ASSUME NEW w \in Relay,
                 \/ ParkPoison(w) \/ CheckHeld(w) \/ CheckLapsed(w) \/ PublishOk(w)
                 \/ PublishErr(w) \/ MarkPublished(w) \/ RecordFailure(w) \/ Release(w)
                 \/ Restart(w) \/ DbError(w) \/ Shutdown(w) \/ Crash(w)
          PROVE  /\ Held(r)' => outbox'[r].available_in = 0
                 /\ outbox'[r].status = "pending" => TimeLeft(wait, r)' <= TimeLeft(wait, r)
                 /\ stored' = stored /\ dedup_left' = dedup_left
      <3>1. stored' = stored /\ dedup_left' = dedup_left
        BY <2>4
        DEF ParkPoison, CheckHeld, CheckLapsed, PublishOk, PublishErr, MarkPublished,
            RecordFailure, Release, Restart, DbError, Shutdown, Crash
      <3> QED  BY <2>4, <3>1, MoveTimeLeft
    <2>5. ASSUME NEW w \in Relay, Receive(w)
          PROVE  Held(r)' => outbox'[r].available_in = 0
      BY <2>5, MoveTimeLeft
    <2>6. CASE \/ \E q \in Row : Enqueue(q) \/ ReceiveLate(q) \/ LoseLate(q)
               \/ Purge
               \/ UNCHANGED vars
      <3>1. stored' = stored
        BY <2>6 DEF Enqueue, LoseLate, Purge, vars, ReceiveLate, NothingLags, TypeOK
      <3>2. Held(r)' => outbox'[r].available_in = 0
        <4>1. TouchesUnclaimed
          BY <2>6, TableStepTouches
        <4> QED  BY <2>1, <4>1 DEF TouchesUnclaimed, Held, Owned
      <3>3. ASSUME stored[r] > 0 PROVE TimeLeft(wait, r)' <= TimeLeft(wait, r) /\ dedup_left' = dedup_left
        BY <2>6, <3>3, TableKeeps, SameTimeLeft DEF Held, Owned
      <3> QED  BY <2>1, <2>2, <3>1, <3>2, <3>3
    <2>7. CASE Tick \/ SlowTick
      BY <2>1, <2>7, TickTimeLeft
    <2>8. CASE \E w \in Relay : Receive(w)
      BY <2>5, <2>8, ReceiveStores
    <2>9. CASE \E w \in Relay : Claim(w) \/ ClaimReplyLost(w)
      BY <2>1, <2>2, <2>3, <2>9
    <2>10. CASE \E w \in Relay :
                 \/ ParkPoison(w) \/ CheckHeld(w) \/ CheckLapsed(w) \/ PublishOk(w)
                 \/ PublishErr(w) \/ MarkPublished(w) \/ RecordFailure(w) \/ Release(w)
                 \/ Restart(w) \/ DbError(w) \/ Shutdown(w) \/ Crash(w)
      BY <2>1, <2>2, <2>4, <2>10
    <2> QED  BY <2>6, <2>7, <2>8, <2>9, <2>10 DEF Next, RelayStep
  <1>2. \A r \in Row : stored'[r] \in Nat
    BY DEF TypeOK
  <1> QED
    BY <1>1, <1>2 DEF RepublishInv, HeldIsDue, Remembered, StoredOnce

LEMMA RepublishInit == ASSUME NEW CONSTANT wait, Init PROVE RepublishInv(wait)
  <1>1. /\ \A w \in Relay : relay[w].owner = NoOwner
        /\ \A r \in Row : stored[r] = 0
    BY LocalsFacts DEF Init, AtRest, Locals
  <1> QED
    BY <1>1 DEF RepublishInv, HeldIsDue, Remembered, StoredOnce, Held, Owned

\* Where batches are prompt, no copy outlives its publisher and no row is
\* deleted, a message is stored once if the broker's window is longer than the
\* backoffs of one row and a lease for every failure.
THEOREM CopiesAreStoredOnce ==
    ASSUME NEW CONSTANT wait
    PROVE  NothingLags /\ BackoffsFit(wait) /\ WindowCovers(wait) => (Spec => []StoredOnce)
  <1> SUFFICES ASSUME NothingLags, BackoffsFit(wait), WindowCovers(wait)
               PROVE  Spec => []StoredOnce
    OBVIOUS
  <1>1. Init => RepublishInv(wait)
    BY RepublishInit
  <1>2. /\ TypeOK /\ TypeOK' /\ DrainInv /\ DrainInv' /\ HoldInv /\ HoldInv'
        /\ StoredIsKept /\ RepublishInv(wait) /\ [Next]_vars
        => RepublishInv(wait)'
    BY RepublishStep DEF Republishing
  <1>3. RepublishInv(wait) => StoredOnce
    BY DEF RepublishInv
  <1>4. Spec => []StoredIsKept
    BY StoredRowsAreKept DEF NothingLags
  <1> QED
    BY <1>1, <1>2, <1>3, <1>4, TypeInvariant, DrainInvariant, HoldInvariant, PTL DEF Spec

\* Whatever the backoffs are below their cap.
LongestWaits == [a \in Nat |-> IF a < MaxAttempts THEN (MaxAttempts - a) * MaxBackoff ELSE 0]

LEMMA LongestWaitsFit == BackoffsFit(LongestWaits)
  <1>1. ASSUME NEW m \in Nat, NEW a \in Nat, NEW b \in Nat, a < m
        PROVE  /\ (m - a) * b \in Nat
               /\ (m - (a + 1)) * b + b = (m - a) * b
    <2>1. PICK k \in Nat : k = m - a
      BY <1>1
    <2>2. k * b \in Nat
      OBVIOUS
    <2>3. m - (a + 1) = k - 1 /\ (k - 1) * b + b = k * b
      BY <1>1, <2>1
    <2> QED  BY <2>1, <2>2, <2>3
  <1>2. MaxAttempts \in Nat /\ MaxBackoff \in Nat
    OBVIOUS
  <1>3. ASSUME NEW a \in Nat
        PROVE  /\ LongestWaits[a] \in Nat
               /\ a < MaxAttempts => MaxBackoff + LongestWaits[a + 1] = LongestWaits[a]
               /\ a >= MaxAttempts => LongestWaits[a] = 0
    <2>1. /\ LongestWaits[a] = IF a < MaxAttempts THEN (MaxAttempts - a) * MaxBackoff ELSE 0
          /\ LongestWaits[a + 1]
                = IF a + 1 < MaxAttempts THEN (MaxAttempts - (a + 1)) * MaxBackoff ELSE 0
      BY DEF LongestWaits
    <2>2. CASE a + 1 < MaxAttempts
      BY <1>1, <1>2, <2>1, <2>2
    <2>3. CASE a + 1 = MaxAttempts
      BY <1>2, <2>1, <2>3
    <2>4. CASE a >= MaxAttempts
      BY <1>2, <2>1, <2>4
    <2> QED  BY <1>2, <2>2, <2>3, <2>4
  <1>4. LongestWaits \in [Nat -> Nat]
    BY <1>3 DEF LongestWaits
  <1>5. ASSUME NEW a \in Nat PROVE LongestWaits[a + 1] <= LongestWaits[a]
    <2>1. LongestWaits[a + 1] \in Nat
      BY <1>3
    <2> QED  BY <1>2, <1>3, <2>1
  <1>6. ASSUME NEW a \in Nat \ {0} PROVE LongestWaits[a] <= LongestWaits[1]
    <2>1. CASE a < MaxAttempts
      <3>1. PICK j \in Nat, k \in Nat : j = MaxAttempts - a /\ k = a - 1
        BY <1>2, <2>1
      <3>2. /\ LongestWaits[a] = j * MaxBackoff
            /\ LongestWaits[1] = (MaxAttempts - 1) * MaxBackoff
        BY <1>2, <2>1, <3>1 DEF LongestWaits
      <3>3. (MaxAttempts - 1) * MaxBackoff = j * MaxBackoff + k * MaxBackoff
        BY <1>2, <3>1
      <3>4. j * MaxBackoff \in Nat /\ k * MaxBackoff \in Nat
        BY <1>2
      <3> QED  BY <3>2, <3>3, <3>4
    <2>2. CASE a >= MaxAttempts
      BY <1>3, <2>2
    <2> QED  BY <1>2, <2>1, <2>2
  <1>7. ASSUME NEW a \in Nat, a < MaxAttempts
        PROVE  Backoff(a) + LongestWaits[a + 1] <= LongestWaits[a]
    <2>1. Backoff(a) \in Nat /\ Backoff(a) <= MaxBackoff
      BY BackoffType
    <2>2. LongestWaits[a + 1] \in Nat
      BY <1>3
    <2> QED  BY <1>2, <1>3, <1>7, <2>1, <2>2
  <1> QED  BY <1>4, <1>5, <1>6, <1>7 DEF BackoffsFit

\* A window that covers every backoff at its cap and a lease for every failure.
THEOREM AnyBackoffsAreCovered ==
    /\ NothingLags
    /\ (MaxAttempts - 1) * MaxBackoff + MaxFaults * ClaimTTL < DupWindow
    => (Spec => []StoredOnce)
  <1>1. LongestWaits[1] = (MaxAttempts - 1) * MaxBackoff
    BY DEF LongestWaits
  <1> QED  BY <1>1, LongestWaitsFit, CopiesAreStoredOnce DEF WindowCovers

\* The backoffs after each of the default eight attempts, in seconds.
DefaultWaits ==
    [a \in Nat |-> CASE a = 0 -> 127 [] a = 1 -> 127 [] a = 2 -> 126 [] a = 3 -> 124
                    [] a = 4 -> 120 [] a = 5 -> 112 [] a = 6 -> 96 [] a = 7 -> 64 [] OTHER -> 0]

LEMMA DefaultWaitsFit == ASSUME MaxAttempts <= 8 PROVE BackoffsFit(DefaultWaits)
  <1>1. ASSUME NEW a \in Nat
        PROVE  /\ DefaultWaits[a] \in Nat /\ DefaultWaits[a] <= 127
               /\ DefaultWaits[a + 1] <= DefaultWaits[a]
    BY DEF DefaultWaits
  <1>2. ASSUME NEW a \in 1..7 PROVE Backoff(a) + DefaultWaits[a + 1] <= DefaultWaits[a]
    BY DEF DefaultWaits, Backoff, AtMost, AtLeast, Doubled
  <1>3. DefaultWaits[1] = 127
    BY DEF DefaultWaits
  <1> QED  BY <1>1, <1>2, <1>3 DEF BackoffsFit, DefaultWaits

\* The defaults, in seconds: eight attempts, a lease of 300 and the least
\* window the startup check accepts, the lease plus the longest backoff, cover
\* one failure; the backoffs of eight attempts sum to 127.
THEOREM DefaultsCoverOneFailure ==
    /\ NothingLags
    /\ MaxAttempts <= 8 /\ ClaimTTL = 300 /\ MaxBackoff = 300 /\ MaxFaults <= 1
    /\ DupWindow >= ClaimTTL + MaxBackoff
    => (Spec => []StoredOnce)
  <1> SUFFICES ASSUME NothingLags, MaxAttempts <= 8, ClaimTTL = 300, MaxBackoff = 300,
                      MaxFaults <= 1, DupWindow >= ClaimTTL + MaxBackoff
               PROVE  Spec => []StoredOnce
    OBVIOUS
  <1>1. DefaultWaits[1] = 127
    BY DEF DefaultWaits
  <1>2. WindowCovers(DefaultWaits)
    BY <1>1 DEF WindowCovers
  <1> QED  BY <1>2, DefaultWaitsFit, CopiesAreStoredOnce

=============================================================================
