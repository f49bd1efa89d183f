------------------------- MODULE OutboxRelayProofs -------------------------
(***************************************************************************)
(* Theorems about OutboxRelay, for any number of rows and relays and every *)
(* value of the knobs and of the failure bounds.                           *)
(***************************************************************************)
EXTENDS OutboxRelay, TLAPS

USE RowsAssumption, KnobsAssumption, BoundsAssumption

----------------------------------------------------------------------------
(* The columns each statement leaves, changes and clears.                  *)

LEMMA BackoffType ==
    ASSUME NEW a \in Nat
    PROVE  Backoff(a) \in 0..MaxBackoff
  BY DEF Backoff, AtMost, AtLeast, Doubled

LEMMA UnclaimedRowFacts ==
    ASSUME NEW row \in RowState
    PROVE  /\ Unclaimed(row) \in RowState
           /\ Unclaimed(row).status = row.status
           /\ Unclaimed(row).attempts = row.attempts
           /\ Unclaimed(row).claim_owner = NoOwner
           /\ Unclaimed(row).claim_left = 0
  <1> DEFINE disowned == [row EXCEPT !.claim_owner = NoOwner]
  <1>1. /\ disowned \in RowState
        /\ disowned.status = row.status
        /\ disowned.attempts = row.attempts
        /\ disowned.claim_owner = NoOwner
    BY DEF RowState
  <1>2. Unclaimed(row) = [disowned EXCEPT !.claim_left = 0]
    BY DEF Unclaimed
  <1> HIDE DEF disowned
  <1> QED BY <1>1, <1>2 DEF RowState

LEMMA PublishedRowFacts ==
    ASSUME NEW row \in RowState
    PROVE  /\ PublishedRow(row) \in RowState
           /\ PublishedRow(row).status = "published"
           /\ PublishedRow(row).claim_owner = NoOwner
           /\ PublishedRow(row).claim_left = 0
  <1> DEFINE settled == [Unclaimed(row) EXCEPT !.status = "published"]
  <1>1. /\ settled \in RowState
        /\ settled.status = "published"
        /\ settled.claim_owner = NoOwner
        /\ settled.claim_left = 0
    BY UnclaimedRowFacts DEF RowState, Status
  <1>2. PublishedRow(row) = [settled EXCEPT !.retain_left = Retention]
    BY DEF PublishedRow
  <1> HIDE DEF settled
  <1> QED BY <1>1, <1>2 DEF RowState

LEMMA FailedRowFacts ==
    ASSUME NEW row \in RowState
    PROVE  /\ FailedRow(row) \in RowState
           /\ FailedRow(row).status = "failed"
           /\ FailedRow(row).claim_owner = NoOwner
           /\ FailedRow(row).claim_left = 0
  BY UnclaimedRowFacts DEF FailedRow, RowState, Status

LEMMA RescheduledRowFacts ==
    ASSUME NEW row \in RowState
    PROVE  /\ RescheduledRow(row) \in RowState
           /\ RescheduledRow(row).status = row.status
           /\ RescheduledRow(row).claim_owner = NoOwner
           /\ RescheduledRow(row).claim_left = 0
  <1>1. Backoff(row.attempts) \in 0..MaxBackoff
    BY BackoffType DEF RowState
  <1> QED BY <1>1, UnclaimedRowFacts DEF RescheduledRow, RowState

LEMMA ReleasedRowFacts ==
    ASSUME NEW row \in RowState
    PROVE  /\ ReleasedRow(row) \in RowState
           /\ ReleasedRow(row).status = row.status
           /\ ReleasedRow(row).claim_owner = NoOwner
           /\ ReleasedRow(row).claim_left = 0
  BY UnclaimedRowFacts DEF ReleasedRow, RowState, AtLeast

LEMMA ClaimedRowFacts ==
    ASSUME NEW row \in RowState, NEW o \in Owner
    PROVE  /\ ClaimedRow(row, o) \in RowState
           /\ ClaimedRow(row, o).status = row.status
           /\ ClaimedRow(row, o).claim_owner = o
  <1> DEFINE counted == [row EXCEPT !.attempts = @ + 1]
             owned == [counted EXCEPT !.claim_owner = o]
  <1>1. counted \in RowState /\ counted.status = row.status
    BY DEF RowState
  <1> HIDE DEF counted
  <1>2. owned \in RowState /\ owned.status = row.status /\ owned.claim_owner = o
    BY <1>1 DEF RowState
  <1>3. ClaimedRow(row, o) = [owned EXCEPT !.claim_left = ClaimTTL]
    BY DEF ClaimedRow, counted
  <1> HIDE DEF owned
  <1> QED BY <1>2, <1>3 DEF RowState

LEMMA AgedRowFacts ==
    ASSUME NEW row \in RowState
    PROVE  /\ AgedRow(row) \in RowState
           /\ AgedRow(row).status = row.status
           /\ AgedRow(row).attempts = row.attempts
           /\ AgedRow(row).claim_owner = row.claim_owner
           /\ AgedRow(row).claim_left > 0 => row.claim_left > 0
  <1> DEFINE due == [row EXCEPT !.available_in = Earlier(@)]
             lapsing == [due EXCEPT !.claim_left = Earlier(@)]
  <1>1. /\ due \in RowState /\ due.status = row.status
        /\ due.attempts = row.attempts /\ due.claim_owner = row.claim_owner
        /\ due.claim_left = row.claim_left
    BY DEF RowState, Earlier
  <1> HIDE DEF due
  <1>2. /\ lapsing \in RowState /\ lapsing.status = row.status
        /\ lapsing.attempts = row.attempts /\ lapsing.claim_owner = row.claim_owner
        /\ lapsing.claim_left > 0 => row.claim_left > 0
    BY <1>1 DEF RowState, Earlier
  <1>3. AgedRow(row) = [lapsing EXCEPT !.retain_left = Earlier(@)]
    BY DEF AgedRow, due
  <1> HIDE DEF lapsing
  <1> QED BY <1>2, <1>3 DEF RowState, Earlier

----------------------------------------------------------------------------
(* A relay's statement keeps the table a table, and touches only rows that *)
(* carry the claim it names, whose claim it clears.                        *)

ActsOnClaim(o, table) ==
    /\ table \in [Row -> RowState]
    /\ \A q \in Row :
          \/ table[q] = outbox[q]
          \/ /\ outbox[q].claim_owner = o
             /\ table[q].claim_owner = NoOwner
             /\ table[q].claim_left = 0

Unpublishing(table) ==
    \A q \in Row : \/ table[q] = outbox[q]
                   \/ table[q].status = "failed"
                   \/ table[q].status = outbox[q].status

LEMMA PublishedActs ==
    ASSUME outbox \in [Row -> RowState], NEW r, NEW o
    PROVE  /\ ActsOnClaim(o, Published(r, o))
           /\ \A q \in Row : \/ Published(r, o)[q] = outbox[q]
                             \/ q = r /\ Published(r, o)[q].status = "published"
  BY PublishedRowFacts DEF ActsOnClaim, Published, IfOwned, OwnerMatches

LEMMA FailedActs ==
    ASSUME outbox \in [Row -> RowState], NEW r, NEW o
    PROVE  ActsOnClaim(o, Failed(r, o)) /\ Unpublishing(Failed(r, o))
  BY FailedRowFacts DEF ActsOnClaim, Unpublishing, Failed, IfOwned, OwnerMatches

LEMMA RescheduledActs ==
    ASSUME outbox \in [Row -> RowState], NEW r, NEW o
    PROVE  ActsOnClaim(o, Rescheduled(r, o)) /\ Unpublishing(Rescheduled(r, o))
  BY RescheduledRowFacts DEF ActsOnClaim, Unpublishing, Rescheduled, IfOwned, OwnerMatches

LEMMA ReleasedActs ==
    ASSUME outbox \in [Row -> RowState], NEW o
    PROVE  ActsOnClaim(o, Released(o)) /\ Unpublishing(Released(o))
  BY ReleasedRowFacts DEF ActsOnClaim, Unpublishing, Released, OwnedPending

LEMMA NothingActs ==
    ASSUME outbox \in [Row -> RowState], NEW o
    PROVE  ActsOnClaim(o, outbox) /\ Unpublishing(outbox)
  BY DEF ActsOnClaim, Unpublishing

LEMMA LeasedToFacts ==
    ASSUME outbox \in [Row -> RowState], NEW S \in SUBSET Row, NEW o \in Owner
    PROVE  /\ LeasedTo(S, o) \in [Row -> RowState]
           /\ \A q \in Row : LeasedTo(S, o)[q].status = outbox[q].status
           /\ \A q \in S : LeasedTo(S, o)[q].claim_owner = o
           /\ \A q \in Row \ S : LeasedTo(S, o)[q] = outbox[q]
  BY ClaimedRowFacts DEF LeasedTo

LEMMA CandidatesFacts ==
    ASSUME NEW w \in Relay, NEW S \in Candidates(w)
    PROVE  S \in SUBSET Row /\ \A r \in S : Claimable(r)
  BY DEF Candidates, OldestFirst

----------------------------------------------------------------------------
(* Types.                                                                  *)

LEMMA LocalsType ==
    ASSUME NEW label \in Label, NEW o \in Owner \union {NoOwner},
           NEW taken \in [Row -> Nat], NEW r \in Row \union {NoRow}
    PROVE  Locals(label, o, taken, r) \in RelayState
  BY DEF Locals, RelayState

LEMMA AtRestType ==
    ASSUME NEW label \in {"idle", "stopped"}
    PROVE  AtRest(label) \in RelayState
  BY LocalsType DEF AtRest, NothingTaken, Label

LEMMA AnsweredFacts ==
    ASSUME NEW locals \in RelayState
    PROVE  /\ [locals EXCEPT !.acked = TRUE] \in RelayState
           /\ [locals EXCEPT !.acked = TRUE].acked
           /\ [locals EXCEPT !.acked = TRUE].pc = locals.pc
           /\ [locals EXCEPT !.acked = TRUE].owner = locals.owner
           /\ [locals EXCEPT !.acked = TRUE].cur = locals.cur
  BY DEF RelayState

LEMMA BatchLocalsType ==
    ASSUME TypeOK, NEW w \in Relay
    PROVE  /\ \A r \in Row \union {NoRow} : Without(w, r) \in RelayState
           /\ \A label \in Label : Dropping(w, label) \in RelayState
           /\ \A label \in Label, r \in Row \union {NoRow} :
                 Handling(w, label, r) \in RelayState
  <1>1. relay[w] \in RelayState
    BY DEF TypeOK
  <1>2. /\ relay[w].owner \in Owner \union {NoOwner}
        /\ relay[w].taken \in [Row -> Nat]
    BY <1>1 DEF RelayState
  <1>3. ASSUME NEW r \in Row \union {NoRow}
        PROVE  Without(w, r) \in RelayState
    <2> DEFINE rest == [relay[w].taken EXCEPT ![r] = 0]
    <2>1. rest \in [Row -> Nat]
      BY <1>2
    <2>2. Locals("next", relay[w].owner, rest, NoRow) \in RelayState
      BY <1>2, <2>1, LocalsType DEF Label
    <2> QED BY <2>2, AtRestType DEF Without
  <1>4. ASSUME NEW label \in Label
        PROVE  Dropping(w, label) \in RelayState
    BY <1>2, LocalsType DEF Dropping, NothingTaken
  <1>5. ASSUME NEW label \in Label, NEW r \in Row \union {NoRow}
        PROVE  Handling(w, label, r) \in RelayState
    BY <1>2, LocalsType DEF Handling
  <1> QED BY <1>3, <1>4, <1>5

LEMMA ArriveType ==
    ASSUME TypeOK, NEW r, Arrive(r)
    PROVE  /\ stored' \in [Row -> 0..StoreCap]
           /\ dedup_left' \in [Row -> 0..DupWindow]
  BY DEF TypeOK, Arrive, AtMost

LEMMA TypeInit == Init => TypeOK
  <1> SUFFICES ASSUME Init PROVE TypeOK
    OBVIOUS
  <1>1. NoRecord \in RowState /\ Staged \in RowState
    BY DEF NoRecord, Staged, RowState, Status
  <1>2. AtRest("idle") \in RelayState
    BY AtRestType
  <1> QED BY <1>1, <1>2 DEF Init, TypeOK

LEMMA TypeStep == TypeOK /\ [Next]_vars => TypeOK'
  <1> SUFFICES ASSUME TypeOK, [Next]_vars PROVE TypeOK'
    OBVIOUS
  <1> USE DEF TypeOK
  <1>1. ASSUME NEW r \in Row, Enqueue(r) PROVE TypeOK'
    <2>1. Staged \in RowState
      BY DEF NoRecord, Staged, RowState, Status
    <2> QED BY <1>1, <2>1 DEF Enqueue
  <1>2. ASSUME NEW r \in Row, ReceiveLate(r) PROVE TypeOK'
    BY <1>2, ArriveType DEF ReceiveLate
  <1>3. ASSUME NEW r \in Row, LoseLate(r) PROVE TypeOK'
    BY <1>3 DEF LoseLate
  <1>4. CASE Purge
    <2>1. NoRecord \in RowState
      BY DEF NoRecord, RowState, Status
    <2> QED BY <1>4, <2>1 DEF Purge
  <1>5. CASE Tick
    BY <1>5, AgedRowFacts DEF Tick, TimePasses, Earlier
  <1>6. CASE SlowTick
    BY <1>6, AgedRowFacts DEF SlowTick, TimePasses, Earlier, Fault
  <1>7. ASSUME NEW w \in Relay, Claim(w) PROVE TypeOK'
    <2>1. PICK S \in Candidates(w), o \in FreshOwners :
            /\ outbox' = LeasedTo(S, o)
            /\ relay' = [relay EXCEPT ![w] = Locals("next", o,
                  [r \in Row |-> IF r \in S THEN outbox[r].attempts + 1 ELSE 0], NoRow)]
      BY <1>7 DEF Claim
    <2>2. S \in SUBSET Row /\ o \in Owner
      BY CandidatesFacts DEF FreshOwners
    <2>3. [r \in Row |-> IF r \in S THEN outbox[r].attempts + 1 ELSE 0] \in [Row -> Nat]
      BY DEF RowState
    <2>4. relay' \in [Relay -> RelayState]
      BY <2>1, <2>2, <2>3, LocalsType DEF Label
    <2>5. outbox' \in [Row -> RowState]
      BY <2>1, <2>2, LeasedToFacts
    <2> QED BY <1>7, <2>4, <2>5 DEF Claim
  <1>8. ASSUME NEW w \in Relay, ClaimReplyLost(w) PROVE TypeOK'
    <2>1. PICK S \in Candidates(w), o \in FreshOwners : outbox' = LeasedTo(S, o)
      BY <1>8 DEF ClaimReplyLost
    <2>2. outbox' \in [Row -> RowState]
      BY <2>1, LeasedToFacts, CandidatesFacts DEF FreshOwners
    <2> QED BY <1>8, <2>2 DEF ClaimReplyLost, Fault
  <1>9. ASSUME NEW w \in Relay, ParkPoison(w) PROVE TypeOK'
    BY <1>9, FailedActs, BatchLocalsType DEF ParkPoison, ActsOnClaim, Oldest, Batch
  <1>10. ASSUME NEW w \in Relay, CheckHeld(w) PROVE TypeOK'
    BY <1>10, BatchLocalsType DEF CheckHeld, Oldest, Batch, Label
  <1>11. ASSUME NEW w \in Relay, CheckLapsed(w) PROVE TypeOK'
    BY <1>11, AtRestType DEF CheckLapsed
  <1>12. ASSUME NEW w \in Relay, PublishOk(w) PROVE TypeOK'
    BY <1>12, BatchLocalsType DEF PublishOk, Label, RelayState
  <1>13. ASSUME NEW w \in Relay, PublishErr(w) PROVE TypeOK'
    <2>1. relay' \in [Relay -> RelayState]
      BY <1>13, BatchLocalsType DEF PublishErr, Label, RelayState
    <2>2. late' \in [Row -> 0..MaxLate]
      BY <1>13 DEF PublishErr, Unanswered
    <2> QED BY <1>13, <2>1, <2>2 DEF PublishErr
  <1>14. ASSUME NEW w \in Relay, MarkPublished(w) PROVE TypeOK'
    BY <1>14, PublishedActs, BatchLocalsType DEF MarkPublished, ActsOnClaim, RelayState
  <1>15. ASSUME NEW w \in Relay, RecordFailure(w) PROVE TypeOK'
    BY <1>15, FailedActs, RescheduledActs, BatchLocalsType
       DEF RecordFailure, FailureRecorded, ActsOnClaim, Label
  <1>16. ASSUME NEW w \in Relay, Release(w) PROVE TypeOK'
    BY <1>16, ReleasedActs, AtRestType DEF Release, ActsOnClaim
  <1>17. ASSUME NEW w \in Relay, Receive(w) PROVE TypeOK'
    <2> DEFINE answered == [relay[w] EXCEPT !.acked = TRUE]
    <2>3. answered \in RelayState
      BY AnsweredFacts
    <2>4. relay' = [relay EXCEPT ![w] = answered]
      BY <1>17 DEF Receive
    <2> HIDE DEF answered
    <2>1. relay' \in [Relay -> RelayState]
      BY <2>3, <2>4
    <2>2. PICK r : r = relay[w].cur /\ Arrive(r)
      BY <1>17 DEF Receive
    <2> QED BY <1>17, <2>1, <2>2, ArriveType DEF Receive
  <1>18. ASSUME NEW w \in Relay, Restart(w) PROVE TypeOK'
    BY <1>18, AtRestType DEF Restart
  <1>19. ASSUME NEW w \in Relay, DbError(w) PROVE TypeOK'
    <2>1. outbox' \in [Row -> RowState]
      BY <1>19, FailedActs, PublishedActs, RescheduledActs, ReleasedActs
         DEF DbError, FailureRecorded, ActsOnClaim
    <2>2. relay' \in [Relay -> RelayState]
      BY <1>19, AtRestType, BatchLocalsType DEF DbError, Label
    <2> QED BY <1>19, <2>1, <2>2 DEF DbError, Fault
  <1>20. ASSUME NEW w \in Relay, Shutdown(w) PROVE TypeOK'
    BY <1>20, AtRestType DEF Shutdown, Fault
  <1>21. ASSUME NEW w \in Relay, Crash(w) PROVE TypeOK'
    <2>1. late' \in [Row -> 0..MaxLate]
      BY <1>21 DEF Crash, Unanswered
    <2> QED BY <1>21, <2>1, AtRestType DEF Crash, Fault
  <1>22. CASE UNCHANGED vars
    BY <1>22 DEF vars
  <1> QED
    BY <1>1, <1>2, <1>3, <1>4, <1>5, <1>6, <1>7, <1>8, <1>9, <1>10, <1>11, <1>12, <1>13,
       <1>14, <1>15, <1>16, <1>17, <1>18, <1>19, <1>20, <1>21, <1>22
       DEF Next, RelayStep

\* Every reachable state is well typed, however many rows and relays there
\* are: the columns the statements of db.rs write stay in range.
THEOREM TypeInvariant == Spec => []TypeOK
  BY TypeInit, TypeStep, PTL DEF Spec

----------------------------------------------------------------------------
(* What one step may do to one row.                                        *)

LEMMA LocalsFacts ==
    ASSUME NEW w \in Relay
    PROVE  /\ \A r : Without(w, r).pc \in {"next", "idle"}
           /\ \A r : Without(w, r).pc = "next" => Without(w, r).owner = relay[w].owner
           /\ \A r : ~Without(w, r).acked
           /\ \A label : /\ Dropping(w, label).pc = label
                         /\ Dropping(w, label).owner = relay[w].owner
                         /\ ~Dropping(w, label).acked
           /\ \A label, r : /\ Handling(w, label, r).pc = label
                            /\ Handling(w, label, r).owner = relay[w].owner
                            /\ Handling(w, label, r).cur = r
                            /\ ~Handling(w, label, r).acked
           /\ \A label : AtRest(label).pc = label /\ ~AtRest(label).acked
           /\ \A label, o, taken, r : /\ Locals(label, o, taken, r).pc = label
                                      /\ Locals(label, o, taken, r).owner = o
                                      /\ ~Locals(label, o, taken, r).acked
  BY DEF Without, Dropping, Handling, AtRest, Locals

LEMMA WithoutChanges ==
    ASSUME TypeOK, NEW w \in Relay, relay[w].pc = "next", NEW r \in Batch(w)
    PROVE  Without(w, r) # relay[w]
  <1>1. relay[w].taken \in [Row -> Nat] /\ r \in Row /\ relay[w].taken[r] > 0
    BY DEF TypeOK, RelayState, Batch
  <1>2. CASE Without(w, r).pc = "next"
    <2>1. Without(w, r).taken = [relay[w].taken EXCEPT ![r] = 0]
      BY <1>2 DEF Without, AtRest, Locals
    <2> QED BY <1>1, <2>1
  <1> QED BY <1>2

\* Row q is staged, claimed, aged, purged, or settled by relay w.
StagedNow(q) ==
    Publishable(q) /\ outbox[q].status = "absent" /\ outbox'[q] = Staged
ClaimedNow(q) ==
    Claimable(q) /\ outbox'[q].status = "pending" /\ outbox'[q].claim_owner \in Owner
AgedNow(q) ==
    /\ outbox'[q].status = outbox[q].status
    /\ outbox'[q].attempts = outbox[q].attempts
    /\ outbox'[q].claim_owner = outbox[q].claim_owner
    /\ outbox'[q].claim_left > 0 => outbox[q].claim_left > 0
PurgedNow(q) ==
    RetentionOn /\ Purgeable(q) /\ outbox'[q] = NoRecord
SettledNow(w, q) ==
    /\ Working(w) /\ relay'[w] # relay[w]
    /\ outbox[q].claim_owner = relay[w].owner
    /\ outbox'[q].claim_owner = NoOwner /\ outbox'[q].claim_left = 0
    /\ \/ outbox'[q].status \in {outbox[q].status, "failed"}
       \/ relay[w].pc = "mark" /\ relay[w].cur = q /\ outbox'[q].status = "published"

RowStep(q) ==
    \/ outbox'[q] = outbox[q]
    \/ StagedNow(q) \/ ClaimedNow(q) \/ AgedNow(q) \/ PurgedNow(q)
    \/ \E w \in Relay : SettledNow(w, q)

LEMMA StatementSettles ==
    ASSUME TypeOK, NEW w \in Relay, Working(w), relay'[w] # relay[w],
           ActsOnClaim(relay[w].owner, outbox'), Unpublishing(outbox'), NEW q \in Row
    PROVE  RowStep(q)
  BY DEF ActsOnClaim, Unpublishing, RowStep, SettledNow

LEMMA ClaimClaims ==
    ASSUME TypeOK, NEW w \in Relay, NEW S \in Candidates(w), NEW o \in FreshOwners,
           outbox' = LeasedTo(S, o), NEW q \in Row
    PROVE  RowStep(q)
  <1>1. S \in SUBSET Row /\ (\A r \in S : Claimable(r)) /\ o \in Owner
    BY CandidatesFacts DEF FreshOwners
  <1>2. outbox \in [Row -> RowState]
    BY DEF TypeOK
  <1>3. /\ \A r \in Row : LeasedTo(S, o)[r].status = outbox[r].status
        /\ \A r \in S : LeasedTo(S, o)[r].claim_owner = o
        /\ \A r \in Row \ S : LeasedTo(S, o)[r] = outbox[r]
    BY <1>1, <1>2, LeasedToFacts
  <1>4. CASE q \in S
    BY <1>1, <1>3, <1>4 DEF RowStep, ClaimedNow, Claimable
  <1> QED BY <1>3, <1>4 DEF RowStep

LEMMA PublishedSettles ==
    ASSUME TypeOK, NEW w \in Relay, relay[w].pc = "mark", relay'[w] # relay[w],
           outbox' = Published(relay[w].cur, relay[w].owner), NEW q \in Row
    PROVE  RowStep(q)
  <1>1. PICK r, o : r = relay[w].cur /\ o = relay[w].owner
    OBVIOUS
  <1>2. /\ ActsOnClaim(o, Published(r, o))
        /\ \/ Published(r, o)[q] = outbox[q]
           \/ q = r /\ Published(r, o)[q].status = "published"
    BY PublishedActs DEF TypeOK
  <1> QED BY <1>1, <1>2 DEF ActsOnClaim, RowStep, SettledNow, Working

LEMMA EveryRowStep == TypeOK /\ [Next]_vars => \A q \in Row : RowStep(q)
  <1> SUFFICES ASSUME TypeOK, [Next]_vars, NEW q \in Row PROVE RowStep(q)
    OBVIOUS
  <1>1. CASE UNCHANGED outbox
    BY <1>1 DEF RowStep
  <1>2. ASSUME NEW r \in Row, Enqueue(r) PROVE RowStep(q)
    BY <1>2 DEF Enqueue, RowStep, StagedNow, TypeOK
  <1>3. CASE Purge
    BY <1>3 DEF Purge, RowStep, PurgedNow
  <1>4. CASE TimePasses
    BY <1>4, AgedRowFacts DEF TimePasses, RowStep, AgedNow, TypeOK
  <1>5. ASSUME NEW w \in Relay, Claim(w) \/ ClaimReplyLost(w) PROVE RowStep(q)
    BY <1>5, ClaimClaims DEF Claim, ClaimReplyLost
  <1>6. ASSUME NEW w \in Relay, ParkPoison(w) PROVE RowStep(q)
    <2>1. PICK r \in Batch(w) : /\ outbox' = Failed(r, relay[w].owner)
                                /\ relay' = [relay EXCEPT ![w] = Without(w, r)]
      BY <1>6 DEF ParkPoison, Oldest
    <2>2. relay'[w] # relay[w]
      BY <1>6, <2>1, WithoutChanges DEF ParkPoison, TypeOK
    <2>3. Working(w)
      BY <1>6 DEF ParkPoison, Working
    <2> QED BY <2>1, <2>2, <2>3, FailedActs, StatementSettles DEF TypeOK
  <1>7. ASSUME NEW w \in Relay, MarkPublished(w) PROVE RowStep(q)
    <2>1. relay'[w] # relay[w]
      BY <1>7, LocalsFacts DEF MarkPublished, TypeOK
    <2> QED BY <1>7, <2>1, PublishedSettles DEF MarkPublished
  <1>8. ASSUME NEW w \in Relay, RecordFailure(w) PROVE RowStep(q)
    <2>1. relay'[w] # relay[w] /\ Working(w)
      BY <1>8, LocalsFacts DEF RecordFailure, TypeOK, Working
    <2>2. ActsOnClaim(relay[w].owner, outbox') /\ Unpublishing(outbox')
      BY <1>8, FailedActs, RescheduledActs DEF RecordFailure, FailureRecorded, TypeOK
    <2> QED BY <2>1, <2>2, StatementSettles
  <1>9. ASSUME NEW w \in Relay, Release(w) PROVE RowStep(q)
    <2>1. relay'[w] # relay[w] /\ Working(w)
      BY <1>9, LocalsFacts DEF Release, TypeOK, Working
    <2>2. ActsOnClaim(relay[w].owner, outbox') /\ Unpublishing(outbox')
      BY <1>9, ReleasedActs DEF Release, TypeOK
    <2> QED BY <2>1, <2>2, StatementSettles
  <1>10. ASSUME NEW w \in Relay, DbError(w) PROVE RowStep(q)
    <2>1. relay'[w] # relay[w] /\ Working(w)
      BY <1>10, LocalsFacts DEF DbError, TypeOK, Working
    <2>2. CASE relay[w].pc = "mark" /\ outbox' = Published(relay[w].cur, relay[w].owner)
      BY <2>1, <2>2, PublishedSettles
    <2>3. CASE \/ outbox' = outbox
               \/ \E r \in Row : outbox' = Failed(r, relay[w].owner)
               \/ outbox' = FailureRecorded(w)
               \/ outbox' = Released(relay[w].owner)
      <3>1. ActsOnClaim(relay[w].owner, outbox') /\ Unpublishing(outbox')
        BY <2>3, NothingActs, FailedActs, RescheduledActs, ReleasedActs
           DEF FailureRecorded, TypeOK
      <3> QED BY <2>1, <3>1, StatementSettles
    <2> QED BY <1>10, <2>2, <2>3 DEF DbError, Oldest, Batch
  <1> QED
    BY <1>1, <1>2, <1>3, <1>4, <1>5, <1>6, <1>7, <1>8, <1>9, <1>10
       DEF Next, RelayStep, ReceiveLate, LoseLate, Receive, Restart, Shutdown, Crash,
           CheckHeld, CheckLapsed, PublishOk, PublishErr, Tick, SlowTick, vars

----------------------------------------------------------------------------
(* The inductive invariant.                                                *)

LEMMA ClaimsStep ==
    ASSUME TypeOK, ClaimsAreOfPendingRows, [Next]_vars
    PROVE  ClaimsAreOfPendingRows'
  <1> SUFFICES ASSUME NEW q \in Row
               PROVE  /\ outbox'[q].claim_owner # NoOwner => outbox'[q].status = "pending"
                      /\ outbox'[q].claim_left > 0 => outbox'[q].claim_owner # NoOwner
    BY DEF ClaimsAreOfPendingRows, LeaseLive
  <1>1. RowStep(q)
    BY EveryRowStep
  <1>2. /\ outbox[q].claim_owner # NoOwner => outbox[q].status = "pending"
        /\ outbox[q].claim_left > 0 => outbox[q].claim_owner # NoOwner
    BY DEF ClaimsAreOfPendingRows, LeaseLive
  <1>3. CASE StagedNow(q) \/ PurgedNow(q)
    BY <1>3 DEF StagedNow, PurgedNow, Staged, NoRecord
  <1>4. CASE ClaimedNow(q)
    BY <1>4 DEF ClaimedNow
  <1>5. CASE AgedNow(q) \/ outbox'[q] = outbox[q]
    BY <1>2, <1>5 DEF AgedNow
  <1>6. ASSUME NEW w \in Relay, SettledNow(w, q)
        PROVE  outbox'[q].claim_owner = NoOwner /\ outbox'[q].claim_left = 0
    BY <1>6 DEF SettledNow
  <1> QED BY <1>1, <1>3, <1>4, <1>5, <1>6 DEF RowStep

\* The stream forgets nothing, and stores only what was sent.
BrokerStep(q) ==
    \/ stored'[q] = stored[q]
    \/ /\ stored'[q] = AtMost(stored[q] + 1, StoreCap)
       /\ \/ late[q] > 0
          \/ \E w \in Relay : relay[w].pc = "publish" /\ relay[w].cur = q

LEMMA ArriveFacts ==
    ASSUME TypeOK, NEW r, Arrive(r), NEW q \in Row
    PROVE  /\ stored'[q] = stored[q] \/ (q = r /\ stored'[q] = AtMost(stored[q] + 1, StoreCap))
  BY DEF TypeOK, Arrive

LEMMA EveryBrokerStep == TypeOK /\ [Next]_vars => \A q \in Row : BrokerStep(q)
  <1> SUFFICES ASSUME TypeOK, [Next]_vars, NEW q \in Row PROVE BrokerStep(q)
    OBVIOUS
  <1>1. CASE UNCHANGED stored
    BY <1>1 DEF BrokerStep
  <1>2. ASSUME NEW r \in Row, ReceiveLate(r) PROVE BrokerStep(q)
    BY <1>2, ArriveFacts DEF ReceiveLate, BrokerStep
  <1>3. ASSUME NEW w \in Relay, Receive(w) PROVE BrokerStep(q)
    <2>1. PICK r : r = relay[w].cur /\ Arrive(r)
      BY <1>3 DEF Receive
    <2> QED BY <1>3, <2>1, ArriveFacts DEF Receive, BrokerStep
  <1> QED
    BY <1>1, <1>2, <1>3
       DEF Next, RelayStep, Enqueue, LoseLate, Purge, Tick, SlowTick, TimePasses, Claim,
           ParkPoison, CheckHeld, CheckLapsed, PublishOk, PublishErr, MarkPublished,
           RecordFailure, Release, Restart, ClaimReplyLost, DbError, Shutdown, Crash, vars

LEMMA StoredStays ==
    ASSUME TypeOK, [Next]_vars, NEW q \in Row, stored[q] > 0
    PROVE  stored'[q] > 0
  BY EveryBrokerStep DEF BrokerStep, AtMost, TypeOK

LEMMA PublishedStep ==
    ASSUME TypeOK, DrainInv, [Next]_vars
    PROVE  PublishedWasStored'
  <1> SUFFICES ASSUME NEW q \in Row, outbox'[q].status = "published"
               PROVE  stored'[q] > 0
    BY DEF PublishedWasStored
  <1>1. stored[q] > 0
    <2>1. RowStep(q)
      BY EveryRowStep
    <2>2. outbox[q].status = "published" => stored[q] > 0
      BY DEF DrainInv, PublishedWasStored
    <2>3. ~StagedNow(q) /\ ~ClaimedNow(q) /\ ~PurgedNow(q)
      BY DEF StagedNow, Staged, ClaimedNow, PurgedNow, NoRecord
    <2>4. CASE AgedNow(q) \/ outbox'[q] = outbox[q]
      BY <2>2, <2>4 DEF AgedNow
    <2>5. ASSUME NEW w \in Relay, SettledNow(w, q) PROVE stored[q] > 0
      <3>1. relay[w].pc = "mark" /\ relay[w].cur = q => stored[q] > 0
        BY DEF DrainInv, BatchesAreSound, BatchIsSound
      <3> QED BY <2>2, <2>5, <3>1 DEF SettledNow
    <2> QED BY <2>1, <2>3, <2>4, <2>5 DEF RowStep
  <1> QED BY <1>1, StoredStays

LEMMA OnceStagedStays ==
    ASSUME TypeOK, DrainInv, [Next]_vars, NEW q \in Row, OnceStaged(q)
    PROVE  OnceStaged(q)'
  <1>1. CASE stored[q] > 0
    BY <1>1, StoredStays DEF OnceStaged
  <1>2. CASE outbox[q].status = "published"
    BY <1>1, <1>2 DEF DrainInv, PublishedWasStored
  <1>3. CASE outbox[q].status \notin {"absent", "published"}
    <2>1. RowStep(q)
      BY EveryRowStep
    <2>2. ~PurgedNow(q) /\ ~StagedNow(q)
      BY <1>3 DEF PurgedNow, Purgeable, StagedNow
    <2>3. outbox'[q].status # "absent"
      BY <1>3, <2>1, <2>2 DEF RowStep, ClaimedNow, AgedNow, SettledNow
    <2> QED BY <2>3 DEF OnceStaged
  <1> QED BY <1>1, <1>2, <1>3 DEF OnceStaged

\* A relay that does not move keeps its part of the invariant.
LEMMA SoundWhileWaiting ==
    ASSUME TypeOK, DrainInv, [Next]_vars, NEW v \in Relay, relay'[v] = relay[v]
    PROVE  BatchIsSound(v)'
  <1>1. BatchIsSound(v)
    BY DEF DrainInv, BatchesAreSound
  <1>2. relay[v].pc \in {"publish", "mark", "fail"} =>
            relay[v].cur \in Row /\ Publishable(relay[v].cur) /\ OnceStaged(relay[v].cur)'
    <2>1. SUFFICES ASSUME relay[v].pc \in {"publish", "mark", "fail"},
                          NEW r \in Row, r = relay[v].cur, OnceStaged(r)
                   PROVE  OnceStaged(r)'
      BY <1>1 DEF BatchIsSound, OnceStaged
    <2> QED BY <2>1, OnceStagedStays
  <1>3. relay[v].pc = "mark" \/ relay[v].acked => stored'[relay[v].cur] > 0
    BY <1>1, StoredStays DEF BatchIsSound
  <1> QED BY <1>1, <1>2, <1>3 DEF BatchIsSound, Working, Publishable, OnceStaged

\* A relay that moves to a place where no row is in hand.
LEMMA SoundEmptyHanded ==
    ASSUME NEW w \in Relay, ~relay'[w].acked,
           relay'[w].pc \notin {"publish", "mark", "fail"},
           relay'[w].pc \in {"idle", "stopped"} \/ relay'[w].owner # NoOwner
    PROVE  BatchIsSound(w)'
  BY DEF BatchIsSound, Working

LEMMA BatchesStep ==
    ASSUME TypeOK, DrainInv, [Next]_vars
    PROVE  BatchesAreSound'
  <1> SUFFICES ASSUME NEW v \in Relay PROVE BatchIsSound(v)'
    BY DEF BatchesAreSound
  <1>1. CASE relay'[v] = relay[v]
    BY <1>1, SoundWhileWaiting
  <1>2. relay \in [Relay -> RelayState] /\ BatchIsSound(v)
    BY DEF TypeOK, DrainInv, BatchesAreSound
  <1>3. ASSUME NEW w \in Relay, Claim(w), relay'[v] # relay[v] PROVE BatchIsSound(v)'
    <2>1. PICK S \in Candidates(w), o \in FreshOwners :
            relay' = [relay EXCEPT ![w] = Locals("next", o,
                  [r \in Row |-> IF r \in S THEN outbox[r].attempts + 1 ELSE 0], NoRow)]
      BY <1>3 DEF Claim
    <2>2. relay'[v].pc = "next" /\ relay'[v].owner = o /\ ~relay'[v].acked
      BY <1>2, <1>3, <2>1, LocalsFacts
    <2>3. o # NoOwner
      BY DEF FreshOwners
    <2> QED BY <2>2, <2>3, SoundEmptyHanded
  <1>4. ASSUME NEW w \in Relay, ParkPoison(w) \/ MarkPublished(w), relay'[v] # relay[v]
        PROVE  BatchIsSound(v)'
    <2>1. PICK r : relay' = [relay EXCEPT ![w] = Without(w, r)]
      BY <1>4 DEF ParkPoison, MarkPublished
    <2>2. v = w /\ relay'[v] = Without(v, r)
      BY <1>2, <1>4, <2>1
    <2>3. relay[v].owner # NoOwner
      BY <1>2, <1>4, <2>2 DEF ParkPoison, MarkPublished, BatchIsSound, Working
    <2> QED BY <2>2, <2>3, LocalsFacts, SoundEmptyHanded
  <1>5. ASSUME NEW w \in Relay, CheckHeld(w), relay'[v] # relay[v] PROVE BatchIsSound(v)'
    <2>1. PICK r \in Row : /\ Publishable(r) /\ StillHeld(w, r)
                           /\ relay' = [relay EXCEPT ![w] = Handling(w, "publish", r)]
      BY <1>5 DEF CheckHeld, Oldest, Batch
    <2>2. v = w /\ relay'[v] = Handling(v, "publish", r)
      BY <1>2, <1>5, <2>1
    <2>3. relay[v].owner # NoOwner
      BY <1>2, <1>5, <2>2 DEF CheckHeld, BatchIsSound, Working
    <2>4. OnceStaged(r)
      BY <2>1, <2>2, <2>3
         DEF StillHeld, OwnerMatches, OnceStaged, DrainInv, ClaimsAreOfPendingRows
    <2>5. OnceStaged(r)'
      BY <2>4, OnceStagedStays
    <2>6. /\ relay'[v].pc = "publish" /\ relay'[v].owner = relay[v].owner
          /\ relay'[v].cur = r /\ ~relay'[v].acked
      BY <2>2, LocalsFacts
    <2> QED BY <2>1, <2>3, <2>5, <2>6 DEF BatchIsSound, Publishable, OnceStaged
  <1>6. ASSUME NEW w \in Relay, PublishOk(w) \/ PublishErr(w), relay'[v] # relay[v]
        PROVE  BatchIsSound(v)'
    <2>1. PICK label \in {"mark", "fail"} :
              relay' = [relay EXCEPT ![w] = Handling(w, label, relay[w].cur)]
              /\ (label = "mark" => relay[w].acked)
      BY <1>6 DEF PublishOk, AckSeen, PublishErr
    <2>2. v = w /\ relay'[v] = Handling(v, label, relay[v].cur) /\ relay[v].pc = "publish"
      BY <1>2, <1>6, <2>1 DEF PublishOk, PublishErr
    <2>3. PICK r \in Row : /\ r = relay[v].cur /\ Publishable(r) /\ OnceStaged(r)
                           /\ relay[v].owner # NoOwner
                           /\ (relay[v].acked => stored[r] > 0)
      BY <1>2, <2>2 DEF BatchIsSound, Working
    <2>4. OnceStaged(r)' /\ (label = "mark" => stored'[r] > 0)
      BY <2>1, <2>2, <2>3, <1>6, OnceStagedStays, StoredStays
    <2>5. /\ relay'[v].pc = label /\ relay'[v].owner = relay[v].owner
          /\ relay'[v].cur = r /\ ~relay'[v].acked
      BY <2>2, <2>3, LocalsFacts
    <2> QED BY <2>3, <2>4, <2>5 DEF BatchIsSound, Publishable, OnceStaged
  <1>7. ASSUME NEW w \in Relay, RecordFailure(w) \/ DbError(w), relay'[v] # relay[v]
        PROVE  BatchIsSound(v)'
    <2>1. PICK label \in {"release", "abort"} :
              \/ relay' = [relay EXCEPT ![w] = Dropping(w, label)]
              \/ relay' = [relay EXCEPT ![w] = AtRest("idle")]
      BY <1>7 DEF RecordFailure, DbError
    <2>2. /\ v = w
          /\ relay'[v] = Dropping(v, label) \/ relay'[v] = AtRest("idle")
      BY <1>2, <1>7, <2>1
    <2>3. relay[v].owner # NoOwner
      BY <1>2, <1>7, <2>2 DEF RecordFailure, DbError, BatchIsSound, Working
    <2> QED BY <2>2, <2>3, LocalsFacts, SoundEmptyHanded
  <1>8. ASSUME NEW w \in Relay, relay'[v] # relay[v],
               CheckLapsed(w) \/ Release(w) \/ Shutdown(w) \/ Crash(w) \/ Restart(w)
        PROVE  BatchIsSound(v)'
    <2>1. PICK label \in {"idle", "stopped"} : relay' = [relay EXCEPT ![w] = AtRest(label)]
      BY <1>8 DEF CheckLapsed, Release, Shutdown, Crash, Restart
    <2>2. relay'[v] = AtRest(label)
      BY <1>2, <1>8, <2>1
    <2> QED BY <2>2, LocalsFacts, SoundEmptyHanded
  <1>9. ASSUME NEW w \in Relay, Receive(w), relay'[v] # relay[v] PROVE BatchIsSound(v)'
    <2>1. /\ v = w /\ relay[v].pc = "publish"
          /\ relay'[v] = [relay[v] EXCEPT !.acked = TRUE]
          /\ relay[v] \in RelayState
      BY <1>2, <1>9 DEF Receive
    <2>2. /\ relay'[v].acked /\ relay'[v].pc = "publish"
          /\ relay'[v].owner = relay[v].owner /\ relay'[v].cur = relay[v].cur
      BY <2>1, AnsweredFacts
    <2>3. PICK r \in Row : /\ r = relay[v].cur /\ Publishable(r) /\ OnceStaged(r)
                           /\ relay[v].owner # NoOwner
      BY <1>2, <2>1 DEF BatchIsSound, Working
    <2>4. OnceStaged(r)'
      BY <2>3, OnceStagedStays
    <2>5. stored'[r] > 0
      <3>1. Arrive(r)
        BY <1>9, <2>1, <2>3 DEF Receive
      <3>2. CASE InWindow(r)
        BY <3>2, StoredStays DEF InWindow, DrainInv, WindowIsSound
      <3>3. CASE ~InWindow(r)
        BY <3>1, <3>3 DEF Arrive, AtMost, TypeOK
      <3> QED BY <3>2, <3>3
    <2> QED BY <2>2, <2>3, <2>4, <2>5 DEF BatchIsSound, Publishable, OnceStaged
  <1> QED
    BY <1>1, <1>3, <1>4, <1>5, <1>6, <1>7, <1>8, <1>9
       DEF Next, RelayStep, Enqueue, ReceiveLate, LoseLate, Purge, Tick, SlowTick,
           TimePasses, ClaimReplyLost, vars

LEMMA LateStep ==
    ASSUME TypeOK, DrainInv, [Next]_vars
    PROVE  LateCopiesAreSound'
  <1> SUFFICES ASSUME NEW q \in Row, late'[q] > 0
               PROVE  Publishable(q) /\ OnceStaged(q)'
    BY DEF LateCopiesAreSound, Publishable, OnceStaged
  <1>1. \/ late[q] > 0
        \/ \E w \in Relay : relay[w].pc = "publish" /\ relay[w].cur = q
    <2>1. CASE UNCHANGED late
      BY <2>1
    <2>2. ASSUME NEW r \in Row, late' = [late EXCEPT ![r] = @ - 1]
          PROVE  late[q] > 0
      BY <2>2 DEF TypeOK
    <2>3. ASSUME NEW w \in Relay, PublishErr(w) \/ Crash(w)
          PROVE  late[q] > 0 \/ (relay[w].pc = "publish" /\ relay[w].cur = q)
      <3>1. \/ UNCHANGED late
            \/ \E r \in Unanswered(w) : late' = [late EXCEPT ![r] = @ + 1]
        BY <2>3 DEF PublishErr, Crash
      <3> QED BY <3>1 DEF Unanswered, TypeOK
    <2> QED
      BY <2>1, <2>2, <2>3
         DEF Next, RelayStep, Enqueue, ReceiveLate, LoseLate, Purge, Tick, SlowTick,
             TimePasses, Claim, ParkPoison, CheckHeld, CheckLapsed, PublishOk,
             MarkPublished, RecordFailure, Release, Receive, Restart, ClaimReplyLost,
             DbError, Shutdown, vars
  <1>2. Publishable(q) /\ OnceStaged(q)
    BY <1>1 DEF DrainInv, LateCopiesAreSound, BatchesAreSound, BatchIsSound
  <1> QED BY <1>2, OnceStagedStays

LEMMA WindowStep ==
    ASSUME TypeOK, DrainInv, [Next]_vars
    PROVE  WindowIsSound'
  <1> SUFFICES ASSUME NEW q \in Row, dedup_left'[q] > 0
               PROVE  stored'[q] > 0
    BY DEF WindowIsSound
  <1>1. CASE stored[q] > 0
    BY <1>1, StoredStays
  <1>2. CASE dedup_left[q] > 0
    BY <1>1, <1>2 DEF DrainInv, WindowIsSound
  <1>3. ASSUME NEW r, Arrive(r), ~(dedup_left[q] > 0) PROVE stored'[q] > 0
    BY <1>3 DEF Arrive, AtMost, TypeOK
  <1>4. CASE TimePasses
    BY <1>2, <1>4 DEF TimePasses, Earlier, TypeOK
  <1>5. CASE UNCHANGED dedup_left
    BY <1>2, <1>5
  <1> QED
    BY <1>2, <1>3, <1>4, <1>5
       DEF Next, RelayStep, Enqueue, ReceiveLate, LoseLate, Purge, Tick, SlowTick,
           Claim, ParkPoison, CheckHeld, CheckLapsed, PublishOk, PublishErr, MarkPublished,
           RecordFailure, Release, Receive, Restart, ClaimReplyLost, DbError, Shutdown,
           Crash, vars

LEMMA DrainInit == Init => DrainInv
  <1> SUFFICES ASSUME Init PROVE DrainInv
    OBVIOUS
  <1>1. ClaimsAreOfPendingRows
    BY DEF Init, ClaimsAreOfPendingRows, LeaseLive, Staged, NoRecord
  <1>2. BatchesAreSound
    BY LocalsFacts DEF Init, BatchesAreSound, BatchIsSound, Working
  <1>3. PublishedWasStored
    BY DEF Init, PublishedWasStored, Staged, NoRecord
  <1> QED
    BY <1>1, <1>2, <1>3 DEF Init, DrainInv, LateCopiesAreSound, WindowIsSound

\* The inductive invariant holds: claims, acks, late copies and the broker's
\* memory all belong to rows that were staged and, once acknowledged, stored.
THEOREM DrainInvariant == Spec => []DrainInv
  <1>1. TypeOK /\ DrainInv /\ [Next]_vars => DrainInv'
    BY ClaimsStep, BatchesStep, LateStep, WindowStep, PublishedStep DEF DrainInv
  <1> QED BY <1>1, DrainInit, TypeInvariant, PTL DEF Spec

----------------------------------------------------------------------------
(* What follows for users of the outbox.                                   *)

\* No lost message: whatever crashes, lags or fails, a row that says
\* `published` has been stored by the stream (ack before mark_published).
THEOREM PublishedIsStored == Spec => []PublishedWasStored
  BY DrainInvariant, PTL DEF DrainInv

\* Outcomes are final: no stale relay, retry or purge turns `published` or
\* `failed` back, and nothing still to be delivered is deleted.
THEOREM OutcomesAreFinal == Spec => TerminalIsFinal
  <1>1. TypeOK /\ DrainInv /\ [Next]_vars => [FinalStep]_vars
    <2> SUFFICES ASSUME TypeOK, DrainInv, [Next]_vars PROVE FinalStep
      OBVIOUS
    <2> SUFFICES ASSUME NEW q \in Row
                 PROVE  /\ outbox[q].status = "failed" => outbox'[q].status = "failed"
                        /\ outbox[q].status = "published" =>
                              \/ outbox'[q].status = "published"
                              \/ /\ outbox'[q].status = "absent" /\ RetentionOn
                                 /\ outbox[q].retain_left = 0
                        /\ outbox[q].status = "pending" => outbox'[q].status # "absent"
      BY DEF FinalStep
    <2>1. RowStep(q)
      BY EveryRowStep
    <2>2. CASE \/ outbox'[q] = outbox[q] \/ AgedNow(q)
               \/ StagedNow(q) \/ ClaimedNow(q) \/ PurgedNow(q)
      BY <2>2 DEF AgedNow, StagedNow, ClaimedNow, Claimable, PurgedNow, Purgeable, NoRecord
    <2>3. ASSUME NEW w \in Relay, SettledNow(w, q)
          PROVE  outbox[q].status = "pending" /\ outbox'[q].status # "absent"
      BY <2>3 DEF SettledNow, DrainInv, ClaimsAreOfPendingRows, BatchesAreSound, BatchIsSound
    <2> QED BY <2>1, <2>2, <2>3 DEF RowStep
  <1> QED BY <1>1, TypeInvariant, DrainInvariant, PTL DEF Spec, TerminalIsFinal

\* What the stream has stored is a row of the table.
StoredIsKept == \A r \in Row : stored[r] > 0 => outbox[r].status # "absent"

LEMMA StaysStaged ==
    ASSUME TypeOK, ~RetentionOn, [Next]_vars, NEW q \in Row, outbox[q].status # "absent"
    PROVE  outbox'[q].status # "absent"
  <1>1. RowStep(q)
    BY EveryRowStep
  <1> QED BY <1>1 DEF RowStep, StagedNow, ClaimedNow, AgedNow, PurgedNow, SettledNow

\* As long as no retention is configured no row goes away, so that whatever is
\* published, or on its way, has its row.
THEOREM StoredRowsAreKept == ~RetentionOn => (Spec => []StoredIsKept)
  <1> SUFFICES ASSUME ~RetentionOn PROVE Spec => []StoredIsKept
    OBVIOUS
  <1>1. Init => StoredIsKept
    BY DEF Init, StoredIsKept
  <1>2. TypeOK /\ DrainInv /\ StoredIsKept /\ [Next]_vars => StoredIsKept'
    <2> SUFFICES ASSUME TypeOK, DrainInv, StoredIsKept, [Next]_vars,
                        NEW q \in Row, stored'[q] > 0
                 PROVE  outbox'[q].status # "absent"
      BY DEF StoredIsKept
    <2>1. stored[q] > 0 \/ late[q] > 0 \/ \E w \in Relay : relay[w].pc = "publish" /\ relay[w].cur = q
      <3>1. BrokerStep(q)
        BY EveryBrokerStep
      <3> QED BY <3>1 DEF BrokerStep
    <2>2. OnceStaged(q)
      BY <2>1
      DEF DrainInv, LateCopiesAreSound, BatchesAreSound, BatchIsSound, OnceStaged
    <2>3. outbox[q].status # "absent"
      BY <2>2 DEF OnceStaged, StoredIsKept
    <2> QED BY <2>3, StaysStaged
  <1> QED BY <1>1, <1>2, TypeInvariant, DrainInvariant, PTL DEF Spec

\* A completed business key is never enqueued again, as the documents say,
\* where RELAY_RETENTION_HOURS is not set (ON CONFLICT DO NOTHING).
THEOREM KeptKeysAreNotReenqueued == ~RetentionOn => (Spec => NeverReenqueued)
  <1> SUFFICES ASSUME ~RetentionOn PROVE Spec => NeverReenqueued
    OBVIOUS
  <1>1. StoredIsKept =>
            [\A r \in Row : outbox[r].status = "absent" /\ stored[r] > 0
                              => outbox'[r].status = "absent"]_vars
    BY DEF StoredIsKept
  <1> QED BY <1>1, StoredRowsAreKept, PTL DEF NeverReenqueued

\* A live lease fences its row: until it lapses only the relay that holds it
\* changes the row's status, attempts or claim, even when other relays are
\* stale, restarted or failing.
THEOREM LeasesFence == Spec => FencedByOwner
  <1>1. TypeOK /\ DrainInv /\ [Next]_vars => [FencedStep]_vars
    <2> SUFFICES ASSUME TypeOK, DrainInv, [Next]_vars, NEW q \in Row, LeaseLive(q),
                        Columns(outbox'[q]) # Columns(outbox[q])
                 PROVE  \E w \in Relay : /\ relay[w].owner = outbox[q].claim_owner
                                          /\ relay'[w] # relay[w]
      BY DEF FencedStep
    <2>1. RowStep(q)
      BY EveryRowStep
    <2>2. outbox[q].status = "pending"
      BY DEF DrainInv, ClaimsAreOfPendingRows
    <2>3. ~StagedNow(q) /\ ~ClaimedNow(q) /\ ~PurgedNow(q)
      BY <2>2 DEF StagedNow, ClaimedNow, Claimable, PurgedNow, Purgeable
    <2>4. ~AgedNow(q) /\ outbox'[q] # outbox[q]
      BY DEF AgedNow, Columns
    <2> QED BY <2>1, <2>3, <2>4 DEF RowStep, SettledNow
  <1> QED BY <1>1, TypeInvariant, DrainInvariant, PTL DEF Spec, FencedByOwner

----------------------------------------------------------------------------
(* The relay implements the delivery contract.                             *)

\* Which phases a statement may change: those of the one row it settles.
StatusKept(table) == \A q \in Row : table[q].status = outbox[q].status
StatusKeptBut(r, table) == \A q \in Row \ {r} : table[q].status = outbox[q].status

LEMMA StatusOfStatements ==
    ASSUME outbox \in [Row -> RowState], NEW r, NEW o
    PROVE  /\ StatusKeptBut(r, Published(r, o)) /\ StatusKeptBut(r, Failed(r, o))
           /\ StatusKept(Rescheduled(r, o)) /\ StatusKept(Released(o))
           /\ r \in Row => /\ Failed(r, o)[r].status \in {outbox[r].status, "failed"}
                           /\ Failed(r, o)[r].status # outbox[r].status =>
                                 outbox[r].claim_owner = o
           /\ r \in Row => /\ Published(r, o)[r].status \in {outbox[r].status, "published"}
                           /\ Published(r, o)[r].status # outbox[r].status =>
                                 outbox[r].claim_owner = o
  <1>1. StatusKeptBut(r, Published(r, o)) /\ StatusKeptBut(r, Failed(r, o))
    BY DEF StatusKeptBut, Published, Failed, IfOwned
  <1>2. StatusKept(Rescheduled(r, o))
    BY RescheduledRowFacts DEF StatusKept, Rescheduled, IfOwned
  <1>3. StatusKept(Released(o))
    BY ReleasedRowFacts DEF StatusKept, Released, OwnedPending
  <1>4. ASSUME r \in Row
        PROVE  /\ Failed(r, o)[r].status \in {outbox[r].status, "failed"}
               /\ Failed(r, o)[r].status # outbox[r].status => outbox[r].claim_owner = o
    BY <1>4, FailedRowFacts DEF Failed, IfOwned, OwnerMatches
  <1>5. ASSUME r \in Row
        PROVE  /\ Published(r, o)[r].status \in {outbox[r].status, "published"}
               /\ Published(r, o)[r].status # outbox[r].status => outbox[r].claim_owner = o
    BY <1>5, PublishedRowFacts DEF Published, IfOwned, OwnerMatches
  <1> QED BY <1>1, <1>2, <1>3, <1>4, <1>5

\* The steps of the contract, seen from the table.
LEMMA PhaseFollowsStatus ==
    ASSUME NEW q \in Row, outbox'[q].status = outbox[q].status
    PROVE  Phase(q)' = Phase(q)
  BY DEF Phase

LEMMA Stutters ==
    ASSUME UNCHANGED stored, StatusKept(outbox')
    PROVE  UNCHANGED Contract!contractVars
  <1>1. \A q \in Row : Phase(q)' = Phase(q)
    BY PhaseFollowsStatus DEF StatusKept
  <1> QED BY <1>1 DEF Contract!contractVars

LEMMA Parks ==
    ASSUME UNCHANGED stored, NEW r \in Row, StatusKeptBut(r, outbox'),
           outbox[r].status = "pending", outbox'[r].status = "failed"
    PROVE  Contract!Park(r)
  <1>1. \A q \in Row \ {r} : Phase(q)' = Phase(q)
    BY PhaseFollowsStatus DEF StatusKeptBut
  <1>2. Phase(r) = "staged" /\ Phase(r)' = "dead"
    BY DEF Phase
  <1> QED BY <1>1, <1>2 DEF Contract!Park

LEMMA Completes ==
    ASSUME UNCHANGED stored, NEW r \in Row, StatusKeptBut(r, outbox'), stored[r] > 0,
           outbox[r].status = "pending", outbox'[r].status = "published"
    PROVE  Contract!Complete
  <1>1. \A q \in Row \ {r} : Phase(q)' = Phase(q)
    BY PhaseFollowsStatus DEF StatusKeptBut
  <1>2. Phase(r) = "staged" /\ Phase(r)' = "done"
    BY DEF Phase
  <1> DEFINE S == {r}
  <1>3. S \in SUBSET {q \in Row : Phase(q) = "staged" /\ stored[q] > 0} /\ S # {}
    BY <1>2
  <1>4. \A q \in Row : Phase(q)' = IF q \in S THEN "done" ELSE Phase(q)
    BY <1>1, <1>2
  <1> HIDE DEF S
  <1> QED BY <1>3, <1>4 DEF Contract!Complete

LEMMA ArrivalStores ==
    ASSUME TypeOK, UNCHANGED outbox, NEW r \in Row, Arrive(r),
           Publishable(r), OnceStaged(r)
    PROVE  Contract!Store(r) \/ UNCHANGED Contract!contractVars
  <1>1. CASE InWindow(r)
    BY <1>1, Stutters DEF Arrive, StatusKept
  <1>2. CASE ~InWindow(r)
    <2>1. stored' = [stored EXCEPT ![r] = IF @ < StoreCap THEN @ + 1 ELSE @]
      BY <1>2 DEF Arrive, AtMost, TypeOK
    <2>2. Phase(r) # "none" \/ stored[r] > 0
      BY DEF OnceStaged, Phase, TypeOK, RowState, Status
    <2>3. \A q \in Row : Phase(q)' = Phase(q)
      BY PhaseFollowsStatus
    <2> QED BY <2>1, <2>2, <2>3 DEF Contract!Store, Publishable
  <1> QED BY <1>1, <1>2

\* A relay that parks or marks row r does so in a step of the contract.
LEMMA ParkImplements ==
    ASSUME TypeOK, DrainInv, UNCHANGED stored, NEW w \in Relay, Working(w), NEW r \in Row,
           outbox' = Failed(r, relay[w].owner)
    PROVE  Contract!Park(r) \/ UNCHANGED Contract!contractVars
  <1>1. outbox \in [Row -> RowState] /\ relay[w].owner # NoOwner
    BY DEF TypeOK, DrainInv, BatchesAreSound, BatchIsSound
  <1>2. PICK o : o = relay[w].owner
    OBVIOUS
  <1>3. /\ StatusKeptBut(r, outbox')
        /\ outbox'[r].status \in {outbox[r].status, "failed"}
        /\ outbox'[r].status # outbox[r].status => outbox[r].claim_owner = o
    BY <1>1, <1>2, StatusOfStatements
  <1>4. CASE outbox'[r].status = outbox[r].status
    BY <1>3, <1>4, Stutters DEF StatusKept, StatusKeptBut
  <1>5. CASE outbox'[r].status # outbox[r].status
    <2>1. outbox[r].status = "pending" /\ outbox'[r].status = "failed"
      BY <1>1, <1>2, <1>3, <1>5 DEF DrainInv, ClaimsAreOfPendingRows
    <2> QED BY <1>3, <2>1, Parks
  <1> QED BY <1>4, <1>5

LEMMA MarkImplements ==
    ASSUME TypeOK, DrainInv, UNCHANGED stored, NEW w \in Relay, relay[w].pc = "mark",
           NEW r \in Row, r = relay[w].cur, outbox' = Published(r, relay[w].owner)
    PROVE  Contract!Complete \/ UNCHANGED Contract!contractVars
  <1>1. outbox \in [Row -> RowState] /\ relay[w].owner # NoOwner /\ stored[r] > 0
    BY DEF TypeOK, DrainInv, BatchesAreSound, BatchIsSound, Working
  <1>2. PICK o : o = relay[w].owner
    OBVIOUS
  <1>3. /\ StatusKeptBut(r, outbox')
        /\ outbox'[r].status \in {outbox[r].status, "published"}
        /\ outbox'[r].status # outbox[r].status => outbox[r].claim_owner = o
    BY <1>1, <1>2, StatusOfStatements
  <1>4. CASE outbox'[r].status = outbox[r].status
    BY <1>3, <1>4, Stutters DEF StatusKept, StatusKeptBut
  <1>5. CASE outbox'[r].status # outbox[r].status
    <2>1. outbox[r].status = "pending" /\ outbox'[r].status = "published"
      BY <1>1, <1>2, <1>3, <1>5 DEF DrainInv, ClaimsAreOfPendingRows
    <2> QED BY <1>1, <1>3, <2>1, Completes
  <1> QED BY <1>4, <1>5

LEMMA ContractInit == Init => Contract!Init
  <1> SUFFICES ASSUME Init PROVE Contract!Init
    OBVIOUS
  <1>1. \A q \in Row : Phase(q) = IF q \in Poison THEN "staged" ELSE "none"
    BY DEF Init, Phase, Staged, NoRecord
  <1> QED BY <1>1 DEF Init, Contract!Init

LEMMA ContractStep ==
    TypeOK /\ DrainInv /\ [Next]_vars => [Contract!Next]_(Contract!contractVars)
  <1> SUFFICES ASSUME TypeOK, DrainInv, [Next]_vars
               PROVE  Contract!Next \/ UNCHANGED Contract!contractVars
    OBVIOUS
  <1>0. outbox \in [Row -> RowState]
    BY DEF TypeOK
  <1>1. CASE UNCHANGED <<outbox, stored>>
    BY <1>1, Stutters DEF StatusKept
  <1>2. ASSUME NEW r \in Row, Enqueue(r) PROVE Contract!Next
    <2>1. outbox[r].status = "absent" /\ outbox' = [outbox EXCEPT ![r] = Staged]
      BY <1>2 DEF Enqueue
    <2>2. \A q \in Row \ {r} : Phase(q)' = Phase(q)
      BY <2>1, <1>0, PhaseFollowsStatus
    <2>3. Phase(r) = "none" /\ Phase(r)' = "staged"
      BY <2>1, <1>0 DEF Phase, Staged, NoRecord
    <2>4. Contract!Stage(r)
      BY <1>2, <2>2, <2>3 DEF Enqueue, Publishable, Contract!Stage
    <2> QED BY <2>4 DEF Contract!Next
  <1>3. CASE Purge
    <2> DEFINE S == {r \in Row : Purgeable(r)}
    <2>1. \A q \in S : Phase(q) = "done" /\ Phase(q)' = "none"
      BY <1>3 DEF Purge, Purgeable, Phase, NoRecord
    <2>2. \A q \in Row \ S : Phase(q)' = Phase(q)
      BY <1>3, PhaseFollowsStatus DEF Purge
    <2>3. S # {}
      BY <1>3 DEF Purge
    <2>4. UNCHANGED stored
      BY <1>3 DEF Purge
    <2> HIDE DEF S
    <2>5. S \in SUBSET Row
      BY DEF S
    <2>6. Contract!Forget
      BY <2>1, <2>2, <2>3, <2>4, <2>5 DEF Contract!Forget
    <2> QED BY <2>6 DEF Contract!Next
  <1>4. CASE TimePasses
    BY <1>0, <1>4, AgedRowFacts, Stutters DEF TimePasses, StatusKept
  <1>5. ASSUME NEW w \in Relay, Claim(w) \/ ClaimReplyLost(w)
        PROVE  UNCHANGED Contract!contractVars
    <2>1. PICK S \in Candidates(w), o \in FreshOwners : outbox' = LeasedTo(S, o)
      BY <1>5 DEF Claim, ClaimReplyLost
    <2>2. S \in SUBSET Row /\ o \in Owner
      BY CandidatesFacts DEF FreshOwners
    <2>3. StatusKept(LeasedTo(S, o))
      BY <1>0, <2>2, LeasedToFacts DEF StatusKept
    <2>4. StatusKept(outbox') /\ UNCHANGED stored
      BY <1>5, <2>1, <2>3 DEF StatusKept, Claim, ClaimReplyLost
    <2> QED BY <2>4, Stutters
  <1>6. ASSUME NEW w \in Relay, ParkPoison(w)
        PROVE  Contract!Next \/ UNCHANGED Contract!contractVars
    <2>1. PICK r \in Row : outbox' = Failed(r, relay[w].owner)
      BY <1>6 DEF ParkPoison, Oldest, Batch
    <2> QED BY <1>6, <2>1, ParkImplements DEF ParkPoison, Working, Contract!Next
  <1>7. ASSUME NEW w \in Relay, MarkPublished(w)
        PROVE  Contract!Next \/ UNCHANGED Contract!contractVars
    <2>1. PICK r \in Row : r = relay[w].cur
      BY <1>7 DEF MarkPublished, DrainInv, BatchesAreSound, BatchIsSound
    <2> QED BY <1>7, <2>1, MarkImplements DEF MarkPublished, Contract!Next
  <1>8. ASSUME NEW w \in Relay, relay[w].pc = "fail", outbox' = FailureRecorded(w),
               UNCHANGED stored
        PROVE  Contract!Next \/ UNCHANGED Contract!contractVars
    <2>1. PICK r \in Row : r = relay[w].cur
      BY <1>8 DEF DrainInv, BatchesAreSound, BatchIsSound
    <2>2. CASE outbox' = Failed(r, relay[w].owner)
      BY <1>8, <2>2, ParkImplements DEF Working, Contract!Next
    <2>3. CASE outbox' = Rescheduled(r, relay[w].owner)
      BY <1>0, <1>8, <2>3, StatusOfStatements, Stutters
    <2> QED BY <1>8, <2>1, <2>2, <2>3 DEF FailureRecorded
  <1>9. ASSUME NEW w \in Relay, outbox' = Released(relay[w].owner), UNCHANGED stored
        PROVE  UNCHANGED Contract!contractVars
    BY <1>0, <1>9, StatusOfStatements, Stutters
  <1>10. ASSUME NEW w \in Relay, DbError(w)
         PROVE  Contract!Next \/ UNCHANGED Contract!contractVars
    <2>1. CASE relay[w].pc = "next"
      <3>1. UNCHANGED outbox \/ \E r \in Row : outbox' = Failed(r, relay[w].owner)
        BY <1>10, <2>1 DEF DbError, Oldest, Batch
      <3> QED BY <1>1, <1>10, <2>1, <3>1, ParkImplements DEF DbError, Working, Contract!Next
    <2>2. CASE relay[w].pc = "mark"
      <3>1. PICK r \in Row : r = relay[w].cur
        BY <2>2 DEF DrainInv, BatchesAreSound, BatchIsSound
      <3> QED BY <1>1, <1>10, <2>2, <3>1, MarkImplements DEF DbError, Contract!Next
    <2>3. CASE relay[w].pc \in {"fail", "release", "abort"}
      BY <1>1, <1>8, <1>9, <1>10, <2>3 DEF DbError
    <2> QED BY <1>10, <2>1, <2>2, <2>3 DEF DbError
  <1>11. ASSUME NEW r \in Row, Arrive(r), UNCHANGED outbox, Publishable(r), OnceStaged(r)
         PROVE  Contract!Next \/ UNCHANGED Contract!contractVars
    BY <1>11, ArrivalStores DEF Contract!Next
  <1>12. ASSUME NEW r \in Row, ReceiveLate(r)
         PROVE  Contract!Next \/ UNCHANGED Contract!contractVars
    BY <1>11, <1>12 DEF ReceiveLate, DrainInv, LateCopiesAreSound
  <1>13. ASSUME NEW w \in Relay, Receive(w)
         PROVE  Contract!Next \/ UNCHANGED Contract!contractVars
    <2>1. PICK r \in Row : r = relay[w].cur /\ Publishable(r) /\ OnceStaged(r)
      BY <1>13 DEF Receive, DrainInv, BatchesAreSound, BatchIsSound
    <2> QED BY <1>11, <1>13, <2>1 DEF Receive
  <1> QED
    BY <1>1, <1>2, <1>3, <1>4, <1>5, <1>6, <1>7, <1>8, <1>9, <1>10, <1>12, <1>13
       DEF Next, RelayStep, LoseLate, Tick, SlowTick, CheckHeld, CheckLapsed, PublishOk,
           PublishErr, RecordFailure, Release, Restart, Shutdown, Crash, vars

\* The outbox, the relays, the retention task and the stream together behave
\* as the delivery contract: at-least-once storage of staged, publishable
\* messages only, `published` after storage, and final outcomes.
THEOREM RelayImplementsContract == Spec => ImplementsDelivery
  BY ContractInit, ContractStep, TypeInvariant, DrainInvariant, PTL
     DEF Spec, ImplementsDelivery, Contract!Spec
=============================================================================
