-------------------------- MODULE PoolInboxProofs --------------------------
(***************************************************************************)
(* Theorems about PoolInbox: its types, and its three properties for any   *)
(* number of messages, handlers and deaths and any ages.  They follow from *)
(* one invariant: a message whose effect has begun has its row as long as  *)
(* copies of it may come.                                                  *)
(***************************************************************************)
EXTENDS PoolInbox, TLAPS

----------------------------------------------------------------------------
(* The inductive invariant.                                                *)

\* Whoever holds a copy holds one of a message whose copies still come.
HandsAreSound ==
    \A h \in Handler : hand[h].pc # "idle" =>
        hand[h].msg \in Msg /\ left[hand[h].msg] \in 1..Horizon

\* One handler is before the effect of a message, which has then not run; one
\* that stamps has run it.
EffectsAreInHand ==
    \A h \in Handler :
        /\ hand[h].pc = "effect" =>
              /\ effects[hand[h].msg] = 0
              /\ \A g \in Handler : hand[g].pc = "effect" /\ hand[g].msg = hand[h].msg => g = h
        /\ hand[h].pc = "mark" => effects[hand[h].msg] > 0

InEffect(m) == \E h \in Handler : hand[h].pc = "effect" /\ hand[h].msg = m
Begun(m) == effects[m] > 0 \/ InEffect(m)

\* What has begun was published, and its row outlives its copies.
RowsOutliveCopies ==
    \A m \in Msg : Begun(m) =>
        /\ left[m] <= Horizon
        /\ left[m] > 0 => /\ rows[m].status # "absent"
                          /\ rows[m].status = "processed" => rows[m].retain_left >= left[m]

\* message_id is the primary key.
IdsAreUnique ==
    \A m, q \in Msg :
        rows[m].status # "absent" /\ rows[q].status # "absent" /\ IdOf[m] = IdOf[q] => m = q

\* A handler got to the effect of m, or further (Taken, by program counters).
GotTo(m) == effects[m] > 0 \/ m \in cut \/ InEffect(m)

\* A row is there for a handler that got to the effect.
RowsAreTaken ==
    \A m \in Msg : rows[m].status # "absent" => GotTo(m)

PoolInv ==
    /\ TypeOK
    /\ HandsAreSound
    /\ EffectsAreInHand
    /\ RowsOutliveCopies
    /\ IdsAreUnique
    /\ RowsAreTaken
    /\ EffectOnce
    /\ SkippedForACause
    /\ ProcessedHadEffect

----------------------------------------------------------------------------
(* Types.                                                                  *)

\* A row and a hand of the right fields are a record of the right type.
LEMMA RowTypes ==
    ASSUME PoolAssumption
    PROVE  /\ NoRow \in RowState /\ Claimed \in RowState /\ Processed \in RowState
           /\ Free \in HandState
           /\ \A m \in Msg, l \in Label : [pc |-> l, msg |-> m] \in HandState
  BY DEF PoolAssumption, RowState, NoRow, Claimed, Processed, HandState, Free, Label

\* A row that ages keeps its type.
LEMMA AgedRow ==
    ASSUME PoolAssumption, NEW x \in RowState
    PROVE  /\ [x EXCEPT !.retain_left = Less(@)] \in RowState
           /\ [x EXCEPT !.retain_left = Less(@)].status = x.status
           /\ [x EXCEPT !.retain_left = Less(@)].retain_left = Less(x.retain_left)
  <1>1. x.retain_left \in 0..Retention /\ x.status \in {"absent", "claimed", "processed"}
    BY DEF RowState
  <1>2. Less(x.retain_left) \in 0..Retention
    BY <1>1 DEF PoolAssumption, Less
  <1> QED  BY <1>1, <1>2 DEF RowState

\* Every step keeps the types.
LEMMA TypeStep ==
    ASSUME TypeOK, HandsAreSound, [Next]_vars
    PROVE  TypeOK'
  <1> USE PoolAssumption, RowTypes
  <1>1. ASSUME NEW m \in Msg, Publish(m) PROVE TypeOK'
    BY <1>1 DEF Publish, TypeOK, PoolAssumption
  <1>2. ASSUME NEW h \in Handler, NEW m \in Msg, Deliver(h, m) PROVE TypeOK'
    BY <1>2 DEF Deliver, TypeOK, Label
  <1>3. ASSUME NEW h \in Handler, hand[h].pc # "idle", NEW l \in Label, Goto(h, l)
        PROVE  hand' \in [Handler -> HandState]
    <2>1. [hand[h] EXCEPT !.pc = l] \in HandState
      BY <1>3 DEF TypeOK, HandState
    <2> QED  BY <1>3, <2>1 DEF Goto, TypeOK
  <1>4. ASSUME NEW h \in Handler, ClaimFresh(h) PROVE TypeOK'
    BY <1>3, <1>4 DEF ClaimFresh, TypeOK, HandsAreSound, Label
  <1>5. ASSUME NEW h \in Handler, ClaimDuplicate(h) PROVE TypeOK'
    BY <1>3, <1>5 DEF ClaimDuplicate, TypeOK, HandsAreSound, Label
  <1>6. ASSUME NEW h \in Handler, RunEffect(h) PROVE TypeOK'
    BY <1>3, <1>6 DEF RunEffect, TypeOK, HandsAreSound, Label
  <1>7. ASSUME NEW h \in Handler, MarkProcessed(h) PROVE TypeOK'
    BY <1>3, <1>7 DEF MarkProcessed, TypeOK, HandsAreSound, Label
  <1>8. ASSUME NEW h \in Handler, Finish(h) PROVE TypeOK'
    BY <1>8 DEF Finish, TypeOK
  <1>9. ASSUME NEW h \in Handler, Crash(h) PROVE TypeOK'
    BY <1>9 DEF Crash, TypeOK, HandsAreSound, PoolAssumption
  <1>10. CASE PurgeRows
    BY <1>10 DEF PurgeRows, TypeOK
  <1>11. CASE Tick
    <2>1. \A m \in Msg : (IF left[m] > Horizon THEN left[m] ELSE Less(left[m])) \in 0..Horizon + 1
      BY DEF TypeOK, PoolAssumption, Less
    <2>2. \A m \in Msg : [rows[m] EXCEPT !.retain_left = Less(@)] \in RowState
      BY AgedRow DEF TypeOK
    <2> QED  BY <1>11, <2>1, <2>2 DEF Tick, TypeOK
  <1>12. CASE UNCHANGED vars
    BY <1>12 DEF vars, TypeOK
  <1> QED
    BY <1>1, <1>2, <1>4, <1>5, <1>6, <1>7, <1>8, <1>9, <1>10, <1>11, <1>12
    DEF Next, HandlerStep

----------------------------------------------------------------------------
(* What a step leaves alone.                                               *)

\* Taken(m) in terms of program counters.
LEMMA TakenIs ==
    ASSUME TypeOK, NEW m \in Msg
    PROVE  Taken(m) <=> GotTo(m)
  BY DEF Taken, GotTo, InEffect, TypeOK, HandState

LEMMA TakenNextIs ==
    ASSUME TypeOK', NEW m \in Msg
    PROVE  Taken(m)' <=> GotTo(m)'
  BY DEF Taken, GotTo, InEffect, TypeOK, HandState

\* A handler moves on with its copy, and the others stay where they are.
LEMMA Goes ==
    ASSUME TypeOK, NEW h \in Handler, NEW l, Goto(h, l)
    PROVE  /\ hand'[h].pc = l /\ hand'[h].msg = hand[h].msg
           /\ \A g \in Handler : g # h => hand'[g] = hand[g]
  BY DEF Goto, TypeOK, HandState

\* A handler lets go of its copy, and the others stay where they are.
LEMMA LetsGo ==
    ASSUME TypeOK, NEW h \in Handler, hand' = [hand EXCEPT ![h] = Free]
    PROVE  /\ hand'[h].pc = "idle"
           /\ \A g \in Handler : g # h => hand'[g] = hand[g]
  BY DEF TypeOK, Free

\* What is skipped keeps its cause as long as what is taken stays taken.
LEMMA CausesStay ==
    ASSUME TypeOK, TypeOK', SkippedForACause, skipped' = skipped,
           \A m \in Msg : GotTo(m) => GotTo(m)'
    PROVE  SkippedForACause'
  <1>1. \A m \in Msg : Taken(m) => Taken(m)'
    BY TakenIs, TakenNextIs
  <1> QED  BY <1>1 DEF SkippedForACause

----------------------------------------------------------------------------
(* The transport.                                                          *)

\* A message that is published has begun nothing.
LEMMA PublishKeeps ==
    ASSUME PoolInv, TypeOK', NEW m \in Msg, Publish(m)
    PROVE  PoolInv'
  <1> USE DEF PoolInv
  <1>1. /\ \A q \in Msg : left'[q] = IF q = m THEN Horizon ELSE left[q]
        /\ left[m] > Horizon
    BY DEF Publish, TypeOK
  <1>2. HandsAreSound'
    BY <1>1, PoolAssumption DEF Publish, HandsAreSound, PoolAssumption
  <1>3. ~Begun(m)
    BY <1>1, PoolAssumption DEF RowsOutliveCopies, TypeOK, PoolAssumption
  <1>4. RowsOutliveCopies'
    BY <1>1, <1>3 DEF Publish, RowsOutliveCopies, Begun, InEffect
  <1> QED
    BY <1>2, <1>4
    DEF Publish, EffectsAreInHand, IdsAreUnique, RowsAreTaken, GotTo, InEffect, EffectOnce,
        SkippedForACause, Taken, ProcessedHadEffect

\* A copy in hand is one of a message whose copies come.
LEMMA DeliverKeeps ==
    ASSUME PoolInv, TypeOK', NEW h \in Handler, NEW m \in Msg, Deliver(h, m)
    PROVE  PoolInv'
  <1> USE DEF PoolInv
  <1>1. /\ hand'[h] = [pc |-> "claim", msg |-> m] /\ hand[h].pc = "idle"
        /\ \A g \in Handler : g # h => hand'[g] = hand[g]
        /\ left[m] \in 1..Horizon
    BY DEF Deliver, Deliverable, TypeOK
  <1>2. \A q \in Msg : InEffect(q)' <=> InEffect(q)
    BY <1>1 DEF InEffect
  <1>3. HandsAreSound' /\ EffectsAreInHand'
    BY <1>1 DEF Deliver, HandsAreSound, EffectsAreInHand
  <1>4. RowsOutliveCopies' /\ RowsAreTaken' /\ IdsAreUnique'
    BY <1>2 DEF Deliver, RowsOutliveCopies, RowsAreTaken, GotTo, IdsAreUnique, Begun
  <1>5. SkippedForACause'
    BY <1>2, CausesStay DEF Deliver, GotTo
  <1> QED
    BY <1>3, <1>4, <1>5 DEF Deliver, EffectOnce, ProcessedHadEffect

----------------------------------------------------------------------------
(* The handler.                                                            *)

\* A claim is won only where nothing has begun: the row would still be there.
LEMMA ClaimFreshKeeps ==
    ASSUME PoolInv, TypeOK', NEW h \in Handler, ClaimFresh(h)
    PROVE  PoolInv'
  <1> DEFINE m == hand[h].msg
  <1> USE DEF PoolInv
  <1>1. /\ m \in Msg /\ left[m] \in 1..Horizon
        /\ hand[h].pc = "claim" /\ hand'[h].pc = "effect" /\ hand'[h].msg = m
        /\ \A g \in Handler : g # h => hand'[g] = hand[g]
    BY Goes DEF ClaimFresh, HandsAreSound
  <1>2. /\ rows[m].status = "absent"
        /\ \A q \in Msg : IdOf[q] = IdOf[m] => rows[q].status = "absent"
    BY <1>1 DEF ClaimFresh, Conflict, Conflicts
  <1>3. /\ rows'[m].status = "claimed"
        /\ \A q \in Msg : q # m => rows'[q] = rows[q]
    BY <1>1 DEF ClaimFresh, TypeOK, Claimed
  <1>4. ~Begun(m) /\ effects[m] = 0
    BY <1>1, <1>2 DEF RowsOutliveCopies, Begun, TypeOK
  <1>5. \A q \in Msg : InEffect(q)' <=> q = m \/ InEffect(q)
    BY <1>1 DEF InEffect
  <1>6. HandsAreSound'
    BY <1>1 DEF ClaimFresh, HandsAreSound
  <1>7. EffectsAreInHand'
    BY <1>1, <1>4 DEF ClaimFresh, EffectsAreInHand, Begun, InEffect
  <1>8. RowsOutliveCopies'
    BY <1>1, <1>3, <1>5 DEF ClaimFresh, RowsOutliveCopies, Begun
  <1>9. IdsAreUnique'
    BY <1>2, <1>3 DEF IdsAreUnique
  <1>10. RowsAreTaken'
    BY <1>3, <1>5 DEF ClaimFresh, RowsAreTaken, GotTo
  <1>11. SkippedForACause'
    BY <1>5, CausesStay DEF ClaimFresh, GotTo
  <1> QED
    BY <1>3, <1>6, <1>7, <1>8, <1>9, <1>10, <1>11 DEF ClaimFresh, EffectOnce, ProcessedHadEffect

\* A claim is lost to a row that some handler took.
LEMMA ClaimDuplicateKeeps ==
    ASSUME PoolInv, TypeOK', NEW h \in Handler, ClaimDuplicate(h)
    PROVE  PoolInv'
  <1> DEFINE m == hand[h].msg
  <1> USE DEF PoolInv
  <1>1. /\ m \in Msg
        /\ hand[h].pc = "claim" /\ hand'[h].pc = "ack" /\ hand'[h].msg = m
        /\ \A g \in Handler : g # h => hand'[g] = hand[g]
    BY Goes DEF ClaimDuplicate, HandsAreSound
  <1>2. \A q \in Msg : InEffect(q)' <=> InEffect(q)
    BY <1>1 DEF InEffect
  <1>3. \A q \in Msg : Taken(q)' <=> Taken(q)
    BY <1>2, TakenIs, TakenNextIs DEF ClaimDuplicate, GotTo
  <1>4. PICK q \in Msg : rows[q].status # "absent" /\ Conflicts(m, q)
    BY DEF ClaimDuplicate, Conflict
  <1>5. Taken(q)
    BY <1>4, TakenIs DEF RowsAreTaken
  <1>6. IdOf[q] = IdOf[m] \/ (TenantOf[q] = TenantOf[m] /\ KeyOf[q] = KeyOf[m])
    BY <1>4 DEF Conflicts, SameNamespace
  <1>7. SkippedForACause'
    BY <1>3, <1>5, <1>6 DEF ClaimDuplicate, SkippedForACause
  <1>8. HandsAreSound' /\ EffectsAreInHand'
    BY <1>1 DEF ClaimDuplicate, HandsAreSound, EffectsAreInHand
  <1>9. RowsOutliveCopies' /\ RowsAreTaken' /\ IdsAreUnique'
    BY <1>2 DEF ClaimDuplicate, RowsOutliveCopies, RowsAreTaken, GotTo, IdsAreUnique, Begun
  <1> QED
    BY <1>7, <1>8, <1>9 DEF ClaimDuplicate, EffectOnce, ProcessedHadEffect

\* The effect runs for the first time.
LEMMA RunEffectKeeps ==
    ASSUME PoolInv, TypeOK', NEW h \in Handler, RunEffect(h)
    PROVE  PoolInv'
  <1> DEFINE m == hand[h].msg
  <1> USE DEF PoolInv
  <1>1. /\ m \in Msg /\ left[m] \in 1..Horizon
        /\ hand[h].pc = "effect" /\ hand'[h].pc = "mark" /\ hand'[h].msg = m
        /\ \A g \in Handler : g # h => hand'[g] = hand[g]
    BY Goes DEF RunEffect, HandsAreSound
  <1>2. effects[m] = 0 /\ effects'[m] = 1 /\ \A q \in Msg : q # m => effects'[q] = effects[q]
    BY <1>1 DEF RunEffect, EffectsAreInHand, TypeOK
  <1>3. \A q \in Msg : q # m => (InEffect(q)' <=> InEffect(q))
    BY <1>1 DEF InEffect
  <1>4. Begun(m)
    BY <1>1 DEF Begun, InEffect
  <1>5. HandsAreSound'
    BY <1>1 DEF RunEffect, HandsAreSound
  <1>6. EffectsAreInHand'
    <2> SUFFICES ASSUME NEW g \in Handler
                 PROVE  /\ hand'[g].pc = "effect" =>
                              /\ effects'[hand'[g].msg] = 0
                              /\ \A f \in Handler : hand'[f].pc = "effect"
                                                     /\ hand'[f].msg = hand'[g].msg => f = g
                        /\ hand'[g].pc = "mark" => effects'[hand'[g].msg] > 0
      BY DEF EffectsAreInHand
    <2>1. CASE g = h
      BY <1>1, <1>2, <2>1
    <2>2. CASE g # h
      BY <1>1, <1>2, <2>2 DEF EffectsAreInHand, HandsAreSound
    <2> QED  BY <2>1, <2>2
  <1>7. RowsOutliveCopies'
    BY <1>2, <1>3, <1>4 DEF RunEffect, RowsOutliveCopies, Begun
  <1>8. IdsAreUnique' /\ RowsAreTaken'
    BY <1>2, <1>3 DEF RunEffect, IdsAreUnique, RowsAreTaken, GotTo
  <1>9. EffectOnce' /\ ProcessedHadEffect'
    BY <1>2 DEF RunEffect, EffectOnce, ProcessedHadEffect
  <1>10. SkippedForACause'
    BY <1>2, <1>3, CausesStay DEF RunEffect, GotTo
  <1> QED
    BY <1>5, <1>6, <1>7, <1>8, <1>9, <1>10

\* The stamp names the message's row by its id and starts its age anew.
LEMMA MarkProcessedKeeps ==
    ASSUME PoolInv, TypeOK', NEW h \in Handler, MarkProcessed(h)
    PROVE  PoolInv'
  <1> DEFINE m == hand[h].msg
  <1> USE DEF PoolInv
  <1>1. /\ m \in Msg /\ left[m] \in 1..Horizon
        /\ hand[h].pc = "mark" /\ hand'[h].pc = "ack" /\ hand'[h].msg = m
        /\ \A g \in Handler : g # h => hand'[g] = hand[g]
    BY Goes DEF MarkProcessed, HandsAreSound
  <1>2. effects[m] > 0 /\ rows[m].status # "absent"
    BY <1>1 DEF EffectsAreInHand, RowsOutliveCopies, Begun
  <1>3. \A q \in Msg : q \in Stamped(m) /\ rows[q].status # "absent" => q = m
    BY <1>1, <1>2 DEF IdsAreUnique, Stamped
  <1>4. /\ rows'[m] = Processed
        /\ \A q \in Msg : q # m => rows'[q] = rows[q]
    BY <1>1, <1>2, <1>3 DEF MarkProcessed, Stamped
  <1>5. rows'[m].status = "processed" /\ rows'[m].retain_left = Retention
    BY <1>4 DEF Processed
  <1>6. \A q \in Msg : InEffect(q)' <=> InEffect(q)
    BY <1>1 DEF InEffect
  <1>7. HandsAreSound' /\ EffectsAreInHand'
    BY <1>1 DEF MarkProcessed, HandsAreSound, EffectsAreInHand
  <1>8. RowsOutliveCopies'
    <2>1. Retention >= left[m] /\ left[m] <= Horizon
      BY <1>1, PoolAssumption DEF PoolAssumption
    <2> QED
      BY <1>4, <1>5, <1>6, <2>1 DEF MarkProcessed, RowsOutliveCopies, Begun
  <1>9. IdsAreUnique' /\ RowsAreTaken' /\ ProcessedHadEffect'
    BY <1>2, <1>4, <1>6 DEF MarkProcessed, IdsAreUnique, RowsAreTaken, GotTo, ProcessedHadEffect
  <1>10. SkippedForACause'
    BY <1>6, CausesStay DEF MarkProcessed, GotTo
  <1> QED
    BY <1>7, <1>8, <1>9, <1>10 DEF MarkProcessed, EffectOnce

\* A handler that is done or dies takes nothing back; of a claim whose effect
\* is lost the row remains.
LEMMA LettingGoKeeps ==
    ASSUME PoolInv, TypeOK', NEW h \in Handler, Finish(h) \/ Crash(h)
    PROVE  PoolInv'
  <1> DEFINE m == hand[h].msg
  <1> USE DEF PoolInv
  <1>1. /\ hand[h].pc # "idle" /\ hand'[h].pc = "idle"
        /\ \A g \in Handler : g # h => hand'[g] = hand[g]
    BY LetsGo DEF Finish, Crash
  <1>2. UNCHANGED <<rows, effects, skipped, left>>
    BY DEF Finish, Crash
  <1>3. \A q \in Msg : InEffect(q)' => InEffect(q)
    BY <1>1 DEF InEffect
  <1>4. \A q \in Msg : q \in cut \/ InEffect(q) => q \in cut' \/ InEffect(q)'
    <2> SUFFICES ASSUME NEW q \in Msg, q \in cut \/ InEffect(q) PROVE q \in cut' \/ InEffect(q)'
      OBVIOUS
    <2>1. cut \subseteq cut' /\ (hand[h].pc = "effect" => m \in cut')
      BY DEF Finish, Crash
    <2> QED  BY <1>1, <2>1 DEF InEffect
  <1>5. HandsAreSound' /\ EffectsAreInHand'
    BY <1>1, <1>2 DEF HandsAreSound, EffectsAreInHand
  <1>6. RowsOutliveCopies' /\ IdsAreUnique'
    BY <1>2, <1>3 DEF RowsOutliveCopies, IdsAreUnique, Begun
  <1>7. RowsAreTaken'
    BY <1>2, <1>4 DEF RowsAreTaken, GotTo
  <1>8. SkippedForACause'
    BY <1>2, <1>4, CausesStay DEF GotTo
  <1> QED
    BY <1>2, <1>5, <1>6, <1>7, <1>8 DEF EffectOnce, ProcessedHadEffect

----------------------------------------------------------------------------
(* Retention and time.                                                     *)

\* A step that no handler takes changes nothing that is in hand or has run.
LEMMA HandlersRest ==
    ASSUME PoolInv, UNCHANGED <<hand, effects, skipped, cut>>
    PROVE  /\ EffectsAreInHand' /\ EffectOnce' /\ SkippedForACause'
           /\ \A m \in Msg : (Begun(m)' <=> Begun(m)) /\ (GotTo(m)' <=> GotTo(m))
  <1>1. EffectsAreInHand' /\ EffectOnce'
    BY DEF PoolInv, EffectsAreInHand, EffectOnce
  <1>2. SkippedForACause'
    BY DEF PoolInv, SkippedForACause, Taken
  <1>3. \A m \in Msg : (Begun(m)' <=> Begun(m)) /\ (GotTo(m)' <=> GotTo(m))
    BY DEF Begun, GotTo, InEffect
  <1> QED  BY <1>1, <1>2, <1>3

\* A row whose age is up is one of a message whose copies no longer come.
LEMMA PurgeKeeps ==
    ASSUME PoolInv, TypeOK', PurgeRows
    PROVE  PoolInv'
  <1> USE DEF PoolInv
  <1>1. \A m \in Msg : /\ rows'[m].status # "absent" => rows'[m] = rows[m]
                       /\ ~Purgeable(m) => rows'[m] = rows[m]
    BY DEF PurgeRows, NoRow
  <1>2. ASSUME NEW m \in Msg, Begun(m), left[m] > 0 PROVE ~Purgeable(m)
    <2>1. rows[m].status = "processed" => rows[m].retain_left >= left[m]
      BY <1>2 DEF RowsOutliveCopies
    <2>2. left[m] \in Nat
      BY PoolAssumption DEF TypeOK, PoolAssumption
    <2> QED  BY <1>2, <2>1, <2>2 DEF Purgeable
  <1>3. /\ EffectsAreInHand' /\ EffectOnce' /\ SkippedForACause'
        /\ \A m \in Msg : (Begun(m)' <=> Begun(m)) /\ (GotTo(m)' <=> GotTo(m))
    BY HandlersRest DEF PurgeRows
  <1>4. left' = left
    BY DEF PurgeRows
  <1>5. RowsOutliveCopies'
    BY <1>1, <1>2, <1>3, <1>4 DEF RowsOutliveCopies
  <1>6. IdsAreUnique' /\ RowsAreTaken' /\ ProcessedHadEffect'
    BY <1>1, <1>3 DEF PurgeRows, IdsAreUnique, RowsAreTaken, ProcessedHadEffect
  <1>7. HandsAreSound'
    BY <1>4 DEF PurgeRows, HandsAreSound
  <1> QED
    BY <1>3, <1>5, <1>6, <1>7

\* Copies and rows age together, and no copy in hand outlives its horizon.
LEMMA TickKeeps ==
    ASSUME PoolInv, TypeOK', Tick
    PROVE  PoolInv'
  <1> USE DEF PoolInv
  <1>1. \A m \in Msg : /\ rows'[m].status = rows[m].status
                       /\ rows'[m].retain_left = Less(rows[m].retain_left)
                       /\ rows[m].retain_left \in Nat
    BY AgedRow, PoolAssumption DEF Tick, TypeOK, RowState, PoolAssumption
  <1>2. \A m \in Msg : left'[m] = IF left[m] > Horizon THEN left[m] ELSE Less(left[m])
    BY DEF Tick
  <1>3. HandsAreSound'
    BY <1>2, PoolAssumption DEF Tick, HandsAreSound, Less, PoolAssumption
  <1>4. /\ EffectsAreInHand' /\ EffectOnce' /\ SkippedForACause'
        /\ \A m \in Msg : (Begun(m)' <=> Begun(m)) /\ (GotTo(m)' <=> GotTo(m))
    BY HandlersRest DEF Tick
  <1>5. RowsOutliveCopies'
    <2> SUFFICES ASSUME NEW m \in Msg, Begun(m)
                 PROVE  /\ left'[m] <= Horizon
                        /\ left'[m] > 0 =>
                              /\ rows[m].status # "absent"
                              /\ rows[m].status = "processed" => rows'[m].retain_left >= left'[m]
      BY <1>1, <1>4 DEF RowsOutliveCopies
    <2>1. left[m] \in 0..Horizon /\ left'[m] = Less(left[m])
      BY <1>2, PoolAssumption DEF RowsOutliveCopies, TypeOK, PoolAssumption
    <2>2. left[m] > 0 => /\ rows[m].status # "absent"
                         /\ rows[m].status = "processed" => rows[m].retain_left >= left[m]
      BY DEF RowsOutliveCopies
    <2> QED  BY <1>1, <2>1, <2>2, PoolAssumption DEF Less, PoolAssumption
  <1>6. IdsAreUnique' /\ RowsAreTaken' /\ ProcessedHadEffect'
    BY <1>1, <1>4 DEF Tick, IdsAreUnique, RowsAreTaken, ProcessedHadEffect
  <1> QED
    BY <1>3, <1>4, <1>5, <1>6

----------------------------------------------------------------------------
(* The theorems.                                                           *)

\* The invariant holds before anything was published.
LEMMA PoolInitial == ASSUME Init PROVE PoolInv
  <1>1. TypeOK
    BY RowTypes, PoolAssumption DEF Init, TypeOK, PoolAssumption
  <1>2. \A m \in Msg : rows[m].status = "absent"
    BY DEF Init, NoRow
  <1>3. \A h \in Handler : hand[h].pc = "idle"
    BY DEF Init, Free
  <1> QED
    BY <1>1, <1>2, <1>3
    DEF PoolInv, Init, HandsAreSound, EffectsAreInHand, RowsOutliveCopies, Begun, InEffect,
        IdsAreUnique, RowsAreTaken, GotTo, EffectOnce, SkippedForACause, ProcessedHadEffect

\* Every step keeps it.
LEMMA PoolStep == ASSUME PoolInv, [Next]_vars PROVE PoolInv'
  <1>1. TypeOK'
    BY TypeStep DEF PoolInv
  <1>2. CASE UNCHANGED vars
    <2>1. /\ EffectsAreInHand' /\ EffectOnce' /\ SkippedForACause'
          /\ \A m \in Msg : (Begun(m)' <=> Begun(m)) /\ (GotTo(m)' <=> GotTo(m))
      BY <1>2, HandlersRest DEF vars
    <2>2. HandsAreSound' /\ RowsOutliveCopies'
      BY <1>2, <2>1 DEF vars, PoolInv, HandsAreSound, RowsOutliveCopies
    <2>3. IdsAreUnique' /\ RowsAreTaken' /\ ProcessedHadEffect'
      BY <1>2, <2>1 DEF vars, PoolInv, IdsAreUnique, RowsAreTaken, ProcessedHadEffect
    <2> QED  BY <1>1, <2>1, <2>2, <2>3 DEF PoolInv
  <1>3. CASE Next
    BY <1>1, <1>3, PublishKeeps, DeliverKeeps, ClaimFreshKeeps, ClaimDuplicateKeeps,
       RunEffectKeeps, MarkProcessedKeeps, LettingGoKeeps, PurgeKeeps, TickKeeps
    DEF Next, HandlerStep
  <1> QED  BY <1>2, <1>3

\* Hands, effects, rows and copies agree in every state, for any number of
\* messages and handlers and any ages (the message-keyed inbox of src/db.rs).
THEOREM PoolInvariant == Spec => []PoolInv
  <1>1. Init => PoolInv
    BY PoolInitial
  <1>2. PoolInv /\ [Next]_vars => PoolInv'
    BY PoolStep
  <1> QED  BY <1>1, <1>2, PTL DEF Spec

\* Every variable of the message-keyed inbox keeps its type.
THEOREM PoolTypeInvariant == Spec => []TypeOK
  <1>1. PoolInv => TypeOK
    BY DEF PoolInv
  <1> QED  BY <1>1, PoolInvariant, PTL

\* No message has its effect run twice, whatever handlers die, copies come
\* again and rows are purged (inbox_try_insert).
THEOREM PoolEffectsHappenOnce == Spec => []EffectOnce
  <1>1. PoolInv => EffectOnce
    BY DEF PoolInv
  <1> QED  BY <1>1, PoolInvariant, PTL

\* Nothing is skipped but for a row of its id or of its tenant's business key
\* that a handler took (inbox_claim_statement).
THEOREM SkipsHaveACause == Spec => []SkippedForACause
  <1>1. PoolInv => SkippedForACause
    BY DEF PoolInv
  <1> QED  BY <1>1, PoolInvariant, PTL

\* A row that says processed is one whose own message had its effect, though
\* the stamp names it by an id that several may carry (inbox_mark_processed).
THEOREM StampsAreHonest == Spec => []ProcessedHadEffect
  <1>1. PoolInv => ProcessedHadEffect
    BY DEF PoolInv
  <1> QED  BY <1>1, PoolInvariant, PTL
=============================================================================
