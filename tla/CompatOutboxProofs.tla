------------------------- MODULE CompatOutboxProofs -------------------------
(***************************************************************************)
(* Theorems about CompatOutbox, for any number of rows and services and    *)
(* every value of the knobs and of the failure bounds.                     *)
(***************************************************************************)
EXTENDS CompatOutbox, TLAPS

USE CompatAssumption

----------------------------------------------------------------------------
(* What each step does to the locals of publish_batch.                     *)

LEMMA AtRestFacts ==
    AtRest \in ServiceState
  BY DEF AtRest, ServiceState, Label

LEMMA BeganFacts ==
    ASSUME NEW S \in SUBSET Row
    PROVE  /\ Began(S) \in ServiceState
           /\ Began(S).pc = "next" /\ Began(S).connected /\ Began(S).row = NoRow
           /\ Began(S).locked = S /\ Began(S).todo = S
           /\ Began(S).marked = {} /\ Began(S).delayed = {}
  <1> DEFINE open == [AtRest EXCEPT !.pc = "next"]
             locking == [open EXCEPT !.locked = S]
  <1>1. /\ AtRest.connected /\ AtRest.row = NoRow /\ AtRest.todo = {}
        /\ AtRest.marked = {} /\ AtRest.delayed = {}
    BY DEF AtRest
  <1>2. /\ open \in ServiceState
        /\ open.pc = "next" /\ open.connected /\ open.row = NoRow /\ open.todo = {}
        /\ open.marked = {} /\ open.delayed = {}
    BY <1>1, AtRestFacts DEF ServiceState, Label
  <1>3. Began(S) = [locking EXCEPT !.todo = S]
    BY DEF Began
  <1> HIDE DEF open
  <1>4. /\ locking \in ServiceState /\ locking.locked = S
        /\ locking.pc = "next" /\ locking.connected /\ locking.row = NoRow
        /\ locking.todo = {} /\ locking.marked = {} /\ locking.delayed = {}
    BY <1>2 DEF ServiceState
  <1> HIDE DEF locking
  <1> QED BY <1>3, <1>4 DEF ServiceState

LEMMA RefusedFacts ==
    ASSUME NEW s \in ServiceState, NEW r \in Row
    PROVE  /\ Refused(s, r) \in ServiceState
           /\ Refused(s, r).pc = s.pc /\ Refused(s, r).connected = s.connected
           /\ Refused(s, r).row = s.row /\ Refused(s, r).locked = s.locked
           /\ Refused(s, r).todo = s.todo \ {r} /\ Refused(s, r).marked = s.marked
           /\ Refused(s, r).delayed = s.delayed \union {r}
  <1> DEFINE rest == [s EXCEPT !.todo = @ \ {r}]
  <1>1. /\ rest \in ServiceState
        /\ rest.pc = s.pc /\ rest.connected = s.connected
        /\ rest.row = s.row /\ rest.locked = s.locked
        /\ rest.todo = s.todo \ {r} /\ rest.marked = s.marked
        /\ rest.delayed = s.delayed
    BY DEF ServiceState
  <1>2. Refused(s, r) = [rest EXCEPT !.delayed = @ \union {r}]
    BY DEF Refused
  <1> HIDE DEF rest
  <1> QED BY <1>1, <1>2 DEF ServiceState

LEMMA TakenUpFacts ==
    ASSUME NEW s \in ServiceState, NEW r \in Row
    PROVE  /\ TakenUp(s, r) \in ServiceState
           /\ TakenUp(s, r).pc = "offered" /\ TakenUp(s, r).connected = s.connected
           /\ TakenUp(s, r).row = r /\ TakenUp(s, r).locked = s.locked
           /\ TakenUp(s, r).todo = s.todo \ {r} /\ TakenUp(s, r).marked = s.marked
           /\ TakenUp(s, r).delayed = s.delayed
  <1> DEFINE offering == [s EXCEPT !.pc = "offered"]
             rest == [offering EXCEPT !.todo = @ \ {r}]
  <1>1. /\ offering \in ServiceState
        /\ offering.pc = "offered" /\ offering.connected = s.connected
        /\ offering.locked = s.locked /\ offering.todo = s.todo
        /\ offering.marked = s.marked /\ offering.delayed = s.delayed
    BY DEF ServiceState, Label
  <1> HIDE DEF offering
  <1>2. /\ rest \in ServiceState
        /\ rest.pc = "offered" /\ rest.connected = s.connected
        /\ rest.locked = s.locked /\ rest.todo = s.todo \ {r}
        /\ rest.marked = s.marked /\ rest.delayed = s.delayed
    BY <1>1 DEF ServiceState
  <1>3. TakenUp(s, r) = [rest EXCEPT !.row = r]
    BY DEF TakenUp, offering
  <1> HIDE DEF rest
  <1> QED BY <1>2, <1>3 DEF ServiceState

LEMMA MarkedFacts ==
    ASSUME NEW s \in ServiceState, s.row \in Row
    PROVE  /\ Marked(s) \in ServiceState
           /\ Marked(s).pc = "next" /\ Marked(s).connected = s.connected
           /\ Marked(s).row = NoRow /\ Marked(s).locked = s.locked
           /\ Marked(s).todo = s.todo /\ Marked(s).marked = s.marked \union {s.row}
           /\ Marked(s).delayed = s.delayed
  <1> DEFINE on == [s EXCEPT !.pc = "next"]
             marking == [on EXCEPT !.marked = @ \union {s.row}]
  <1>1. /\ on \in ServiceState
        /\ on.pc = "next" /\ on.connected = s.connected
        /\ on.locked = s.locked /\ on.todo = s.todo
        /\ on.marked = s.marked /\ on.delayed = s.delayed
    BY DEF ServiceState, Label
  <1> HIDE DEF on
  <1>2. /\ marking \in ServiceState
        /\ marking.pc = "next" /\ marking.connected = s.connected
        /\ marking.locked = s.locked /\ marking.todo = s.todo
        /\ marking.marked = s.marked \union {s.row} /\ marking.delayed = s.delayed
    BY <1>1 DEF ServiceState
  <1>3. Marked(s) = [marking EXCEPT !.row = NoRow]
    BY DEF Marked, on
  <1> HIDE DEF marking
  <1> QED BY <1>2, <1>3 DEF ServiceState

LEMMA PutOffFacts ==
    ASSUME NEW s \in ServiceState, s.row \in Row
    PROVE  /\ PutOff(s) \in ServiceState
           /\ PutOff(s).pc = "commit" /\ PutOff(s).connected = s.connected
           /\ PutOff(s).row = NoRow /\ PutOff(s).locked = s.locked
           /\ PutOff(s).todo = s.todo /\ PutOff(s).marked = s.marked
           /\ PutOff(s).delayed = s.delayed \union {s.row}
  <1> DEFINE ending == [s EXCEPT !.pc = "commit"]
             delaying == [ending EXCEPT !.delayed = @ \union {s.row}]
  <1>1. /\ ending \in ServiceState
        /\ ending.pc = "commit" /\ ending.connected = s.connected
        /\ ending.locked = s.locked /\ ending.todo = s.todo
        /\ ending.marked = s.marked /\ ending.delayed = s.delayed
    BY DEF ServiceState, Label
  <1> HIDE DEF ending
  <1>2. /\ delaying \in ServiceState
        /\ delaying.pc = "commit" /\ delaying.connected = s.connected
        /\ delaying.locked = s.locked /\ delaying.todo = s.todo
        /\ delaying.marked = s.marked /\ delaying.delayed = s.delayed \union {s.row}
    BY <1>1 DEF ServiceState
  <1>3. PutOff(s) = [delaying EXCEPT !.row = NoRow]
    BY DEF PutOff, ending
  <1> HIDE DEF delaying
  <1> QED BY <1>2, <1>3 DEF ServiceState

LEMMA UnlockedFacts ==
    ASSUME NEW s \in ServiceState
    PROVE  /\ Unlocked(s) \in ServiceState
           /\ Unlocked(s).pc = s.pc /\ ~Unlocked(s).connected
           /\ Unlocked(s).row = s.row /\ Unlocked(s).locked = {}
           /\ Unlocked(s).todo = s.todo /\ Unlocked(s).marked = {}
           /\ Unlocked(s).delayed = {}
  <1> DEFINE lost == [s EXCEPT !.connected = FALSE]
             free == [lost EXCEPT !.locked = {}]
             unmarked == [free EXCEPT !.marked = {}]
  <1>1. /\ lost \in ServiceState
        /\ lost.pc = s.pc /\ ~lost.connected /\ lost.row = s.row /\ lost.todo = s.todo
    BY DEF ServiceState
  <1> HIDE DEF lost
  <1>2. /\ free \in ServiceState
        /\ free.pc = s.pc /\ ~free.connected /\ free.row = s.row /\ free.todo = s.todo
        /\ free.locked = {}
    BY <1>1 DEF ServiceState
  <1> HIDE DEF free
  <1>3. /\ unmarked \in ServiceState
        /\ unmarked.pc = s.pc /\ ~unmarked.connected /\ unmarked.row = s.row
        /\ unmarked.todo = s.todo /\ unmarked.locked = {} /\ unmarked.marked = {}
    BY <1>2 DEF ServiceState
  <1>4. Unlocked(s) = [unmarked EXCEPT !.delayed = {}]
    BY DEF Unlocked, lost, free
  <1> HIDE DEF unmarked
  <1> QED BY <1>3, <1>4 DEF ServiceState

LEMMA MovedFacts ==
    ASSUME NEW s \in ServiceState, NEW label \in Label
    PROVE  /\ [s EXCEPT !.pc = label] \in ServiceState
           /\ [s EXCEPT !.pc = label].pc = label
           /\ [s EXCEPT !.pc = label].connected = s.connected
           /\ [s EXCEPT !.pc = label].row = s.row
           /\ [s EXCEPT !.pc = label].locked = s.locked
           /\ [s EXCEPT !.pc = label].todo = s.todo
           /\ [s EXCEPT !.pc = label].marked = s.marked
           /\ [s EXCEPT !.pc = label].delayed = s.delayed
  BY DEF ServiceState

LEMMA AgedFacts ==
    ASSUME NEW s \in ServiceState, NEW e \in 0..MaxBackoff
    PROVE  /\ [s EXCEPT !.elapsed = e] \in ServiceState
           /\ [s EXCEPT !.elapsed = e].pc = s.pc
           /\ [s EXCEPT !.elapsed = e].connected = s.connected
           /\ [s EXCEPT !.elapsed = e].row = s.row
           /\ [s EXCEPT !.elapsed = e].locked = s.locked
           /\ [s EXCEPT !.elapsed = e].todo = s.todo
           /\ [s EXCEPT !.elapsed = e].marked = s.marked
           /\ [s EXCEPT !.elapsed = e].delayed = s.delayed
  BY DEF ServiceState

LEMMA StagedFacts ==
    /\ NoRecord \in RowState /\ NoRecord.status = "absent"
    /\ Staged \in RowState /\ Staged.status = "pending"
  BY DEF NoRecord, Staged, RowState

LEMMA BackoffType ==
    ASSUME NEW a \in 0..AttemptsCap
    PROVE  Backoff(a) \in 0..MaxBackoff
  <1>1. Doubled[a + 1] \in Nat
    BY DEF Doubled
  <1> QED BY <1>1 DEF Backoff, AtMost

LEMMA PublishedRowFacts ==
    ASSUME NEW row \in RowState
    PROVE  PublishedRow(row) \in RowState /\ PublishedRow(row).status = "published"
  BY DEF PublishedRow, RowState, AtMost

LEMMA DelayedRowFacts ==
    ASSUME NEW row \in RowState, NEW e \in 0..MaxBackoff
    PROVE  DelayedRow(row, e) \in RowState /\ DelayedRow(row, e).status = row.status
  <1>1. Backoff(row.attempts) \in 0..MaxBackoff
    BY BackoffType DEF RowState
  <1>2. Less(Backoff(row.attempts), e) \in 0..MaxBackoff
    BY <1>1 DEF Less
  <1> QED BY <1>2 DEF DelayedRow, RowState, AtMost

LEMMA AgedRowFacts ==
    ASSUME NEW row \in RowState
    PROVE  /\ [row EXCEPT !.available_in = Less(@, 1)] \in RowState
           /\ [row EXCEPT !.available_in = Less(@, 1)].status = row.status
  BY DEF RowState, Less

LEMMA ReceivedFacts ==
    ASSUME stored \in [Row -> 0..StoreCap], NEW r \in Row, Received(r)
    PROVE  /\ stored' \in [Row -> 0..StoreCap]
           /\ stored'[r] > 0
           /\ \A q \in Row : stored[q] > 0 => stored'[q] > 0
  BY DEF Received

LEMMA BatchesFacts ==
    ASSUME NEW S \in Batches
    PROVE  /\ S \in SUBSET Row
           /\ \A r \in S : table[r].status = "pending" /\ r \notin LockedBySomeone
  BY DEF Batches, Due

----------------------------------------------------------------------------
(* Types.                                                                  *)

LEMMA RowInHand ==
    ASSUME CompatInv, NEW w \in Service, service[w].pc \in AtBroker
    PROVE  service[w].row \in Row
  BY DEF CompatInv, BatchIsSound

LEMMA TypeInit == Init => TypeOK
  BY StagedFacts, AtRestFacts DEF Init, TypeOK

LEMMA TypeStep == TypeOK /\ CompatInv /\ [Next]_vars => TypeOK'
  <1> SUFFICES ASSUME TypeOK, CompatInv, [Next]_vars PROVE TypeOK'
    OBVIOUS
  <1> USE DEF TypeOK
  <1>1. ASSUME NEW r \in Row, Enqueue(r) PROVE TypeOK'
    BY <1>1, StagedFacts DEF Enqueue
  <1>2. ASSUME NEW w \in Service, Claim(w) PROVE TypeOK'
    <2>1. PICK S \in Batches : service' = [service EXCEPT ![w] = Began(S)]
      BY <1>2 DEF Claim
    <2> QED BY <1>2, <2>1, BatchesFacts, BeganFacts DEF Claim
  <1>3. ASSUME NEW w \in Service, SkipPoison(w) PROVE TypeOK'
    <2>1. PICK r \in Row : service' = [service EXCEPT ![w] = Refused(service[w], r)]
      BY <1>3 DEF SkipPoison, Oldest, ServiceState
    <2> QED BY <1>3, <2>1, RefusedFacts DEF SkipPoison
  <1>4. ASSUME NEW w \in Service, Offer(w) PROVE TypeOK'
    <2>1. PICK r \in Row : service' = [service EXCEPT ![w] = TakenUp(service[w], r)]
      BY <1>4 DEF Offer, Oldest, ServiceState
    <2> QED BY <1>4, <2>1, TakenUpFacts DEF Offer
  <1>5. ASSUME NEW w \in Service, PublishOk(w) \/ PublishErr(w) PROVE TypeOK'
    <2>1. service[w].row \in Row
      BY <1>5, RowInHand DEF PublishOk, PublishErr, AtBroker
    <2>2. stored' \in [Row -> 0..StoreCap]
      BY <1>5, <2>1, ReceivedFacts DEF PublishOk, PublishErr, Acknowledged
    <2>3. PICK label \in Label : service' = [service EXCEPT ![w].pc = label]
      BY <1>5 DEF PublishOk, PublishErr, Label
    <2>4. service' \in [Service -> ServiceState]
      BY <2>3, MovedFacts
    <2> QED BY <1>5, <2>2, <2>4 DEF PublishOk, PublishErr
  <1>6. ASSUME NEW w \in Service, MarkPublished(w) PROVE TypeOK'
    BY <1>6, RowInHand, MarkedFacts DEF MarkPublished, AtBroker
  <1>7. ASSUME NEW w \in Service, Reschedule(w) PROVE TypeOK'
    BY <1>7, RowInHand, PutOffFacts DEF Reschedule, AtBroker
  <1>8. ASSUME NEW w \in Service, Commit(w) PROVE TypeOK'
    <2>1. service[w].elapsed \in 0..MaxBackoff
      BY DEF ServiceState
    <2>2. table' \in [Row -> RowState]
      BY <1>8, <2>1, PublishedRowFacts, DelayedRowFacts DEF Commit
    <2> QED BY <1>8, <2>2, AtRestFacts DEF Commit
  <1>9. ASSUME NEW w \in Service, StatementFails(w) PROVE TypeOK'
    BY <1>9, AtRestFacts DEF StatementFails, Fault
  <1>10. ASSUME NEW w \in Service, Crash(w) PROVE TypeOK'
    <2>1. stored' \in [Row -> 0..StoreCap]
      BY <1>10, RowInHand, ReceivedFacts DEF Crash, AtBroker
    <2> QED BY <1>10, <2>1, AtRestFacts DEF Crash, Fault
  <1>11. ASSUME NEW w \in Service, Disconnect(w) PROVE TypeOK'
    BY <1>11, UnlockedFacts DEF Disconnect, Fault
  <1>12. CASE Tick
    <2>1. table' \in [Row -> RowState]
      BY <1>12, AgedRowFacts DEF Tick
    <2>2. \A w \in Service : AtMost(service[w].elapsed + 1, MaxBackoff) \in 0..MaxBackoff
      BY DEF ServiceState, AtMost
    <2>3. \A w \in Service :
             [service[w] EXCEPT !.elapsed = AtMost(@ + 1, MaxBackoff)] \in ServiceState
      BY <2>2, AgedFacts
    <2>4. service' \in [Service -> ServiceState]
      BY <1>12, <2>3 DEF Tick
    <2> QED BY <1>12, <2>1, <2>4 DEF Tick
  <1>13. CASE UNCHANGED vars
    BY <1>13 DEF vars
  <1> QED
    BY <1>1, <1>2, <1>3, <1>4, <1>5, <1>6, <1>7, <1>8, <1>9, <1>10, <1>11, <1>12, <1>13
       DEF Next, ServiceStep
----------------------------------------------------------------------------
(* The invariant.                                                          *)

\* What has happened stays so: copies are not taken back, rows not deleted.
Lasting ==
    \A q \in Row : /\ stored[q] > 0 => stored'[q] > 0
                   /\ table[q].status # "absent" => table'[q].status # "absent"

\* A step that changes the locals of one service to t, takes no lock that another
\* has, and lets neither the rows nor the stream forget, keeps the invariant.
LEMMA OneServiceMoves ==
    ASSUME TypeOK, CompatInv, NEW w \in Service, NEW t \in ServiceState,
           service' = [service EXCEPT ![w] = t], BatchIsSound(t)', Lasting,
           \A v \in Service \ {w} : t.locked \intersect service[v].locked = {},
           \A r \in t.locked : table'[r].status = "pending",
           \A v \in Service \ {w} : \A r \in service[v].locked : table'[r].status = "pending",
           \A r \in Row : table'[r].status = "published" => stored'[r] > 0
    PROVE  CompatInv'
  <1>1. service'[w] = t /\ \A v \in Service \ {w} : service'[v] = service[v]
    BY DEF TypeOK
  <1>2. ASSUME NEW v \in Service \ {w} PROVE BatchIsSound(service[v])'
    <2>1. BatchIsSound(service[v]) /\ service'[v] = service[v] /\ service[v] \in ServiceState
      BY <1>1 DEF CompatInv, TypeOK
    <2>2. \A r \in Row : /\ stored[r] > 0 => stored'[r] > 0
                         /\ table[r].status # "absent" => table'[r].status # "absent"
      BY DEF Lasting
    <2>3. service[v].todo \subseteq Row /\ service[v].marked \subseteq Row
      BY <2>1 DEF ServiceState
    <2> QED BY <2>1, <2>2, <2>3 DEF BatchIsSound, AtBroker
  <1>3. BatchIsSound(service[w])'
    BY <1>1 DEF BatchIsSound
  <1>4. \A v \in Service : BatchIsSound(service[v])'
    BY <1>2, <1>3
  <1>5. LocksAreExclusive'
    BY <1>1 DEF LocksAreExclusive, CompatInv
  <1>6. LockedRowsArePending'
    BY <1>1 DEF LockedRowsArePending
  <1>7. PublishedWasStored'
    BY DEF PublishedWasStored
  <1> QED BY <1>4, <1>5, <1>6, <1>7 DEF CompatInv

\* The same when the table is left alone and no lock is taken.
LEMMA OneServiceWorks ==
    ASSUME TypeOK, CompatInv, UNCHANGED table, NEW w \in Service, NEW t \in ServiceState,
           service' = [service EXCEPT ![w] = t], BatchIsSound(t)',
           \A q \in Row : stored[q] > 0 => stored'[q] > 0,
           t.locked \subseteq service[w].locked
    PROVE  CompatInv'
  <1>1. Lasting
    BY DEF Lasting
  <1>2. \A v \in Service \ {w} : t.locked \intersect service[v].locked = {}
    BY DEF CompatInv, LocksAreExclusive
  <1>3. /\ \A r \in t.locked : table'[r].status = "pending"
        /\ \A v \in Service : \A r \in service[v].locked : table'[r].status = "pending"
    BY DEF CompatInv, LockedRowsArePending
  <1>4. \A r \in Row : table'[r].status = "published" => stored'[r] > 0
    BY DEF CompatInv, PublishedWasStored
  <1> QED BY <1>1, <1>2, <1>3, <1>4, OneServiceMoves

LEMMA AtRestIsSound == BatchIsSound(AtRest)'
  BY DEF BatchIsSound, AtRest, AtBroker

LEMMA InvInit == Init => CompatInv
  <1> SUFFICES ASSUME Init PROVE CompatInv
    OBVIOUS
  <1>1. \A w \in Service : service[w].locked = {} /\ BatchIsSound(service[w])
    BY DEF Init, AtRest, BatchIsSound, AtBroker
  <1>2. PublishedWasStored
    BY StagedFacts DEF Init, PublishedWasStored
  <1> QED BY <1>1, <1>2 DEF CompatInv, LocksAreExclusive, LockedRowsArePending

LEMMA InvStep == TypeOK /\ CompatInv /\ [Next]_vars => CompatInv'
  <1> SUFFICES ASSUME TypeOK, CompatInv, [Next]_vars PROVE CompatInv'
    OBVIOUS
  <1>0. /\ \A w \in Service : service[w] \in ServiceState /\ BatchIsSound(service[w])
        /\ stored \in [Row -> 0..StoreCap]
    BY DEF TypeOK, CompatInv
  <1>1. ASSUME NEW r \in Row, Enqueue(r) PROVE CompatInv'
    <2>1. /\ table[r].status = "absent" /\ table'[r].status = "pending"
          /\ \A q \in Row \ {r} : table'[q] = table[q]
          /\ UNCHANGED <<service, stored>>
      BY <1>1, StagedFacts DEF Enqueue, TypeOK
    <2>2. ASSUME NEW w \in Service PROVE BatchIsSound(service[w])'
      BY <1>0, <2>1 DEF BatchIsSound, ServiceState, AtBroker
    <2>3. LocksAreExclusive'
      BY <2>1 DEF CompatInv, LocksAreExclusive
    <2>4. LockedRowsArePending'
      BY <1>0, <2>1 DEF CompatInv, LockedRowsArePending, ServiceState
    <2>5. PublishedWasStored'
      BY <2>1 DEF CompatInv, PublishedWasStored
    <2> QED BY <2>2, <2>3, <2>4, <2>5 DEF CompatInv
  <1>2. ASSUME NEW w \in Service, Claim(w) PROVE CompatInv'
    <2>1. PICK S \in Batches : service' = [service EXCEPT ![w] = Began(S)]
      BY <1>2 DEF Claim
    <2>2. /\ S \in SUBSET Row /\ UNCHANGED <<table, stored>>
          /\ \A r \in S : table[r].status = "pending" /\ r \notin LockedBySomeone
      BY <1>2, BatchesFacts DEF Claim
    <2>3. PICK t \in ServiceState :
             /\ t = Began(S) /\ t.pc = "next" /\ t.row = NoRow /\ t.locked = S
             /\ t.todo = S /\ t.marked = {} /\ t.delayed = {}
      BY <2>2, BeganFacts
    <2>4. BatchIsSound(t)'
      BY <2>2, <2>3 DEF BatchIsSound, AtBroker
    <2>5. \A v \in Service : t.locked \intersect service[v].locked = {}
      BY <2>2, <2>3 DEF LockedBySomeone
    <2>6. Lasting
      BY <2>2 DEF Lasting
    <2>7. /\ \A r \in t.locked : table'[r].status = "pending"
          /\ \A v \in Service : \A r \in service[v].locked : table'[r].status = "pending"
          /\ \A r \in Row : table'[r].status = "published" => stored'[r] > 0
      BY <2>2, <2>3 DEF CompatInv, LockedRowsArePending, PublishedWasStored
    <2>8. service' = [service EXCEPT ![w] = t]
      BY <2>1, <2>3
    <2> QED BY <2>4, <2>5, <2>6, <2>7, <2>8, OneServiceMoves
  <1>3. ASSUME NEW w \in Service, SkipPoison(w) PROVE CompatInv'
    <2>1. PICK r \in service[w].todo : /\ service' = [service EXCEPT ![w] = Refused(service[w], r)]
                                      /\ service[w].connected
      BY <1>3 DEF SkipPoison, Oldest
    <2>2. PICK s \in ServiceState : s = service[w] /\ BatchIsSound(s) /\ r \in Row
      BY <1>0 DEF ServiceState
    <2>3. PICK t \in ServiceState :
             /\ t = Refused(s, r) /\ t.pc = s.pc /\ t.connected = s.connected
             /\ t.row = s.row /\ t.locked = s.locked /\ t.todo = s.todo \ {r}
             /\ t.marked = s.marked /\ t.delayed = s.delayed \union {r}
      BY <2>2, RefusedFacts
    <2>4. UNCHANGED <<table, stored>>
      BY <1>3 DEF SkipPoison
    <2>5. BatchIsSound(t)'
      BY <2>1, <2>2, <2>3, <2>4 DEF BatchIsSound
    <2> QED BY <2>1, <2>2, <2>3, <2>4, <2>5, OneServiceWorks
  <1>4. ASSUME NEW w \in Service, Offer(w) PROVE CompatInv'
    <2>1. PICK r \in service[w].todo : /\ service' = [service EXCEPT ![w] = TakenUp(service[w], r)]
                                      /\ Publishable(r)
      BY <1>4 DEF Offer, Oldest
    <2>2. PICK s \in ServiceState : s = service[w] /\ BatchIsSound(s) /\ r \in Row
      BY <1>0 DEF ServiceState
    <2>3. PICK t \in ServiceState :
             /\ t = TakenUp(s, r) /\ t.pc = "offered" /\ t.connected = s.connected
             /\ t.row = r /\ t.locked = s.locked /\ t.todo = s.todo \ {r}
             /\ t.marked = s.marked /\ t.delayed = s.delayed
      BY <2>2, TakenUpFacts
    <2>4. UNCHANGED <<table, stored>>
      BY <1>4 DEF Offer
    <2>5. BatchIsSound(t)'
      BY <2>1, <2>2, <2>3, <2>4 DEF BatchIsSound, AtBroker, Publishable
    <2> QED BY <2>1, <2>2, <2>3, <2>4, <2>5, OneServiceWorks
  <1>5. ASSUME NEW w \in Service, PublishOk(w) \/ PublishErr(w) PROVE CompatInv'
    <2>1. PICK s \in ServiceState : s = service[w] /\ BatchIsSound(s) /\ s.pc = "offered"
      BY <1>0, <1>5 DEF PublishOk, PublishErr
    <2>2. s.row \in Row
      BY <2>1 DEF BatchIsSound, AtBroker
    <2>3. PICK label \in {"mark", "delay"} :
             /\ service' = [service EXCEPT ![w] = [s EXCEPT !.pc = label]]
             /\ label = "mark" => Received(s.row)
      BY <1>5, <2>1 DEF PublishOk, PublishErr, Acknowledged
    <2>4. /\ \A q \in Row : stored[q] > 0 => stored'[q] > 0
          /\ label = "mark" => stored'[s.row] > 0
      BY <1>0, <1>5, <2>1, <2>2, <2>3, ReceivedFacts DEF PublishOk, PublishErr, Acknowledged
    <2> DEFINE t == [s EXCEPT !.pc = label]
    <2>5. /\ t \in ServiceState /\ t.pc = label /\ t.connected = s.connected
          /\ t.row = s.row /\ t.locked = s.locked /\ t.todo = s.todo
          /\ t.marked = s.marked /\ t.delayed = s.delayed
      <3>1. label \in Label
        BY DEF Label
      <3> QED BY <3>1, MovedFacts
    <2> HIDE DEF t
    <2>6. UNCHANGED table
      BY <1>5 DEF PublishOk, PublishErr
    <2>7. s.marked \subseteq Row
      BY DEF ServiceState
    <2>8. BatchIsSound(t)'
      <3>1. /\ s.row \in Row /\ Publishable(s.row) /\ table[s.row].status # "absent"
            /\ s.connected => s.row \in s.locked
        BY <2>1 DEF BatchIsSound, AtBroker
      <3>2. /\ s.connected => s.todo \subseteq s.locked
            /\ s.marked \union s.delayed \subseteq s.locked
            /\ \A r \in s.todo : table[r].status # "absent"
            /\ \A r \in s.marked : stored'[r] > 0
        BY <2>1, <2>4, <2>7 DEF BatchIsSound
      <3>3. t.pc \in AtBroker /\ (t.pc = "mark" => stored'[t.row] > 0)
        BY <2>3, <2>4, <2>5 DEF AtBroker
      <3>4. t.row = s.row /\ t.connected = s.connected /\ t.todo = s.todo
            /\ t.locked = s.locked /\ t.marked = s.marked /\ t.delayed = s.delayed
        BY <2>5
      <3> QED BY <2>6, <3>1, <3>2, <3>3, <3>4 DEF BatchIsSound, Publishable
    <2>9. service' = [service EXCEPT ![w] = t] /\ t.locked \subseteq service[w].locked
      BY <2>1, <2>3, <2>5 DEF t
    <2> QED BY <2>4, <2>5, <2>6, <2>8, <2>9, OneServiceWorks
  <1>6. ASSUME NEW w \in Service, MarkPublished(w) PROVE CompatInv'
    <2>1. PICK s \in ServiceState : /\ s = service[w] /\ BatchIsSound(s)
                                   /\ s.pc = "mark" /\ s.connected
      BY <1>0, <1>6 DEF MarkPublished
    <2>2. s.row \in Row /\ s.row \in s.locked /\ stored[s.row] > 0
      BY <2>1 DEF BatchIsSound, AtBroker
    <2>3. PICK t \in ServiceState :
             /\ t = Marked(s) /\ t.pc = "next" /\ t.connected = s.connected
             /\ t.row = NoRow /\ t.locked = s.locked /\ t.todo = s.todo
             /\ t.marked = s.marked \union {s.row} /\ t.delayed = s.delayed
      BY <2>2, MarkedFacts
    <2>4. UNCHANGED <<table, stored>> /\ service' = [service EXCEPT ![w] = Marked(s)]
      BY <1>6, <2>1 DEF MarkPublished
    <2>5. BatchIsSound(t)'
      BY <2>1, <2>2, <2>3, <2>4 DEF BatchIsSound, AtBroker
    <2> QED BY <2>1, <2>3, <2>4, <2>5, OneServiceWorks
  <1>7. ASSUME NEW w \in Service, Reschedule(w) PROVE CompatInv'
    <2>1. PICK s \in ServiceState : /\ s = service[w] /\ BatchIsSound(s)
                                   /\ s.pc = "delay" /\ s.connected
      BY <1>0, <1>7 DEF Reschedule
    <2>2. s.row \in Row /\ s.row \in s.locked
      BY <2>1 DEF BatchIsSound, AtBroker
    <2>3. PICK t \in ServiceState :
             /\ t = PutOff(s) /\ t.pc = "commit" /\ t.connected = s.connected
             /\ t.row = NoRow /\ t.locked = s.locked /\ t.todo = s.todo
             /\ t.marked = s.marked /\ t.delayed = s.delayed \union {s.row}
      BY <2>2, PutOffFacts
    <2>4. UNCHANGED <<table, stored>> /\ service' = [service EXCEPT ![w] = PutOff(s)]
      BY <1>7, <2>1 DEF Reschedule
    <2>5. BatchIsSound(t)'
      BY <2>1, <2>2, <2>3, <2>4 DEF BatchIsSound, AtBroker
    <2> QED BY <2>1, <2>3, <2>4, <2>5, OneServiceWorks
  <1>8. ASSUME NEW w \in Service, Commit(w) PROVE CompatInv'
    <2>1. PICK s \in ServiceState : s = service[w] /\ BatchIsSound(s)
      BY <1>0
    <2>2. /\ UNCHANGED stored /\ service' = [service EXCEPT ![w] = AtRest]
          /\ \A r \in s.marked : table'[r] = PublishedRow(table[r])
          /\ \A r \in s.delayed \ s.marked : table'[r] = DelayedRow(table[r], s.elapsed)
          /\ \A r \in Row \ (s.marked \union s.delayed) : table'[r] = table[r]
      BY <1>8, <2>1 DEF Commit, ServiceState
    <2>3. s.marked \union s.delayed \subseteq s.locked /\ s.locked \subseteq Row
          /\ s.elapsed \in 0..MaxBackoff /\ s.marked \subseteq Row /\ s.delayed \subseteq Row
      BY <2>1 DEF BatchIsSound, ServiceState
    <2>4. /\ \A r \in s.marked : table'[r].status = "published"
          /\ \A r \in Row \ s.marked : table'[r].status = table[r].status
      <3>1. \A r \in Row : table[r] \in RowState
        BY DEF TypeOK
      <3>2. \A r \in s.marked : table'[r].status = "published"
        BY <2>2, <2>3, <3>1, PublishedRowFacts
      <3>3. \A r \in s.delayed \ s.marked : table'[r].status = table[r].status
        BY <2>2, <2>3, <3>1, DelayedRowFacts
      <3>4. \A r \in Row \ (s.marked \union s.delayed) : table'[r].status = table[r].status
        BY <2>2
      <3> QED BY <3>2, <3>3, <3>4
    <2>5. Lasting
      BY <2>2, <2>4 DEF Lasting
    <2>6. AtRest \in ServiceState /\ AtRest.locked = {} /\ BatchIsSound(AtRest)'
      BY AtRestFacts, AtRestIsSound DEF AtRest
    <2>7. ASSUME NEW v \in Service \ {w}, NEW r \in service[v].locked
          PROVE  table'[r].status = "pending"
      <3>1. r \in Row /\ r \notin s.locked /\ table[r].status = "pending"
        BY <1>0, <2>1 DEF CompatInv, LocksAreExclusive, LockedRowsArePending, ServiceState
      <3> QED BY <2>3, <2>4, <3>1
    <2>8. ASSUME NEW r \in Row, table'[r].status = "published" PROVE stored'[r] > 0
      <3>1. CASE r \in s.marked
        BY <2>1, <2>2, <3>1 DEF BatchIsSound
      <3>2. CASE r \notin s.marked
        BY <2>2, <2>4, <2>8, <3>2 DEF CompatInv, PublishedWasStored
      <3> QED BY <3>1, <3>2
    <2>9. PICK t \in ServiceState : t = AtRest /\ t.locked = {}
      BY <2>6
    <2>10. BatchIsSound(t)' /\ service' = [service EXCEPT ![w] = t]
      BY <2>2, <2>6, <2>9
    <2>11. /\ \A v \in Service \ {w} : t.locked \intersect service[v].locked = {}
           /\ \A r \in t.locked : table'[r].status = "pending"
      BY <2>9
    <2> QED BY <2>5, <2>7, <2>8, <2>10, <2>11, OneServiceMoves
  <1>9. ASSUME NEW w \in Service, service' = [service EXCEPT ![w] = AtRest], UNCHANGED table,
               \A q \in Row : stored[q] > 0 => stored'[q] > 0
        PROVE  CompatInv'
    <2>1. PICK t \in ServiceState : t = AtRest /\ t.locked = {}
      BY AtRestFacts DEF AtRest
    <2> QED BY <1>9, <2>1, AtRestIsSound, OneServiceWorks
  <1>10. ASSUME NEW w \in Service, StatementFails(w) PROVE CompatInv'
    BY <1>9, <1>10 DEF StatementFails
  <1>11. ASSUME NEW w \in Service, Crash(w) PROVE CompatInv'
    <2>1. \A q \in Row : stored[q] > 0 => stored'[q] > 0
      BY <1>0, <1>11, RowInHand, ReceivedFacts DEF Crash, AtBroker
    <2> QED BY <1>9, <1>11, <2>1 DEF Crash
  <1>12. ASSUME NEW w \in Service, Disconnect(w) PROVE CompatInv'
    <2>1. PICK s \in ServiceState : s = service[w] /\ BatchIsSound(s)
      BY <1>0
    <2>2. PICK t \in ServiceState :
             /\ t = Unlocked(s) /\ t.pc = s.pc /\ ~t.connected /\ t.row = s.row
             /\ t.locked = {} /\ t.todo = s.todo /\ t.marked = {} /\ t.delayed = {}
      BY UnlockedFacts
    <2>3. UNCHANGED <<table, stored>> /\ service' = [service EXCEPT ![w] = Unlocked(s)]
      BY <1>12, <2>1 DEF Disconnect
    <2>4. BatchIsSound(t)'
      BY <2>1, <2>2, <2>3 DEF BatchIsSound
    <2> QED BY <2>1, <2>2, <2>3, <2>4, OneServiceWorks
  <1>13. CASE Tick
    <2>1. UNCHANGED stored /\ \A r \in Row : table'[r].status = table[r].status
      BY <1>13, AgedRowFacts DEF Tick, TypeOK
    <2>2. ASSUME NEW w \in Service
          PROVE  /\ service'[w].pc = service[w].pc
                 /\ service'[w].connected = service[w].connected
                 /\ service'[w].row = service[w].row
                 /\ service'[w].locked = service[w].locked
                 /\ service'[w].todo = service[w].todo
                 /\ service'[w].marked = service[w].marked
                 /\ service'[w].delayed = service[w].delayed
      <3>1. AtMost(service[w].elapsed + 1, MaxBackoff) \in 0..MaxBackoff
        BY <1>0 DEF ServiceState, AtMost
      <3> QED BY <1>0, <1>13, <3>1, AgedFacts DEF Tick
    <2>3. ASSUME NEW w \in Service PROVE BatchIsSound(service[w])'
      BY <1>0, <2>1, <2>2 DEF BatchIsSound, ServiceState, AtBroker
    <2>4. LocksAreExclusive' /\ LockedRowsArePending'
      BY <1>0, <2>1, <2>2 DEF CompatInv, LocksAreExclusive, LockedRowsArePending, ServiceState
    <2>5. PublishedWasStored'
      BY <2>1 DEF CompatInv, PublishedWasStored
    <2> QED BY <2>3, <2>4, <2>5 DEF CompatInv
  <1>14. CASE UNCHANGED vars
    BY <1>14 DEF vars, CompatInv, BatchIsSound, LocksAreExclusive, LockedRowsArePending,
                 PublishedWasStored
  <1> QED
    BY <1>1, <1>2, <1>3, <1>4, <1>5, <1>6, <1>7, <1>8, <1>10, <1>11, <1>12, <1>13, <1>14
       DEF Next, ServiceStep
LEMMA Invariance == Spec => [](TypeOK /\ CompatInv)
  BY TypeInit, InvInit, TypeStep, InvStep, PTL DEF Spec

\* Every reachable state is well typed, for any number of services and rows:
\* the attempts and backoffs of COMPAT_RESCHEDULE_SQL stay in range. (It needs
\* CompatInv: a mark or a delay is of a row in hand.)
THEOREM CompatTypeInvariant == Spec => []TypeOK
  BY Invariance, PTL

\* Open batches have their rows to themselves and mark only what the stream
\* has; committed marks are of stored messages (publish_batch).
THEOREM CompatInvariant == Spec => []CompatInv
  BY Invariance, PTL

\* Two services with open transactions are never at the broker with the same
\* row (FOR UPDATE SKIP LOCKED, held across the publish).
THEOREM OnePublisher == Spec => []SinglePublisher
  <1>1. TypeOK /\ CompatInv => SinglePublisher
    <2> SUFFICES ASSUME TypeOK, CompatInv, NEW w \in Service, NEW v \in Service, w # v,
                        service[w].connected, service[w].row # NoRow, service[v].connected,
                        service[w].row = service[v].row
                 PROVE  FALSE
      BY DEF SinglePublisher
    <2>1. service[w].row \in service[w].locked /\ service[v].row \in service[v].locked
      BY DEF CompatInv, BatchIsSound
    <2> QED BY <2>1 DEF CompatInv, LocksAreExclusive
  <1> QED BY <1>1, Invariance, PTL

\* A row is committed as published only after the stream has stored its
\* message, whatever was rolled back in between.
THEOREM PublishedIsStored == Spec => []PublishedWasStored
  <1>1. CompatInv => PublishedWasStored
    BY DEF CompatInv
  <1> QED BY <1>1, Invariance, PTL

----------------------------------------------------------------------------
(* The service implements the delivery contract.                           *)

LEMMA PhaseFollowsStatus ==
    ASSUME NEW q \in Row, table'[q].status = table[q].status
    PROVE  Phase(q)' = Phase(q)
  BY DEF Phase

LEMMA Stutters ==
    ASSUME UNCHANGED stored, \A q \in Row : table'[q].status = table[q].status
    PROVE  UNCHANGED Contract!contractVars
  <1>1. \A q \in Row : Phase(q)' = Phase(q)
    BY PhaseFollowsStatus
  <1> QED BY <1>1 DEF Contract!contractVars

LEMMA ReceivedStores ==
    ASSUME TypeOK, CompatInv, UNCHANGED table, NEW w \in Service, NEW r,
           service[w].pc = "offered", r = service[w].row, Received(r) \/ UNCHANGED stored
    PROVE  Contract!Next \/ UNCHANGED Contract!contractVars
  <1>1. CASE UNCHANGED stored
    BY <1>1, Stutters
  <1>2. CASE stored' = [stored EXCEPT ![r] = IF @ < StoreCap THEN @ + 1 ELSE @]
    <2>1. r \in Row /\ Publishable(r) /\ table[r].status # "absent"
      BY DEF CompatInv, BatchIsSound, AtBroker
    <2>2. Phase(r) # "none"
      BY <2>1 DEF Phase, TypeOK, RowState
    <2>3. \A q \in Row : Phase(q)' = Phase(q)
      BY PhaseFollowsStatus
    <2>4. Contract!Store(r)
      BY <1>2, <2>1, <2>2, <2>3 DEF Contract!Store, Publishable
    <2> QED BY <2>1, <2>4 DEF Contract!Next
  <1> QED BY <1>1, <1>2 DEF Received

LEMMA CommitCompletes ==
    ASSUME TypeOK, CompatInv, NEW w \in Service, Commit(w)
    PROVE  Contract!Next \/ UNCHANGED Contract!contractVars
  <1> DEFINE S == service[w].marked
  <1>0. service[w] \in ServiceState /\ BatchIsSound(service[w])
    BY DEF TypeOK, CompatInv
  <1>1. /\ S \subseteq Row /\ service[w].delayed \subseteq Row
        /\ \A r \in S : table[r].status = "pending" /\ stored[r] > 0
        /\ service[w].elapsed \in 0..MaxBackoff
    BY <1>0 DEF CompatInv, LockedRowsArePending, BatchIsSound, ServiceState
  <1>2. /\ \A r \in S : table'[r].status = "published"
        /\ \A r \in Row \ S : table'[r].status = table[r].status
        /\ UNCHANGED stored
    BY <1>1, PublishedRowFacts, DelayedRowFacts DEF Commit, TypeOK
  <1> HIDE DEF S
  <1>3. CASE S = {}
    BY <1>2, <1>3, Stutters
  <1>4. CASE S # {}
    <2>1. \A r \in S : Phase(r) = "staged" /\ Phase(r)' = "done"
      BY <1>1, <1>2 DEF Phase
    <2>2. \A q \in Row : Phase(q)' = IF q \in S THEN "done" ELSE Phase(q)
      BY <1>2, <2>1, PhaseFollowsStatus
    <2>3. S \in SUBSET {q \in Row : Phase(q) = "staged" /\ stored[q] > 0}
      BY <1>1, <2>1
    <2>4. Contract!Complete
      BY <1>2, <1>4, <2>2, <2>3 DEF Contract!Complete
    <2> QED BY <2>4 DEF Contract!Next
  <1> QED BY <1>3, <1>4

LEMMA ContractInit == Init => Contract!Init
  <1> SUFFICES ASSUME Init PROVE Contract!Init
    OBVIOUS
  <1>1. \A q \in Row : Phase(q) = IF q \in Poison THEN "staged" ELSE "none"
    BY StagedFacts DEF Init, Phase
  <1> QED BY <1>1 DEF Init, Contract!Init

LEMMA ContractStep ==
    TypeOK /\ CompatInv /\ [Next]_vars => [Contract!Next]_(Contract!contractVars)
  <1> SUFFICES ASSUME TypeOK, CompatInv, [Next]_vars
               PROVE  Contract!Next \/ UNCHANGED Contract!contractVars
    OBVIOUS
  <1>1. CASE UNCHANGED <<table, stored>>
    BY <1>1, Stutters
  <1>2. ASSUME NEW r \in Row, Enqueue(r) PROVE Contract!Next
    <2>1. /\ table[r].status = "absent" /\ table'[r].status = "pending"
          /\ \A q \in Row \ {r} : table'[q] = table[q]
      BY <1>2, StagedFacts DEF Enqueue, TypeOK
    <2>2. /\ Phase(r) = "none" /\ Phase(r)' = "staged"
          /\ \A q \in Row \ {r} : Phase(q)' = Phase(q)
      BY <2>1, PhaseFollowsStatus DEF Phase
    <2>3. Contract!Stage(r)
      BY <1>2, <2>2 DEF Enqueue, Publishable, Contract!Stage
    <2> QED BY <2>3 DEF Contract!Next
  <1>3. ASSUME NEW w \in Service, PublishOk(w) \/ PublishErr(w) \/ Crash(w)
        PROVE  Contract!Next \/ UNCHANGED Contract!contractVars
    <2>1. CASE UNCHANGED stored
      BY <1>1, <1>3, <2>1 DEF PublishOk, PublishErr, Crash
    <2>2. CASE service[w].pc = "offered" /\ Received(service[w].row)
      BY <1>3, <2>2, ReceivedStores DEF PublishOk, PublishErr, Crash
    <2> QED BY <1>3, <2>1, <2>2 DEF PublishOk, PublishErr, Crash, Acknowledged
  <1>4. CASE Tick
    BY <1>4, AgedRowFacts, Stutters DEF Tick, TypeOK
  <1> QED
    BY <1>1, <1>2, <1>3, <1>4, CommitCompletes
       DEF Next, ServiceStep, Claim, SkipPoison, Offer, MarkPublished, Reschedule,
           StatementFails, Disconnect, vars

\* The compatibility outbox behaves as the delivery contract: batches are
\* marked as a whole, only rows whose messages are stored, and marks are final.
THEOREM CompatImplementsContract == Spec => ImplementsDelivery
  BY ContractInit, ContractStep, Invariance, PTL DEF Spec, ImplementsDelivery, Contract!Spec
=============================================================================
