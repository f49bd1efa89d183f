-------------------------- MODULE EffectGateProofs --------------------------
(* Proofs about OfflineRelay and EffectGate, for every set of rows, callers *)
(* and handlers, whatever the rows are made of, and any number of faults.   *)
EXTENDS EffectGate, TLAPS

USE DEF offlineVars, gateVars

----------------------------------------------------------------------------
(* The inductive invariant.                                                *)

OneKeyed == \A q, r \in stored : IdOf(q) = IdOf(r) => q = r

Marked == \A r \in Row : table[r] = "published" => IdOf(r) \in seen

\* Every row of a batch is yet to do or reported once, and rightly.
Accounted(b) ==
    /\ b.batch = b.todo \union b.published \union b.failed
    /\ b.todo \intersect (b.published \union b.failed) = {}
    /\ b.published \intersect b.failed = {}
    /\ \A r \in b.published : IdOf(r) \in seen
    /\ faults = 0 => \A r \in b.failed : ~Publishable(r)

RelayInv ==
    /\ OfflineTypeOK
    /\ OneKeyed
    /\ Marked
    /\ \A d \in Drainer : Accounted(drainer[d])

\* A handler that may change the resource holds a token, and was let in in time.
InTime(h) ==
    h # Resting =>
        LET expiry == Envelope(h.row).expires_at
        IN  expiry = None \/ h.since < expiry

GateInv ==
    /\ CoreTypeOK
    /\ resource.writer = resource.highest
    /\ \A h \in Handler : /\ handler[h].row \in Mutating => handler[h].token # None
                          /\ InTime(handler[h])

----------------------------------------------------------------------------
(* The relay.                                                              *)

\* The digest keeps tenants and keys apart.
LEMMA DedupIdInjective ==
    ASSUME NEW t, NEW k, NEW u, NEW l, DedupId(t, k) = DedupId(u, l)
    PROVE  t = u /\ k = l
<1>1. CASE t = None /\ u = None
  <2>1. <<"global", k>> = <<"global", l>>  BY <1>1 DEF DedupId
  <2>2. k = l  BY <2>1
  <2> QED  BY <1>1, <2>2
<1>2. CASE t # None /\ u # None
  <2>1. <<"tenant", t, k>> = <<"tenant", u, l>>  BY <1>2 DEF DedupId
  <2> QED  BY <2>1
<1>3. CASE t = None /\ u # None
  <2>1. <<"global", k>> = <<"tenant", u, l>>  BY <1>3 DEF DedupId
  <2>2. <<"global", k>>[1] = "global" /\ <<"tenant", u, l>>[1] = "tenant"  OBVIOUS
  <2> QED  BY <2>1, <2>2
<1>4. CASE t # None /\ u = None
  <2>1. <<"tenant", t, k>> = <<"global", l>>  BY <1>4 DEF DedupId
  <2>2. <<"global", l>>[1] = "global" /\ <<"tenant", t, k>>[1] = "tenant"  OBVIOUS
  <2> QED  BY <2>1, <2>2
<1> QED  BY <1>1, <1>2, <1>3, <1>4

LEMMA RelayInitially ==
    ASSUME OfflineInit PROVE RelayInv
<1> USE DEF OfflineInit
<1>1. OfflineTypeOK  BY OfflineAssumption DEF OfflineTypeOK, NoBatch, Handed
<1>2. OneKeyed /\ Marked  BY DEF OneKeyed, Marked
<1>3. ASSUME NEW d \in Drainer PROVE Accounted(drainer[d])
  BY DEF Accounted, NoBatch, Handed
<1> QED  BY <1>1, <1>2, <1>3 DEF RelayInv

\* The publisher accepts r: it has r's id afterwards, forgets none, and keeps
\* one message of an id.
LEMMA Accepted ==
    ASSUME RelayInv, NEW r \in Row, Accept(r), record' = record
    PROVE  /\ stored' \subseteq Row
           /\ seen' = {IdOf(q) : q \in stored'}
           /\ OneKeyed'
           /\ IdOf(r) \in seen'
           /\ seen \subseteq seen'
<1> USE DEF RelayInv, OfflineTypeOK
<1>0. \A q \in Row : IdOf(q)' = IdOf(q)  BY DEF IdOf
<1>1. CASE IdOf(r) \in seen
  <2>1. UNCHANGED <<stored, seen>>  BY <1>1 DEF Accept
  <2> QED  BY <1>0, <1>1, <2>1 DEF OneKeyed, IdOf
<1>2. CASE IdOf(r) \notin seen
  <2>1. seen' = seen \union {IdOf(r)} /\ stored' = stored \union {r}
    BY <1>2 DEF Accept
  <2>2. \A q \in stored : IdOf(q) # IdOf(r)  BY <1>2
  <2>3. OneKeyed'
    <3>1. ASSUME NEW p \in stored', NEW q \in stored', IdOf(p) = IdOf(q) PROVE p = q
      <4>1. p \in stored \/ p = r  BY <2>1
      <4>2. q \in stored \/ q = r  BY <2>1
      <4> QED  BY <2>2, <3>1, <4>1, <4>2 DEF OneKeyed
    <3>2. stored' \subseteq Row  BY <2>1
    <3> QED  BY <1>0, <3>1, <3>2 DEF OneKeyed
  <2> QED  BY <2>1, <2>3
<1> QED  BY <1>1, <1>2

\* A step that leaves the publisher's memory growing, the record alone and
\* changes one caller only keeps the others' accounts.
LEMMA OthersAccounted ==
    ASSUME NEW d \in Drainer, Accounted(drainer[d]), drainer'[d] = drainer[d],
           record' = record, seen \subseteq seen', faults' = faults \/ faults' # 0
    PROVE  Accounted(drainer[d])'
<1>1. \A r : IdOf(r)' = IdOf(r) /\ (Publishable(r)' <=> Publishable(r))
  BY DEF IdOf, Publishable, Subject
<1> QED  BY <1>1 DEF Accounted

\* What one row's turn does to its caller.
LEMMA TurnAccounted ==
    ASSUME RelayInv, NEW d \in Drainer, NEW r \in drainer[d].todo, record' = record,
           seen \subseteq seen', faults' = faults \/ faults' # 0,
           \/ Succeeded(d, r) /\ IdOf(r) \in seen'
           \/ Failed(d, r) /\ (faults' = 0 => ~Publishable(r))
    PROVE  /\ drainer' \in [Drainer -> [batch : SUBSET Row, todo : SUBSET Row,
                                        published : SUBSET Row, failed : SUBSET Row]]
           /\ \A e \in Drainer : Accounted(drainer[e])'
<1> DEFINE b == drainer[d]
           win == [b EXCEPT !.todo = b.todo \ {r}, !.published = b.published \union {r}]
           lose == [b EXCEPT !.todo = b.todo \ {r}, !.failed = b.failed \union {r}]
<1>1. /\ b \in [batch : SUBSET Row, todo : SUBSET Row,
                published : SUBSET Row, failed : SUBSET Row]
      /\ Accounted(b)
  BY DEF RelayInv, OfflineTypeOK
<1>2. \/ drainer' = [drainer EXCEPT ![d] = win] /\ IdOf(r) \in seen'
      \/ drainer' = [drainer EXCEPT ![d] = lose] /\ (faults' = 0 => ~Publishable(r))
  BY DEF Succeeded, Failed, LeftAfterFailure
<1>3. \A q : IdOf(q)' = IdOf(q) /\ (Publishable(q)' <=> Publishable(q))
  BY DEF IdOf, Publishable, Subject
<1>4. drainer \in [Drainer -> [batch : SUBSET Row, todo : SUBSET Row,
                               published : SUBSET Row, failed : SUBSET Row]]
  BY DEF RelayInv, OfflineTypeOK
<1>5. ASSUME drainer' = [drainer EXCEPT ![d] = win], IdOf(r) \in seen'
      PROVE  /\ drainer'[d] \in [batch : SUBSET Row, todo : SUBSET Row,
                                 published : SUBSET Row, failed : SUBSET Row]
             /\ Accounted(drainer[d])'
  <2>1. drainer'[d] = win  BY <1>4, <1>5
  <2>2. /\ win.batch = b.batch /\ win.todo = b.todo \ {r}
        /\ win.published = b.published \union {r} /\ win.failed = b.failed
    BY <1>1
  <2>3. win \in [batch : SUBSET Row, todo : SUBSET Row,
                 published : SUBSET Row, failed : SUBSET Row]
    BY <1>1
  <2> HIDE DEF b, win
  <2>4. r \in b.todo  BY DEF b
  <2> QED  BY <1>1, <1>3, <1>5, <2>1, <2>2, <2>3, <2>4 DEF Accounted
<1>6. ASSUME drainer' = [drainer EXCEPT ![d] = lose], faults' = 0 => ~Publishable(r)
      PROVE  /\ drainer'[d] \in [batch : SUBSET Row, todo : SUBSET Row,
                                 published : SUBSET Row, failed : SUBSET Row]
             /\ Accounted(drainer[d])'
  <2>1. drainer'[d] = lose  BY <1>4, <1>6
  <2>2. /\ lose.batch = b.batch /\ lose.todo = b.todo \ {r}
        /\ lose.published = b.published /\ lose.failed = b.failed \union {r}
    BY <1>1
  <2>3. lose \in [batch : SUBSET Row, todo : SUBSET Row,
                  published : SUBSET Row, failed : SUBSET Row]
    BY <1>1
  <2> HIDE DEF b, lose
  <2>4. r \in b.todo  BY DEF b
  <2> QED  BY <1>1, <1>3, <1>6, <2>1, <2>2, <2>3, <2>4 DEF Accounted
<1>7. drainer'[d] \in [batch : SUBSET Row, todo : SUBSET Row,
                       published : SUBSET Row, failed : SUBSET Row]
      /\ Accounted(drainer[d])'
  BY <1>2, <1>5, <1>6
<1>8. \A e \in Drainer : e # d => drainer'[e] = drainer[e]  BY <1>2, <1>4
<1>9. drainer' \in [Drainer -> [batch : SUBSET Row, todo : SUBSET Row,
                                published : SUBSET Row, failed : SUBSET Row]]
  BY <1>2, <1>4, <1>7, <1>8
<1>10. ASSUME NEW e \in Drainer, e # d PROVE Accounted(drainer[e])'
  BY <1>8, <1>10, OthersAccounted DEF RelayInv
<1> QED  BY <1>7, <1>9, <1>10

LEMMA StageKeeps ==
    ASSUME RelayInv, NEW r \in Row, Stage(r) PROVE RelayInv'
<1> USE DEF RelayInv, Stage
<1>0. \A q : IdOf(q)' = IdOf(q)  BY DEF IdOf
<1>1. OfflineTypeOK'  BY <1>0 DEF OfflineTypeOK
<1>2. OneKeyed' /\ Marked'  BY <1>0 DEF OneKeyed, Marked, OfflineTypeOK
<1>3. \A d \in Drainer : Accounted(drainer[d])'  BY OthersAccounted
<1> QED  BY <1>1, <1>2, <1>3

\* A step of a caller that touches neither the rows nor the publisher.
LEMMA CallerKeeps ==
    ASSUME RelayInv, NEW d \in Drainer, NEW b \in [batch : SUBSET Row, todo : SUBSET Row,
                                                 published : SUBSET Row, failed : SUBSET Row],
           Accounted(b)', drainer' = [drainer EXCEPT ![d] = b],
           UNCHANGED <<record, stored, seen>>, faults' \in 0..MaxFaults,
           faults' = faults \/ faults' # 0,
           table' \in [Row -> {"absent", "pending", "published"}], Marked'
    PROVE  RelayInv'
<1> USE DEF RelayInv
<1>0. \A q : IdOf(q)' = IdOf(q)  BY DEF IdOf
<1>1. OfflineTypeOK'  BY <1>0 DEF OfflineTypeOK
<1>2. OneKeyed'  BY <1>0 DEF OneKeyed
<1>3. ASSUME NEW e \in Drainer PROVE Accounted(drainer[e])'
  <2>1. CASE e = d
    <3>1. drainer'[e] = b  BY <2>1 DEF OfflineTypeOK
    <3> QED  BY <3>1 DEF Accounted
  <2>2. CASE e # d
    <3>1. drainer'[e] = drainer[e]  BY <2>2 DEF OfflineTypeOK
    <3> QED  BY <3>1, OthersAccounted
  <2> QED  BY <2>1, <2>2
<1> QED  BY <1>1, <1>2, <1>3

LEMMA FaultCounts ==
    ASSUME OfflineTypeOK, Fault
    PROVE  faults' \in 0..MaxFaults /\ faults' # 0
  BY OfflineAssumption DEF OfflineTypeOK, Fault

LEMMA NoBatchIsAccounted ==
    /\ NoBatch \in [batch : SUBSET Row, todo : SUBSET Row,
                    published : SUBSET Row, failed : SUBSET Row]
    /\ Accounted(NoBatch)'
  BY DEF NoBatch, Handed, Accounted

LEMMA TakeKeeps ==
    ASSUME RelayInv, NEW d \in Drainer, Take(d) PROVE RelayInv'
<1>1. PICK batch \in SUBSET Row : drainer' = [drainer EXCEPT ![d] = Handed(batch)]
  BY DEF Take
<1>3. Handed(batch) \in [batch : SUBSET Row, todo : SUBSET Row,
                        published : SUBSET Row, failed : SUBSET Row]
  BY DEF Handed
<1>4. Accounted(Handed(batch))'  BY DEF Accounted, Handed
<1>5. Marked' /\ table' = table /\ UNCHANGED <<record, stored, seen, faults>>
  BY DEF Take, RelayInv, Marked, IdOf
<1>6. /\ table' \in [Row -> {"absent", "pending", "published"}]
      /\ faults' \in 0..MaxFaults
  BY <1>5 DEF RelayInv, OfflineTypeOK
<1> QED  BY <1>1, <1>3, <1>4, <1>5, <1>6, CallerKeeps

\* Marking what was reported published is right: the publisher has its id.
LEMMA MarkKeeps ==
    ASSUME RelayInv, NEW d \in Drainer, Mark(d) PROVE RelayInv'
<1>1. /\ drainer' = [drainer EXCEPT ![d] = NoBatch]
      /\ UNCHANGED <<record, stored, seen, faults>>
      /\ table' = [r \in Row |-> IF r \in drainer[d].published THEN "published" ELSE table[r]]
  BY DEF Mark
<1>2. Accounted(drainer[d])  BY DEF RelayInv
<1>3. /\ table' \in [Row -> {"absent", "pending", "published"}]
      /\ faults' \in 0..MaxFaults
  BY <1>1 DEF RelayInv, OfflineTypeOK
<1>4. Marked'
  <2>1. \A r : IdOf(r)' = IdOf(r)  BY <1>1 DEF IdOf
  <2>2. ASSUME NEW r \in Row, table'[r] = "published" PROVE IdOf(r) \in seen
    <3>1. r \in drainer[d].published \/ table[r] = "published"  BY <1>1, <2>2
    <3> QED  BY <1>2, <3>1 DEF Accounted, RelayInv, Marked
  <2> QED  BY <1>1, <2>1, <2>2 DEF Marked
<1> QED  BY <1>1, <1>3, <1>4, CallerKeeps, NoBatchIsAccounted

LEMMA DrainerCrashKeeps ==
    ASSUME RelayInv, NEW d \in Drainer, DrainerCrash(d) PROVE RelayInv'
<1>1. /\ drainer' = [drainer EXCEPT ![d] = NoBatch]
      /\ UNCHANGED <<record, table, stored, seen>>
      /\ Fault
  BY DEF DrainerCrash
<1>2. Marked' /\ table' \in [Row -> {"absent", "pending", "published"}]
  BY <1>1 DEF RelayInv, Marked, IdOf, OfflineTypeOK
<1>3. faults' \in 0..MaxFaults /\ faults' # 0  BY <1>1, FaultCounts DEF RelayInv
<1> QED  BY <1>1, <1>2, <1>3, CallerKeeps, NoBatchIsAccounted

\* The three ends of a row's turn.
LEMMA TurnKeeps ==
    ASSUME RelayInv, NEW d \in Drainer, NEW r \in Row,
           \/ DrainInvalid(d, r) \/ DrainPublished(d, r) \/ DrainFailed(d, r)
    PROVE  RelayInv'
<1> USE DEF RelayInv
<1>1. /\ r \in drainer[d].todo
      /\ UNCHANGED <<record, table>>
      /\ Accept(r) \/ UNCHANGED <<stored, seen>>
      /\ UNCHANGED faults \/ Fault
  BY DEF DrainInvalid, DrainPublished, DrainFailed
<1>2. \A q : IdOf(q)' = IdOf(q)  BY <1>1 DEF IdOf
<1>3. /\ stored' \subseteq Row
      /\ seen' = {IdOf(q) : q \in stored'}
      /\ OneKeyed'
      /\ seen \subseteq seen'
  <2>1. CASE Accept(r)  BY <1>1, <2>1, Accepted
  <2>2. CASE UNCHANGED <<stored, seen>>
    BY <1>2, <2>2 DEF OfflineTypeOK, OneKeyed
  <2> QED  BY <1>1, <2>1, <2>2
<1>4. faults' \in 0..MaxFaults /\ (faults' = faults \/ faults' # 0)
  BY <1>1, FaultCounts DEF OfflineTypeOK
<1>5. \/ Succeeded(d, r) /\ IdOf(r) \in seen'
      \/ Failed(d, r) /\ (faults' = 0 => ~Publishable(r))
  <2>1. CASE DrainInvalid(d, r)  BY <2>1 DEF DrainInvalid
  <2>2. CASE DrainPublished(d, r)  BY <1>1, <2>2, Accepted DEF DrainPublished
  <2>3. CASE DrainFailed(d, r)  BY <2>3, FaultCounts DEF DrainFailed
  <2> QED  BY <2>1, <2>2, <2>3
<1>6. /\ drainer' \in [Drainer -> [batch : SUBSET Row, todo : SUBSET Row,
                                   published : SUBSET Row, failed : SUBSET Row]]
      /\ \A e \in Drainer : Accounted(drainer[e])'
  BY <1>1, <1>3, <1>4, <1>5, TurnAccounted
<1>7. Marked'  BY <1>1, <1>2, <1>3 DEF Marked
<1>8. OfflineTypeOK'
  <2>1. seen' = {IdOf(q)' : q \in stored'}  BY <1>2, <1>3
  <2>2. \A q \in Row : record'[q] \in Choices[q]  BY <1>1 DEF OfflineTypeOK
  <2>3. table' \in [Row -> {"absent", "pending", "published"}]
    BY <1>1 DEF OfflineTypeOK
  <2> QED  BY <1>3, <1>4, <1>6, <2>1, <2>2, <2>3 DEF OfflineTypeOK
<1> QED  BY <1>3, <1>6, <1>7, <1>8

LEMMA RelayStep ==
    ASSUME RelayInv, OfflineNext PROVE RelayInv' /\ record' = record
<1>1. ASSUME NEW r \in Row, Stage(r) PROVE RelayInv' /\ record' = record
  BY <1>1, StageKeeps DEF Stage
<1>2. ASSUME NEW d \in Drainer, Take(d) PROVE RelayInv' /\ record' = record
  BY <1>2, TakeKeeps DEF Take
<1>3. ASSUME NEW d \in Drainer, Mark(d) PROVE RelayInv' /\ record' = record
  BY <1>3, MarkKeeps DEF Mark
<1>4. ASSUME NEW d \in Drainer, DrainerCrash(d) PROVE RelayInv' /\ record' = record
  BY <1>4, DrainerCrashKeeps DEF DrainerCrash
<1>5. ASSUME NEW d \in Drainer, NEW r \in Row,
             DrainInvalid(d, r) \/ DrainPublished(d, r) \/ DrainFailed(d, r)
      PROVE  RelayInv' /\ record' = record
  BY <1>5, TurnKeeps DEF DrainInvalid, DrainPublished, DrainFailed
<1> QED  BY <1>1, <1>2, <1>3, <1>4, <1>5 DEF OfflineNext

LEMMA RelayStutters ==
    ASSUME RelayInv, UNCHANGED offlineVars PROVE RelayInv'
<1>1. \A q : IdOf(q)' = IdOf(q)  BY DEF IdOf
<1>2. OfflineTypeOK' /\ OneKeyed' /\ Marked'
  BY <1>1 DEF RelayInv, OfflineTypeOK, OneKeyed, Marked
<1>3. \A d \in Drainer : Accounted(drainer[d])'  BY OthersAccounted DEF RelayInv
<1> QED  BY <1>2, <1>3 DEF RelayInv

LEMMA CoreInitially ==
    ASSUME CoreInit PROVE RelayInv /\ GateInv
<1>1. RelayInv  BY RelayInitially DEF CoreInit
<1>2. CoreTypeOK
  BY <1>1, GateAssumption DEF CoreInit, GateInit, CoreTypeOK, RelayInv, Resting
<1>3. resource.writer = resource.highest  BY DEF CoreInit, GateInit
<1>4. ASSUME NEW h \in Handler
      PROVE  (handler[h].row \in Mutating => handler[h].token # None) /\ InTime(handler[h])
  BY GateAssumption DEF CoreInit, GateInit, InTime, Resting
<1> QED  BY <1>1, <1>2, <1>3, <1>4 DEF GateInv

----------------------------------------------------------------------------
(* The consumers.                                                          *)

\* A handler at rest has nothing to account for.
LEMMA RestingIsFine ==
    /\ Resting.row \in Row \union {NoRow} /\ Resting.row \notin Mutating
    /\ Resting.since = 0 /\ Resting.token \in Nat \union {None}
    /\ InTime(Resting)
  BY GateAssumption DEF Resting, InTime

LEMMA OpenKeeps ==
    ASSUME RelayInv, GateInv, NEW h \in Handler, NEW r \in Row, Open(h, r)
    PROVE  LET held == handler'[h] IN
           /\ held.row = r /\ held.since = now
           /\ held.token \in Nat \union {None}
           /\ r \in Mutating => held.token # None
           /\ InTime(held)
<1> DEFINE e == Envelope(r)
<1>1. /\ ~IsExpired(e, now)
      /\ r \in Mutating => HasFencingToken(e)
      /\ handler' = [handler EXCEPT ![h] =
             [row |-> r, since |-> now, token |-> GrantedToken(e, r \in Mutating)]]
  BY DEF Open, Consumable
<1>2. {e.fencing_token, e.expires_at} \subseteq Nat \union {None}
  BY GateAssumption DEF RelayInv, OfflineTypeOK, Envelope
<1>3. now \in 0..MaxNow /\ now \in Nat
  BY GateAssumption DEF GateInv, CoreTypeOK
<1>4. handler'[h] = [row |-> r, since |-> now, token |-> GrantedToken(e, r \in Mutating)]
  BY <1>1 DEF GateInv, CoreTypeOK
<1>5. /\ GrantedToken(e, r \in Mutating) \in Nat \union {None}
      /\ r \in Mutating => GrantedToken(e, r \in Mutating) # None
  BY <1>1, <1>2 DEF GrantedToken, HasFencingToken
<1>6. e.expires_at = None \/ now < e.expires_at
  BY <1>1, <1>2, <1>3 DEF IsExpired
<1> HIDE DEF e
<1>7. /\ handler'[h].row = r /\ handler'[h].since = now
      /\ handler'[h].token = GrantedToken(e, r \in Mutating)
  BY <1>4
<1>8. InTime(handler'[h])
  BY <1>6, <1>7 DEF InTime, e
<1> QED  BY <1>5, <1>7, <1>8

\* What a handler holds is in order.
Fine(h) ==
    /\ h \in [row : Row \union {NoRow}, since : 0..MaxNow, token : Nat \union {None}]
    /\ h.row \in Mutating => h.token # None
    /\ InTime(h)

LEMMA GateStep ==
    ASSUME RelayInv, GateInv, GateNext, UNCHANGED offlineVars PROVE GateInv'
<1> USE DEF GateInv
<1> DEFINE HandlerType == [row : Row \union {NoRow}, since : 0..MaxNow,
                           token : Nat \union {None}]
<1>0. /\ \A x : InTime(x)' <=> InTime(x)
      /\ OfflineTypeOK'
  BY RelayStutters DEF InTime, Envelope, RelayInv
<1>1. now \in 0..MaxNow /\ MaxNow \in Nat /\ handler \in [Handler -> HandlerType]
      /\ resource \in [highest : Nat, writer : Nat \union {None}]
  BY GateAssumption DEF CoreTypeOK
\* A step of one handler that leaves the clock alone.
<1>2. ASSUME NEW h \in Handler, NEW held, Fine(held),
             handler' = [handler EXCEPT ![h] = held], now' = now,
             resource' \in [highest : Nat, writer : Nat \union {None}],
             resource'.writer = resource'.highest
      PROVE  GateInv'
  <2>1. handler' \in [Handler -> HandlerType]  BY <1>1, <1>2 DEF Fine
  <2>2. CoreTypeOK'  BY <1>0, <1>1, <1>2, <2>1 DEF CoreTypeOK
  <2>3. ASSUME NEW g \in Handler
        PROVE  (handler'[g].row \in Mutating => handler'[g].token # None) /\ InTime(handler'[g])
    <3>1. handler'[g] = held \/ handler'[g] = handler[g]  BY <1>1, <1>2
    <3> QED  BY <1>2, <3>1 DEF Fine
  <2> QED  BY <1>0, <1>2, <2>2, <2>3
<1>3. Fine(Resting)
  BY <1>1, RestingIsFine DEF Fine, Resting
<1>4. ASSUME NEW h \in Handler, NEW r \in Row, Open(h, r) PROVE GateInv'
  <2>1. /\ handler'[h].row = r /\ handler'[h].since = now
        /\ handler'[h].token \in Nat \union {None}
        /\ r \in Mutating => handler'[h].token # None
        /\ InTime(handler'[h])
    BY <1>4, OpenKeeps
  <2>2. /\ handler' = [handler EXCEPT ![h] = [row |-> r, since |-> now,
               token |-> GrantedToken(Envelope(r), r \in Mutating)]]
        /\ now' = now /\ resource' = resource
    BY <1>4 DEF Open
  <2> DEFINE held == [row |-> r, since |-> now,
                      token |-> GrantedToken(Envelope(r), r \in Mutating)]
  <2>3. handler'[h] = held  BY <1>1, <2>2
  <2>4. Fine(held)
    <3>1. held.row = r /\ held.since = now /\ held.token = handler'[h].token  BY <2>3
    <3>2. held \in HandlerType  BY <1>1, <2>1, <2>3
    <3> QED  BY <2>1, <2>3, <3>1, <3>2 DEF Fine
  <2> HIDE DEF held
  <2>5. handler' = [handler EXCEPT ![h] = held]  BY <2>2 DEF held
  <2> QED  BY <1>1, <1>2, <2>2, <2>4, <2>5
<1>5. ASSUME NEW h \in Handler, Die(h) PROVE GateInv'
  BY <1>1, <1>2, <1>3, <1>5 DEF Die
<1>6. ASSUME NEW h \in Handler, Act(h) PROVE GateInv'
  <2>1. handler' = [handler EXCEPT ![h] = Resting] /\ now' = now  BY <1>6 DEF Act
  <2>2. handler[h].token \in Nat \union {None}  BY <1>1
  <2>3. /\ resource' \in [highest : Nat, writer : Nat \union {None}]
        /\ resource'.writer = resource'.highest
    <3>1. CASE handler[h].row \notin Mutating
      BY <1>1, <1>6, <3>1 DEF Act
    <3>2. CASE handler[h].row \in Mutating
      <4>1. handler[h].token # None /\ handler[h].token \in Nat  BY <2>2, <3>2
      <4>2. resource' = resource
            \/ resource' = [highest |-> handler[h].token, writer |-> handler[h].token]
        BY <1>6, <3>2, <4>1 DEF Act
      <4> QED  BY <1>1, <4>1, <4>2
    <3> QED  BY <3>1, <3>2
  <2> QED  BY <1>2, <1>3, <2>1, <2>3
<1>7. CASE Tick
  <2>1. now' \in 0..MaxNow /\ UNCHANGED <<handler, resource>>  BY <1>1, <1>7 DEF Tick
  <2>2. CoreTypeOK'  BY <1>0, <1>1, <2>1 DEF CoreTypeOK
  <2> QED  BY <1>0, <2>1, <2>2
<1> QED  BY <1>4, <1>5, <1>6, <1>7 DEF GateNext

\* The producers change nothing a handler holds: a row is made once.
LEMMA GateRests ==
    ASSUME RelayInv', GateInv, record' = record, UNCHANGED gateVars PROVE GateInv'
<1>1. \A x : InTime(x)' <=> InTime(x)  BY DEF InTime, Envelope
<1>2. CoreTypeOK'  BY DEF GateInv, CoreTypeOK, RelayInv
<1> QED  BY <1>1, <1>2 DEF GateInv

LEMMA CoreStep ==
    ASSUME RelayInv, GateInv, [CoreNext]_<<offlineVars, gateVars>>
    PROVE  RelayInv' /\ GateInv'
<1>1. CASE OfflineNext /\ UNCHANGED gateVars  BY <1>1, RelayStep, GateRests
<1>2. CASE GateNext /\ UNCHANGED offlineVars  BY <1>2, GateStep, RelayStutters
<1>3. CASE UNCHANGED <<offlineVars, gateVars>>
  <2>1. UNCHANGED offlineVars /\ UNCHANGED gateVars  BY <1>3
  <2> QED  BY <2>1, RelayStutters, GateRests
<1> QED  BY <1>1, <1>2, <1>3 DEF CoreNext

----------------------------------------------------------------------------
(* What is published was staged, and is valid.                             *)

\* Only staged rows reach a caller, and only publishable ones the publisher.
StagedInv ==
    /\ \A r \in Row : table[r] # "absent" => MayStage(r)
    /\ \A d \in Drainer : \A r \in drainer[d].batch : MayStage(r)
    /\ \A r \in stored : Publishable(r) /\ MayStage(r)

LEMMA StagedInitially == OfflineInit => StagedInv
  BY DEF OfflineInit, StagedInv, NoBatch, Handed

LEMMA StagedStep ==
    ASSUME RelayInv, StagedInv, OfflineNext PROVE StagedInv'
<1> USE DEF StagedInv
<1>0. record' = record  BY RelayStep
<1>1. \A r : (MayStage(r)' <=> MayStage(r)) /\ (Publishable(r)' <=> Publishable(r))
  BY <1>0 DEF MayStage, Publishable, Envelope, Subject
<1>2. /\ drainer \in [Drainer -> [batch : SUBSET Row, todo : SUBSET Row,
                                  published : SUBSET Row, failed : SUBSET Row]]
      /\ table \in [Row -> {"absent", "pending", "published"}]
  BY DEF RelayInv, OfflineTypeOK
<1>3. ASSUME NEW r \in Row, Stage(r) PROVE StagedInv'
  BY <1>1, <1>2, <1>3 DEF Stage
<1>4. ASSUME NEW d \in Drainer, Take(d) PROVE StagedInv'
  <2>1. PICK batch \in SUBSET {r \in Row : table[r] = "pending"} :
            drainer' = [drainer EXCEPT ![d] = Handed(batch)]
    BY <1>4 DEF Take
  <2>2. ASSUME NEW e \in Drainer, NEW r \in drainer'[e].batch PROVE MayStage(r)
    <3>1. r \in drainer[e].batch \/ r \in batch  BY <1>2, <2>1 DEF Handed
    <3> QED  BY <3>1
  <2> QED  BY <1>1, <1>4, <2>2 DEF Take
<1>5. ASSUME NEW d \in Drainer, drainer' = [drainer EXCEPT ![d] = NoBatch]
      PROVE  \A e \in Drainer : drainer'[e].batch \subseteq drainer[e].batch
  BY <1>2, <1>5 DEF NoBatch, Handed
<1>6. ASSUME NEW d \in Drainer, Mark(d) PROVE StagedInv'
  <2>1. /\ drainer' = [drainer EXCEPT ![d] = NoBatch] /\ stored' = stored
        /\ table' = [r \in Row |-> IF r \in drainer[d].published THEN "published" ELSE table[r]]
    BY <1>6 DEF Mark
  <2>2. ASSUME NEW r \in Row, table'[r] # "absent" PROVE MayStage(r)
    <3>1. CASE table[r] # "absent"  BY <3>1
    <3>2. CASE r \in drainer[d].published  BY <3>2 DEF RelayInv, Accounted
    <3> QED  BY <2>1, <2>2, <3>1, <3>2
  <2>3. \A e \in Drainer : drainer'[e].batch \subseteq drainer[e].batch
    BY <1>5, <2>1
  <2> QED  BY <1>1, <2>1, <2>2, <2>3
<1>7. ASSUME NEW d \in Drainer, DrainerCrash(d) PROVE StagedInv'
  <2>1. \A e \in Drainer : drainer'[e].batch \subseteq drainer[e].batch
    BY <1>5, <1>7 DEF DrainerCrash
  <2> QED  BY <1>1, <1>7, <2>1 DEF DrainerCrash
<1>8. ASSUME NEW d \in Drainer, NEW r \in Row,
             DrainInvalid(d, r) \/ DrainPublished(d, r) \/ DrainFailed(d, r)
      PROVE  StagedInv'
  <2>1. /\ r \in drainer[d].todo /\ table' = table
        /\ Succeeded(d, r) \/ Failed(d, r)
        /\ stored' = stored \/ (stored' = stored \union {r} /\ Publishable(r))
    BY <1>8 DEF DrainInvalid, DrainPublished, DrainFailed, Accept
  <2>2. MayStage(r)  BY <2>1 DEF RelayInv, Accounted
  <2>3. \A e \in Drainer : drainer'[e].batch = drainer[e].batch
    BY <1>2, <2>1 DEF Succeeded, Failed
  <2> QED  BY <1>1, <2>1, <2>2, <2>3
<1> QED  BY <1>3, <1>4, <1>6, <1>7, <1>8 DEF OfflineNext

\* A subject that parses is written as its class is, and its group hears it.
LEMMA ParsedIsRendered ==
    ASSUME NEW s \in Seq(STRING), Parses(s)
    PROVE  /\ AsString(Class(s)) = s
           /\ \E g \in WellFormed \ Uuids, t \in DOMAIN VersionOf :
                 VersionOf[t] # 0 /\ Receives(GroupWildcard(g, VersionOf[t]), s)
<1>1. /\ Len(s) = 4 /\ s[1] = Root /\ s[4] = VersionToken[VersionOf[s[4]]]
      /\ s[2] \in WellFormed \ Uuids /\ s[4] \in DOMAIN VersionOf /\ VersionOf[s[4]] # 0
  BY DEF Parses, CanonicalVersion, ValidToken
<1>2. AsString(Class(s)) = <<s[1], s[2], s[3], s[4]>>
  BY <1>1 DEF AsString, Class
<1>3. <<s[1], s[2], s[3], s[4]>> = s
  BY <1>1
<1>4. Receives(GroupWildcard(s[2], VersionOf[s[4]]), s)
  <2> DEFINE p == <<s[1], s[2], "*", s[4]>>
  <2>1. GroupWildcard(s[2], VersionOf[s[4]]) = p  BY <1>1 DEF GroupWildcard
  <2>2. Len(p) = 4 /\ DOMAIN p = 1..4 /\ p[1] = s[1] /\ p[2] = s[2] /\ p[3] = "*" /\ p[4] = s[4]
    OBVIOUS
  <2> HIDE DEF p
  <2>3. \A i \in DOMAIN p : p[i] \in {"*", s[i]}  BY <2>2
  <2> QED  BY <1>1, <2>1, <2>2, <2>3 DEF Receives
<1> QED  BY <1>1, <1>2, <1>3, <1>4

----------------------------------------------------------------------------
(* Theorems.                                                               *)

\* Producers, publisher and consumers keep the inductive invariant.
THEOREM CoreInvariant == CoreSpec => [](RelayInv /\ GateInv)
<1>1. CoreInit => RelayInv /\ GateInv  BY CoreInitially
<1>2. RelayInv /\ GateInv /\ [CoreNext]_<<offlineVars, gateVars>> => (RelayInv /\ GateInv)'
  BY CoreStep
<1> QED  BY <1>1, <1>2, PTL DEF CoreSpec

\* Every variable has its type, and the publisher has seen exactly the ids of
\* the messages it keeps.
THEOREM CoreTypeInvariant == CoreSpec => []CoreTypeOK
<1>1. RelayInv /\ GateInv => CoreTypeOK  BY DEF GateInv
<1> QED  BY <1>1, CoreInvariant, PTL

\* What drain returns accounts for its batch, row by row (Relay::drain).
THEOREM OutcomesAreHonest == CoreSpec => []OutcomeIsHonest
<1>1. RelayInv /\ GateInv => OutcomeIsHonest
  <2> SUFFICES ASSUME RelayInv, NEW d \in Drainer, Returned(d)
               PROVE  /\ drainer[d].published \union drainer[d].failed = drainer[d].batch
                      /\ drainer[d].published \intersect drainer[d].failed = {}
                      /\ \A r \in drainer[d].published : IdOf(r) \in seen
                      /\ faults = 0 => \A r \in drainer[d].failed : ~Publishable(r)
    BY DEF OutcomeIsHonest
  <2> QED  BY DEF RelayInv, Accounted, Returned
<1> QED  BY <1>1, CoreInvariant, PTL

\* One message per tenant and business key, however often and by whomever it
\* is drained, and none reported published in another tenant's stead.
THEOREM KeysPublishOnce == CoreSpec => []OncePerBusinessKey
<1>1. RelayInv /\ GateInv => OncePerBusinessKey
  <2>1. ASSUME RelayInv, NEW q \in stored, NEW r \in stored, SameKey(q, r) PROVE q = r
    <3>1. IdOf(q) = IdOf(r)  BY <2>1 DEF SameKey, IdOf
    <3> QED  BY <2>1, <3>1 DEF RelayInv, OneKeyed
  <2>2. ASSUME RelayInv, NEW r \in Row, table[r] = "published"
        PROVE  \E q \in stored : SameKey(q, r)
    <3>1. IdOf(r) \in seen  BY <2>2 DEF RelayInv, Marked
    <3>2. PICK q \in stored : IdOf(q) = IdOf(r)
      BY <2>2, <3>1 DEF RelayInv, OfflineTypeOK
    <3>3. SameKey(q, r)  BY <3>2, DedupIdInjective DEF IdOf, SameKey
    <3> QED  BY <3>3
  <2> QED  BY <2>1, <2>2 DEF OncePerBusinessKey
<1> QED  BY <1>1, CoreInvariant, PTL

\* Every message the publisher keeps is received under its class, whoever made
\* its payload (Subject::parse); those that from_envelope staged also decode,
\* and of the other payloads the code promises nothing.
THEOREM StoredCanBeReceived == CoreSpec => []StoredIsReceivable
<1>1. RelayInv /\ StagedInv => StoredIsReceivable
  <2> SUFFICES ASSUME RelayInv, StagedInv, NEW r \in stored
               PROVE  /\ AsString(Class(Subject(r))) = Subject(r)
                      /\ \E g \in WellFormed \ Uuids, t \in DOMAIN VersionOf :
                            VersionOf[t] # 0 /\ Receives(GroupWildcard(g, VersionOf[t]), Subject(r))
                      /\ record[r].typed => Decodes(Envelope(r))
    BY DEF StoredIsReceivable
  <2>1. Publishable(r) /\ MayStage(r)  BY DEF StagedInv
  <2>2. IsRecord(record[r])  BY OfflineAssumption DEF RelayInv, OfflineTypeOK
  <2>3. Subject(r) \in Seq(STRING) /\ Parses(Subject(r))
    BY <2>1, <2>2 DEF IsRecord, Subject, Publishable
  <2>4. record[r].typed => Decodes(Envelope(r))
    BY <2>1, <2>2, NoneAssumption
    DEF MayStage, Decodes, Validates, ReadVersion, EnvelopeVersion, Envelope, IsRecord
  <2> QED  BY <2>3, <2>4, ParsedIsRendered
<1>2. CoreInit => StagedInv  BY StagedInitially DEF CoreInit
<1>3. RelayInv /\ StagedInv /\ [CoreNext]_<<offlineVars, gateVars>> => StagedInv'
  <2>1. ASSUME RelayInv, StagedInv, UNCHANGED offlineVars PROVE StagedInv'
    BY <2>1 DEF StagedInv, MayStage, Publishable, Envelope, Subject
  <2> QED  BY <2>1, StagedStep DEF CoreNext
<1> QED  BY <1>1, <1>2, <1>3, CoreInvariant, PTL DEF CoreSpec

\* No holder of an older token overwrites a newer one's work, and no handler
\* starts on an expired envelope (ensure_consumable).
THEOREM EffectsAreGated == CoreSpec => []GatedEffects
<1>1. RelayInv /\ GateInv => GatedEffects  BY DEF GateInv, InTime, GatedEffects
<1> QED  BY <1>1, CoreInvariant, PTL
=============================================================================
