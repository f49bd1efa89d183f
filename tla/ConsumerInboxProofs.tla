------------------------ MODULE ConsumerInboxProofs ------------------------
(***************************************************************************)
(* Theorems about ConsumerInbox and Pipeline, for any number of consumers, *)
(* handlers, messages and tenants and every horizon.                       *)
(***************************************************************************)
EXTENDS Pipeline, TLAPS

USE EnvelopesAssumption, HandlersAssumption, InboxBoundsAssumption

----------------------------------------------------------------------------
(* Types.                                                                  *)

\* A handler with a message in hand works on a key.
LEMMA KeyType ==
    ASSUME NEW s \in Session, session[s].msg \in Msg
    PROVE  KeyOf(s) \in Key /\ TaskOf(s) \in Consumer \X Msg
  BY DEF KeyOf, TaskOf, Key

LEMMA EarlierType ==
    ASSUME NEW n \in Nat
    PROVE  /\ Earlier(n) \in 0..n
           /\ n > 0 => Earlier(n) = n - 1
           /\ n = 0 => Earlier(n) = 0
  BY DEF Earlier

\* Whoever is at work has a copy of a message.
HasCopy(h) == h.pc # "idle" => h.msg \in Msg /\ h.copy \in 1..StoreCap

TypeInv ==
    /\ InboxTypeOK
    /\ \A s \in Session : HasCopy(session[s])

LEMMA TypeInit == InboxInit => TypeInv
  BY DEF InboxInit, TypeInv, InboxTypeOK, Idle, SessionState, Label, HasCopy

LEMMA VanishedFacts ==
    ASSUME TypeInv, NEW s \in Session, session[s].pc # "idle"
    PROVE  /\ Vanished(s) \in SessionState
           /\ HasCopy(Vanished(s))
           /\ Vanished(s).pc = "skip"
           /\ Vanished(s).vanished = TRUE
           /\ Vanished(s).msg = session[s].msg
           /\ Vanished(s).retain_left = session[s].retain_left
  <1> DEFINE skipping == [session[s] EXCEPT !.pc = "skip"]
  <1>0. session[s] \in SessionState /\ HasCopy(session[s])
    BY DEF TypeInv, InboxTypeOK
  <1>1. /\ skipping \in SessionState
        /\ skipping.pc = "skip"
        /\ skipping.msg = session[s].msg
        /\ skipping.copy = session[s].copy
        /\ skipping.retain_left = session[s].retain_left
    BY <1>0 DEF SessionState, Label
  <1>2. Vanished(s) = [skipping EXCEPT !.vanished = TRUE]
    BY DEF Vanished
  <1> HIDE DEF skipping
  <1>3. /\ Vanished(s) \in SessionState
        /\ Vanished(s).pc = "skip"
        /\ Vanished(s).vanished = TRUE
        /\ Vanished(s).msg = session[s].msg
        /\ Vanished(s).copy = session[s].copy
        /\ Vanished(s).retain_left = session[s].retain_left
    BY <1>1, <1>2 DEF SessionState
  <1> QED BY <1>0, <1>3 DEF HasCopy

LEMMA AgedHandFacts ==
    ASSUME TypeInv, NEW s \in Session
    PROVE  /\ AgedHand(s) \in SessionState
           /\ HasCopy(AgedHand(s))
           /\ AgedHand(s).pc = session[s].pc
           /\ AgedHand(s).msg = session[s].msg
           /\ AgedHand(s).vanished = session[s].vanished
           /\ AgedHand(s).retain_left = Earlier(session[s].retain_left)
  <1>1. session[s] \in SessionState /\ HasCopy(session[s])
    BY DEF TypeInv, InboxTypeOK
  <1>2. Earlier(session[s].retain_left) \in 0..Retention
    BY <1>1, EarlierType DEF SessionState
  <1> QED BY <1>1, <1>2 DEF AgedHand, SessionState, HasCopy

\* A handler moves to the label l and keeps the rest.
LEMMA GotoType ==
    ASSUME TypeInv, NEW s \in Session, NEW l \in Label,
           session[s].pc # "idle", Goto(s, l)
    PROVE  /\ session' \in [Session -> SessionState]
           /\ \A v \in Session : HasCopy(session'[v])
  <1> DEFINE moved == [session[s] EXCEPT !.pc = l]
  <1>1. session[s] \in SessionState /\ HasCopy(session[s])
    BY DEF TypeInv, InboxTypeOK
  <1>2. moved \in SessionState
    BY <1>1 DEF SessionState
  <1>3. moved.msg = session[s].msg /\ moved.copy = session[s].copy
    BY <1>1 DEF SessionState
  <1>4. HasCopy(moved)
    BY <1>1, <1>3 DEF HasCopy
  <1>5. session' = [session EXCEPT ![s] = moved]
    BY DEF Goto
  <1> HIDE DEF moved
  <1> QED BY <1>2, <1>4, <1>5 DEF TypeInv, InboxTypeOK

LEMMA IdleType ==
    ASSUME TypeInv, NEW s \in Session, session' = [session EXCEPT ![s] = Idle]
    PROVE  /\ session' \in [Session -> SessionState]
           /\ \A v \in Session : HasCopy(session'[v])
  <1>1. Idle \in SessionState /\ Idle.pc = "idle"
    BY DEF Idle, SessionState, Label
  <1> QED BY <1>1 DEF TypeInv, InboxTypeOK, HasCopy

LEMMA TypeStep == TypeInv /\ [InboxNext]_inboxVars => TypeInv'
  <1> SUFFICES ASSUME TypeInv, [InboxNext]_inboxVars PROVE TypeInv'
    OBVIOUS
  <1> USE DEF TypeInv, HasCopy
  <1>1. ASSUME NEW m \in Msg, Arrives(m) PROVE TypeInv'
    BY <1>1 DEF Arrives, InboxTypeOK
  <1>2. ASSUME NEW s \in Session, NEW m \in Msg, Deliver(s, m) PROVE TypeInv'
    <2>1. PICK n \in 1..bus[m] :
            session' = [session EXCEPT ![s] =
                [pc |-> "begin", msg |-> m, copy |-> n,
                 retain_left |-> Retention, vanished |-> FALSE]]
      BY <1>2 DEF Deliver
    <2> DEFINE hand == [pc |-> "begin", msg |-> m, copy |-> n,
                        retain_left |-> Retention, vanished |-> FALSE]
    <2>2. hand \in SessionState /\ HasCopy(hand)
      BY DEF SessionState, Label, InboxTypeOK
    <2>3. session' = [session EXCEPT ![s] = hand]
      BY <2>1
    <2> HIDE DEF hand, HasCopy
    <2>4. session' \in [Session -> SessionState] /\ \A v \in Session : HasCopy(session'[v])
      BY <2>2, <2>3 DEF InboxTypeOK
    <2> QED BY <1>2, <2>4 DEF Deliver, InboxTypeOK
  <1>3. ASSUME NEW s \in Session, WinClaim(s) PROVE TypeInv'
    BY <1>3, GotoType DEF WinClaim, InboxTypeOK, Label
  <1>4. ASSUME NEW s \in Session, LoseClaim(s) PROVE TypeInv'
    BY <1>4, GotoType DEF LoseClaim, InboxTypeOK, Label
  <1>5. ASSUME NEW s \in Session, FindDuplicate(s) PROVE TypeInv'
    <2>1. CASE Goto(s, "skip")
      BY <1>5, <2>1, GotoType DEF FindDuplicate, InboxTypeOK, Label
    <2>2. CASE session' = [session EXCEPT ![s] = Vanished(s)]
      <3>1. Vanished(s) \in SessionState /\ HasCopy(Vanished(s))
        BY <1>5, VanishedFacts DEF FindDuplicate
      <3> QED BY <1>5, <2>2, <3>1 DEF FindDuplicate, InboxTypeOK
    <2> QED BY <1>5, <2>1, <2>2 DEF FindDuplicate
  <1>6. ASSUME NEW s \in Session, FindMismatch(s) PROVE TypeInv'
    BY <1>6, IdleType DEF FindMismatch, InboxTypeOK
  <1>7. ASSUME NEW s \in Session, MarkProcessed(s) PROVE TypeInv'
    BY <1>7, GotoType DEF MarkProcessed, InboxTypeOK, Label
  <1>8. ASSUME NEW s \in Session, Commit(s) PROVE TypeInv'
    <2>1. session[s].pc # "idle" /\ session[s].msg \in Msg
      BY <1>8 DEF Commit
    <2>2. CommittedRow(s) \in ClaimRow
      BY <2>1 DEF CommittedRow, ClaimRow, InboxTypeOK, SessionState
    <2>3. claims' \in [Key -> ClaimRow \union {NoClaim}]
      BY <1>8, <2>2 DEF Commit, InboxTypeOK
    <2>4. effects' \in [Consumer \X Msg -> Nat]
      BY <1>8, <2>1, KeyType DEF Commit, InboxTypeOK
    <2> QED BY <1>8, <2>1, <2>3, <2>4, GotoType DEF Commit, InboxTypeOK, Label
  <1>9. ASSUME NEW s \in Session, Ack(s) PROVE TypeInv'
    <2>1. acked' \in [Consumer \X Msg -> SUBSET (1..StoreCap)]
      <3>1. acked' = [acked EXCEPT ![TaskOf(s)] = acked[TaskOf(s)] \union {session[s].copy}]
        BY <1>9 DEF Ack
      <3> QED BY <1>9, <3>1, KeyType DEF Ack, InboxTypeOK, SessionState
    <2>2. session' \in [Session -> SessionState] /\ \A v \in Session : HasCopy(session'[v])
      BY <1>9, IdleType DEF Ack
    <2> HIDE DEF HasCopy
    <2> QED BY <1>9, <2>1, <2>2 DEF Ack, InboxTypeOK
  <1>10. ASSUME NEW s \in Session, Abort(s) PROVE TypeInv'
    <2>1. session' \in [Session -> SessionState] /\ \A v \in Session : HasCopy(session'[v])
      BY <1>10, IdleType DEF Abort
    <2> HIDE DEF HasCopy
    <2> QED BY <1>10, <2>1 DEF Abort, InboxTypeOK
  <1>11. CASE PurgeClaims
    BY <1>11 DEF PurgeClaims, InboxTypeOK
  <1>12. CASE InboxTick
    <2>1. horizon' \in [Msg -> 0..Horizon]
      BY <1>12, EarlierType DEF InboxTick, InboxTypeOK
    <2>2. claims' \in [Key -> ClaimRow \union {NoClaim}]
      <3>1. \A k \in Key : claims[k] # NoClaim => AgedClaim(k) \in ClaimRow
        BY EarlierType DEF AgedClaim, InboxTypeOK, ClaimRow
      <3> QED BY <1>12, <3>1 DEF InboxTick
    <2>3. /\ session' \in [Session -> SessionState]
          /\ \A s \in Session : HasCopy(session'[s])
      <3>1. \A s \in Session : AgedHand(s) \in SessionState /\ HasCopy(AgedHand(s))
        BY AgedHandFacts
      <3> QED BY <1>12, <3>1 DEF InboxTick
    <2> QED BY <1>12, <2>1, <2>2, <2>3 DEF InboxTick, InboxTypeOK
  <1>13. CASE UNCHANGED inboxVars
    BY <1>13 DEF inboxVars, InboxTypeOK
  <1> QED BY <1>1, <1>2, <1>3, <1>4, <1>5, <1>6, <1>7, <1>8, <1>9, <1>10,
             <1>11, <1>12, <1>13 DEF InboxNext, InboxStep, Handle

LEMMA HandsHaveCopies == InboxSpec => []TypeInv
  BY TypeInit, TypeStep, PTL DEF InboxSpec

\* Every variable keeps its type (InboxTypeOK); in particular a committed claim
\* carries the tenant that begin inserts with it.
THEOREM InboxTypeInvariant == InboxSpec => []InboxTypeOK
  BY HandsHaveCopies, PTL DEF TypeInv

----------------------------------------------------------------------------
(* The inductive invariant.                                                *)

LEMMA InvInit == InboxInit => InboxInv
  BY DEF InboxInit, InboxInv, HandsAreSound, KeysAreHeldAlone, EffectsAreClaimed,
         ClaimsAreOfEffects, EffectOnce, NothingSuppressedByARow, Decided, Idle,
         HasClaim, Key

\* Moving to a label changes one handler's label and nothing else of it.
LEMMA GotoFacts ==
    ASSUME TypeInv, NEW s \in Session, NEW l \in Label, Goto(s, l)
    PROVE  /\ session'[s].pc = l
           /\ session'[s].msg = session[s].msg
           /\ session'[s].retain_left = session[s].retain_left
           /\ session'[s].vanished = session[s].vanished
           /\ \A v \in Session \ {s} : session'[v] = session[v]
  BY DEF Goto, TypeInv, InboxTypeOK, SessionState

\* Letting go of a copy disturbs nothing (Ack, Abort, FindMismatch).
LEMMA IdleStep ==
    ASSUME TypeInv, InboxInv, NEW s \in Session,
           session' = [session EXCEPT ![s] = Idle],
           UNCHANGED <<claims, effects, bus, horizon>>
    PROVE  InboxInv'
  <1>1. session'[s].pc = "idle" /\ \A v \in Session \ {s} : session'[v] = session[v]
    BY DEF Idle, TypeInv, InboxTypeOK
  <1>2. HandsAreSound'
    BY <1>1 DEF InboxInv, HandsAreSound
  <1>3. KeysAreHeldAlone'
    BY <1>1 DEF InboxInv, KeysAreHeldAlone, Holds, KeyOf
  <1>4. EffectsAreClaimed' /\ ClaimsAreOfEffects' /\ EffectOnce'
    BY DEF InboxInv, EffectsAreClaimed, ClaimsAreOfEffects, EffectOnce, HasClaim
  <1>5. NothingSuppressedByARow'
    BY <1>1 DEF InboxInv, NothingSuppressedByARow, Decided, TaskOf
  <1> QED BY <1>2, <1>3, <1>4, <1>5 DEF InboxInv

\* A handler that moves on with its copy, while claims and effects stay, must
\* account for the key it holds from now on and for a copy it decides on.
LEMMA MoveStep ==
    ASSUME TypeInv, InboxInv, NEW s \in Session,
           session[s].pc # "idle",
           session'[s].msg = session[s].msg,
           session'[s].retain_left = session[s].retain_left,
           \A v \in Session \ {s} : session'[v] = session[v],
           session'[s].pc \in {"effect", "commit"} =>
               /\ claims[KeyOf(s)] = NoClaim
               /\ \A v \in Session \ {s} : ~Holds(v, KeyOf(s)),
           session'[s].pc \in {"skip", "ack"} /\ ~session'[s].vanished =>
               effects[TaskOf(s)] > 0,
           UNCHANGED <<claims, effects, bus, horizon>>
    PROVE  InboxInv'
  <1>1. HandsAreSound'
    BY DEF InboxInv, HandsAreSound
  <1>2. \A v \in Session : KeyOf(v)' = KeyOf(v) /\ TaskOf(v)' = TaskOf(v)
    BY DEF KeyOf, TaskOf
  <1>3. KeysAreHeldAlone'
    <2> SUFFICES ASSUME NEW v \in Session, session'[v].pc \in {"effect", "commit"}
                 PROVE  /\ claims[KeyOf(v)] = NoClaim
                        /\ \A u \in Session \ {v} :
                              ~(session'[u].pc \in {"effect", "commit"} /\ KeyOf(u) = KeyOf(v))
      BY <1>2 DEF KeysAreHeldAlone, Holds
    <2>1. CASE v = s
      BY <2>1 DEF Holds
    <2>2. CASE v # s
      BY <2>2 DEF InboxInv, KeysAreHeldAlone, Holds
    <2> QED BY <2>1, <2>2
  <1>4. EffectsAreClaimed' /\ ClaimsAreOfEffects' /\ EffectOnce'
    BY DEF InboxInv, EffectsAreClaimed, ClaimsAreOfEffects, EffectOnce, HasClaim
  <1>5. NothingSuppressedByARow'
    BY <1>2 DEF InboxInv, NothingSuppressedByARow, Decided
  <1> QED BY <1>1, <1>3, <1>4, <1>5 DEF InboxInv

LEMMA ArrivesStep ==
    ASSUME TypeInv, InboxInv, NEW m \in Msg, Arrives(m)
    PROVE  InboxInv'
  <1>1. /\ bus'[m] > 0
        /\ \A n \in Msg \ {m} : bus'[n] = bus[n] /\ horizon'[n] = horizon[n]
        /\ horizon'[m] = horizon[m] \/ bus[m] = 0
        /\ UNCHANGED <<claims, session, effects>>
    BY DEF Arrives, TypeInv, InboxTypeOK
  <1>2. HandsAreSound'
    BY <1>1 DEF InboxInv, HandsAreSound
  <1>3. KeysAreHeldAlone'
    BY <1>1 DEF InboxInv, KeysAreHeldAlone, Holds, KeyOf
  <1>4. EffectsAreClaimed'
    BY <1>1 DEF InboxInv, EffectsAreClaimed, HasClaim
  <1>5. ClaimsAreOfEffects' /\ EffectOnce' /\ NothingSuppressedByARow'
    BY <1>1 DEF InboxInv, ClaimsAreOfEffects, EffectOnce, HasClaim,
                NothingSuppressedByARow, Decided, TaskOf
  <1> QED BY <1>2, <1>3, <1>4, <1>5 DEF InboxInv

LEMMA DeliverStep ==
    ASSUME TypeInv, InboxInv, NEW s \in Session, NEW m \in Msg, Deliver(s, m)
    PROVE  InboxInv'
  <1>1. /\ session'[s].pc = "begin"
        /\ session'[s].msg = m
        /\ session'[s].retain_left = Retention
        /\ \A v \in Session \ {s} : session'[v] = session[v]
        /\ bus[m] > 0
        /\ horizon[m] > 0
        /\ UNCHANGED <<claims, effects, bus, horizon>>
    BY DEF Deliver, TypeInv, InboxTypeOK
  <1>2. HandsAreSound'
    BY <1>1 DEF InboxInv, HandsAreSound, TypeInv, InboxTypeOK
  <1>3. KeysAreHeldAlone'
    BY <1>1 DEF InboxInv, KeysAreHeldAlone, Holds, KeyOf
  <1>4. EffectsAreClaimed' /\ ClaimsAreOfEffects' /\ EffectOnce'
    BY <1>1 DEF InboxInv, EffectsAreClaimed, ClaimsAreOfEffects, EffectOnce, HasClaim
  <1>5. NothingSuppressedByARow'
    BY <1>1 DEF InboxInv, NothingSuppressedByARow, Decided, TaskOf
  <1> QED BY <1>2, <1>3, <1>4, <1>5 DEF InboxInv

LEMMA WinClaimStep ==
    ASSUME TypeInv, InboxInv, NEW s \in Session, WinClaim(s)
    PROVE  InboxInv'
  <1>1. "effect" \in Label /\ Goto(s, "effect")
    BY DEF WinClaim, Label
  <1>2. \A v \in Session \ {s} : ~Holds(v, KeyOf(s))
    BY DEF WinClaim, MustWait
  <1> QED BY <1>1, <1>2, GotoFacts, MoveStep DEF WinClaim

LEMMA LoseClaimStep ==
    ASSUME TypeInv, InboxInv, NEW s \in Session, LoseClaim(s)
    PROVE  InboxInv'
  <1>1. "lookup" \in Label /\ Goto(s, "lookup")
    BY DEF LoseClaim, Label
  <1> QED BY <1>1, GotoFacts, MoveStep DEF LoseClaim

\* A row of the message's own tenant is there because its effect ran.
LEMMA FindDuplicateStep ==
    ASSUME TypeInv, InboxInv, NEW s \in Session, FindDuplicate(s)
    PROVE  InboxInv'
  <1>1. CASE SameTenant(s) /\ Goto(s, "skip")
    <2>1. session[s].msg \in Msg
      BY DEF FindDuplicate, TypeInv, HasCopy
    <2>2. effects[TaskOf(s)] > 0
      BY <1>1, <2>1 DEF SameTenant, InboxInv, ClaimsAreOfEffects, HasClaim, KeyOf, TaskOf
    <2>3. "skip" \in Label
      BY DEF Label
    <2> QED BY <1>1, <2>2, <2>3, GotoFacts, MoveStep DEF FindDuplicate
  <1>2. CASE session' = [session EXCEPT ![s] = Vanished(s)]
    <2>1. session'[s] = Vanished(s) /\ \A v \in Session \ {s} : session'[v] = session[v]
      BY <1>2 DEF TypeInv, InboxTypeOK
    <2> QED BY <2>1, VanishedFacts, MoveStep DEF FindDuplicate
  <1> QED BY <1>1, <1>2 DEF FindDuplicate

LEMMA MarkProcessedStep ==
    ASSUME TypeInv, InboxInv, NEW s \in Session, MarkProcessed(s)
    PROVE  InboxInv'
  <1>1. "commit" \in Label /\ Goto(s, "commit")
    BY DEF MarkProcessed, Label
  <1>2. /\ claims[KeyOf(s)] = NoClaim
        /\ \A v \in Session \ {s} : ~Holds(v, KeyOf(s))
    BY DEF MarkProcessed, InboxInv, KeysAreHeldAlone
  <1> QED BY <1>1, <1>2, GotoFacts, MoveStep DEF MarkProcessed

\* The effect and its claim: the key was free, hence the effect had not run;
\* and the new row can be no other message's.
LEMMA CommitEffectStep ==
    ASSUME TypeInv, InboxInv, NEW s \in Session, Commit(s), session[s].pc = "commit"
    PROVE  InboxInv'
  <1> DEFINE m == session[s].msg
             c == ConsumerOf[s]
  <1>1. /\ m \in Msg /\ c \in Consumer
        /\ bus[m] > 0 /\ horizon[m] > 0 /\ session[s].retain_left >= horizon[m]
        /\ KeyOf(s) = <<c, IdOf[m]>> /\ TaskOf(s) = <<c, m>>
    BY DEF InboxInv, HandsAreSound, KeyOf, TaskOf
  <1>2. /\ claims[<<c, IdOf[m]>>] = NoClaim
        /\ \A v \in Session \ {s} : ~Holds(v, KeyOf(s))
    BY <1>1 DEF InboxInv, KeysAreHeldAlone
  <1>3. effects[<<c, m>>] = 0
    <2>1. <<c, m>> \in Consumer \X Msg
      BY <1>1
    <2>2. effects[<<c, m>>] \in Nat
      BY <2>1 DEF TypeInv, InboxTypeOK
    <2>3. ~(effects[<<c, m>>] > 0)
      BY <1>1, <1>2 DEF InboxInv, EffectsAreClaimed, HasClaim
    <2> QED BY <2>2, <2>3
  <1>4. /\ CommittedRow(s) \in ClaimRow
        /\ CommittedRow(s) # NoClaim
        /\ CommittedRow(s).tenant = TenantOf[m]
        /\ CommittedRow(s).retain_left = session[s].retain_left
    BY <1>1 DEF CommittedRow, ClaimRow, TypeInv, InboxTypeOK, SessionState
  <1>5. /\ claims' = [claims EXCEPT ![KeyOf(s)] = CommittedRow(s)]
        /\ effects' = [effects EXCEPT ![TaskOf(s)] = effects[TaskOf(s)] + 1]
        /\ Goto(s, "ack")
        /\ UNCHANGED <<bus, horizon>>
    BY DEF Commit
  <1>6. /\ claims'[<<c, IdOf[m]>>] = CommittedRow(s)
        /\ \A k \in Key \ {<<c, IdOf[m]>>} : claims'[k] = claims[k]
    BY <1>1, <1>5 DEF TypeInv, InboxTypeOK, Key
  <1>7. /\ effects'[<<c, m>>] = 1
        /\ \A t \in (Consumer \X Msg) \ {<<c, m>>} : effects'[t] = effects[t]
    BY <1>1, <1>3, <1>5 DEF TypeInv, InboxTypeOK
  <1>8. "ack" \in Label
    BY DEF Label
  <1>9. /\ session'[s].pc = "ack"
        /\ session'[s].msg = m
        /\ session'[s].retain_left = session[s].retain_left
        /\ \A v \in Session \ {s} : session'[v] = session[v]
    BY <1>5, <1>8, GotoFacts
  <1> HIDE DEF m, c
  <1>10. HandsAreSound'
    BY <1>1, <1>5, <1>9 DEF InboxInv, HandsAreSound
  <1>11. KeysAreHeldAlone'
    <2> SUFFICES ASSUME NEW v \in Session, session'[v].pc \in {"effect", "commit"}
                 PROVE  (/\ claims[KeyOf(v)] = NoClaim
                         /\ \A u \in Session \ {v} : ~Holds(u, KeyOf(v)))'
      BY DEF KeysAreHeldAlone
    <2>1. v # s /\ session[v].pc \in {"effect", "commit"}
      BY <1>9
    <2>2. session[v].msg \in Msg /\ KeyOf(v) \in Key /\ KeyOf(v)' = KeyOf(v)
      BY <1>9, <2>1, KeyType DEF InboxInv, HandsAreSound, KeyOf
    <2>3. KeyOf(v) # <<c, IdOf[m]>>
      BY <1>1, <1>2, <2>1 DEF Holds
    <2>4. claims'[KeyOf(v)] = NoClaim
      BY <1>6, <2>1, <2>2, <2>3 DEF InboxInv, KeysAreHeldAlone
    <2>5. ASSUME NEW u \in Session \ {v} PROVE ~Holds(u, KeyOf(v))'
      <3>1. ~Holds(u, KeyOf(v))
        BY <2>1 DEF InboxInv, KeysAreHeldAlone
      <3> QED BY <1>9, <2>2, <3>1 DEF Holds, KeyOf
    <2> QED BY <2>2, <2>4, <2>5
  <1>12. EffectsAreClaimed'
    <2> SUFFICES ASSUME NEW d \in Consumer, NEW n \in Msg, effects'[<<d, n>>] > 0
                 PROVE  /\ bus[n] > 0
                        /\ horizon[n] > 0 =>
                              /\ claims'[<<d, IdOf[n]>>] # NoClaim
                              /\ claims'[<<d, IdOf[n]>>].tenant = TenantOf[n]
                              /\ claims'[<<d, IdOf[n]>>].retain_left >= horizon[n]
      BY <1>5 DEF EffectsAreClaimed, HasClaim
    <2>1. CASE d = c /\ n = m
      BY <1>1, <1>4, <1>6, <2>1
    <2>2. CASE <<d, n>> # <<c, m>>
      <3>1. effects[<<d, n>>] > 0
        BY <1>7, <2>2
      <3>2. <<d, IdOf[n]>> \in Key
        BY DEF Key
      <3> QED BY <1>2, <1>6, <3>1, <3>2 DEF InboxInv, EffectsAreClaimed, HasClaim
    <2> QED BY <2>1, <2>2
  <1>13. ClaimsAreOfEffects'
    <2> SUFFICES ASSUME NEW d \in Consumer, NEW n \in Msg,
                        claims'[<<d, IdOf[n]>>] # NoClaim,
                        claims'[<<d, IdOf[n]>>].tenant = TenantOf[n]
                 PROVE  effects'[<<d, n>>] > 0
      BY DEF ClaimsAreOfEffects, HasClaim
    <2>1. CASE <<d, IdOf[n]>> = <<c, IdOf[m]>>
      <3>1. TenantOf[n] = TenantOf[m] /\ IdOf[n] = IdOf[m] /\ d = c
        BY <1>4, <1>6, <2>1
      <3>2. n = m
        BY <1>1, <3>1
      <3> QED BY <1>7, <3>1, <3>2
    <2>2. CASE <<d, IdOf[n]>> # <<c, IdOf[m]>>
      <3>1. claims'[<<d, IdOf[n]>>] = claims[<<d, IdOf[n]>>] /\ <<d, n>> # <<c, m>>
        BY <1>6, <2>2 DEF Key
      <3> QED BY <1>7, <3>1 DEF InboxInv, ClaimsAreOfEffects, HasClaim
    <2> QED BY <2>1, <2>2
  <1>14. EffectOnce'
    <2> SUFFICES ASSUME NEW d \in Consumer, NEW n \in Msg PROVE effects'[<<d, n>>] <= 1
      BY DEF EffectOnce
    <2>1. <<d, n>> \in Consumer \X Msg /\ effects[<<d, n>>] <= 1
      BY DEF InboxInv, EffectOnce
    <2>2. CASE <<d, n>> = <<c, m>>
      BY <1>7, <2>2
    <2>3. CASE <<d, n>> # <<c, m>>
      BY <1>7, <2>1, <2>3
    <2> QED BY <2>2, <2>3
  <1>15. NothingSuppressedByARow'
    <2> SUFFICES ASSUME NEW v \in Session, session'[v].pc \in {"skip", "ack"},
                        ~session'[v].vanished
                 PROVE  effects'[TaskOf(v)'] > 0
      BY DEF NothingSuppressedByARow, Decided
    <2>1. CASE v = s
      BY <1>7, <1>9, <2>1 DEF TaskOf, c
    <2>2. CASE v # s
      <3>1. session[v].msg \in Msg /\ TaskOf(v)' = TaskOf(v) /\ effects[TaskOf(v)] > 0
        BY <1>9, <2>2
           DEF InboxInv, NothingSuppressedByARow, Decided, HandsAreSound, TaskOf
      <3> QED BY <1>7, <3>1, KeyType
    <2> QED BY <2>1, <2>2
  <1> QED BY <1>10, <1>11, <1>12, <1>13, <1>14, <1>15 DEF InboxInv

LEMMA CommitStep ==
    ASSUME TypeInv, InboxInv, NEW s \in Session, Commit(s)
    PROVE  InboxInv'
  <1>1. CASE session[s].pc = "skip"
    <2>1. "ack" \in Label /\ Goto(s, "ack")
      BY DEF Commit, Label
    <2>2. ~session[s].vanished => effects[TaskOf(s)] > 0
      BY <1>1 DEF InboxInv, NothingSuppressedByARow, Decided
    <2>3. UNCHANGED <<claims, effects, bus, horizon>>
      BY <1>1 DEF Commit
    <2> QED BY <1>1, <2>1, <2>2, <2>3, GotoFacts, MoveStep
  <1> QED BY <1>1, CommitEffectStep DEF Commit

\* What may be purged belongs to no message whose copies may still come.
LEMMA PurgeStep ==
    ASSUME TypeInv, InboxInv, PurgeClaims
    PROVE  InboxInv'
  <1>1. \A k \in Key :
            /\ claims'[k] = NoClaim \/ claims'[k] = claims[k]
            /\ claims[k] # NoClaim /\ claims[k].retain_left > 0 => claims'[k] = claims[k]
            /\ claims[k] = NoClaim => claims'[k] = NoClaim
    BY DEF PurgeClaims, Purgeable
  <1>2. UNCHANGED <<session, effects, bus, horizon>>
    BY DEF PurgeClaims
  <1>3. HandsAreSound' /\ EffectOnce' /\ NothingSuppressedByARow'
    BY <1>2 DEF InboxInv, HandsAreSound, EffectOnce, NothingSuppressedByARow,
                Decided, TaskOf
  <1>4. KeysAreHeldAlone'
    <2>1. \A s \in Session : session[s].pc \in {"effect", "commit"} => KeyOf(s) \in Key
      BY KeyType DEF InboxInv, HandsAreSound
    <2> QED BY <1>1, <1>2, <2>1 DEF InboxInv, KeysAreHeldAlone, Holds, KeyOf
  <1>5. EffectsAreClaimed'
    <2> SUFFICES ASSUME NEW c \in Consumer, NEW m \in Msg,
                        effects[<<c, m>>] > 0, horizon[m] > 0
                 PROVE  claims'[<<c, IdOf[m]>>] = claims[<<c, IdOf[m]>>]
      BY <1>2 DEF InboxInv, EffectsAreClaimed, HasClaim
    <2>1. claims[<<c, IdOf[m]>>] # NoClaim /\ claims[<<c, IdOf[m]>>].retain_left >= horizon[m]
      BY DEF InboxInv, EffectsAreClaimed, HasClaim
    <2>2. <<c, IdOf[m]>> \in Key /\ claims[<<c, IdOf[m]>>] \in ClaimRow
      BY <2>1 DEF Key, TypeInv, InboxTypeOK
    <2> QED BY <1>1, <2>1, <2>2 DEF ClaimRow, TypeInv, InboxTypeOK
  <1>6. ClaimsAreOfEffects'
    <2>1. \A c \in Consumer, m \in Msg : <<c, IdOf[m]>> \in Key
      BY DEF Key
    <2> QED BY <1>1, <1>2, <2>1 DEF InboxInv, ClaimsAreOfEffects, HasClaim
  <1> QED BY <1>3, <1>4, <1>5, <1>6 DEF InboxInv

\* Horizons and retention ages shrink together, and no horizon ends while a
\* copy is in hand.
LEMMA TickStep ==
    ASSUME TypeInv, InboxInv, InboxTick
    PROVE  InboxInv'
  <1>1. \A k \in Key :
            /\ claims'[k] = NoClaim <=> claims[k] = NoClaim
            /\ claims[k] # NoClaim =>
                  /\ claims'[k].tenant = claims[k].tenant
                  /\ claims'[k].retain_left = Earlier(claims[k].retain_left)
                  /\ claims[k].retain_left \in Nat
    <2> SUFFICES ASSUME NEW k \in Key, claims[k] # NoClaim
                 PROVE  /\ AgedClaim(k) # NoClaim
                        /\ AgedClaim(k).tenant = claims[k].tenant
                        /\ AgedClaim(k).retain_left = Earlier(claims[k].retain_left)
                        /\ claims[k].retain_left \in Nat
      BY DEF InboxTick
    <2>1. claims[k] \in ClaimRow /\ claims[k].retain_left \in 0..Retention
      BY DEF TypeInv, InboxTypeOK, ClaimRow
    <2>2. Earlier(claims[k].retain_left) \in 0..Retention
      BY <2>1, EarlierType
    <2>3. AgedClaim(k) \in ClaimRow
      BY <2>1, <2>2 DEF AgedClaim, ClaimRow
    <2> QED BY <2>1, <2>3 DEF AgedClaim, ClaimRow
  <1>2. \A s \in Session :
            /\ session'[s].pc = session[s].pc
            /\ session'[s].msg = session[s].msg
            /\ session'[s].vanished = session[s].vanished
            /\ session'[s].retain_left = Earlier(session[s].retain_left)
            /\ session[s].retain_left \in Nat
    BY AgedHandFacts DEF InboxTick, TypeInv, InboxTypeOK, SessionState
  <1>3. /\ \A m \in Msg : horizon'[m] = Earlier(horizon[m]) /\ horizon[m] \in Nat
        /\ \A s \in Session : session[s].pc # "idle" => horizon[session[s].msg] > 1
        /\ UNCHANGED <<effects, bus>>
    BY DEF InboxTick, HandledInTime, TypeInv, InboxTypeOK
  <1>4. \A a, b \in Nat : /\ a >= b => Earlier(a) >= Earlier(b)
                          /\ a > 1 => Earlier(a) > 0
                          /\ Earlier(a) > 0 => a > 0
    BY DEF Earlier
  <1>5. HandsAreSound'
    BY <1>2, <1>3, <1>4 DEF InboxInv, HandsAreSound
  <1>6. KeysAreHeldAlone'
    <2>1. \A s \in Session : KeyOf(s)' = KeyOf(s)
      BY <1>2 DEF KeyOf
    <2>2. \A s \in Session : session[s].pc \in {"effect", "commit"} => KeyOf(s) \in Key
      BY KeyType DEF InboxInv, HandsAreSound
    <2> QED BY <1>1, <1>2, <2>1, <2>2 DEF InboxInv, KeysAreHeldAlone, Holds
  <1>7. \A c \in Consumer, m \in Msg : <<c, IdOf[m]>> \in Key
    BY DEF Key
  <1>8. EffectsAreClaimed'
    BY <1>1, <1>3, <1>4, <1>7 DEF InboxInv, EffectsAreClaimed, HasClaim
  <1>9. ClaimsAreOfEffects' /\ EffectOnce'
    BY <1>1, <1>3, <1>7 DEF InboxInv, ClaimsAreOfEffects, EffectOnce, HasClaim
  <1>10. NothingSuppressedByARow'
    BY <1>2, <1>3 DEF InboxInv, NothingSuppressedByARow, Decided, TaskOf
  <1> QED BY <1>5, <1>6, <1>8, <1>9, <1>10 DEF InboxInv

LEMMA InvStep == TypeInv /\ InboxInv /\ [InboxNext]_inboxVars => InboxInv'
  <1> SUFFICES ASSUME TypeInv, InboxInv, [InboxNext]_inboxVars PROVE InboxInv'
    OBVIOUS
  <1>1. ASSUME NEW s \in Session, FindMismatch(s) \/ Ack(s) \/ Abort(s) PROVE InboxInv'
    BY <1>1, IdleStep DEF FindMismatch, Ack, Abort
  <1>2. CASE UNCHANGED inboxVars
    BY <1>2 DEF inboxVars, InboxInv, HandsAreSound, KeysAreHeldAlone, Holds, KeyOf,
                EffectsAreClaimed, ClaimsAreOfEffects, HasClaim, EffectOnce,
                NothingSuppressedByARow, Decided, TaskOf
  <1> QED BY <1>1, <1>2, ArrivesStep, DeliverStep, WinClaimStep, LoseClaimStep,
             FindDuplicateStep, MarkProcessedStep, CommitStep, PurgeStep, TickStep
          DEF InboxNext, InboxStep, Handle

\* The inductive invariant InboxInv of begin, mark_processed, the consumers'
\* transactions and the purge.
THEOREM InboxInvariant == InboxSpec => []InboxInv
  <1>1. InboxInit => TypeInv /\ InboxInv
    BY TypeInit, InvInit
  <1>2. TypeInv /\ InboxInv /\ [InboxNext]_inboxVars => (TypeInv /\ InboxInv)'
    BY TypeStep, InvStep
  <1>3. InboxSpec => [](TypeInv /\ InboxInv)
    BY <1>1, <1>2, PTL DEF InboxSpec
  <1> QED BY <1>3, PTL

----------------------------------------------------------------------------
(* The pipeline.                                                           *)

\* Whatever the outbox does, its consumers see an inbox whose copies arrive.
LEMMA PipelineIsAnInbox == Spec => InboxSpec
  <1>1. Init => InboxInit
    BY DEF Init
  <1>2. [Next]_pipelineVars => [InboxNext]_inboxVars
    BY DEF Next, OutboxStep, Carry, InboxNext, pipelineVars, inboxVars
  <1> QED BY <1>1, <1>2, PTL DEF Spec, InboxSpec

\* End to end, each consumer commits the effect of a message at most once
\* (EffectOnce), whatever is delivered again, raced for, aborted or purged.
THEOREM EffectsHappenOnce == Spec => []EffectOnce
  BY PipelineIsAnInbox, InboxInvariant, PTL DEF InboxInv

\* Effect and claim are one: within the horizon of a message its effect has
\* run exactly if its claim is there (ClaimIffEffect).
THEOREM EffectsAndClaimsAgree == Spec => []ClaimIffEffect
  <1>1. InboxInv => ClaimIffEffect
    BY DEF InboxInv, ClaimIffEffect, EffectsAreClaimed, ClaimsAreOfEffects
  <1> QED BY <1>1, PipelineIsAnInbox, InboxInvariant, PTL

\* A copy skipped or acknowledged is of a message whose effect has run, unless
\* the row it lost to was gone at the read (NothingSuppressedByARow).
THEOREM NoRowSuppresses == Spec => []NothingSuppressedByARow
  BY PipelineIsAnInbox, InboxInvariant, PTL DEF InboxInv

----------------------------------------------------------------------------
(* When nothing is suppressed at all.                                      *)

\* Message ids are not shared, not even between tenants.
IdsAreUnique == \A m, n \in Msg : IdOf[m] = IdOf[n] => m = n

\* Where ids are unique every claim of an id is by the message's own tenant.
ClaimsAreOwn ==
    \A c \in Consumer, m \in Msg : claims[<<c, IdOf[m]>>] # NoClaim => HasClaim(c, m)

\* Whoever lost the insert of a claim finds the row that won, or its effect has
\* run.
LosersAreSecond ==
    \A s \in Session : session[s].pc = "lookup" =>
        effects[TaskOf(s)] > 0 \/ (~RetentionOn /\ claims[KeyOf(s)] # NoClaim)

FoundInv == LosersAreSecond /\ NothingSuppressed /\ (IdsAreUnique => ClaimsAreOwn)

\* A step from a state in which all this holds.
Finding ==
    /\ TypeInv /\ TypeInv' /\ InboxInv /\ InboxInv' /\ [InboxNext]_inboxVars
    /\ ~RetentionOn \/ IdsAreUnique
    /\ FoundInv

\* Effects stay.
LEMMA EffectsStay ==
    ASSUME Finding, NEW c \in Consumer, NEW m \in Msg, effects[<<c, m>>] > 0
    PROVE  effects'[<<c, m>>] > 0
  <1>1. effects[<<c, m>>] \in Nat /\ effects \in [Consumer \X Msg -> Nat]
    BY DEF Finding, TypeInv, InboxTypeOK
  <1>2. effects' = effects \/ \E s \in Session : effects' = [effects EXCEPT ![TaskOf(s)] = @ + 1]
    BY DEF Finding, InboxNext, InboxStep, Handle, Arrives, Deliver, WinClaim, LoseClaim,
           FindDuplicate, FindMismatch, MarkProcessed, Commit, Ack, Abort, PurgeClaims,
           InboxTick, inboxVars
  <1> QED BY <1>1, <1>2

\* Without a purge claims stay.
LEMMA ClaimsStay ==
    ASSUME Finding, ~RetentionOn, NEW k \in Key, claims[k] # NoClaim
    PROVE  claims'[k] # NoClaim
  <1>1. claims' \in [Key -> ClaimRow \union {NoClaim}]
    BY DEF Finding, TypeInv, InboxTypeOK
  <1>2. ASSUME NEW s \in Session, Commit(s) PROVE claims'[k] # NoClaim
    <2>1. CommittedRow(s) \in ClaimRow \/ claims' = claims
      BY <1>2 DEF Commit, CommittedRow, ClaimRow, Finding, InboxInv, HandsAreSound, TypeInv,
                  InboxTypeOK, SessionState
    <2> QED BY <1>2, <2>1 DEF Commit, Finding, TypeInv, InboxTypeOK
  <1>3. CASE InboxTick
    <2>1. AgedClaim(k) \in ClaimRow
      BY EarlierType DEF AgedClaim, ClaimRow, Finding, TypeInv, InboxTypeOK
    <2> QED BY <1>3, <2>1 DEF InboxTick
  <1>4. CASE claims' = claims
    BY <1>4
  <1> QED
    BY <1>2, <1>3, <1>4
    DEF Finding, InboxNext, InboxStep, Handle, Arrives, Deliver, WinClaim, LoseClaim,
        FindDuplicate, FindMismatch, MarkProcessed, Ack, Abort, PurgeClaims, inboxVars

\* A handler that stays where it is, with its message.
LEMMA StayFound ==
    ASSUME Finding, NEW v \in Session,
           session'[v].pc = session[v].pc, session'[v].msg = session[v].msg
    PROVE  /\ session'[v].pc = "lookup" =>
                 effects'[TaskOf(v)'] > 0 \/ (~RetentionOn /\ claims'[KeyOf(v)'] # NoClaim)
           /\ Decided(v)' => effects'[TaskOf(v)'] > 0
  <1> SUFFICES ASSUME session[v].pc # "idle"
               PROVE  /\ session[v].pc = "lookup" =>
                            \/ effects'[TaskOf(v)] > 0
                            \/ ~RetentionOn /\ claims'[KeyOf(v)] # NoClaim
                      /\ Decided(v) => effects'[TaskOf(v)] > 0
    BY DEF TaskOf, KeyOf, Decided
  <1>1. /\ session[v].msg \in Msg /\ ConsumerOf[v] \in Consumer
        /\ KeyOf(v) \in Key /\ TaskOf(v) = <<ConsumerOf[v], session[v].msg>>
    BY KeyType DEF Finding, InboxInv, HandsAreSound, TaskOf
  <1>2. effects[TaskOf(v)] > 0 => effects'[TaskOf(v)] > 0
    BY <1>1, EffectsStay
  <1>3. ~RetentionOn /\ claims[KeyOf(v)] # NoClaim => claims'[KeyOf(v)] # NoClaim
    BY <1>1, ClaimsStay
  <1> QED BY <1>2, <1>3 DEF Finding, FoundInv, LosersAreSecond, NothingSuppressed

\* A handler that moves: it looks up a row only after an insert that met one,
\* and decides only what is its own.
LEMMA MoveFound ==
    ASSUME Finding, NEW s \in Session,
           Handle(s) \/ Abort(s) \/ (\E m \in Msg : Deliver(s, m))
    PROVE  /\ session'[s].pc = "lookup" =>
                 effects'[TaskOf(s)'] > 0 \/ (~RetentionOn /\ claims'[KeyOf(s)'] # NoClaim)
           /\ Decided(s)' => effects'[TaskOf(s)'] > 0
           /\ \A v \in Session \ {s} : session'[v] = session[v]
  <1> USE DEF Finding
  <1> DEFINE Sound == /\ session'[s].pc = "lookup" =>
                            \/ effects'[TaskOf(s)'] > 0
                            \/ ~RetentionOn /\ claims'[KeyOf(s)'] # NoClaim
                      /\ Decided(s)' => effects'[TaskOf(s)'] > 0
  <1>1. \A v \in Session \ {s} : session'[v] = session[v]
    BY DEF Handle, WinClaim, LoseClaim, FindDuplicate, FindMismatch, MarkProcessed, Commit, Ack,
           Abort, Deliver, Goto, TypeInv, InboxTypeOK
  <1>2. CASE FindMismatch(s) \/ Ack(s) \/ Abort(s) \/ \E m \in Msg : Deliver(s, m)
    <2>1. session'[s].pc \in {"idle", "begin"}
      <3>1. CASE session' = [session EXCEPT ![s] = Idle]
        BY <3>1 DEF Idle, TypeInv, InboxTypeOK
      <3>2. CASE \E m \in Msg : Deliver(s, m)
        BY <3>2 DEF Deliver, TypeInv, InboxTypeOK
      <3> QED BY <1>2, <3>1, <3>2 DEF FindMismatch, Ack, Abort
    <2> QED BY <1>1, <2>1 DEF Decided
  <1>3. CASE WinClaim(s) \/ MarkProcessed(s)
    <2>1. session'[s].pc \in {"effect", "commit"}
      BY <1>3, GotoFacts DEF WinClaim, MarkProcessed, Label
    <2> QED BY <1>1, <2>1 DEF Decided
  <1>4. CASE LoseClaim(s)
    <2>1. /\ session'[s].pc = "lookup" /\ session'[s].msg = session[s].msg
          /\ claims' = claims /\ effects' = effects /\ claims[KeyOf(s)] # NoClaim
      BY <1>4, GotoFacts DEF LoseClaim, Label
    <2>2. KeyOf(s)' = KeyOf(s) /\ TaskOf(s)' = TaskOf(s) /\ ~Decided(s)'
      BY <2>1 DEF KeyOf, TaskOf, Decided
    <2>3. ASSUME IdsAreUnique PROVE effects[TaskOf(s)] > 0
      <3>1. session[s].msg \in Msg /\ ConsumerOf[s] \in Consumer
        BY <1>4 DEF LoseClaim, InboxInv, HandsAreSound
      <3>2. HasClaim(ConsumerOf[s], session[s].msg)
        BY <2>1, <2>3, <3>1 DEF FoundInv, ClaimsAreOwn, KeyOf
      <3> QED BY <3>1, <3>2 DEF InboxInv, ClaimsAreOfEffects, TaskOf
    <2> QED BY <1>1, <2>1, <2>2, <2>3
  <1>5. CASE FindDuplicate(s)
    <2>1. effects' = effects /\ session[s].pc = "lookup"
      BY <1>5 DEF FindDuplicate
    <2>2. CASE Goto(s, "skip") /\ SameTenant(s)
      <3>1. session'[s].pc = "skip" /\ session'[s].msg = session[s].msg
        BY <2>2, GotoFacts DEF Label
      <3>2. session[s].msg \in Msg /\ ConsumerOf[s] \in Consumer
        BY <2>1 DEF InboxInv, HandsAreSound
      <3>3. HasClaim(ConsumerOf[s], session[s].msg)
        BY <2>2, <3>2 DEF SameTenant, HasClaim, KeyOf
      <3>4. effects[TaskOf(s)] > 0
        BY <3>2, <3>3 DEF InboxInv, ClaimsAreOfEffects, TaskOf
      <3> QED BY <1>1, <2>1, <3>1, <3>4 DEF TaskOf
    <2>3. CASE claims[KeyOf(s)] = NoClaim /\ session' = [session EXCEPT ![s] = Vanished(s)]
      <3>1. session'[s].pc = "skip" /\ session'[s].msg = session[s].msg
        <4>1. Vanished(s).pc = "skip" /\ Vanished(s).msg = session[s].msg
          BY <2>1, VanishedFacts
        <4> QED BY <2>3, <4>1 DEF TypeInv, InboxTypeOK
      <3>2. effects[TaskOf(s)] > 0
        BY <2>1, <2>3 DEF FoundInv, LosersAreSecond
      <3> QED BY <1>1, <2>1, <3>1, <3>2 DEF TaskOf
    <2> QED BY <1>5, <2>2, <2>3 DEF FindDuplicate
  <1>6. CASE Commit(s)
    <2>1. session'[s].pc = "ack" /\ session'[s].msg = session[s].msg
      BY <1>6, GotoFacts DEF Commit, Label
    <2>2. /\ session[s].msg \in Msg /\ ConsumerOf[s] \in Consumer
          /\ TaskOf(s) \in Consumer \X Msg /\ effects \in [Consumer \X Msg -> Nat]
      BY <1>6, KeyType DEF Commit, InboxInv, HandsAreSound, TypeInv, InboxTypeOK
    <2>3. effects'[TaskOf(s)] > 0
      <3>1. CASE session[s].pc = "commit"
        BY <1>6, <2>2, <3>1 DEF Commit
      <3>2. CASE session[s].pc = "skip"
        BY <1>6, <3>2 DEF Commit, FoundInv, NothingSuppressed, Decided
      <3> QED BY <1>6, <3>1, <3>2 DEF Commit
    <2> QED BY <1>1, <2>1, <2>3 DEF TaskOf
  <1> QED BY <1>2, <1>3, <1>4, <1>5, <1>6 DEF Handle

\* Only a message of the id commits a claim of it.
LEMMA OwnStep ==
    ASSUME Finding, IdsAreUnique
    PROVE  ClaimsAreOwn'
  <1> USE DEF Finding
  <1> SUFFICES ASSUME NEW c \in Consumer, NEW m \in Msg, claims'[<<c, IdOf[m]>>] # NoClaim
               PROVE  claims'[<<c, IdOf[m]>>].tenant = TenantOf[m]
    BY DEF ClaimsAreOwn, HasClaim
  <1> DEFINE k == <<c, IdOf[m]>>
  <1>1. k \in Key /\ claims \in [Key -> ClaimRow \union {NoClaim}]
    BY DEF Key, TypeInv, InboxTypeOK
  <1>2. claims[k] # NoClaim => claims[k].tenant = TenantOf[m]
    BY DEF FoundInv, ClaimsAreOwn, HasClaim
  <1>3. ASSUME NEW s \in Session, Commit(s) PROVE claims'[k].tenant = TenantOf[m]
    <2>1. CASE claims'[k] = claims[k]
      BY <1>2, <2>1
    <2>2. CASE claims'[k] # claims[k]
      <3>1. k = KeyOf(s) /\ claims'[k] = CommittedRow(s) /\ session[s].pc = "commit"
        BY <1>1, <1>3, <2>2 DEF Commit
      <3>2. session[s].msg \in Msg /\ IdOf[session[s].msg] = IdOf[m]
        BY <3>1 DEF KeyOf, InboxInv, HandsAreSound
      <3> QED BY <3>1, <3>2 DEF IdsAreUnique, CommittedRow
    <2> QED BY <2>1, <2>2
  <1>4. CASE InboxTick
    <2>1. claims[k] # NoClaim /\ claims'[k] = AgedClaim(k)
      BY <1>1, <1>4 DEF InboxTick
    <2>2. AgedClaim(k).tenant = claims[k].tenant
      BY <1>1, <2>1 DEF AgedClaim, ClaimRow
    <2> QED BY <1>2, <2>1, <2>2
  <1>5. CASE PurgeClaims
    BY <1>1, <1>2, <1>5 DEF PurgeClaims
  <1>6. CASE claims' = claims
    BY <1>2, <1>6
  <1> QED
    BY <1>3, <1>4, <1>5, <1>6
    DEF InboxNext, InboxStep, Handle, Arrives, Deliver, WinClaim, LoseClaim,
        FindDuplicate, FindMismatch, MarkProcessed, Ack, Abort, inboxVars

LEMMA FoundStep == ASSUME Finding PROVE FoundInv'
  <1>1. \A v \in Session :
           /\ session'[v].pc = "lookup" =>
                 effects'[TaskOf(v)'] > 0 \/ (~RetentionOn /\ claims'[KeyOf(v)'] # NoClaim)
           /\ Decided(v)' => effects'[TaskOf(v)'] > 0
    <2>1. CASE \E s \in Session : Handle(s) \/ Abort(s) \/ (\E m \in Msg : Deliver(s, m))
      BY <2>1, MoveFound, StayFound
    <2>2. CASE InboxTick
      <3>1. \A v \in Session : session'[v] = AgedHand(v) /\ session[v] \in SessionState
        BY <2>2 DEF InboxTick, Finding, TypeInv, InboxTypeOK
      <3> QED BY <3>1, AgedHandFacts, StayFound DEF Finding
    <2>3. CASE PurgeClaims \/ (\E m \in Msg : Arrives(m)) \/ UNCHANGED inboxVars
      BY <2>3, StayFound DEF PurgeClaims, Arrives, inboxVars
    <2> QED BY <2>1, <2>2, <2>3 DEF Finding, InboxNext, InboxStep
  <1> QED BY <1>1, OwnStep DEF FoundInv, LosersAreSecond, NothingSuppressed

\* A row of another tenant is never taken for a duplicate, and nothing is ever
\* skipped or acknowledged before its effect, where processed claims are not
\* purged or no two messages share an id (decide_conflicting_claim).
THEOREM NothingIsSuppressed == ~RetentionOn \/ IdsAreUnique => (Spec => []NothingSuppressed)
  <1> SUFFICES ASSUME ~RetentionOn \/ IdsAreUnique PROVE Spec => []NothingSuppressed
    OBVIOUS
  <1>1. InboxInit => FoundInv
    BY DEF InboxInit, Idle, FoundInv, LosersAreSecond, NothingSuppressed, Decided, ClaimsAreOwn, Key
  <1>2. /\ TypeInv /\ TypeInv' /\ InboxInv /\ InboxInv' /\ FoundInv /\ [InboxNext]_inboxVars
        => FoundInv'
    BY FoundStep DEF Finding
  <1>3. FoundInv => NothingSuppressed
    BY DEF FoundInv
  <1> QED
    BY <1>1, <1>2, <1>3, PipelineIsAnInbox, InboxInvariant, HandsHaveCopies, PTL DEF InboxSpec
=============================================================================
