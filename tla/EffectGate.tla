----------------------------- MODULE EffectGate -----------------------------
(***************************************************************************)
(* Consumers of what the offline core published (src/envelope.rs): each    *)
(* decodes a message, passes ensure_consumable, and only later presents    *)
(* the token to the resource the message is to change.  Messages come any  *)
(* number of times and in any order; handlers pause, die and race.         *)
(*                                                                         *)
(* The resource is outside of the crate.  As the envelope's documentation  *)
(* asks of it, it refuses a token lower than the highest it has seen; a    *)
(* request without a token it cannot tell from an old-fashioned one.       *)
(***************************************************************************)
EXTENDS OfflineRelay

CONSTANTS
    Handler,   \* consumers of the current format
    Mutating,  \* rows whose message changes the resource
    NoRow,     \* "no message in hand"
    MaxNow     \* bound: the clock

ASSUME GateAssumption ==
    /\ Mutating \subseteq Row
    /\ NoRow \notin Row
    /\ MaxNow \in Nat
    /\ \A r \in Row : \A rec \in Choices[r] :
          {rec.envelope.fencing_token, rec.envelope.expires_at} \subseteq Nat \union {None}

VARIABLES
    now,
    handler,  \* the message each handler acts on, when it was let in, its token
    resource  \* the highest token the resource has seen, and its last writer's

gateVars == <<now, handler, resource>>

Resting == [row |-> NoRow, since |-> 0, token |-> None]

----------------------------------------------------------------------------
\* decode, ensure_consumable; a message that fails either is dropped.
Open(h, r) ==
    /\ handler[h] = Resting
    /\ r \in stored
    /\ Decodes(Envelope(r))
    /\ Consumable(Envelope(r), now, r \in Mutating)
    /\ handler' = [handler EXCEPT ![h] =
          [row |-> r, since |-> now, token |-> GrantedToken(Envelope(r), r \in Mutating)]]
    /\ UNCHANGED <<now, resource>>

\* The resource grants or refuses; the handler is done either way.
Act(h) ==
    LET token == handler[h].token IN
    /\ handler[h] # Resting
    /\ resource' = IF handler[h].row \notin Mutating THEN resource
                   ELSE IF token = None THEN [resource EXCEPT !.writer = None]
                   ELSE IF token < resource.highest THEN resource
                   ELSE [highest |-> token, writer |-> token]
    /\ handler' = [handler EXCEPT ![h] = Resting]
    /\ UNCHANGED now

\* The handler dies before its effect; the message comes again.
Die(h) ==
    /\ handler[h] # Resting
    /\ handler' = [handler EXCEPT ![h] = Resting]
    /\ UNCHANGED <<now, resource>>

Tick ==
    /\ now < MaxNow
    /\ now' = now + 1
    /\ UNCHANGED <<handler, resource>>

GateInit ==
    /\ now = 0
    /\ handler = [h \in Handler |-> Resting]
    /\ resource = [highest |-> 0, writer |-> 0]

GateNext ==
    \/ \E h \in Handler : Act(h) \/ Die(h) \/ \E r \in Row : Open(h, r)
    \/ Tick

----------------------------------------------------------------------------
(* Producers, relay and consumers.                                         *)
CoreInit == OfflineInit /\ GateInit

CoreNext ==
    \/ OfflineNext /\ UNCHANGED gateVars
    \/ GateNext /\ UNCHANGED offlineVars

CoreSpec == CoreInit /\ [][CoreNext]_<<offlineVars, gateVars>>

----------------------------------------------------------------------------
\* Every variable of the relay, the publisher and the consumers has its type;
\* the publisher has seen exactly the ids of what it keeps.
CoreTypeOK ==
    /\ OfflineTypeOK
    /\ now \in 0..MaxNow
    /\ handler \in [Handler -> [row : Row \union {NoRow}, since : 0..MaxNow,
                                token : Nat \union {None}]]
    /\ resource \in [highest : Nat, writer : Nat \union {None}]

\* The holder of an old token never overwrites the work of a newer one,
\* however long its handler paused after the gate and in whatever order
\* messages come; and no handler starts on an envelope that has expired, so
\* once its expiry is past a replay drives nothing (ensure_consumable).
GatedEffects ==
    /\ resource.writer = resource.highest
    /\ \A h \in Handler : handler[h] # Resting =>
          LET expiry == Envelope(handler[h].row).expires_at
          IN  expiry = None \/ handler[h].since < expiry
=============================================================================
