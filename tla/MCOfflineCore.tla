--------------------------- MODULE MCOfflineCore ---------------------------
(* An instance of EffectGate, and of OfflineRelay in it, for TLC: two       *)
(* tenants under one business key, a second message of one of them, and a   *)
(* row that is made of something else in each initial state.                *)
EXTENDS EffectGate, TLC

CONSTANTS r1, r2, r3, r4, tA, tB, key

SomeWords == {"executions", "completed", "v1", "v2", "0123abcd"}
SomeUuids == {"0123abcd", "0123-abcd"}
SomeVersions == ("v1" :> 1) @@ ("v2" :> 2) @@ ("v01" :> 1) @@ ("v+1" :> 1) @@ ("v0" :> 0)
SomeVersionTokens == (0 :> "v0") @@ (1 :> "v1") @@ (2 :> "v2")

Good == <<"fiducia", "executions", "completed", "v1">>
Holding(tenant, token) ==
    WithFencingToken(WithTenant(NewAt("id", "named", key), tenant), token)
Staged(envelope) == FromEnvelope(Good, envelope, TRUE)
ByHand(payload) == Pending(Good, payload, None, key, TRUE)
Global == NewAt("id", "named", key)

BadSubjects == {
    <<"fiducia", "executions", "completed", "v01">>,
    <<"fiducia", "executions", "completed", "v+1">>,
    <<"fiducia", "executions", "completed", "v0">>,
    <<"fiducia", "executions", "*", "v1">>,
    <<"fiducia", "executions", ">">>,
    <<"fiducia", "executions", "0123abcd", "v1">>,
    <<"fiducia", "executions", "completed", "v1", "executions">>,
    <<"nats", "executions", "completed", "v1">>}

SomeChoices ==
    (r1 :> {Staged(WithExpiry(Holding(tA, 1), 1))})
    @@ (r2 :> {Staged(Holding(tB, 2))})
    @@ (r3 :> {Staged(WithSource(Holding(tA, 3), "named"))})
    @@ (r4 :> {FromEnvelope(s, Global, TRUE) : s \in BadSubjects}
              \union {
                 Staged(Global),                      \* a mutation without a token
                 FromEnvelope(Good, Global, FALSE),   \* too long
                 Staged([Global EXCEPT !.version = 2]),
                 Staged([Global EXCEPT !.message_type = "blank"]),
                 ByHand([Global EXCEPT !.version = None]),
                 ByHand(WithSource(Global, "blank")),
                 ByHand(CompatNew("id", tA, "named", "named"))})

\* Consumers change nothing the producers read, and what is stored stays: a
\* handler that waits until the producers rest misses no behaviour of its own.
ProducersRest ==
    /\ \A d \in Drainer : drainer[d] = NoBatch
    /\ \A r \in Row : table[r] # "pending" \/ ~Publishable(r)

InTurns ==
    \/ OfflineNext /\ GateInit /\ UNCHANGED gateVars
    \/ ProducersRest /\ GateNext /\ UNCHANGED offlineVars

CoreInTurns == CoreInit /\ [][InTurns]_<<offlineVars, gateVars>>

HandlerSymmetry == Permutations(Handler) \union Permutations(Drainer)
=============================================================================
