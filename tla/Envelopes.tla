----------------------------- MODULE Envelopes -----------------------------
(***************************************************************************)
(* The message envelope (src/envelope.rs), how it is built, validated and  *)
(* decoded, and the gate before the effect a message drives; and, as bytes *)
(* it may meet, the original envelope (src/compat_envelope.rs).            *)
(*                                                                         *)
(* A text is "blank" or a name, a time a number of ticks.  The fields that *)
(* only travel along (schema version, workflow, trace, payload) are left   *)
(* out; the two formats differ in the fields from_slice looks for.         *)
(***************************************************************************)
EXTENDS Naturals

CONSTANT None \* an optional field that is not there

ASSUME NoneAssumption == None \notin Nat

EnvelopeVersion == 1 \* ENVELOPE_VERSION, of both formats

\* MessageEnvelope::new_at: the root of a correlation chain.
NewAt(id, message_type, key) ==
    [format |-> "current", version |-> EnvelopeVersion, message_id |-> id,
     message_type |-> message_type, source |-> None, correlation_id |-> id,
     causation_id |-> None, tenant_id |-> None, idempotency_key |-> key,
     fencing_token |-> None, expires_at |-> None]

WithSource(e, source) == [e EXCEPT !.source = source]
WithTenant(e, tenant) == [e EXCEPT !.tenant_id = tenant]
WithFencingToken(e, token) == [e EXCEPT !.fencing_token = token]
WithExpiry(e, time) == [e EXCEPT !.expires_at = time]

\* compat_envelope::Envelope::new: tenant and source are not optional, and
\* there is neither a token nor an expiry.
CompatNew(id, tenant, message_type, source) ==
    [NewAt(id, message_type, None) EXCEPT !.format = "compat", !.tenant_id = tenant,
                                          !.source = source]

\* MessageEnvelope::validate
Validates(e) ==
    /\ e.version = EnvelopeVersion
    /\ e.message_type # "blank"
    /\ e.source # "blank"

\* #[serde(default)]: an envelope from before the field has the first version.
ReadVersion(e) == IF e.version = None THEN [e EXCEPT !.version = EnvelopeVersion] ELSE e

\* MessageEnvelope::decode: the original format lacks fields it requires.
Decodes(e) == e.format = "current" /\ Validates(ReadVersion(e))

IsExpired(e, now) == e.expires_at # None /\ now >= e.expires_at

\* A mutation: the token is passed on, not required.
TokenOptional(e) == TRUE

\* require_fencing_token
HasFencingToken(e) == e.fencing_token # None

\* ensure_consumable, and the token it hands to the effect.
Consumable(e, now, require_fencing) ==
    ~IsExpired(e, now) /\ (require_fencing => HasFencingToken(e))
GrantedToken(e, require_fencing) == IF require_fencing THEN e.fencing_token ELSE None
=============================================================================
