--------------------------- MODULE StreamStartup ---------------------------
(***************************************************************************)
(* How the binaries come up (src/main.rs, src/bin, src/connect.rs,         *)
(* src/stream.rs): several deployments, each with its own environment,     *)
(* decide on TLS, parse their knobs, get or create the one stream they     *)
(* share, check its duplicate window, and only then drain and purge.       *)
(*                                                                         *)
(* get_or_create_stream is two requests, so deployments race; the stream   *)
(* is the broker's and operators change it by hand.  A deployment that is  *)
(* refused exits, and its supervisor starts it again.                      *)
(*                                                                         *)
(* The binaries lease with DEFAULT_CLAIM_TTL; a service that embeds the    *)
(* relay chooses its own lease, so it is part of the environment here.     *)
(*                                                                         *)
(* Numbers keep their width: a Duration has u64 seconds and a fraction,    *)
(* and is counted in nanoseconds here; hours are multiplied in u64; the    *)
(* milliseconds handed to Postgres are i64 and lose what is finer.  The    *)
(* widths and the units are scaled down.                                   *)
(***************************************************************************)
EXTENDS Integers, Sequences

CONSTANTS
    Deployment,    \* processes of either binary
    Env,           \* the environments they may be given
    Unset, Typo,   \* a variable that is not set, or not a number
    Edits,         \* stream configurations an operator may install by hand
    NoStream,      \* the stream does not exist
    U64, I64,      \* the largest numbers of the two widths
    SecsPerHour,   \* 3600
    MsPerSec,      \* 1000
    NanosPerMs,    \* 1000000
    DefaultMaxAge, \* DEFAULT_MAX_AGE (seven days, a Duration)
    MaxBackoff,    \* MAX_PUBLISH_BACKOFF (300 s, a Duration)
    MaxFaults      \* bound: failures, stops, redeployments, edits by hand

Host == {"loopback", "remote", "none"} \* what host_of leaves of a server URL
Switch == {Unset, "1", "true", "0", "yes"}

\* from_secs, as_millis and Duration::MAX.
FromSecs(secs) == secs * MsPerSec * NanosPerMs
AsMillis(duration) == duration \div NanosPerMs
LongestDuration == FromSecs(U64 + 1) - 1
Duration == 0..LongestDuration

StreamConfig == [num_replicas : 1..5, max_age : Duration, duplicate_window : Duration]

ASSUME StartupAssumption ==
    /\ {U64, I64, SecsPerHour, MsPerSec, NanosPerMs, MaxBackoff} \subseteq Nat \ {0}
    /\ {DefaultMaxAge, MaxBackoff} \subseteq Duration
    /\ I64 * NanosPerMs + MaxBackoff <= LongestDuration
    /\ MaxFaults \in Nat
    /\ Edits \subseteq StreamConfig
    /\ NoStream \notin StreamConfig
    /\ \A e \in Env :
          /\ e.database_url \in BOOLEAN
          /\ e.nats_url = Unset \/ \A i \in DOMAIN e.nats_url : e.nats_url[i] \in Host
          /\ {e.require_tls, e.allow_plaintext} \subseteq Switch
          /\ e.creds_file \in {Unset, "readable", "unreadable"}
          /\ {e.replicas, e.max_age, e.retention} \subseteq {Unset, Typo} \union 0..U64
          /\ e.batch \in {Unset, Typo} \union Int
          /\ e.claim_ttl \in Duration

VARIABLES
    env,    \* the environment of each deployment
    pc,     \* where its main stands
    link,   \* the TLS policy its NATS connection was opened under
    info,   \* the stream's configuration as the broker last told it
    lease,  \* the lease of its last claim, in ms
    purged, \* the age its last purge went by, in ms
    stream, \* the stream at the broker
    stale,  \* an operator changed the stream since the deployment was told
    faults  \* failures and operator actions so far

NotYet == -1 \* no claim, no purge

startupVars == <<env, pc, link, info, lease, purged, stream, stale, faults>>

----------------------------------------------------------------------------
(* The connection policy.                                                  *)

EnvFlag(v) == v \in {"1", "true"}

\* A mutation: one loopback server in the list is enough.
SomeHostLoopback(url) == \E i \in DOMAIN url : url[i] = "loopback"

\* No host to trust in an empty list; one foreign host decides for all.
AllHostsLoopback(url) ==
    url # <<>> /\ \A i \in DOMAIN url : url[i] = "loopback"

DecideTlsPolicy(url, require_tls, allow_plaintext) ==
    CASE require_tls                                -> "required"
      [] ~require_tls /\ AllHostsLoopback(url)      -> "loopback"
      [] ~require_tls /\ ~AllHostsLoopback(url)     ->
            IF allow_plaintext THEN "opted_out" ELSE "required"

----------------------------------------------------------------------------
(* The knobs.                                                              *)

ReplicasParse(raw) == raw = Unset \/ raw \in 1..5
Replicas(raw) == IF raw = Unset THEN 1 ELSE raw

\* hours.checked_mul(3600)
HoursFit(raw) == raw * SecsPerHour <= U64

\* The multiplication of the machine.
HoursInSecs(raw) == (raw * SecsPerHour) % (U64 + 1)

MaxAgeParses(raw) == raw = Unset \/ (raw # Typo /\ HoursFit(raw))
MaxAge(raw) == IF raw = Unset THEN DefaultMaxAge ELSE FromSecs(HoursInSecs(raw))

\* RELAY_RETENTION_HOURS: anything else leaves the purge off.
RetentionOn(raw) == raw \notin {Unset, Typo} /\ raw # 0 /\ HoursFit(raw)

\* RELAY_BATCH, through with_batch_size.
BatchSize(raw) ==
    IF raw \in {Unset, Typo} THEN 100 ELSE IF raw < 1 THEN 1 ELSE raw

\* positive_ms: as_millis drops what is finer than a millisecond; what is left
\* may be nothing, or too much for i64::try_from (as a mutation: a lease that
\* is positive before the cut passes).
IsPositiveBeforeCut(duration) == duration > 0 /\ AsMillis(duration) <= I64
IsPositiveMs(duration) == AsMillis(duration) \in 1..I64

\* A mutation: the sum is not capped.
UncappedWindow(claim_ttl) == claim_ttl + MaxBackoff

\* claim_ttl.saturating_add(MAX_PUBLISH_BACKOFF)
MinDuplicateWindow(claim_ttl) ==
    IF claim_ttl + MaxBackoff <= LongestDuration THEN claim_ttl + MaxBackoff
                                                ELSE LongestDuration

DesiredConfig(e) == [num_replicas |-> Replicas(e.replicas),
                     max_age |-> MaxAge(e.max_age),
                     duplicate_window |-> MinDuplicateWindow(e.claim_ttl)]

----------------------------------------------------------------------------
(* main, one await at a time.                                              *)

Reach(d, label) == pc' = [pc EXCEPT ![d] = label]

\* DATABASE_URL and NATS_URL have no default.
Boot(d) ==
    /\ pc[d] = "down"
    /\ IF env[d].database_url /\ env[d].nats_url # Unset
       THEN Reach(d, "connect") ELSE Reach(d, "refused")
    /\ UNCHANGED <<env, link, info, lease, purged, stream, stale, faults>>

\* connect: the policy is decided before dialling, from the URL and two switches.
Connect(d) ==
    /\ pc[d] = "connect"
    /\ IF env[d].creds_file = "unreadable"
       THEN Reach(d, "refused") /\ UNCHANGED link
       ELSE /\ Reach(d, "configure")
            /\ link' = [link EXCEPT ![d] =
                           DecideTlsPolicy(env[d].nats_url, EnvFlag(env[d].require_tls),
                                           EnvFlag(env[d].allow_plaintext))]
    /\ UNCHANGED <<env, info, lease, purged, stream, stale, faults>>

\* config_from_env: a knob that does not parse ends the program.
Configure(d) ==
    /\ pc[d] = "configure"
    /\ IF ReplicasParse(env[d].replicas) /\ MaxAgeParses(env[d].max_age)
       THEN Reach(d, "lookup") ELSE Reach(d, "refused")
    /\ UNCHANGED <<env, link, info, lease, purged, stream, stale, faults>>

Told(d, config) ==
    /\ info' = [info EXCEPT ![d] = config]
    /\ stale' = [stale EXCEPT ![d] = FALSE]

\* A mutation: the stream is created without looking for it.
NeverSeen == FALSE

\* STREAM.INFO answers with the stream, not with "not found".
Exists == stream # NoStream

\* get_or_create_stream, first request: the stream as it is, or "not found".
Lookup(d) ==
    /\ pc[d] = "lookup"
    /\ IF Exists
       THEN Told(d, stream) /\ Reach(d, "verify")
       ELSE Reach(d, "create") /\ UNCHANGED <<info, stale>>
    /\ UNCHANGED <<env, link, lease, purged, stream, faults>>

\* Second request.  By now another deployment may have created the stream: the
\* broker takes the same configuration again and refuses a different one.
Create(d) ==
    /\ pc[d] = "create"
    /\ LET config == DesiredConfig(env[d])
       IN  IF stream \in {NoStream, config}
           THEN stream' = config /\ Told(d, config) /\ Reach(d, "verify")
           ELSE Reach(d, "refused") /\ UNCHANGED <<stream, info, stale>>
    /\ UNCHANGED <<env, link, lease, purged, faults>>

\* A mutation: the check is of what was asked for.
ConfigAskedFor(d) == DesiredConfig(env[d])

\* What ensure_stream checks: cached_info of the deployed stream.
ConfigChecked(d) == info[d]

\* verify_duplicate_window, fail closed.
Verify(d) ==
    /\ pc[d] = "verify"
    /\ IF ConfigChecked(d).duplicate_window < MinDuplicateWindow(env[d].claim_ttl)
       THEN Reach(d, "refused") ELSE Reach(d, "up")
    /\ UNCHANGED <<env, link, info, lease, purged, stream, stale, faults>>

\* Both binaries come up by these steps, in this order.
StartupStep(d) ==
    Boot(d) \/ Connect(d) \/ Configure(d) \/ Lookup(d) \/ Create(d) \/ Verify(d)

----------------------------------------------------------------------------
(* Up: the drain loop and the hourly retention task.                       *)

\* claim_pending_outbox refuses an empty batch and a lease that is no positive
\* number of milliseconds; run_until logs that and polls on.
Claim(d) ==
    /\ pc[d] = "up"
    /\ BatchSize(env[d].batch) > 0
    /\ IsPositiveMs(env[d].claim_ttl)
    /\ lease' = [lease EXCEPT ![d] = AsMillis(env[d].claim_ttl)]
    /\ UNCHANGED <<env, pc, link, info, purged, stream, stale, faults>>

\* The three purges go by one age; a refused age is logged.
Purge(d) ==
    /\ pc[d] = "up"
    /\ RetentionOn(env[d].retention)
    /\ LET age == FromSecs(HoursInSecs(env[d].retention))
       IN  /\ IsPositiveMs(age)
           /\ purged' = [purged EXCEPT ![d] = AsMillis(age)]
    /\ UNCHANGED <<env, pc, link, info, lease, stream, stale, faults>>

----------------------------------------------------------------------------
(* Failures, restarts and operators.                                       *)

Fault == faults < MaxFaults /\ faults' = faults + 1

\* The process is gone, and what it kept with it.
Forget(d, label) ==
    /\ Reach(d, label)
    /\ link' = [link EXCEPT ![d] = "none"]
    /\ info' = [info EXCEPT ![d] = NoStream]
    /\ stale' = [stale EXCEPT ![d] = FALSE]
    /\ lease' = [lease EXCEPT ![d] = NotYet]
    /\ purged' = [purged EXCEPT ![d] = NotYet]

\* A connection or a request fails and `?` ends the program.
RequestFails(d) ==
    /\ Fault
    /\ pc[d] \in {"down", "connect", "lookup", "create"}
    /\ Reach(d, "refused")
    /\ UNCHANGED <<env, link, info, lease, purged, stream, stale>>

\* The stream is created and the reply is lost.
CreateReplyLost(d) ==
    /\ Fault
    /\ pc[d] = "create"
    /\ stream = NoStream
    /\ stream' = DesiredConfig(env[d])
    /\ Reach(d, "refused")
    /\ UNCHANGED <<env, link, info, lease, purged, stale>>

\* SIGTERM, a crash.
Stop(d) ==
    /\ Fault
    /\ pc[d] \notin {"down", "refused"}
    /\ Forget(d, "down")
    /\ UNCHANGED <<env, stream>>

\* The supervisor starts it again.
Supervise(d) ==
    /\ pc[d] = "refused"
    /\ Forget(d, "down")
    /\ UNCHANGED <<env, stream, faults>>

\* It is deployed with another environment.
Redeploy(d) ==
    /\ Fault
    /\ pc[d] \in {"down", "refused"}
    /\ Forget(d, "down")
    /\ env' \in {[env EXCEPT ![d] = e] : e \in Env \ {env[d]}}
    /\ UNCHANGED stream

\* An operator edits, creates or deletes the stream.
EditStream ==
    /\ Fault
    /\ stream' \in (Edits \union {NoStream}) \ {stream}
    /\ stale' = [d \in Deployment |-> TRUE]
    /\ UNCHANGED <<env, pc, link, info, lease, purged>>

----------------------------------------------------------------------------
StartupInit ==
    /\ env \in [Deployment -> Env]
    /\ pc = [d \in Deployment |-> "down"]
    /\ link = [d \in Deployment |-> "none"]
    /\ info = [d \in Deployment |-> NoStream]
    /\ lease = [d \in Deployment |-> NotYet]
    /\ purged = [d \in Deployment |-> NotYet]
    /\ stream = NoStream
    /\ stale = [d \in Deployment |-> FALSE]
    /\ faults = 0

StartupNext ==
    \/ \E d \in Deployment :
          \/ StartupStep(d) \/ Claim(d) \/ Purge(d) \/ Supervise(d)
          \/ RequestFails(d) \/ CreateReplyLost(d) \/ Stop(d) \/ Redeploy(d)
    \/ EditStream

\* main awaits one call after the other, the drain loop polls for ever, and a
\* supervisor restarts what exits.
StartupSpec ==
    /\ StartupInit /\ [][StartupNext]_startupVars
    /\ \A d \in Deployment : /\ WF_startupVars(StartupStep(d))
                             /\ WF_startupVars(Claim(d))
                             /\ WF_startupVars(Supervise(d))

----------------------------------------------------------------------------
(* What a deployment that came up can rely on.                             *)

StartupTypeOK ==
    /\ env \in [Deployment -> Env]
    /\ pc \in [Deployment -> {"down", "connect", "configure", "lookup", "create",
                              "verify", "up", "refused"}]
    /\ link \in [Deployment -> {"none", "required", "loopback", "opted_out"}]
    /\ info \in [Deployment -> StreamConfig \union {NoStream}]
    /\ lease \in [Deployment -> 0..I64 \union {NotYet}]
    /\ purged \in [Deployment -> 0..I64 \union {NotYet}]
    /\ stream \in StreamConfig \union {NoStream}
    /\ stale \in [Deployment -> BOOLEAN]
    /\ faults \in 0..MaxFaults

\* Whoever created the stream, with whatever settings, and however the two
\* requests of several deployments interleave: a deployment that has leased
\* rows publishes to a stream whose window covers that lease and a backoff,
\* in the exact sum, unless an operator changed it since (ensure_stream).
LeasesAreCovered ==
    \A d \in Deployment :
        lease[d] # NotYet /\ ~stale[d] =>
            /\ stream # NoStream
            /\ stream.duplicate_window >= lease[d] * NanosPerMs + MaxBackoff

\* An open connection that TLS does not protect leads to this host only, or
\* was asked for by name and not forbidden (decide_tls_policy).
PlaintextIsDeliberate ==
    \A d \in Deployment :
        link[d] \in {"loopback", "opted_out"} =>
            /\ env[d].require_tls \notin {"1", "true"}
            /\ \/ env[d].allow_plaintext \in {"1", "true"}
               \/ env[d].nats_url # <<>> /\ \A i \in DOMAIN env[d].nats_url :
                                                 env[d].nats_url[i] = "loopback"

\* Through two multiplications, a cut to milliseconds and a narrowing no age is
\* used that nobody asked for: a lease is the one the service was built with, to
\* the millisecond, as positive_ms drops the rest, and never one that expires
\* at once; an age in hours is exact, and no purge takes everything; what
\* cannot be kept is refused (parse_max_age, RELAY_RETENTION_HOURS).
AgesAreKept ==
    /\ \A d \in Deployment :
          /\ lease[d] # NotYet =>
                lease[d] > 0 /\ env[d].claim_ttl - lease[d] * NanosPerMs \in 0..NanosPerMs - 1
          /\ purged[d] # NotYet =>
                purged[d] > 0 /\ purged[d] = env[d].retention * SecsPerHour * MsPerSec
    /\ stream \notin Edits \union {NoStream} =>
          \E e \in Env : \/ e.max_age = Unset /\ stream.max_age = DefaultMaxAge
                         \/ /\ e.max_age \notin {Unset, Typo}
                            /\ stream.max_age = FromSecs(e.max_age * SecsPerHour)

\* A deployment whose environment is in order comes up and drains, whatever
\* came of the race for the stream, of lost replies and of stops, unless the
\* stream's window is too short for its lease (the remedy is an operator's).
InOrder(e) ==
    /\ e.database_url /\ e.nats_url # Unset /\ e.creds_file # "unreadable"
    /\ ReplicasParse(e.replicas) /\ MaxAgeParses(e.max_age)
    /\ IsPositiveMs(e.claim_ttl)
TooShortFor(e) == stream # NoStream /\ stream.duplicate_window < MinDuplicateWindow(e.claim_ttl)
EventuallyDrains ==
    \A d \in Deployment :
        (pc[d] = "down" /\ InOrder(env[d]))
            ~> (lease[d] # NotYet \/ ~InOrder(env[d]) \/ TooShortFor(env[d]))
=============================================================================
