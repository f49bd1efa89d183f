------------------------ MODULE StreamStartupProofs ------------------------
(* Proofs about StreamStartup, for every set of deployments and            *)
(* environments, every width of the numbers, and any number of faults.     *)
EXTENDS StreamStartup, TLAPS

USE DEF startupVars

----------------------------------------------------------------------------
(* Arithmetic.                                                             *)

Secs == 0..U64

LEMMA Widths ==
    /\ U64 \in Nat /\ I64 \in Nat /\ MaxFaults \in Nat
    /\ SecsPerHour \in Nat /\ MsPerSec \in Nat /\ NanosPerMs \in Nat
    /\ U64 > 0 /\ SecsPerHour > 0 /\ MsPerSec > 0 /\ NanosPerMs > 0
    /\ LongestDuration \in Nat /\ MaxBackoff \in Duration /\ DefaultMaxAge \in Duration
    /\ I64 * NanosPerMs + MaxBackoff <= LongestDuration
<1>1. /\ U64 \in Nat /\ I64 \in Nat /\ MaxFaults \in Nat
      /\ SecsPerHour \in Nat /\ MsPerSec \in Nat /\ NanosPerMs \in Nat
      /\ U64 > 0 /\ SecsPerHour > 0 /\ MsPerSec > 0 /\ NanosPerMs > 0
      /\ MaxBackoff \in Duration /\ DefaultMaxAge \in Duration
      /\ I64 * NanosPerMs + MaxBackoff <= LongestDuration
  BY StartupAssumption
<1>2. ASSUME NEW a \in Nat, NEW b \in Nat, NEW c \in Nat, a > 0, b > 0, c > 0
      PROVE  a * b * c \in Nat /\ a * b * c > 0
  <2>1. a * b \in Nat /\ a * b > 0  BY <1>2
  <2> QED  BY <1>2, <2>1
<1>3. (U64 + 1) * MsPerSec * NanosPerMs \in Nat /\ (U64 + 1) * MsPerSec * NanosPerMs > 0
  BY <1>1, <1>2
<1>4. LongestDuration \in Nat  BY <1>3 DEF LongestDuration, FromSecs
<1> QED  BY <1>1, <1>4

\* The machine's product is the product if it fits.
LEMMA HoursAreExact ==
    ASSUME NEW raw \in Nat, HoursFit(raw)
    PROVE  HoursInSecs(raw) = raw * SecsPerHour /\ HoursInSecs(raw) \in Secs
<1>1. raw * SecsPerHour \in Nat /\ raw * SecsPerHour <= U64
  BY Widths DEF HoursFit
<1>2. ASSUME NEW p \in Nat, p <= U64 PROVE p % (U64 + 1) = p
  BY <1>2, Widths
<1> QED  BY <1>1, <1>2, Widths DEF HoursInSecs, Secs

\* Whole seconds of the first width are a Duration.
LEMMA SecondsFit ==
    ASSUME NEW secs \in Secs
    PROVE  FromSecs(secs) \in Duration
<1>1. PICK k \in Nat : U64 + 1 = secs + k /\ k > 0
  <2>1. (U64 + 1) - secs \in Nat /\ (U64 + 1) - secs > 0  BY Widths DEF Secs
  <2> QED  BY <2>1, Widths DEF Secs
<1>2. PICK m \in Nat : m = MsPerSec * NanosPerMs /\ m > 0
  <2>1. MsPerSec * NanosPerMs \in Nat /\ MsPerSec * NanosPerMs > 0  BY Widths
  <2> QED  BY <2>1
<1>3. ASSUME NEW s \in Nat PROVE FromSecs(s) = s * m
  BY <1>2, Widths DEF FromSecs
<1>4. secs \in Nat /\ U64 + 1 \in Nat  BY Widths DEF Secs
<1>5. (secs + k) * m = secs * m + k * m /\ secs * m \in Nat /\ k * m \in Nat /\ k * m > 0
  BY <1>1, <1>2, <1>4
<1>6. FromSecs(U64 + 1) = secs * m + k * m  BY <1>1, <1>3, <1>4, <1>5
<1> QED  BY <1>3, <1>4, <1>5, <1>6 DEF Duration, LongestDuration

\* What the cut to milliseconds leaves, and what it drops.
LEMMA Millis ==
    ASSUME NEW duration \in Nat
    PROVE  /\ AsMillis(duration) \in Nat
           /\ duration - AsMillis(duration) * NanosPerMs \in 0..NanosPerMs - 1
<1>1. ASSUME NEW a \in Nat, NEW b \in Nat, b > 0
      PROVE  /\ a \div b \in Nat
             /\ a = b * (a \div b) + (a % b) /\ (a % b) \in 0..b - 1
  BY <1>1
<1>2. PICK q \in Nat, m \in Nat :
          /\ q = AsMillis(duration) /\ m \in 0..NanosPerMs - 1
          /\ duration = NanosPerMs * q + m
  BY <1>1, Widths DEF AsMillis
<1>3. NanosPerMs * q = q * NanosPerMs /\ q * NanosPerMs \in Nat  BY Widths
<1> QED  BY <1>2, <1>3

\* Seconds lose nothing by it.
LEMMA SecondsInMillis ==
    ASSUME NEW secs \in Nat
    PROVE  AsMillis(FromSecs(secs)) = secs * MsPerSec
<1>1. PICK k \in Nat : k = secs * MsPerSec  BY Widths
<1>2. PICK q \in Nat : q = AsMillis(k * NanosPerMs)
                        /\ k * NanosPerMs - q * NanosPerMs \in 0..NanosPerMs - 1
  BY <1>1, Millis, Widths
<1>3. FromSecs(secs) = k * NanosPerMs  BY <1>1 DEF FromSecs
<1>4. ASSUME NEW a \in Nat, NEW b \in Nat, a < b
      PROVE  b * NanosPerMs >= a * NanosPerMs + NanosPerMs
  <2>1. PICK j \in Nat : b = a + 1 + j
    <3>1. b - (a + 1) \in Nat  BY <1>4
    <3> QED  BY <3>1
  <2>2. b * NanosPerMs = a * NanosPerMs + NanosPerMs + j * NanosPerMs  BY <2>1, Widths
  <2>3. a * NanosPerMs \in Nat /\ j * NanosPerMs \in Nat  BY Widths
  <2> QED  BY <2>2, <2>3, Widths
<1>5. k * NanosPerMs \in Nat /\ q * NanosPerMs \in Nat  BY Widths
<1>6. ~(q < k) /\ ~(k < q)  BY <1>2, <1>4, <1>5, Widths
<1> QED  BY <1>1, <1>2, <1>3, <1>6

LEMMA WindowIsDuration ==
    ASSUME NEW ttl \in Duration
    PROVE  MinDuplicateWindow(ttl) \in Duration
<1>1. LongestDuration \in Nat /\ ttl \in Nat /\ MaxBackoff \in Nat
  BY Widths DEF Duration
<1> QED  BY <1>1 DEF MinDuplicateWindow, Duration

\* A window that passes the check covers a lease that fits i64 and a backoff,
\* even where the sum of the two was capped.
LEMMA WindowCovers ==
    ASSUME NEW ttl \in Duration, NEW window \in Duration,
           window >= MinDuplicateWindow(ttl), AsMillis(ttl) <= I64
    PROVE  window >= AsMillis(ttl) * NanosPerMs + MaxBackoff
<1>0. /\ ttl \in Nat /\ window \in Nat /\ MaxBackoff \in Nat
      /\ LongestDuration \in Nat /\ window <= LongestDuration
  BY Widths DEF Duration
<1>1. PICK q \in Nat : q = AsMillis(ttl)
  BY <1>0, Millis
<1>2. q * NanosPerMs \in Nat /\ q * NanosPerMs <= ttl
  <2>1. q * NanosPerMs \in Nat  BY Widths
  <2>2. ttl - q * NanosPerMs \in 0..NanosPerMs - 1  BY <1>0, <1>1, Millis
  <2> QED  BY <1>0, <2>1, <2>2, Widths
<1>3. CASE ttl + MaxBackoff <= LongestDuration
  BY <1>0, <1>1, <1>2, <1>3 DEF MinDuplicateWindow
<1>4. CASE ~(ttl + MaxBackoff <= LongestDuration)
  <2>1. window = LongestDuration  BY <1>0, <1>4 DEF MinDuplicateWindow
  <2>2. q * NanosPerMs <= I64 * NanosPerMs /\ I64 * NanosPerMs \in Nat
    <3>1. PICK j \in Nat : I64 = q + j
      <4>1. I64 - q \in Nat  BY <1>1, Widths
      <4> QED  BY <4>1, Widths
    <3>2. I64 * NanosPerMs = q * NanosPerMs + j * NanosPerMs /\ j * NanosPerMs \in Nat
      BY <3>1, Widths
    <3> QED  BY <1>2, <3>2
  <2> QED  BY <1>0, <1>1, <1>2, <2>1, <2>2, Widths
<1> QED  BY <1>3, <1>4

\* Knobs that parse make a configuration the stream can have.
LEMMA DesiredIsConfig ==
    ASSUME NEW e \in Env, ReplicasParse(e.replicas), MaxAgeParses(e.max_age)
    PROVE  /\ DesiredConfig(e) \in StreamConfig
           /\ DesiredConfig(e).duplicate_window = MinDuplicateWindow(e.claim_ttl)
           /\ \/ e.max_age = Unset /\ DesiredConfig(e).max_age = DefaultMaxAge
              \/ /\ e.max_age \notin {Unset, Typo}
                 /\ DesiredConfig(e).max_age = FromSecs(e.max_age * SecsPerHour)
<1>1. e.claim_ttl \in Duration /\ e.max_age \in {Unset, Typo} \union Secs
  BY StartupAssumption DEF Secs
<1>2. Replicas(e.replicas) \in 1..5  BY DEF Replicas, ReplicasParse
<1>3. \/ e.max_age = Unset /\ MaxAge(e.max_age) = DefaultMaxAge
      \/ /\ e.max_age \notin {Unset, Typo}
         /\ MaxAge(e.max_age) = FromSecs(e.max_age * SecsPerHour)
         /\ MaxAge(e.max_age) \in Duration
  <2>1. CASE e.max_age = Unset  BY <2>1 DEF MaxAge
  <2>2. CASE e.max_age # Unset
    <3>1. e.max_age \in Nat /\ e.max_age # Typo /\ HoursFit(e.max_age)
      BY <1>1, <2>2, Widths DEF MaxAgeParses, Secs
    <3> QED  BY <2>2, <3>1, HoursAreExact, SecondsFit DEF MaxAge
  <2> QED  BY <2>1, <2>2
<1>4. MaxAge(e.max_age) \in Duration  BY <1>3, Widths
<1> QED  BY <1>1, <1>2, <1>3, <1>4, WindowIsDuration DEF DesiredConfig, StreamConfig

----------------------------------------------------------------------------
(* The inductive invariant.                                                *)

\* Past config_from_env the knobs are known to parse.
Configured(d) ==
    pc[d] \in {"lookup", "create", "verify", "up"} =>
        ReplicasParse(env[d].replicas) /\ MaxAgeParses(env[d].max_age)

\* What the broker told is the stream, as long as no operator intervened.
ToldRight(d) ==
    /\ pc[d] \in {"verify", "up"} => info[d] # NoStream
    /\ info[d] # NoStream /\ ~stale[d] => stream = info[d]

Verified(d) ==
    pc[d] = "up" => info[d].duplicate_window >= MinDuplicateWindow(env[d].claim_ttl)

Leased(d) ==
    lease[d] # NotYet =>
        pc[d] = "up" /\ lease[d] > 0 /\ lease[d] = AsMillis(env[d].claim_ttl)

StartupInv ==
    /\ StartupTypeOK
    /\ \A d \in Deployment : Configured(d) /\ ToldRight(d) /\ Verified(d) /\ Leased(d)

LEMMA EnvType ==
    ASSUME NEW e \in Env
    PROVE  /\ e.claim_ttl \in Duration
           /\ e.retention \in {Unset, Typo} \union Secs
           /\ e.max_age \in {Unset, Typo} \union Secs
  BY StartupAssumption DEF Secs

LEMMA StartupInitially == StartupInit => StartupInv
<1> SUFFICES ASSUME StartupInit PROVE StartupInv  OBVIOUS
<1>1. StartupTypeOK  BY Widths DEF StartupInit, StartupTypeOK
<1>2. ASSUME NEW d \in Deployment
      PROVE  Configured(d) /\ ToldRight(d) /\ Verified(d) /\ Leased(d)
  <2>1. pc[d] = "down" /\ info[d] = NoStream /\ lease[d] = NotYet  BY DEF StartupInit
  <2> QED  BY <2>1 DEF Configured, ToldRight, Verified, Leased
<1> QED  BY <1>1, <1>2 DEF StartupInv

LEMMA FaultCounts ==
    ASSUME StartupTypeOK, Fault PROVE faults' \in 0..MaxFaults
  BY Widths DEF StartupTypeOK, Fault

\* A step of d that leaves the stream, and what others keep, alone, is judged
\* by what it does to d.
LEMMA OneDeployment ==
    ASSUME StartupInv, StartupTypeOK', NEW d \in Deployment, stream' = stream,
           \A c \in Deployment \ {d} : /\ env'[c] = env[c] /\ pc'[c] = pc[c]
                                       /\ info'[c] = info[c] /\ lease'[c] = lease[c]
                                       /\ stale'[c] = stale[c],
           Configured(d)', ToldRight(d)', Verified(d)', Leased(d)'
    PROVE  StartupInv'
<1>1. ASSUME NEW c \in Deployment, c # d
      PROVE  (Configured(c) /\ ToldRight(c) /\ Verified(c) /\ Leased(c))'
  BY <1>1 DEF StartupInv, Configured, ToldRight, Verified, Leased
<1> QED  BY <1>1 DEF StartupInv

\* The steps before the stream is looked up.
LEMMA EarlyKeep ==
    ASSUME StartupInv, NEW d \in Deployment, Boot(d) \/ Connect(d) \/ Configure(d)
    PROVE  StartupInv'
<1> USE DEF StartupInv
<1>1. DecideTlsPolicy(env[d].nats_url, EnvFlag(env[d].require_tls), EnvFlag(env[d].allow_plaintext))
        \in {"none", "required", "loopback", "opted_out"}
  BY DEF DecideTlsPolicy, EnvFlag, AllHostsLoopback
<1>2. StartupTypeOK'
  <2>1. CASE Boot(d)  BY <2>1 DEF Boot, Reach, StartupTypeOK
  <2>2. CASE Connect(d)  BY <1>1, <2>2 DEF Connect, Reach, StartupTypeOK
  <2>3. CASE Configure(d)  BY <2>3 DEF Configure, Reach, StartupTypeOK
  <2> QED  BY <2>1, <2>2, <2>3
<1>3. UNCHANGED <<env, info, lease, stream, stale>>
  BY DEF Boot, Connect, Configure
<1>4. PICK label \in {"connect", "configure", "lookup", "refused"} :
          /\ pc' = [pc EXCEPT ![d] = label]
          /\ label = "lookup" => ReplicasParse(env[d].replicas) /\ MaxAgeParses(env[d].max_age)
  BY DEF Boot, Connect, Configure, Reach
<1>5. pc[d] # "up"  BY DEF Boot, Connect, Configure
<1>6. Configured(d)' /\ ToldRight(d)' /\ Verified(d)' /\ Leased(d)'
  BY <1>3, <1>4, <1>5 DEF StartupTypeOK, Configured, ToldRight, Verified, Leased
<1>7. \A c \in Deployment \ {d} : pc'[c] = pc[c]  BY <1>4 DEF StartupTypeOK
<1> QED  BY <1>2, <1>3, <1>6, <1>7, OneDeployment

LEMMA LookupKeeps ==
    ASSUME StartupInv, NEW d \in Deployment, Lookup(d) PROVE StartupInv'
<1> USE DEF StartupInv
<1>1. StartupTypeOK'  BY DEF Lookup, Told, Exists, Reach, StartupTypeOK
<1>2. \A c \in Deployment \ {d} : /\ env'[c] = env[c] /\ pc'[c] = pc[c]
                                  /\ info'[c] = info[c] /\ lease'[c] = lease[c]
                                  /\ stale'[c] = stale[c]
  BY DEF Lookup, Told, Reach, StartupTypeOK
<1>3. Configured(d)' /\ ToldRight(d)' /\ Verified(d)' /\ Leased(d)'
  BY DEF Lookup, Told, Exists, Reach, StartupTypeOK, Configured, ToldRight, Verified, Leased
<1> QED  BY <1>1, <1>2, <1>3, OneDeployment DEF Lookup

\* The stream appears, or stays what it was.
LEMMA CreateKeeps ==
    ASSUME StartupInv, NEW d \in Deployment, Create(d) PROVE StartupInv'
<1> USE DEF StartupInv
<1> DEFINE config == DesiredConfig(env[d])
<1>1. pc[d] = "create" /\ config \in StreamConfig
  BY DesiredIsConfig DEF Create, Configured, StartupTypeOK
<1>2. NoStream \notin StreamConfig  BY StartupAssumption
<1>3. CASE stream \notin {NoStream, config}
  <2>1. pc' = [pc EXCEPT ![d] = "refused"]
        /\ UNCHANGED <<env, link, info, lease, purged, stream, stale, faults>>
    BY <1>3 DEF Create, Reach
  <2>2. StartupTypeOK'  BY <2>1 DEF StartupTypeOK
  <2>3. Configured(d)' /\ ToldRight(d)' /\ Verified(d)' /\ Leased(d)'
    BY <1>1, <2>1 DEF StartupTypeOK, Configured, ToldRight, Verified, Leased
  <2>4. \A c \in Deployment \ {d} : pc'[c] = pc[c]  BY <2>1 DEF StartupTypeOK
  <2> QED  BY <2>1, <2>2, <2>3, <2>4, OneDeployment
<1>4. CASE stream \in {NoStream, config}
  <2>1. /\ stream' = config
        /\ pc' = [pc EXCEPT ![d] = "verify"]
        /\ info' = [info EXCEPT ![d] = config] /\ stale' = [stale EXCEPT ![d] = FALSE]
        /\ UNCHANGED <<env, link, lease, purged, faults>>
    BY <1>4 DEF Create, Reach, Told
  <2> HIDE DEF config
  <2>2. StartupTypeOK'  BY <1>1, <2>1 DEF StartupTypeOK
  <2>3. ASSUME NEW c \in Deployment
        PROVE  Configured(c)' /\ ToldRight(c)' /\ Verified(c)' /\ Leased(c)'
    <3>1. CASE c = d
      BY <1>1, <1>2, <2>1, <3>1 DEF StartupTypeOK, Configured, ToldRight, Verified, Leased
    <3>2. CASE c # d
      <4>1. /\ env'[c] = env[c] /\ pc'[c] = pc[c] /\ info'[c] = info[c]
            /\ lease'[c] = lease[c] /\ stale'[c] = stale[c]
        BY <2>1, <3>2 DEF StartupTypeOK
      <4>2. Configured(c) /\ ToldRight(c) /\ Verified(c) /\ Leased(c)  OBVIOUS
      <4> QED  BY <1>4, <2>1, <4>1, <4>2 DEF Configured, ToldRight, Verified, Leased
    <3> QED  BY <3>1, <3>2
  <2> QED  BY <2>2, <2>3
<1> QED  BY <1>3, <1>4

LEMMA VerifyKeeps ==
    ASSUME StartupInv, NEW d \in Deployment, Verify(d) PROVE StartupInv'
<1> USE DEF StartupInv
<1>1. PICK label \in {"up", "refused"} :
          /\ pc' = [pc EXCEPT ![d] = label]
          /\ label = "up" =>
                ~(info[d].duplicate_window < MinDuplicateWindow(env[d].claim_ttl))
  BY DEF Verify, Reach, ConfigChecked
<1>2. pc[d] = "verify" /\ UNCHANGED <<env, link, info, lease, purged, stream, stale, faults>>
  BY DEF Verify
<1>3. StartupTypeOK'  BY <1>1, <1>2 DEF StartupTypeOK
<1>4. info[d] \in StreamConfig /\ env[d] \in Env
  BY <1>2 DEF ToldRight, StartupTypeOK
<1>5. info[d].duplicate_window \in Nat /\ MinDuplicateWindow(env[d].claim_ttl) \in Nat
  BY <1>4, EnvType, WindowIsDuration, Widths DEF StreamConfig, Duration
<1>6. Configured(d)' /\ ToldRight(d)' /\ Verified(d)' /\ Leased(d)'
  BY <1>1, <1>2, <1>5 DEF StartupTypeOK, Configured, ToldRight, Verified, Leased
<1>7. \A c \in Deployment \ {d} : pc'[c] = pc[c]  BY <1>1 DEF StartupTypeOK
<1> QED  BY <1>2, <1>3, <1>6, <1>7, OneDeployment

LEMMA ClaimKeeps ==
    ASSUME StartupInv, NEW d \in Deployment, Claim(d) PROVE StartupInv'
<1> USE DEF StartupInv
<1>1. /\ pc[d] = "up" /\ lease' = [lease EXCEPT ![d] = AsMillis(env[d].claim_ttl)]
      /\ UNCHANGED <<env, pc, link, info, purged, stream, stale, faults>>
      /\ AsMillis(env[d].claim_ttl) \in 1..I64
  BY DEF Claim, IsPositiveMs
<1>2. StartupTypeOK'  BY <1>1, Widths DEF StartupTypeOK
<1>3. Configured(d)' /\ ToldRight(d)' /\ Verified(d)' /\ Leased(d)'
  BY <1>1 DEF StartupTypeOK, Configured, ToldRight, Verified, Leased
<1>4. \A c \in Deployment \ {d} : lease'[c] = lease[c]  BY <1>1 DEF StartupTypeOK
<1> QED  BY <1>1, <1>2, <1>3, <1>4, OneDeployment

LEMMA PurgeKeeps ==
    ASSUME StartupInv, NEW d \in Deployment, Purge(d) PROVE StartupInv'
<1> USE DEF StartupInv
<1>1. PICK ms \in 1..I64 : purged' = [purged EXCEPT ![d] = ms]
  BY DEF Purge, IsPositiveMs
<1>2. UNCHANGED <<env, pc, link, info, lease, stream, stale, faults>>  BY DEF Purge
<1>3. StartupTypeOK'  BY <1>1, <1>2, Widths DEF StartupTypeOK
<1>4. Configured(d)' /\ ToldRight(d)' /\ Verified(d)' /\ Leased(d)'
  BY <1>2 DEF Configured, ToldRight, Verified, Leased
<1> QED  BY <1>2, <1>3, <1>4, OneDeployment

----------------------------------------------------------------------------
(* Failures, restarts and operators.                                       *)

LEMMA RequestFailsKeeps ==
    ASSUME StartupInv, NEW d \in Deployment, RequestFails(d) PROVE StartupInv'
<1> USE DEF StartupInv
<1>1. /\ pc' = [pc EXCEPT ![d] = "refused"] /\ pc[d] # "up" /\ Fault
      /\ UNCHANGED <<env, link, info, lease, purged, stream, stale>>
  BY DEF RequestFails, Reach
<1>2. StartupTypeOK'  BY <1>1, FaultCounts DEF StartupTypeOK
<1>3. Configured(d)' /\ ToldRight(d)' /\ Verified(d)' /\ Leased(d)'
  BY <1>1 DEF StartupTypeOK, Configured, ToldRight, Verified, Leased
<1>4. \A c \in Deployment \ {d} : pc'[c] = pc[c]  BY <1>1 DEF StartupTypeOK
<1> QED  BY <1>1, <1>2, <1>3, <1>4, OneDeployment

\* The stream appears without its creator knowing.
LEMMA CreateReplyLostKeeps ==
    ASSUME StartupInv, NEW d \in Deployment, CreateReplyLost(d) PROVE StartupInv'
<1> USE DEF StartupInv
<1>1. /\ pc[d] = "create" /\ pc' = [pc EXCEPT ![d] = "refused"] /\ Fault
      /\ stream = NoStream /\ stream' = DesiredConfig(env[d])
      /\ UNCHANGED <<env, link, info, lease, purged, stale>>
  BY DEF CreateReplyLost, Reach
<1>2. DesiredConfig(env[d]) \in StreamConfig
  BY <1>1, DesiredIsConfig DEF Configured, StartupTypeOK
<1>3. StartupTypeOK'  BY <1>1, <1>2, FaultCounts DEF StartupTypeOK
<1>4. ASSUME NEW c \in Deployment
      PROVE  Configured(c)' /\ ToldRight(c)' /\ Verified(c)' /\ Leased(c)'
  <2>1. Configured(c) /\ ToldRight(c) /\ Verified(c) /\ Leased(c)  OBVIOUS
  <2>2. pc'[c] = pc[c] \/ (pc'[c] = "refused" /\ pc[c] = "create")
    BY <1>1 DEF StartupTypeOK
  <2> QED  BY <1>1, <2>1, <2>2 DEF Configured, ToldRight, Verified, Leased
<1> QED  BY <1>3, <1>4

\* A process that is gone remembers nothing.
LEMMA Forgotten ==
    ASSUME StartupInv, NEW d \in Deployment, Forget(d, "down"), stream' = stream,
           env' \in [Deployment -> Env], \A c \in Deployment \ {d} : env'[c] = env[c],
           faults' \in 0..MaxFaults
    PROVE  StartupInv'
<1> USE DEF StartupInv
<1>1. StartupTypeOK'
  <2>1. /\ pc' = [pc EXCEPT ![d] = "down"] /\ link' = [link EXCEPT ![d] = "none"]
        /\ info' = [info EXCEPT ![d] = NoStream] /\ stale' = [stale EXCEPT ![d] = FALSE]
        /\ lease' = [lease EXCEPT ![d] = NotYet] /\ purged' = [purged EXCEPT ![d] = NotYet]
    BY DEF Forget, Reach
  <2>3. pc' \in [Deployment -> {"down", "connect", "configure", "lookup", "create",
                               "verify", "up", "refused"}]
        /\ link' \in [Deployment -> {"none", "required", "loopback", "opted_out"}]
    BY <2>1 DEF StartupTypeOK
  <2>4. info' \in [Deployment -> StreamConfig \union {NoStream}]
        /\ stale' \in [Deployment -> BOOLEAN]
    BY <2>1 DEF StartupTypeOK
  <2>5. /\ lease' \in [Deployment -> 0..I64 \union {NotYet}]
        /\ purged' \in [Deployment -> 0..I64 \union {NotYet}]
    BY <2>1 DEF StartupTypeOK
  <2>6. stream' \in StreamConfig \union {NoStream}  BY DEF StartupTypeOK
  <2> QED  BY <2>3, <2>4, <2>5, <2>6 DEF StartupTypeOK
<1>2. pc'[d] = "down" /\ info'[d] = NoStream /\ lease'[d] = NotYet
  BY DEF Forget, Reach, StartupTypeOK
<1>3. Configured(d)' /\ ToldRight(d)' /\ Verified(d)' /\ Leased(d)'
  BY <1>2 DEF Configured, ToldRight, Verified, Leased
<1>4. \A c \in Deployment \ {d} : /\ pc'[c] = pc[c] /\ info'[c] = info[c]
                                  /\ lease'[c] = lease[c] /\ stale'[c] = stale[c]
  BY DEF Forget, Reach, StartupTypeOK
<1> QED  BY <1>1, <1>3, <1>4, OneDeployment

LEMMA RestartsKeep ==
    ASSUME StartupInv, NEW d \in Deployment, Stop(d) \/ Supervise(d) \/ Redeploy(d)
    PROVE  StartupInv'
<1>1. Forget(d, "down") /\ stream' = stream  BY DEF Stop, Supervise, Redeploy
<1>2. faults' \in 0..MaxFaults
  BY FaultCounts DEF Stop, Supervise, Redeploy, StartupInv, StartupTypeOK
<1>3. env' \in [Deployment -> Env] /\ \A c \in Deployment \ {d} : env'[c] = env[c]
  BY DEF Stop, Supervise, Redeploy, StartupInv, StartupTypeOK
<1> QED  BY <1>1, <1>2, <1>3, Forgotten

LEMMA EditStreamKeeps ==
    ASSUME StartupInv, EditStream PROVE StartupInv'
<1> USE DEF StartupInv
<1>1. /\ stream' \in Edits \union {NoStream} /\ Fault
      /\ stale' = [d \in Deployment |-> TRUE]
      /\ UNCHANGED <<env, pc, link, info, lease, purged>>
  BY DEF EditStream
<1>2. Edits \subseteq StreamConfig  BY StartupAssumption
<1>3. StartupTypeOK'  BY <1>1, <1>2, FaultCounts DEF StartupTypeOK
<1>4. ASSUME NEW c \in Deployment
      PROVE  Configured(c)' /\ ToldRight(c)' /\ Verified(c)' /\ Leased(c)'
  BY <1>1 DEF Configured, ToldRight, Verified, Leased
<1> QED  BY <1>3, <1>4

LEMMA StartupStepKeeps ==
    ASSUME StartupInv, [StartupNext]_startupVars PROVE StartupInv'
<1>1. ASSUME NEW d \in Deployment, StartupStep(d) PROVE StartupInv'
  BY <1>1, EarlyKeep, LookupKeeps, CreateKeeps, VerifyKeeps DEF StartupStep
<1>2. ASSUME NEW d \in Deployment, Claim(d) \/ Purge(d) PROVE StartupInv'
  BY <1>2, ClaimKeeps, PurgeKeeps
<1>3. ASSUME NEW d \in Deployment,
             \/ RequestFails(d) \/ CreateReplyLost(d)
             \/ Stop(d) \/ Supervise(d) \/ Redeploy(d)
      PROVE  StartupInv'
  BY <1>3, RequestFailsKeeps, CreateReplyLostKeeps, RestartsKeep
<1>4. CASE EditStream  BY <1>4, EditStreamKeeps
<1>5. CASE UNCHANGED startupVars
  BY <1>5 DEF StartupInv, StartupTypeOK, Configured, ToldRight, Verified, Leased
<1> QED  BY <1>1, <1>2, <1>3, <1>4, <1>5 DEF StartupNext

----------------------------------------------------------------------------
(* Theorems.                                                               *)

\* The inductive invariant: what a deployment knows of the stream is right,
\* and it leases only after its check.
THEOREM StartupInvariant == StartupSpec => []StartupInv
<1>1. StartupInv /\ [StartupNext]_startupVars => StartupInv'  BY StartupStepKeeps
<1> QED  BY <1>1, StartupInitially, PTL DEF StartupSpec

\* Every variable has its type; no number exceeds its width.
THEOREM StartupTypeInvariant == StartupSpec => []StartupTypeOK
<1>1. StartupInv => StartupTypeOK  BY DEF StartupInv
<1> QED  BY <1>1, StartupInvariant, PTL

\* Whoever created the stream and however the deployments raced: the window
\* covers every lease in use and a backoff (ensure_stream).
THEOREM WindowsCoverLeases == StartupSpec => []LeasesAreCovered
<1>1. StartupInv => LeasesAreCovered
  <2> SUFFICES ASSUME StartupInv, NEW d \in Deployment, lease[d] # NotYet, ~stale[d]
               PROVE  /\ stream # NoStream
                      /\ stream.duplicate_window >= lease[d] * NanosPerMs + MaxBackoff
    BY DEF LeasesAreCovered
  <2>1. /\ pc[d] = "up" /\ lease[d] = AsMillis(env[d].claim_ttl) /\ lease[d] <= I64
        /\ env[d] \in Env
    BY Widths DEF StartupInv, Leased, StartupTypeOK
  <2>2. info[d] # NoStream /\ stream = info[d]  BY <2>1 DEF StartupInv, ToldRight
  <2>3. stream.duplicate_window >= MinDuplicateWindow(env[d].claim_ttl)
    BY <2>1, <2>2 DEF StartupInv, Verified
  <2>4. stream.duplicate_window \in Duration /\ env[d].claim_ttl \in Duration
    BY <2>1, <2>2, EnvType DEF StartupInv, StartupTypeOK, StreamConfig
  <2> QED  BY <2>1, <2>2, <2>3, <2>4, WindowCovers
<1> QED  BY <1>1, StartupInvariant, PTL

\* An unprotected connection leads to this host or was asked for
\* (decide_tls_policy).
THEOREM PlaintextIsAskedFor == StartupSpec => []PlaintextIsDeliberate
<1>1. StartupInit => PlaintextIsDeliberate  BY DEF StartupInit, PlaintextIsDeliberate
<1>2. StartupInv /\ PlaintextIsDeliberate /\ [StartupNext]_startupVars => PlaintextIsDeliberate'
  <2> DEFINE Asked(e, l) ==
         l \in {"loopback", "opted_out"} =>
             /\ e.require_tls \notin {"1", "true"}
             /\ \/ e.allow_plaintext \in {"1", "true"}
                \/ e.nats_url # <<>> /\ \A i \in DOMAIN e.nats_url : e.nats_url[i] = "loopback"
  <2> SUFFICES ASSUME StartupInv, PlaintextIsDeliberate, [StartupNext]_startupVars,
                      NEW c \in Deployment
               PROVE  Asked(env'[c], link'[c])
    BY DEF PlaintextIsDeliberate
  <2>1. Asked(env[c], link[c])  BY DEF PlaintextIsDeliberate
  <2>2. /\ env \in [Deployment -> Env]
        /\ link \in [Deployment -> {"none", "required", "loopback", "opted_out"}]
    BY DEF StartupInv, StartupTypeOK
  <2>3. ASSUME NEW d \in Deployment, Connect(d) PROVE Asked(env'[c], link'[c])
    <3> DEFINE policy(e) ==
           DecideTlsPolicy(e.nats_url, EnvFlag(e.require_tls), EnvFlag(e.allow_plaintext))
    <3>1. ASSUME NEW e PROVE Asked(e, policy(e))
      BY DEF DecideTlsPolicy, EnvFlag, AllHostsLoopback
    <3>2. env' = env /\ (link' = link \/ link' = [link EXCEPT ![d] = policy(env[d])])
      BY <2>3 DEF Connect
    <3> HIDE DEF policy, Asked
    <3> QED  BY <2>1, <2>2, <3>1, <3>2
  <2>4. ASSUME NEW d \in Deployment, Forget(d, "down"),
               \A b \in Deployment \ {d} : env'[b] = env[b]
        PROVE  Asked(env'[c], link'[c])
    BY <2>1, <2>2, <2>4 DEF Forget
  <2>5. CASE UNCHANGED <<env, link>>  BY <2>1, <2>5
  <2>6. \/ \E d \in Deployment : Connect(d)
        \/ \E d \in Deployment : /\ Forget(d, "down")
                                  /\ \A b \in Deployment \ {d} : env'[b] = env[b]
        \/ UNCHANGED <<env, link>>
    BY <2>2 DEF StartupNext, StartupStep, Boot, Configure, Lookup, Create, Verify, Claim, Purge,
           RequestFails, CreateReplyLost, Stop, Supervise, Redeploy, EditStream
  <2> QED  BY <2>3, <2>4, <2>5, <2>6
<1> QED  BY <1>1, <1>2, StartupInvariant, PTL DEF StartupSpec

\* A lease in use is the one the service was built with to the millisecond, and
\* longer than nothing; an age in hours is exact; what cannot be kept is refused
\* (positive_ms, parse_max_age, RELAY_RETENTION_HOURS).
THEOREM AgesAreHonoured == StartupSpec => []AgesAreKept
<1> DEFINE Cut(age, hours) ==
               age # NotYet => age > 0 /\ age = hours * SecsPerHour * MsPerSec
           Purged == \A d \in Deployment : Cut(purged[d], env[d].retention)
           Asked(s, e) == \/ e.max_age = Unset /\ s.max_age = DefaultMaxAge
                          \/ /\ e.max_age \notin {Unset, Typo}
                             /\ s.max_age = FromSecs(e.max_age * SecsPerHour)
           Aged(s) == s \notin Edits \union {NoStream} => \E e \in Env : Asked(s, e)
<1>1. StartupInit => Purged /\ Aged(stream)  BY DEF StartupInit
<1>2. ASSUME StartupInv, Purged, [StartupNext]_startupVars PROVE Purged'
  <2>1. /\ env \in [Deployment -> Env]
        /\ purged \in [Deployment -> 0..I64 \union {NotYet}]
    BY <1>2 DEF StartupInv, StartupTypeOK
  <2> SUFFICES ASSUME NEW c \in Deployment
               PROVE  Cut(purged'[c], env'[c].retention)
    OBVIOUS
  <2>2. ASSUME NEW d \in Deployment, Purge(d)
        PROVE  Cut(purged'[c], env'[c].retention)
    <3>1. /\ purged' = [purged EXCEPT ![d] = AsMillis(FromSecs(HoursInSecs(env[d].retention)))]
          /\ env' = env /\ RetentionOn(env[d].retention)
          /\ AsMillis(FromSecs(HoursInSecs(env[d].retention))) > 0
      BY <2>2, Widths DEF Purge, IsPositiveMs
    <3>2. env[d].retention \in Nat /\ HoursFit(env[d].retention)
      BY <2>1, <3>1, EnvType, Widths DEF RetentionOn, Secs
    <3>3. AsMillis(FromSecs(HoursInSecs(env[d].retention)))
              = env[d].retention * SecsPerHour * MsPerSec
      BY <3>2, HoursAreExact, SecondsInMillis DEF Secs
    <3> QED  BY <1>2, <2>1, <3>1, <3>3
  <2>3. ASSUME NEW d \in Deployment, Forget(d, "down"),
               \A b \in Deployment \ {d} : env'[b] = env[b]
        PROVE  Cut(purged'[c], env'[c].retention)
    <3>1. purged' = [purged EXCEPT ![d] = NotYet]  BY <2>3 DEF Forget
    <3>2. CASE c = d  BY <2>1, <3>1, <3>2
    <3>3. CASE c # d  BY <1>2, <2>1, <2>3, <3>1, <3>3
    <3> QED  BY <3>2, <3>3
  <2>4. CASE UNCHANGED <<env, purged>>  BY <1>2, <2>4
  <2>5. \/ \E d \in Deployment : Purge(d)
        \/ \E d \in Deployment : /\ Forget(d, "down")
                                  /\ \A b \in Deployment \ {d} : env'[b] = env[b]
        \/ UNCHANGED <<env, purged>>
    BY <1>2, <2>1 DEF StartupNext, StartupStep, Boot, Connect, Configure, Lookup, Create, Verify,
           Claim, RequestFails, CreateReplyLost, Stop, Supervise, Redeploy, EditStream
  <2> HIDE DEF Cut
  <2> QED  BY <2>2, <2>3, <2>4, <2>5
<1>3. ASSUME StartupInv, Aged(stream), [StartupNext]_startupVars PROVE Aged(stream')
  <2>1. ASSUME NEW d \in Deployment, pc[d] = "create", stream' = DesiredConfig(env[d])
        PROVE  Aged(stream')
    BY <1>3, <2>1, DesiredIsConfig DEF StartupInv, StartupTypeOK, Configured
  <2>2. CASE stream' = stream  BY <1>3, <2>2
  <2>3. CASE stream' \in Edits \union {NoStream}  BY <2>3
  <2>4. \/ \E d \in Deployment : pc[d] = "create" /\ stream' = DesiredConfig(env[d])
        \/ stream' = stream
        \/ stream' \in Edits \union {NoStream}
    <3> HIDE DEF Aged
    <3> QED
      BY <1>3 DEF StartupNext, StartupStep, Boot, Connect, Configure, Lookup, Create, Verify,
             Claim, Purge, RequestFails, CreateReplyLost, Stop, Supervise, Redeploy, EditStream
  <2> QED  BY <2>1, <2>2, <2>3, <2>4
<1>4. StartupInv /\ Purged /\ Aged(stream) => AgesAreKept
  <2>1. ASSUME StartupInv, NEW d \in Deployment, lease[d] # NotYet
        PROVE  /\ lease[d] > 0
               /\ env[d].claim_ttl - lease[d] * NanosPerMs \in 0..NanosPerMs - 1
    <3>1. lease[d] > 0 /\ lease[d] = AsMillis(env[d].claim_ttl)
      BY <2>1 DEF StartupInv, Leased
    <3>2. env[d].claim_ttl \in Nat
      BY <2>1, EnvType, Widths DEF StartupInv, StartupTypeOK, Duration
    <3> QED  BY <3>1, <3>2, Millis
  <2> QED  BY <2>1 DEF AgesAreKept
<1> HIDE DEF Purged, Aged
<1>5. StartupInv /\ Purged /\ Aged(stream) /\ [StartupNext]_startupVars
          => Purged' /\ Aged(stream)'
  BY <1>2, <1>3
<1> QED  BY <1>1, <1>4, <1>5, StartupInvariant, PTL DEF StartupSpec
=============================================================================
