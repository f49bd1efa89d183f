-------------------------- MODULE MCStreamStartup --------------------------
(* An instance of StreamStartup for TLC, in units scaled down: an hour has  *)
(* 3 s, a second 2 ms, a millisecond 2 ns, u64 ends at 15 and i64 at 7, so   *)
(* that 6 hours do not fit the first width, 2 hours and 14 s fit it and not  *)
(* the second, and 1 ns is less than a millisecond.                          *)
EXTENDS StreamStartup

\* A local relay with every default.
Plain == [database_url |-> TRUE, nats_url |-> <<"loopback">>,
          require_tls |-> Unset, allow_plaintext |-> Unset, creds_file |-> Unset,
          replicas |-> Unset, max_age |-> Unset, retention |-> Unset,
          batch |-> Unset, claim_ttl |-> FromSecs(1)]

SomeEnv == {
    Plain,
    \* a longer lease that is no whole number of milliseconds, a mixed server
    \* list, a batch of none
    [Plain EXCEPT !.claim_ttl = FromSecs(2) + 1, !.nats_url = <<"loopback", "remote">>,
                  !.batch = 0, !.retention = 1],
    \* a plaintext network link, ages that do not fit
    [Plain EXCEPT !.nats_url = <<"remote">>, !.allow_plaintext = "true",
                  !.retention = 6, !.max_age = 0, !.creds_file = "readable"],
    \* TLS on loopback, an age of the stream that does not fit
    [Plain EXCEPT !.require_tls = "1", !.allow_plaintext = "1", !.max_age = 6],
    \* a lease beyond the second width, an age beyond it
    [Plain EXCEPT !.claim_ttl = FromSecs(14), !.retention = 2, !.nats_url = <<>>,
                  !.allow_plaintext = "0", !.replicas = 3],
    \* values that do not parse, unset URL, a lease below a millisecond
    [Plain EXCEPT !.replicas = Typo, !.retention = Typo, !.batch = Typo],
    [Plain EXCEPT !.nats_url = Unset],
    [Plain EXCEPT !.creds_file = "unreadable"],
    [Plain EXCEPT !.claim_ttl = 1, !.nats_url = <<"none">>, !.allow_plaintext = "yes",
                  !.retention = 0, !.batch = 5]}

\* JetStream's own window, too short for any lease here, and one long enough
\* for the shorter leases.
SomeEdits == {[num_replicas |-> 1, max_age |-> FromSecs(3), duplicate_window |-> FromSecs(s)] :
                 s \in {2, 4}}
=============================================================================
