---------------------------- MODULE MCPipeline ----------------------------
(* An instance of Pipeline for TLC: two envelopes of two tenants under one *)
(* message id, one consumer with two handlers.                             *)
EXTENDS Pipeline, TLC

CONSTANTS m1, m2, i1, t1, t2, c1, s1, s2

SomeIds == [m \in Msg |-> i1]
SomeTenants == (m1 :> t1) @@ (m2 :> t2)
SomeConsumers == [s \in Session |-> c1]
=============================================================================
