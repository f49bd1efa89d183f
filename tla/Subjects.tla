------------------------------ MODULE Subjects ------------------------------
(***************************************************************************)
(* The subject taxonomy (src/subjects.rs).  A subject is the sequence of   *)
(* its tokens, as split('.') cuts it; a token is a member of a small set.  *)
(***************************************************************************)
EXTENDS Naturals, Sequences

CONSTANTS
    WellFormed,   \* tokens of [a-z0-9-] that neither begin nor end with '-'
    Uuids,        \* tokens Uuid::parse_str accepts
    VersionOf,    \* the u32 read from a token "v...", for those that parse
    VersionToken  \* the token a version is rendered as, "v" and its digits

ASSUME SubjectsAssumption ==
    \A t \in DOMAIN VersionOf :
        VersionOf[t] \in Nat /\ VersionOf[VersionToken[VersionOf[t]]] = VersionOf[t]

Root == "fiducia"

ValidToken(t) == t \in WellFormed /\ t \notin Uuids

\* A mutation: any spelling of the number will do.
AnySpelling(t) == t \in DOMAIN VersionOf

\* "v01" and "v+1" parse as 1 and are not the way 1 is written.
CanonicalVersion(t) == t \in DOMAIN VersionOf /\ VersionToken[VersionOf[t]] = t

\* Subject::parse accepts s.
Parses(s) ==
    /\ Len(s) = 4
    /\ s[1] = Root
    /\ CanonicalVersion(s[4])
    /\ ValidToken(s[2]) /\ ValidToken(s[3])
    /\ VersionOf[s[4]] # 0

Class(s) == [group |-> s[2], event |-> s[3], version |-> VersionOf[s[4]]]

AsString(class) == <<Root, class.group, class.event, VersionToken[class.version]>>

\* What a consumer of a whole group subscribes to.
GroupWildcard(group, version) == <<Root, group, "*", VersionToken[version]>>

\* NATS: "*" stands for one token.
Receives(pattern, s) ==
    /\ Len(s) = Len(pattern)
    /\ \A i \in DOMAIN pattern : pattern[i] \in {"*", s[i]}
=============================================================================
