-------------------------- MODULE CoordinatorWire --------------------------
(***************************************************************************)
(* The request to a privileged coordinator and its wire form               *)
(* (coordinator_request.rs and coordinator_wire.rs).  Field lengths are    *)
(* left out: a valid request's fields are at most 128 bytes and its        *)
(* envelope is below 4096, so the length limits only refuse.  A digest is  *)
(* the value that is hashed.                                               *)
(***************************************************************************)
EXTENDS Naturals, Sequences

CONSTANTS
    Identifiers,    \* signing identifiers that valid_signing_identifier accepts
    Teams,          \* team identifiers that valid_team_identifier accepts
    ZeroDigest,     \* the digest of 32 zero bytes
    NoRequest,      \* what decoding returns for an error
    MaxGroups,      \* most supplementary groups
    RequestLife     \* longest life of a coordinator request

ASSUME LifeAssumption == RequestLife \in Nat

\* macos_coordinator_peer_identity_claim_v1
PeerIsValid(peer) ==
    /\ peer.signing \in Identifiers /\ peer.team \in Teams
    /\ peer.code # ZeroDigest
    /\ peer.euid # 0

\* macos_coordinator_threat_principal_v1
PrincipalIsValid(principal) ==
    LET groups == principal.groups
    IN  /\ principal.uid # 0
        /\ Len(groups) <= MaxGroups
        /\ \A i \in 1..Len(groups) :
              groups[i] # principal.gid /\ (i > 1 => groups[i - 1] < groups[i])

\* prepare_macos_coordinator_request_v1
CoordinatorRequestIsValid(r) ==
    /\ PeerIsValid(r.peer) /\ PrincipalIsValid(r.principal)
    /\ r.peer.euid = r.principal.uid
    /\ \A i \in 1..6 : r.lineage[i] # ZeroDigest
    /\ r.nonce # ZeroDigest
    /\ r.expires > r.issued /\ r.expires - r.issued <= RequestLife

FixedFields == <<1, "execute-reserved-lake-command", "com.leanbun.execute-reserved-lake-command">>

\* The last field is the request's digest.
FieldValues(r) ==
    FixedFields
    \o <<r.peer.signing, r.peer.team, r.peer.code, r.peer.euid, r.peer.audit>>
    \o <<r.principal.uid, r.principal.gid, r.principal.groups>>
    \o r.lineage
    \o <<r.nonce, r.issued, r.expires, r>>

\* encode_macos_coordinator_request_wire_v1
Encode(r) ==
    [magic |-> "v1", count |-> 21, fields |-> [i \in 1..21 |-> <<i, FieldValues(r)[i]>>]]

IsFramed(wire) ==
    /\ wire.magic = "v1" /\ wire.count = 21
    /\ Len(wire.fields) = 21
    /\ \A i \in 1..21 : wire.fields[i][1] = i

Parsed(wire) ==
    LET v == [i \in 1..21 |-> wire.fields[i][2]]
    IN  [peer |-> [signing |-> v[4], team |-> v[5], code |-> v[6], euid |-> v[7],
                   audit |-> v[8]],
         principal |-> [uid |-> v[9], gid |-> v[10], groups |-> v[11]],
         lineage |-> SubSeq(v, 12, 17), nonce |-> v[18], issued |-> v[19],
         expires |-> v[20]]

\* A mistake to be caught: the claimed digest is not compared.
DecodeUnclaimed(wire) ==
    IF /\ IsFramed(wire)
       /\ \A i \in 1..3 : wire.fields[i][2] = FixedFields[i]
       /\ CoordinatorRequestIsValid(Parsed(wire))
    THEN Parsed(wire) ELSE NoRequest

\* decode_macos_coordinator_request_wire_v1
Decode(wire) ==
    IF /\ IsFramed(wire)
       /\ \A i \in 1..3 : wire.fields[i][2] = FixedFields[i]
       /\ CoordinatorRequestIsValid(Parsed(wire))
       /\ wire.fields[21][2] = Parsed(wire)
    THEN Parsed(wire) ELSE NoRequest

=============================================================================
