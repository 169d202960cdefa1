---------------------------- MODULE ControlPlane ----------------------------
(***************************************************************************)
(* The session handshake every transport of ipfusch shares: the control    *)
(* messages of ipfusch-core/src/protocol.rs, the verdict a server reaches  *)
(* on a Hello and a StartSession, and what a client makes of the answer.   *)
(* Pure operators: the transports' modules put the messages on their wires.*)
(***************************************************************************)
EXTENDS Naturals

CONSTANTS
    Tokens,          \* the tokens a server or a client may be configured with
    NoToken,         \* the option left out
    Versions,        \* protocol versions that may be seen on the wire
    ProtocolVersion  \* PROTOCOL_VERSION of this build

\* SHA-256 of a token: a tagged value, so that equal digests mean equal tokens.
hash_token(token) == [sha256 |-> token]

ASSUME ControlAssumption ==
    /\ NoToken \notin Tokens
    /\ ProtocolVersion \in Versions
    /\ \A t \in Tokens : NoToken # hash_token(t)

TokenOption == Tokens \cup {NoToken}

\* token.as_deref().map(hash_token)
TokenHash(token) == IF token = NoToken THEN NoToken ELSE hash_token(token)

Digests == {hash_token(t) : t \in Tokens} \cup {NoToken}

HelloMsg(version, digest) ==
    [type |-> "Hello", version |-> version, token_hash |-> digest]
StartMsg == [type |-> "StartSession"]
AckMsg(accepted) == [type |-> "Ack", accepted |-> accepted]

HelloMsgs == {HelloMsg(v, d) : v \in Versions, d \in Digests}
AckMsgs == {AckMsg(b) : b \in BOOLEAN}
ControlMsgs == HelloMsgs \cup {StartMsg} \cup AckMsgs

\* any digest will do
token_matches_any(expected, digest) == expected = NoToken \/ digest # NoToken

\* A server without a token lets everyone in; one with a token wants its digest.
token_matches(expected, digest) ==
    expected = NoToken \/ digest = hash_token(expected)

\* What handle_tcp_connection and handle_quic_stream decide about the first
\* two control frames of a connection.
Accepts(hello, start, expected) ==
    /\ hello.type = "Hello"
    /\ start.type = "StartSession"
    /\ hello.version = ProtocolVersion
    /\ token_matches(expected, hello.token_hash)

validate_ack_any(msg) == msg.type = "Ack"

\* The client goes on only with an acknowledgement that accepts it.
validate_ack(msg) == msg.type = "Ack" /\ msg.accepted
=============================================================================
