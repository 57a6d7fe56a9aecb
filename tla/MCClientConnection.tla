-------------------------- MODULE MCClientConnection --------------------------
(***************************************************************************)
(* ClientConnection with small values, and the codec on every frame and    *)
(* byte string of a small size.                                            *)
(***************************************************************************)
EXTENDS ClientConnection

\* A frame that is an event and one that is not.
MCAsides == {[op |-> "ERROR", code |-> 258, text |-> <<65>>],
             [op |-> "PONG", value |-> 258]}

MCPayloads == {<<65, 66>>}

\* A MATCHED that is cut short.
MCStrays == {<<18, 1>>}

------------------------------------------------------------------------------
SampleBytes == {0, 1, 2, 65, 200}
Strings(n) == UNION {[1 .. k -> SampleBytes] : k \in 0 .. n}
TextSamples ==
    {bytes \in Strings(3) : IsText(bytes)} \cup {[i \in 1 .. 256 |-> 65]}
Longs == {0, 1, 255, 256, 65535}

ClientSamples ==
    {[op |-> op] : op \in {"FIND", "CANCEL", "LEAVE", "CLOSE"}}
    \cup [op : {"MESSAGE"}, payload : Strings(3)]
    \cup [op : {"PING"}, value : Longs]

ServerSamples ==
    [op : {"READY"}, agent : TextSamples]
    \cup {[op |-> "SEARCHING"]}
    \cup [op : {"MATCHED"}, conversation : {<<0>>, <<200>>}, peer : TextSamples,
          visibility : Visibilities]
    \cup [op : {"MESSAGE"}, seq : Longs, sender : 0 .. 2, payload : Strings(3)]
    \cup [op : {"PEER_LEFT"}, final_seq : Longs, reason : EndReasons]
    \cup [op : {"RATE_LIMITED", "SERVER_BUSY"},
          retry_after_ms : Longs \cup {16777215}]
    \cup [op : {"ERROR"}, code : Longs, text : TextSamples]
    \cup [op : {"PONG"}, value : Longs]

\* The opcodes around the known ones, followed by anything.
Framed(op, bytes) == <<op>> \o bytes
ByteStrings ==
    {<<>>} \cup {Framed(op, bytes) : op \in 0 .. 26, bytes \in Strings(5)}

\* Hellos of any version, and one that is cut short or too long.
HelloOf(version, flags) ==
    Magic \o BigEndian(version, 2) \o BigEndian(flags, 2)
VersionSamples ==
    {HelloOf(version, flags) : version \in 0 .. 257, flags \in {0, 258}}
HelloSamples ==
    {Tail(ClientHello(0)), ClientHello(0) \o <<0>>} \cup VersionSamples

SamplesAgree ==
    /\ RoundTrips(ClientSamples \cap ClientFrames,
                  EncodableClient, EncodeClient, DecodeClient)
    /\ RoundTrips(ServerSamples \cap ServerFrames,
                  EncodableServer, EncodeServer, DecodeServer)
    /\ IsCanonical(ByteStrings, EncodableClient, EncodeClient, DecodeClient)
    /\ IsCanonical(ByteStrings, EncodableServer, EncodeServer, DecodeServer)
    /\ HelloAgrees(HelloSamples, {0, 258})

\* Encoding and decoding are each other's inverse: on what is on the socket, on
\* all frames of a small size that can be encoded and byte strings that can be
\* decoded; and a hello is understood exactly when it is one of this version.
CodecAgrees == WireAgrees /\ SamplesAgree

===============================================================================
