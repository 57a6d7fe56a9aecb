-------------------------------- MODULE Codec --------------------------------
(***************************************************************************)
(* The wire codec, crates/aingle-protocol: frames to bytes and back.       *)
(*                                                                         *)
(* A frame is a record with its name in op and its fields beside it, bytes *)
(* are a sequence over 0 .. 255 and a string is its bytes.  Encode...      *)
(* stands for the bytes of an Ok, Encodable... for there being one; a      *)
(* decoder returns a frame or Malformed(error).  The widths and the limit  *)
(* of a message are parameters (8, 4, 16 and 16384 in the code), and a     *)
(* string is UTF-8 when all its bytes are in TextBytes: what multi-byte    *)
(* characters may follow each other is the standard library's matter.      *)
(***************************************************************************)
EXTENDS Naturals, Sequences

CONSTANTS
    LongWidth,          \* bytes of a u64
    IntWidth,           \* bytes of a u32
    UuidWidth,          \* bytes of a conversation id
    MaxMessageSize,     \* MAX_MESSAGE_SIZE
    TextBytes           \* the bytes a UTF-8 string may contain

ASSUME CodecAssumption ==
    /\ {LongWidth, IntWidth, UuidWidth} \subseteq Nat \ {0}
    /\ MaxMessageSize \in Nat
    /\ TextBytes \subseteq 0 .. 255

Bytes == Seq(0 .. 255)

Opcode == [FIND |-> 1, CANCEL |-> 2, MESSAGE |-> 3, LEAVE |-> 4, PING |-> 5,
           CLOSE |-> 6]

ServerOpcode == [READY |-> 16, SEARCHING |-> 17, MATCHED |-> 18,
                 MESSAGE |-> 19, PEER_LEFT |-> 20, RATE_LIMITED |-> 21,
                 SERVER_BUSY |-> 22, ERROR |-> 23, PONG |-> 24]

\* An enum is its discriminant: a byte outside these is an InvalidField.
Visibilities == 0 .. 2
EndReasons == 0 .. 4

IsText(bytes) == \A i \in DOMAIN bytes : bytes[i] \in TextBytes

\* An agent name, an error's text: a str is UTF-8 already.
Texts == {bytes \in Bytes : IsText(bytes)}
Uuids == {bytes \in Bytes : Len(bytes) = UuidWidth}

Malformed(error) == [op |-> "malformed", error |-> error]
IsFrame(result) == result.op # "malformed"

\* What is left of a value as its lowest bytes are taken off.
Shifted(value, width) ==
    LET rest[n \in 0 .. width] ==
          IF n = 0 THEN value ELSE rest[n - 1] \div 256
    IN rest

\* to_be_bytes, and the values an integer of so many bytes can have.
BigEndian(value, width) ==
    [i \in 1 .. width |-> Shifted(value, width)[width - i] % 256]
Fits(value, width) == Shifted(value, width)[width] = 0
Values(width) == {value \in Nat : Fits(value, width)}

\* read_u64, read_u32 and from_be_bytes.
ReadInt(bytes) ==
    LET value[n \in 0 .. Len(bytes)] ==
          IF n = 0 THEN 0 ELSE 256 * value[n - 1] + bytes[n]
    IN value[Len(bytes)]

\* What the length byte of a string can say.
MaxShortString == 255

ShortString(value) == <<Len(value)>> \o value

\* Mutant: bytes after the string are ignored.
IsLooseString(bytes) ==
    bytes # <<>> /\ Len(Tail(bytes)) >= Head(bytes) /\ IsText(Tail(bytes))

\* read_short_string returns Ok.
IsShortString(bytes) ==
    /\ bytes # <<>> /\ Len(Tail(bytes)) = Head(bytes)
    /\ IsText(Tail(bytes))

------------------------------------------------------------------------------
(* The client's hello. *)

Magic == <<65, 73, 78, 71>>
Version == 1

ClientHello(flags) == Magic \o BigEndian(Version, 2) \o BigEndian(flags, 2)

DecodeHello(bytes) ==
    CASE Len(bytes) # 8 \/ SubSeq(bytes, 1, 4) # Magic ->
           Malformed("InvalidLength")
      [] ReadInt(SubSeq(bytes, 5, 6)) # Version ->
           Malformed("IncompatibleVersion")
      [] OTHER -> [op |-> "HELLO", flags |-> ReadInt(SubSeq(bytes, 7, 8))]

------------------------------------------------------------------------------
(* Client frames. *)

ClientFrames ==
    [op : {"FIND", "CANCEL", "LEAVE", "CLOSE"}]
    \cup [op : {"MESSAGE"}, payload : Bytes]
    \cup [op : {"PING"}, value : Values(LongWidth)]

EncodableClient(frame) ==
    frame.op = "MESSAGE" =>
        Len(frame.payload) <= MaxMessageSize /\ IsText(frame.payload)

EncodeClient(frame) ==
    <<Opcode[frame.op]>> \o
    CASE frame.op = "MESSAGE" -> frame.payload
      [] frame.op = "PING" -> BigEndian(frame.value, LongWidth)
      [] OTHER -> <<>>

DecodeClient(bytes) ==
    IF bytes = <<>> THEN Malformed("Empty")
    ELSE IF \A op \in DOMAIN Opcode : Opcode[op] # Head(bytes)
    THEN Malformed("UnknownOpcode")
    ELSE LET op == CHOOSE op \in DOMAIN Opcode : Opcode[op] = Head(bytes)
             payload == Tail(bytes)
         IN CASE op = "MESSAGE" ->
                   IF Len(payload) > MaxMessageSize
                   THEN Malformed("MessageTooLarge")
                   ELSE IF ~IsText(payload) THEN Malformed("InvalidUtf8")
                   ELSE [op |-> op, payload |-> payload]
              [] op = "PING" /\ Len(payload) = LongWidth ->
                   [op |-> op, value |-> ReadInt(payload)]
              [] op \notin {"MESSAGE", "PING"} /\ payload = <<>> ->
                   [op |-> op]
              [] OTHER -> Malformed("InvalidLength")

------------------------------------------------------------------------------
(* Server frames. *)

ServerFrames ==
    [op : {"READY"}, agent : Texts] \cup [op : {"SEARCHING"}]
    \cup [op : {"MATCHED"}, conversation : Uuids, peer : Texts,
          visibility : Visibilities]
    \cup [op : {"MESSAGE"}, seq : Values(LongWidth), sender : 0 .. 255,
          payload : Bytes]
    \cup [op : {"PEER_LEFT"}, final_seq : Values(LongWidth), reason : EndReasons]
    \cup [op : {"RATE_LIMITED", "SERVER_BUSY"}, retry_after_ms : Values(IntWidth)]
    \cup [op : {"ERROR"}, code : Values(2), text : Texts]
    \cup [op : {"PONG"}, value : Values(LongWidth)]

EncodableServer(frame) ==
    CASE frame.op = "READY" -> Len(frame.agent) <= MaxShortString
      [] frame.op = "MATCHED" -> Len(frame.peer) <= MaxShortString
      [] frame.op = "MESSAGE" ->
           /\ Len(frame.payload) <= MaxMessageSize
           /\ frame.sender <= 1
           /\ IsText(frame.payload)
      [] OTHER -> TRUE

EncodeServer(frame) ==
    <<ServerOpcode[frame.op]>> \o
    CASE frame.op = "READY" -> ShortString(frame.agent)
      [] frame.op = "SEARCHING" -> <<>>
      [] frame.op = "MATCHED" ->
           frame.conversation \o <<frame.visibility>> \o ShortString(frame.peer)
      [] frame.op = "MESSAGE" ->
           BigEndian(frame.seq, LongWidth) \o <<frame.sender>> \o frame.payload
      [] frame.op = "PEER_LEFT" ->
           BigEndian(frame.final_seq, LongWidth) \o <<frame.reason>>
      [] frame.op \in {"RATE_LIMITED", "SERVER_BUSY"} ->
           BigEndian(frame.retry_after_ms, IntWidth)
      [] frame.op = "ERROR" -> BigEndian(frame.code, 2) \o frame.text
      [] frame.op = "PONG" -> BigEndian(frame.value, LongWidth)

\* The payloads decode_server accepts for an opcode.  Which error a refused one
\* earns is left out: map_event passes any of them on.
Valid(op, payload) ==
    CASE op = "READY" -> IsShortString(payload)
      [] op = "SEARCHING" -> payload = <<>>
      [] op = "MATCHED" ->
           /\ Len(payload) >= UuidWidth + 2
           /\ payload[UuidWidth + 1] \in Visibilities
           /\ IsShortString(SubSeq(payload, UuidWidth + 2, Len(payload)))
      [] op = "MESSAGE" ->
           /\ Len(payload) > LongWidth
           /\ Len(payload) - LongWidth - 1 <= MaxMessageSize
           /\ payload[LongWidth + 1] <= 1
           /\ IsText(SubSeq(payload, LongWidth + 2, Len(payload)))
      [] op = "PEER_LEFT" ->
           Len(payload) = LongWidth + 1 /\ payload[LongWidth + 1] \in EndReasons
      [] op \in {"RATE_LIMITED", "SERVER_BUSY"} -> Len(payload) = IntWidth
      [] op = "ERROR" ->
           Len(payload) >= 2 /\ IsText(SubSeq(payload, 3, Len(payload)))
      [] op = "PONG" -> Len(payload) = LongWidth

\* The frame of a valid payload.
Fields(op, payload) ==
    LET From(i) == SubSeq(payload, i, Len(payload))
        Long == ReadInt(SubSeq(payload, 1, LongWidth)) IN
    CASE op = "READY" -> [op |-> op, agent |-> Tail(payload)]
      [] op = "SEARCHING" -> [op |-> op]
      [] op = "MATCHED" ->
           [op |-> op, conversation |-> SubSeq(payload, 1, UuidWidth),
            visibility |-> payload[UuidWidth + 1],
            peer |-> From(UuidWidth + 3)]
      [] op = "MESSAGE" ->
           [op |-> op, seq |-> Long, sender |-> payload[LongWidth + 1],
            payload |-> From(LongWidth + 2)]
      [] op = "PEER_LEFT" ->
           [op |-> op, final_seq |-> Long, reason |-> payload[LongWidth + 1]]
      [] op \in {"RATE_LIMITED", "SERVER_BUSY"} ->
           [op |-> op, retry_after_ms |-> ReadInt(payload)]
      [] op = "ERROR" ->
           [op |-> op, code |-> ReadInt(SubSeq(payload, 1, 2)),
            text |-> From(3)]
      [] op = "PONG" -> [op |-> op, value |-> Long]

DecodeServer(bytes) ==
    IF bytes = <<>> THEN Malformed("Empty")
    ELSE IF \A op \in DOMAIN ServerOpcode : ServerOpcode[op] # Head(bytes)
    THEN Malformed("UnknownOpcode")
    ELSE LET op == CHOOSE op \in DOMAIN ServerOpcode :
                       ServerOpcode[op] = Head(bytes)
         IN IF Valid(op, Tail(bytes)) THEN Fields(op, Tail(bytes))
            ELSE Malformed("Invalid")

------------------------------------------------------------------------------
(* What a codec promises. *)

\* Every frame that can be encoded is what its bytes decode to.
RoundTrips(frames, Encodable(_), Encode(_), Decode(_)) ==
    \A frame \in frames : Encodable(frame) => Decode(Encode(frame)) = frame

\* A byte string that decodes at all is the one encoding of an encodable frame:
\* nothing that is cut short, too long or out of range passes.
IsCanonical(strings, Encodable(_), Encode(_), Decode(_)) ==
    \A bytes \in strings :
        LET frame == Decode(bytes) IN
        IsFrame(frame) => Encodable(frame) /\ Encode(frame) = bytes

\* A hello is understood exactly when it is one of this version, and its flags
\* are read back.
HelloAgrees(strings, values) ==
    /\ \A flags \in values :
         DecodeHello(ClientHello(flags)) = [op |-> "HELLO", flags |-> flags]
    /\ \A bytes \in strings :
         LET hello == DecodeHello(bytes) IN
         IsFrame(hello) => bytes = ClientHello(hello.flags)

===============================================================================
