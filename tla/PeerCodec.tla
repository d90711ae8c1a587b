----------------------------- MODULE PeerCodec -----------------------------
(***************************************************************************)
(* The wire formats of the peer protocol, as the codecs write and read     *)
(* them: the handshake (src/src/download/handshake.rs) and the messages    *)
(* (src/src/download/peer_msg.rs).  A buffer is a sequence of bytes; a     *)
(* decoder returns what it made of the buffer's head and what is left.     *)
(***************************************************************************)
EXTENDS Integers, Sequences

Byte == 0..255

\* What fits a u32: its first byte does.  (2^32 is too large a number for TLC.)
U32 == {n \in Nat : n \div 16777216 \in Byte}

\* A u32 in network byte order: `put_u32', and `get_u32' of the first four bytes.
put_u32(n) == <<n \div 16777216, (n \div 65536) % 256, (n \div 256) % 256, n % 256>>
get_u32(src) == 256 * (256 * (256 * src[1] + src[2]) + src[3]) + src[4]

From(src, i) == SubSeq(src, i, Len(src))
Fill(byte, n) == [i \in 1..n |-> byte]

\* What a call of `decode' comes to: more bytes are needed, an item was read, an
\* error is returned, or reading past the buffer panics.
More(src) == [out |-> "more", rest |-> src]
Item(item, rest) == [out |-> "item", item |-> item, rest |-> rest]
Invalid(rest) == [out |-> "error", rest |-> rest]
Panic(rest) == [out |-> "panic", rest |-> rest]

-----------------------------------------------------------------------------
(* The handshake.  A protocol name, a hash or an id is one value, repeated. *)

HANDSHAKE_SIZE == 68

Handshake(info_hash, peer_id) ==
    [length |-> 19, protocol |-> 66, info_hash |-> info_hash, peer_id |-> peer_id]

\* Mutant: the reserved bytes are not written.
HandshakeEncodeShort(h) ==
    <<h.length>> \o Fill(h.protocol, 19) \o Fill(h.info_hash, 20) \o Fill(h.peer_id, 20)

handshake_encode(h) ==
    <<h.length>> \o Fill(h.protocol, 19) \o Fill(0, 8)
        \o Fill(h.info_hash, 20) \o Fill(h.peer_id, 20)

handshake_decode(buf) ==
    IF Len(buf) < HANDSHAKE_SIZE
    THEN More(buf)
    ELSE Item([length |-> buf[1], protocol |-> buf[2], info_hash |-> buf[29], peer_id |-> buf[49]],
              From(buf, HANDSHAKE_SIZE + 1))

-----------------------------------------------------------------------------
(* Messages. *)

MessageTypes ==
    <<"Choke", "Unchoke", "Interested", "NotInterested", "Have", "Bitfield", "Request",
      "Piece", "Cancel">>

\* `msg_type as u8' and MessageType::try_from.
TypeByte(type) == (CHOOSE i \in DOMAIN MessageTypes : MessageTypes[i] = type) - 1
KnownType(byte) == byte + 1 \in DOMAIN MessageTypes

KeepAlive == [type |-> "KeepAlive"]

payload(m) ==
    CASE m.type = "Have" -> put_u32(m.piece_index)
      [] m.type = "Bitfield" -> m.bytes
      [] m.type \in {"Request", "Cancel"} ->
            put_u32(m.index) \o put_u32(m.begin) \o put_u32(m.length)
      [] m.type = "Piece" -> put_u32(m.index) \o put_u32(m.begin) \o m.block
      [] OTHER -> <<>>

\* The length the encoder writes in front: the type's byte and the payload.
encoded_len(m) ==
    CASE m.type = "KeepAlive" -> 0
      [] m.type = "Have" -> 5
      [] m.type = "Bitfield" -> Len(m.bytes) + 1
      [] m.type \in {"Request", "Cancel"} -> 13
      [] m.type = "Piece" -> 9 + Len(m.block)
      [] OTHER -> 1

encode(m) ==
    put_u32(encoded_len(m))
        \o IF m.type = "KeepAlive" THEN <<>> ELSE <<TypeByte(m.type)>> \o payload(m)

\* What the decoder takes from the buffer after the type's byte, whatever the
\* length in front says for the types of fixed size.
Taken(type, msg_len) ==
    CASE type = "Have" -> 4
      [] type \in {"Request", "Cancel"} -> 12
      [] type \in {"Bitfield", "Piece"} -> msg_len - 1
      [] OTHER -> 0

parse(type, src, msg_len) ==
    CASE type = "Have" -> [type |-> type, piece_index |-> get_u32(src)]
      [] type = "Bitfield" -> [type |-> type, bytes |-> SubSeq(src, 1, msg_len - 1)]
      [] type \in {"Request", "Cancel"} ->
            [type |-> type, index |-> get_u32(src), begin |-> get_u32(From(src, 5)),
             length |-> get_u32(From(src, 9))]
      [] type = "Piece" ->
            [type |-> type, index |-> get_u32(src), begin |-> get_u32(From(src, 5)),
             block |-> SubSeq(src, 9, msg_len - 1)]
      [] OTHER -> [type |-> type]

\* The message behind the length, which the buffer is known to hold.  Reading more
\* than the buffer has panics, and so does a Piece shorter than its own fields.
decode_body(src, msg_len) ==
    LET type == MessageTypes[src[1] + 1]
        body == Tail(src)
    IN  IF ~KnownType(src[1]) THEN Invalid(body)
        ELSE IF (type = "Piece" /\ msg_len < 9) \/ Len(body) < Taken(type, msg_len) THEN Panic(body)
        ELSE Item(parse(type, body, msg_len), From(body, Taken(type, msg_len) + 1))

\* The messages, as far as they can be sent: the length in front is a u32.
Message ==
    LET Messages ==
            [type : {"KeepAlive", "Choke", "Unchoke", "Interested", "NotInterested"}]
                \cup [type : {"Have"}, piece_index : U32]
                \cup [type : {"Bitfield"}, bytes : Seq(Byte)]
                \cup [type : {"Request", "Cancel"}, index : U32, begin : U32, length : U32]
                \cup [type : {"Piece"}, index : U32, begin : U32, block : Seq(Byte)]
    IN  {m \in Messages : encoded_len(m) \in U32}

\* Mutant: the four bytes of the length are only skipped for a message with a type.
DecodeKeepAliveStays(src) ==
    IF Len(src) < 4 THEN More(src)
    ELSE LET msg_len == get_u32(src)
         IN  IF Len(src) < 4 + msg_len THEN More(src)
             ELSE IF msg_len = 0 THEN Item(KeepAlive, src)
             ELSE decode_body(From(src, 5), msg_len)

decode(src) ==
    IF Len(src) < 4 THEN More(src)
    ELSE LET msg_len == get_u32(src)
         IN  IF Len(src) < 4 + msg_len THEN More(src)
             ELSE IF msg_len = 0 THEN Item(KeepAlive, From(src, 5))
             ELSE decode_body(From(src, 5), msg_len)
=============================================================================
