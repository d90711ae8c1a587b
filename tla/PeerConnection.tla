--------------------------- MODULE PeerConnection ---------------------------
(***************************************************************************)
(* One connection to a peer: check_is_seed within its five seconds, and    *)
(* after that the messages a SeedDownloader reads from the same stream     *)
(* (src/src/download/mod.rs:61-95, 141-185, 262-295).  The peer's bytes    *)
(* arrive in pieces of any size, its stream may end anywhere, and the      *)
(* codec changes between the handshake and the first message.              *)
(***************************************************************************)
EXTENDS PeerCodec, FiniteSets

\* The peers: a sequence of records [total, handshake, msgs] of what each sends,
\* `total' being the number of pieces of our torrent.
CONSTANT Peers

\* A message of a protocol extension that the codec does not know.
Port == [type |-> "Port"]

ASSUME PeersAssumption ==
    Peers \in Seq([ total : Nat,
                    handshake : [length : Byte, protocol : Byte, info_hash : Byte, peer_id : Byte],
                    msgs : Seq(Message \cup {Port}) ])

VARIABLES
    peer,       \* the peer of this run
    coming,     \* its bytes that have not arrived
    socket,     \* those that have, and were not read
    closed,     \* the peer has closed its side
    phase,      \* where the task that owns the stream is
    buf,        \* the read buffer of the `Framed'
    taken,      \* how many bytes were ever read into it
    readable,   \* `is_readable': it may hold a whole item
    eof,        \* the end of the stream was read
    greeting,   \* the peer's handshake, <<>> before it is decoded
    got         \* the messages that `next' has returned

vars == <<peer, coming, socket, closed, phase, buf, taken, readable, eof, greeting, got>>

\* At "loop" the downloader handles a message or looks whether anything remains.
Phases == {"connect", "handshake", "bitfield", "loop", "download", "errored",
           "ended", "left", "rejected", "timeout", "panicked"}

\* The phases in which a task waits for `next' on the stream.
Waiting == {"handshake", "bitfield", "download"}
Connected == {"connect", "loop"} \cup Waiting

wire(m) == IF m = Port THEN put_u32(3) \o <<9, 26, 225>> ELSE encode(m)

total_pieces == Peers[peer].total
msgs == Peers[peer].msgs

\* Everything a peer sends: its handshake, and the messages from the first one on.
Stream(p) ==
    LET from[n \in 1..(Len(p.msgs) + 1)] ==
            IF n > Len(p.msgs) THEN <<>> ELSE wire(p.msgs[n]) \o from[n + 1]
    IN  handshake_encode(p.handshake) \o from[1]

Init ==
    /\ peer \in DOMAIN Peers
    /\ coming = Stream(Peers[peer]) /\ socket = <<>> /\ closed = FALSE
    /\ phase = "connect"
    /\ buf = <<>> /\ taken = 0
    /\ readable = FALSE /\ eof = FALSE
    /\ greeting = <<>> /\ got = <<>>

-----------------------------------------------------------------------------
(* is_seed(total_pieces, bitfield), bitfield.rs:3-21. *)

\* Bit i, the first of a byte being its highest.
Place == <<128, 64, 32, 16, 8, 4, 2, 1>>
Bit(bytes, i) == (bytes[(i \div 8) + 1] \div Place[(i % 8) + 1]) % 2

\* Mutant: the last byte is not looked at when there are several.
IsSeedFirstBytes(total, bytes) ==
    LET before == 8 * (Len(bytes) - 1)
    IN  IF bytes = <<>> THEN "panic"
        ELSE IF \E i \in 1..(Len(bytes) - 1) : bytes[i] # 255 THEN "no"
        ELSE IF Len(bytes) = 1 /\ \E i \in before..(total - 1) : i < 8 /\ Bit(bytes, i) = 0 THEN "no"
        ELSE IF total > 8 * Len(bytes) THEN "panic"
        ELSE "yes"

\* Mutant: the bits of the padding are asked for too.
IsSeedPadding(total, bytes) ==
    IF total > 8 * Len(bytes) THEN "panic"
    ELSE IF \A i \in DOMAIN bytes : bytes[i] = 255 THEN "yes" ELSE "no"

\* "panic": the length of no byte underflows (in a build with overflow checks), and
\* more pieces than bits read past the bytes, once all bits are found to be 1.
is_seed(total, bytes) ==
    LET last_idx == 8 * (Len(bytes) - 1)
        bits == 8 * Len(bytes)
    IN  IF bytes = <<>> THEN "panic"
        ELSE IF \E i \in 1..(Len(bytes) - 1) : bytes[i] # 255 THEN "no"
        ELSE IF \E i \in last_idx..(total - 1) : i < bits /\ Bit(bytes, i) = 0 THEN "no"
        ELSE IF total > bits THEN "panic"
        ELSE "yes"

-----------------------------------------------------------------------------
(* The peer and the network. *)

Arrive ==
    /\ phase \in Connected
    /\ ~closed /\ coming # <<>>
    /\ socket' = Append(socket, Head(coming))
    /\ coming' = Tail(coming)
    /\ UNCHANGED <<peer, closed, phase, buf, taken, readable, eof, greeting, got>>

\* The peer leaves, in the middle of a message too.
Close ==
    /\ phase \in Connected
    /\ ~closed
    /\ closed' = TRUE
    /\ UNCHANGED <<peer, coming, socket, phase, buf, taken, readable, eof, greeting, got>>

-----------------------------------------------------------------------------
(* pick_seeds and check_is_seed up to the first read. *)

\* TcpStream::connect, and the handshake we send.
Connect ==
    /\ phase = "connect"
    /\ phase' \in {"handshake", "rejected"}
    /\ UNCHANGED <<peer, coming, socket, closed, buf, taken, readable, eof, greeting, got>>

\* The sleep of pick_seeds ends first: check_is_seed is dropped with its stream.
Timeout ==
    /\ phase \in {"connect", "handshake", "bitfield"}
    /\ phase' = "timeout"
    /\ coming' = <<>> /\ socket' = <<>> /\ buf' = <<>> /\ taken' = 0
    /\ readable' = FALSE /\ eof' = FALSE /\ greeting' = <<>>
    /\ UNCHANGED <<peer, closed, got>>

-----------------------------------------------------------------------------
(* `next' on the Framed stream: decode while there may be an item, then read. *)

decoded == IF phase = "handshake" THEN handshake_decode(buf) ELSE decode(buf)

\* read_buf: the bytes that have arrived, or the end of the stream.  Reading only
\* some of them is like reading before the others arrived.
Read ==
    /\ phase \in Waiting /\ ~readable /\ ~eof
    /\ readable' = TRUE
    /\ socket # <<>> \/ closed
    /\ buf' = buf \o socket
    /\ taken' = taken + Len(socket)
    /\ socket' = <<>>
    /\ eof' = (socket = <<>>)
    /\ UNCHANGED <<peer, coming, closed, phase, greeting, got>>

\* No whole item: read on, unless the stream has ended.  With bytes left over its end
\* is an error; check_is_seed fails either way.
Incomplete ==
    /\ phase \in Waiting /\ readable
    /\ decoded.out = "more"
    /\ readable' = FALSE
    /\ phase' = IF ~eof THEN phase
                ELSE IF phase # "download" THEN "rejected"
                ELSE IF buf = <<>> THEN "ended" ELSE "errored"
    /\ UNCHANGED <<peer, coming, socket, closed, buf, taken, eof, greeting, got>>

\* Mutant: the new codec waits for bytes first.
HandshakeDoneWaits ==
    /\ phase = "handshake" /\ readable
    /\ decoded.out = "item"
    /\ greeting' = decoded.item
    /\ buf' = decoded.rest
    /\ phase' = "bitfield"
    /\ readable' = FALSE /\ eof' = FALSE
    /\ UNCHANGED <<peer, coming, socket, closed, taken, got>>

\* handshake: whatever the peer's handshake says; map_codec keeps the buffer, and
\* the new codec looks at it before anything is read.
HandshakeDone ==
    /\ phase = "handshake" /\ readable
    /\ decoded.out = "item"
    /\ greeting' = decoded.item
    /\ buf' = decoded.rest
    /\ phase' = "bitfield"
    /\ readable' = TRUE /\ eof' = FALSE
    /\ UNCHANGED <<peer, coming, socket, closed, taken, got>>

\* What becomes of the first message m: it must be the Bitfield of a seed.  A peer that
\* has reset the connection by then has no `peer_addr()' to unwrap.
Outcomes(m) ==
    IF m.type # "Bitfield" THEN {"rejected"}
    ELSE CASE is_seed(total_pieces, m.bytes) = "yes" ->
                  IF closed THEN {"loop", "panicked"} ELSE {"loop"}
           [] is_seed(total_pieces, m.bytes) = "no" -> {"rejected"}
           [] OTHER -> {"panicked"}

FirstMessage ==
    /\ phase = "bitfield" /\ readable
    /\ decoded.out = "item"
    /\ buf' = decoded.rest
    /\ got' = Append(got, decoded.item)
    /\ phase' \in Outcomes(decoded.item)
    /\ UNCHANGED <<peer, coming, socket, closed, taken, readable, eof, greeting>>

\* The messages whose handler is `todo!()', which ends the task.
Unanswered == {"Request", "Cancel"}

NextMessage ==
    /\ phase = "download" /\ readable
    /\ decoded.out = "item"
    /\ buf' = decoded.rest
    /\ got' = Append(got, decoded.item)
    /\ phase' = IF decoded.item.type \in Unanswered THEN "panicked" ELSE "loop"
    /\ UNCHANGED <<peer, coming, socket, closed, taken, readable, eof, greeting>>

\* An error of the decoder ends check_is_seed; the download prints it and asks again.
DecodeFails ==
    /\ phase \in {"bitfield", "download"} /\ readable
    /\ decoded.out \in {"error", "panic"}
    /\ buf' = decoded.rest
    /\ phase' = IF decoded.out = "panic" THEN "panicked"
                ELSE IF phase = "bitfield" THEN "rejected" ELSE "errored"
    /\ UNCHANGED <<peer, coming, socket, closed, taken, readable, eof, greeting, got>>

\* Mutant: the stream is read on after an error.
NoneAfterErrorReads ==
    /\ phase = "errored"
    /\ phase' = "download"
    /\ UNCHANGED <<peer, coming, socket, closed, buf, taken, readable, eof, greeting, got>>

\* After an error `next' returns None, and the downloader leaves its loop.
NoneAfterError ==
    /\ phase = "errored"
    /\ phase' = "ended"
    /\ UNCHANGED <<peer, coming, socket, closed, buf, taken, readable, eof, greeting, got>>

-----------------------------------------------------------------------------
(* The downloader's loop around `next'.  How long a handler takes, and whether  *)
(* anything remains, module Download says.                                      *)

AskNext ==
    /\ phase = "loop"
    /\ phase' = "download"
    /\ UNCHANGED <<peer, coming, socket, closed, buf, taken, readable, eof, greeting, got>>

\* The keep-alive timer ran out first: `next' is dropped, and what it has read stays.
KeepAliveDue ==
    /\ phase = "download"
    /\ phase' = "loop"
    /\ UNCHANGED <<peer, coming, socket, closed, buf, taken, readable, eof, greeting, got>>

\* Nothing remains: the task ends, with its stream.
Leave ==
    /\ phase \in {"loop", "errored"}
    /\ phase' = "left"
    /\ UNCHANGED <<peer, coming, socket, closed, buf, taken, readable, eof, greeting, got>>

Poll ==
    \/ Connect \/ Read \/ Incomplete \/ HandshakeDone \/ FirstMessage \/ NextMessage
    \/ DecodeFails \/ NoneAfterError

\* Nothing more happens: the stream is gone, or quiet.
Over ==
    /\ phase \notin {"connect", "loop", "errored"}
    /\ phase \in Waiting => ~readable /\ socket = <<>> /\ coming = <<>> /\ ~closed
    /\ UNCHANGED vars

Next == Arrive \/ Close \/ Timeout \/ Poll \/ AskNext \/ KeepAliveDue \/ Leave \/ Over

\* What was sent arrives, and the runtime polls the task when there is something to
\* read, also if its timer has run out between (after two minutes each time).  No timer
\* need run out, no peer need leave, and no handler need return.
Spec == Init /\ [][Next]_vars /\ WF_vars(Arrive) /\ SF_vars(Poll)

-----------------------------------------------------------------------------
(* Properties. *)

\* How many bytes the peer sends up to its n-th message.
LenTo(n) ==
    LET s[i \in 0..n] ==
            IF i = 0 THEN HANDSHAKE_SIZE
                     ELSE s[i - 1] + (IF msgs[i] = Port THEN 7 ELSE 4 + encoded_len(msgs[i]))
    IN  s[n]

TypeOK ==
    /\ peer \in DOMAIN Peers
    /\ phase # "timeout" => taken + Len(socket) + Len(coming) = LenTo(Len(msgs))
    /\ {closed, readable, eof} \subseteq BOOLEAN
    /\ phase \in Phases
    /\ buf \in Seq(Byte)

\* How many messages can be understood: those before the first unknown one.
Known == Cardinality({i \in DOMAIN msgs : \A j \in 1..i : msgs[j] # Port})

\* However the bytes were cut, across the change of codecs too, what is decoded is
\* what was sent: no message is lost, doubled, invented or read from the middle of
\* another (handshake.rs:49-63, peer_msg.rs:76-156, mod.rs:156).
DecodedAsSent ==
    /\ greeting # <<>> => greeting = Peers[peer].handshake
    /\ Len(got) <= Known /\ got = SubSeq(msgs, 1, Len(got))

\* To its task the connection is the stream of messages that module Download reads:
\* it is accepted with its first message or dropped, ends once, with at most one error
\* before the None, and may be dropped at any message (mod.rs:141-171, 252-298).
Promise == INSTANCE MessageStream WITH
    messages <- SubSeq(msgs, 1, Known), returned <- got,
    state <- CASE phase \in {"connect", "handshake", "bitfield"} -> "checked"
               [] phase \in {"loop", "download"} -> "open"
               [] phase \in {"left", "rejected", "timeout", "panicked"} -> "dropped"
               [] OTHER -> phase

ImplementsStream == Promise!Spec

\* A task waits for more bytes, or has seen the stream end, only with every message
\* decoded that is whole: none lies in the buffer until the next bytes come, those
\* that came with the handshake included, and the end of the stream takes nothing
\* with it but an unfinished message (peer_msg.rs:77-98, mod.rs:156-158, 273-284).
NothingHeldBack ==
    (phase \in Waiting /\ ~readable) \/ phase = "ended" =>
        \A n \in 0..Known : LenTo(n) <= taken => greeting # <<>> /\ n <= Len(got)

\* A peer we download from has every piece (bitfield.rs:3-21, mod.rs:162-167).
AcceptedIsSeed ==
    phase \in {"loop", "download", "errored", "ended", "left"} =>
        \A i \in 0..(total_pieces - 1) :
            i \div 8 < Len(got[1].bytes) /\ Bit(got[1].bytes, i) = 1

\* What a seed sends first: all bits of the torrent's pieces, the padding 0.
SeedBytes(total) ==
    [i \in 1..((total + 7) \div 8) |->
        IF 8 * i <= total THEN 255 ELSE 256 - 2 ^ (8 * i - total)]

\* A seed that stays is accepted, unless there is no connection or it is too slow, and
\* then the task gets all it sends up to the first message nobody answers, unless nothing
\* remains or a handler never returns (mod.rs:64-71, 158-170, 252-295, 364, 437).
SeedIsHeard ==
    msgs # <<>> /\ msgs[1] = [type |-> "Bitfield", bytes |-> SeedBytes(total_pieces)] =>
        \/ <>(\/ closed \/ phase \in {"timeout", "left"}
              \/ phase = "rejected" /\ greeting = <<>>
              \/ phase = "panicked" /\ got # <<>> /\ got[Len(got)].type \in Unanswered
              \/ Len(got) = Known)
        \/ <>[](phase = "loop")
=============================================================================
