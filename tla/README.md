# Specifications of bittorrent-client-rs

TLA+ models of the BitTorrent client in `src/` (a `cargo` project: `src/src/main.rs`
and its modules), the TLC runs that check them and TLAPS proofs about them. Line
numbers refer to the files under `src/src/`.

## 1. The system

`main.rs` has two commands. `decode` prints a bencoded value, with one of two decoders,
and `download` does the work in sequence: read the meta info, look for a UDP tracker with
enough seeders (`pick_tracker`), download all pieces from the seeds it lists into one
buffer (`File::download`), and write the buffer to files (`file::write`).

| component | source | state | operations | hard behaviour |
|---|---|---|---|---|
| bitfield and piece picker | `download/bitfield.rs` | `piece_ownership` (bytes), `cur`, `confirmed`, `total_pieces` | `pick_piece`, `set`, `has`, `remaining` | loops over bits with wrap-around; padding of the last byte; two positions that move independently |
| seed downloader | `download/mod.rs:187-592` | per seed: `choked_us`, `inflight` (u8), `pending_pieces`, `pending_blocks`, the stream | one handler per message, `request_pieces`, `request_blocks`, the `select!` loop | choke in the middle of pieces; blocks in any order; write errors half-way; the mutex held across a channel send |
| file download | `download/mod.rs:31-139` | `bytes`, the channel, the task handles | `pick_seeds`, the receive loop | shares bitfield (tokio mutex) and channel (kanal, bound 5) with up to 5 tasks; ends on what *they* write |
| UDP tracker | `tracker/udp.rs` | socket, `buf` (512 bytes), `conn_id`, `conn_id_ts`, `next_announce` | `connect`, `get_conn_id`, `retry_get_conn_id`, `announce`, `send_announce` | timeouts inside timeouts; lost, late and duplicated datagrams; a buffer that shrinks |
| tracker selection | `main.rs:85-124` | the position in `announce_list` | `pick_tracker` | must go on after any failure |
| handshake and seed check | `download/handshake.rs`, `download/mod.rs:141-185`, `bitfield.rs:3-21` | the stream's buffer, where the task is | `check_is_seed` within five seconds | the codec changes with bytes in the buffer; a peer's bitfield decides array bounds |
| peer message codec | `download/peer_msg.rs` | the frame buffer | `Decoder`, `Encoder` | frames cut anywhere, ends and errors in the middle of one |
| torrent meta info | `bencode/meta_info.rs` | none | `num_pieces`, `get_piece_length`, `hash` | the last, shorter piece; empty files |
| bencode decoders | `bencode/mod.rs`, `plain.rs`, `nom.rs` | none | two decoders of one grammar | recursion, malformed input |
| writing files | `file/mod.rs` | none | `write` | cutting the buffer into files |
| HTTP tracker, compact peers | `tracker/http.rs`, `tracker/peers.rs` | none | one request and its decoding | not called by `main` |

**Interactions.** `pick_tracker` hands a list of addresses to `File`. `pick_seeds`
spawns a `SeedDownloader` task per seed and gives it a clone of the bitfield's
`Arc<Mutex<..>>` and of the channel's sender. From then on the tasks meet in those two
objects only: each task locks the bitfield to see whether anything remains, to pick a
piece, and to own a finished one, and sends a finished piece's bytes *with that lock
held*; the `File` receives, copies the bytes, locks the bitfield and returns when
nothing remains.

**What makes them correct.** *Picker*: a piece is offered until it is owned, never when
owned; the end is told consistently; no access outside the vector. *Seed downloader*:
each piece's books balance, so that "the last block" is the last one; no assertion
fails; a valid piece is never refused; a serving seed is never left idle. *File*: no
piece that is owned is lost before the return; the download ends, and well.
*Tracker*: a good tracker is found although others fail and although some of its
answers are lost; the protocol's intervals and id lifetimes are respected; the search
takes bounded time; peers arrive whole. *Connection*: however the bytes are cut, what the
task reads is what was sent, once and in order, and none of it waits in the buffer; only a seed
is accepted. *Storage*: every byte of every file comes from its own place in exactly one block.
*Decoders*: they agree.

The hazards behind these, each at its line, are listed in `PROJECT.json` under
`hazards` with the properties that address them.

## 2. The modules

| module | models | extends |
|---|---|---|
| `Bitfield` | the bitfield as a value, its methods in closed form | |
| `PiecePicker` | calls of `pick_piece` and `set`, one step each | `Bitfield` |
| `BitfieldLoops` | the same methods on bits in bytes, one step per loop iteration; implements `PiecePicker` | |
| `SeedDownloader` | the local state of one downloader, its handlers as operators on a record | `Bitfield` |
| `Download` | the `File`'s task and the seeds' tasks with mutex, channel and streams | `SeedDownloader` |
| `PieceLedger` | what the download promises about pieces; `Download` implements it | |
| `PeerCodec` | the bytes of handshake and messages: both codecs as operators on a buffer | |
| `PeerConnection` | one connection: the network, the `Framed` stream, `check_is_seed`, the reads of `download`; implements `MessageStream` | `PeerCodec` |
| `MessageStream` | what a connection promises its task | |
| `Geometry` | pieces, blocks and `splice` as operators on lengths and buffers | |
| `TorrentStorage` | a torrent's bytes on their way through blocks, pieces and buffer into files | `Geometry` |
| `Bencode` | the two decoders as recursive functions on the places of an input | |
| `BencodeCheck` | both on inputs that grow token by token; what it is to encode a value | `Bencode` |
| `BencodeValues` | values encoded, for TLC | `Bencode` |
| `UdpTracker` | `pick_tracker` with the UDP client, the network and the clock | |
| `MCDownload`, `MCUdpTracker`, `MCPeerConnection`, `MCTorrentStorage`, `MCBencode` | values for TLC | |
| `BitfieldProofs`, `PiecePickerProofs`, `BitfieldLoopsProofs`, `DownloadProofs`, `UdpTrackerProofs`, `TorrentStorageProofs`, `PeerConnectionProofs`, `BencodeProofs` | theorems and their lemmas | the module they are about |

A definition whose comment begins with *Mutant* is a plausible error in the definition
after it; no specification uses it. It is there to be put in that definition's place,
which the property named in `PROJECT.json` must then catch.

### Bitfield, PiecePicker, BitfieldLoops

`own` is the set of bits that are 1. `set` and `pick_piece` contain loops;
`Bitfield` states what they compute (`FirstClear`, `Picked`), and `BitfieldLoops` runs
them bit by bit with `piece_bucket_offset`'s arithmetic. The refinement (`ImplementsPicker`)
has a call take effect when its loop ends: this is sound because every call in
the program is made under the mutex. So `Download` may use the closed forms.

### SeedDownloader and Download

A step of `Download` is what a task does from one `await` to the next.

- `pc[s]` is where the task of seed s waits: `loop` (mutex, mod.rs:252), `select` (:259),
  `request` (between two iterations of the loop at :448, each of which writes to the
  socket), `pick` (mutex, :476), `complete` (mutex, :411), `send` (room in the channel,
  :420) and `disconnect` (:276). `fpc` is the same for the `File`.
- The mutex is taken and released within a step, except by a task at `send`: it holds
  the guard. `LockFree` says that none is there.
- `chan` is the channel with the messages of waiting senders behind the buffered ones,
  which is how kanal serves them. A sender goes on once its message is inside the bound.
- Lengths are counted in blocks of 16 KiB. The code advances `requested` by whole blocks
  and every request is within the piece, so the last, shorter block needs no special case.
- The bytes of a piece are the set of its blocks that hold the torrent's content:
  SHA-1 is taken to tell exactly whether that is all of them.
- A write that fails, of a request or of a keep-alive, makes all later ones fail (`stream = "broken"`); whether the
  stream then ends or reports an error first is open. Reading ends with `None` or with
  an error followed by `None`, as `Framed` does.
- `inflight` is a u8. Going past 255 panics, which is what a build with overflow checks
  (the default debug profile) does; `InflightCovers` shows that it never goes below 0.
- The order in which `pending_pieces` (a hash map) is gone through is any.
- `Faults` gives each peer's freedom. A peer without faults is a seed that unchokes us,
  answers what it was asked in any order, and never closes. A peer that chokes lets us go on
  some time; one that is "silent" need not unchoke us or answer, from any moment on, and may
  stay connected all the same.
- `TryPeerPanics`: `check_is_seed` and `SeedDownloader::new` run in the `File`'s task, which is
  `main`'s. A peer that sends a bitfield `is_seed` reads past, or resets the connection behind its
  bitfield so that `peer_addr().unwrap()` (mod.rs:236) fails, ends the program with all its tasks.

`PieceLedger` knows pieces only: owned, on the way, written, and the result.
`ImplementsLedger` says that every run of `Download` whose seeds send right content is
one of the ledger, in particular that while it runs owned = on the way + written, and
that the return with an error leaves nothing on the way. A panic ends it with all it had. It also states the
limit of the promise: at `ReturnOk` what is on the way is dropped.

### PeerCodec, PeerConnection and MessageStream

`Download` reads whole messages from a stream and takes the outcome of `check_is_seed` as
given. `PeerConnection` is what is below: bytes.

- `coming` is what the peer has still to send, `socket` what has arrived, `buf` the read buffer
  of the `Framed`. `Read` takes all that has arrived; as `Arrive` moves one byte, every
  way to cut the stream into reads is a behaviour.
- `readable` and `eof` are `Framed`'s own state (`tokio_util`, external): `next` decodes as
  long as the buffer may hold an item, then reads; at the end of the stream it decodes once
  more, and bytes left over are an error. After an error it returns `None` once.
- `map_codec` (mod.rs:156) keeps the buffer and looks at it before it reads (`HandshakeDone`).
- `Timeout` is the other branch of the `select!` in `pick_seeds` (:64): the future is
  dropped at whatever await it is, and the stream with it.
- `is_seed` returns "panic" where the code would index out of bounds, or underflow in a build
  with overflow checks.
- After the check the task goes round the loop of mod.rs:251-295: at "loop" it handles a message, or
  looks whether anything remains, and at "download" it asks for the next one. When it asks again, and
  whether it leaves (`Leave`), is `Download`'s business, so both are open here, and nothing makes a handler return
  (it may wait for the mutex for ever, finding 2). The handler of a Request or a Cancel is `todo!()`: the
  task panics and reads no more. When the keep-alive timer runs out (`KeepAliveDue`), the future of
  `next` is dropped and what it has read stays in the `Framed`.
- The lists of peers (`MCPeers`) hold the inputs: seeds and others, torrents of 1 to 16
  pieces, bitfields with the padding clear, and every type of message. The 20 bytes of a hash
  or an id are one value repeated.

`ImplementsStream` is the link between the two levels: to its task a connection is a
`MessageStream`, which is how `Download` uses it: `refuse` is `Drop`, `leave` is `Error` or
`None`, and a task that ends is `Abandon`.

### Geometry and TorrentStorage

A byte of the torrent is told by its place, so that a property can say where it went. One
piece at a time is under way, in any order, and some come twice: which task downloads what is
`Download`'s business, and the lock around the bitfield makes the arrival of pieces at the
`File` a sequence. Requests of a piece and the arrival of its blocks interleave, as under the
limit of `request_blocks`. `splice` is `Vec::splice`: a range that differs in length from what
replaces it moves everything behind it. `WriteFails` leaves any beginning of the file.

### Bencode and BencodeCheck

An input is a sequence of bytes, written as characters, and a slice of it is the place where it
begins. What a decoder is at (`Spots`) is a place and what it looks for there: a value, or what is left of
a list or a dictionary. Each decoder is a function on the spots of an input, whose value at a spot is
the step of the code (`plain_value`, `plain_list`, ...) with the values at other spots for its calls.
It returns where the rest begins and the value, an error, or ("plain") panics. `many0` and
`fold_many0` of `nom` stop at an element that fails and give back what it had taken: `nom_list` and
`nom_dict` do so. `MaxUsize`, `MaxI64` and `Text` (`from_utf8_lossy`) are parameters.

`DecodersAgree` says exactly how the two differ. Where "plain" panics, "nom" returns an error (as
on a string that is cut short), or it read an empty list or dictionary, even one whose key comes again
later and which is thus not in the value. Everywhere else they return the same.

The state machine types tokens, so that `RestIgnored` can compare an input with a longer
one, alone or behind an encoded value. `EncodingAssumption` is the format: a relation between values
and their encodings, in which a list or dictionary is its first element or a pair and the rest of it. The pairs may
come in any order, numbers may have leading zeros. `BencodeValues` builds encodings of which TLC checks that
they fulfil it.

### UdpTracker

One sequential task and a network. `pc` is where it waits: nowhere (`connect`,
`announce`), for a connection id (`get_conn_id`: in `connect` when `call.retry = 0`,
else in the retries inside an attempt), or for the answer to an announce. A request in
`net` may be lost, held back, answered twice, or answered badly (the kinds are in
`FaultKinds`). An answer is the fields the client decides by: transaction id, action,
length, interval.

- `room` is the capacity left in `buf`: `get_u32` and the like advance its front,
  `clear` does not give that back, `put` reclaims it when the request does not fit, and
  `recv_buf` reads no more than there is room for and drops the rest of the datagram.
- Time is counted in units of 5 seconds, the greatest common divisor of the code's
  timeouts. A step takes a part of a unit, so an instant n units later counts as more
  than n units past. Time passes only when the network owes nothing promptly (`Tick`),
  and never past the next timeout.
- Transaction ids (random u32) are taken never to repeat.

## 3. What is checked

`A` are properties of single states, `P` of behaviours.

| run | instance | shows |
|---|---|---|
| `loops` | 9 pieces: two bytes, 7 bits of padding | A `PaddingStaysClear`, `PositionsExact`, `EndsAgree`; P `ImplementsPicker`, `CallsReturn`, `YieldedAgain`: a piece nobody completes is offered again and again |
| `download_hostile` | 3 pieces of 2, 2 and 1 blocks, limit 2, channel bound 1; one seed may choke, the other corrupt, leave, break, send Request or be refused | A `AccountingExact`, `AssertionsHold`, `InflightCovers`, `WrittenIsOwned`, `ValidationFair`, `ChokedMeansQuiet` |
| `download_live` | 3 pieces of 2, 1 and 1 blocks; one serving seed, one that may choke for good, fall silent, leave or break | A `InflightExact`, `NeverIdle`; P `OkUnlessDeadlocked`, `EndUnlessDeadlocked`, `ImplementsLedger` |
| `tracker` | three trackers: anything wrong up to 4 times; slow with 3 seeders; good with 2 mistakes; 2 or 60 peers; intervals 0 and 30 s | A `GoodTrackerFound`, `PeersComplete`, `BoundedTime`; P `SearchEnds`, `AnnouncesAllowed` |
| `connection` | the peers of `MCPeers`, whose streams are cut, closed and timed out anywhere | A `DecodedAsSent`, `NothingHeldBack`, `AcceptedIsSeed`; P `SeedIsHeard`, `ImplementsStream` |
| `storage` | all torrents of up to three files of up to 4 bytes or one of up to 10, pieces of 1 to 7 bytes, blocks of 2, at most 5 pieces, one of them twice | A `BytesInPlace`, `BlocksTile`, `PiecesCover`, `FilesExact`; P `StorageEnds` |
| `bencode` | all inputs of up to 6 of 12 tokens; values up to three deep, with up to 2 tokens behind them; integers up to 110, lengths up to 100, one byte that is no UTF-8 | A `DecodersAgree`, `ValuesDecoded`; P `RestIgnored` |

and five runs in which a statement of the code's own comments or tests is refuted
(section 4). `TypeOK` is checked in `download_hostile`, `tracker` and `connection`.

**Bounds.** *Pieces*: three are the fewest for which one task can have a piece under way,
another task a second, and `cur` wrap around to a third; nine (loops) let `confirmed`
jump over several owned pieces and `cur` be before, inside and behind them, and
cross a byte boundary both in the loop of `set` and in the one of `pick_piece`. *Blocks*: two per piece
give a first, a last and an order between them, one is the case where the first is the
last. *Limit* (`MAX_INFLIGHT_PER_PEER`, 5 in the code): 2 lets a piece be requested in one
go and be cut by the limit. *Channel*: the bound is 5 in the code with up to
5 tasks; 1 with two tasks fills as easily. *Chokes*: one per peer (`MaxChokes`) reaches every
state of a piece at the time of a choke; the proofs below put no bound on them. *Tracker faults*: four
are more than three attempts can take. *Connections*: a stream is at most a few messages, but with
every cut; nothing is carried from one message to the next but the buffer. *Storage*: blocks of 2
make pieces shorter than a block, of whole blocks and not, and last pieces of each kind; three
files can lie within one piece, begin and end inside pieces or be empty. *Tokens*: six are
enough for a list or dictionary of two elements, one nested in another, and one cut short at
every place. *Widths*: with 100 and 110 numbers of three digits are on both sides of the limit. The theorems of section 5 hold without these bounds.

**Deadlock checking** is off in the download runs: the mutual wait of finding 2 is a
deadlock of the program. It is off in `storage` and `bencode` as well, where the program, or
the input, ends; in the others the end is an explicit stutter (`Over`).

**Fairness.** `BitfieldLoops`: a call that runs goes on, and `pick_piece` is called again
and again although other calls come between (strong, as the mutex is FIFO), as every
request does; `set` is never forced. `PeerConnection`: what was sent arrives (TCP), and
the runtime polls the task when its `next` can go on, strongly, since the keep-alive timer may interrupt
`next` (after two minutes each time). Nothing makes a peer leave, a timer run out, a handler return or the
task leave: `SeedIsHeard` names these outcomes.
`TorrentStorage`: the download goes on and blocks that were asked for arrive, weakly.
`UdpTracker`: weak fairness of the whole next-state relation -- the runtime runs the
only task, and time passes; no message need arrive. `Download`: the tokio runtime polls
every task that is ready. A task that waits for the mutex is in its FIFO queue, so it gets
it although the mutex is taken and released infinitely often by others: hence strong
fairness of `FileTask` and of each `TaskStep(s)`. A seed that is not
"silent" serves (`Served(s)`): what it sends stays in the socket until the task's `select!` takes it, so the
task's going round its loop for other reasons does not lose it -- strong again. Of a seed that is
"silent", as the second one of `download_live`, no service is assumed: it may choke us and never unchoke us,
or answer nothing, and stay. The keep-alive timer's branch (`Nothing`) fires if nothing else
does, which is how the task of such a seed comes to see that nothing remains. Of all peers with faults
only this is assumed, that the end of a stream that is broken, or after an error, is seen (`EndSeen`).

## 4. Findings

Each has a run whose counterexample shows it (`PROJECT.json`, `findings`).

1. `picker_full_byte` -- `set` reads one bit past the vector and panics when the number of
   pieces is a multiple of 8 and the last missing piece is completed (bitfield.rs:102).
2. `deadlock` -- a task waits for room in the channel with the mutex held (mod.rs:411-427) while the
   `File` waits for the mutex before it receives again (:130).
3. `early_ok` -- the `File` returns once everything is *owned*; pieces still in the channel are lost,
   their bytes are zeros in the result (:132 against :412-420).
4. `choke` -- `inflight` keeps counting the requests a choke forgot; after the unchoke no new piece is
   ever picked by that task once the pieces it has are through (:324-333 against :475).
5. `tracker_full` -- after the connect reply the buffer has room for 496 bytes, so a correct reply
   with 80 peers is cut at 476 bytes of peers and refused; its interval then blocks the
   attempts that are left (udp.rs:166-185).

Met while modelling, in the models, but without a run of their own:

- After a choke `request_blocks` starts at or above its limit and, comparing with `==`
  (mod.rs:580), asks for a piece to its end: with pieces of 256 blocks (4 MiB) the u8 passes 255.
- A repeated index does not mean that all the remaining blocks are requested (:484-487): the
  search wraps around to a piece under way here as well when another task has left its
  piece behind.
- `next_announce` is set before the peers are looked at (udp.rs:174): an answer with an odd
  byte makes the attempts that are left fail at once.
- An attempt reads one datagram: an answer that comes late or twice is taken for the next
  attempt's, fails it, and leaves that one's own answer to the one after. This is why
  `GoodTrackerFound` is stated for `Tolerated` faults only.
- When the buffer's room happens to be a multiple of 6 past the 20 bytes of the header, a
  longer list of peers is cut silently. `PeersComplete` is checked with lists up to 60 and proved up to 62.
- A piece is owned before it is validated (mod.rs:412 against :415): one that fails is never
  requested again, and its bytes stay zeros. The comments do not say what should happen.
- `is_seed` indexes out of bounds for a bitfield that is all ones and too short, as a seed of another
  torrent may send (the handshake's `info_hash` is not compared); the panic ends the `File`'s task and the
  program (`TryPeerPanics`). An empty bitfield underflows, which panics in builds with overflow checks
  only; no peer of `MCPeers` sends one.
- `peer_addr().unwrap()` (mod.rs:236) panics in the same task if a seed resets the connection right behind its
  bitfield (`TryPeerPanics`, and `Outcomes` in `PeerConnection`). With the mutual wait of finding 2 these are all the
  ways not to return Ok with one serving seed (`OkUnlessDeadlocked`).
- Request and Cancel are `todo!()` (mod.rs:364, 437): the task of a seed that sends one ends without a `Disconnect`.
- A message type the codec does not know, such as Port, is an error after which the stream
  ends: the seed is given up.
- The plain decoder takes the `e` of an empty list or dictionary for its first element and comes to
  `todo!()`; a string longer than the input panics.
- A torrent of length 0 has no piece, so nothing is ever received, and the download returns an error.
- An empty tier (main.rs:92) and an error message that is no UTF-8 (udp.rs:208) panic.

## 5. What is proved

`tlapm` checks the following for every number of peers, pieces and blocks, every limit and
channel bound, any faults of the peers and any number of chokes. The assumptions are
those named in the modules: at least one piece, `NumBlocks` in 1..65535 (the code's u16),
the limit in 1..255 (u8), `MAX_SEEDS` and the channel's bound at least 1.

- `PiecePickerProofs`: `PickerPositions` (`confirmed` is exactly the first missing piece and
  `cur` is a piece), `PickerAnswers` (what is offered is missing).
- `BitfieldLoopsProofs`: `LoopsPositionsExact`, `LoopsPaddingStaysClear`, `LoopsEndsAgree`, and the
  refinement `LoopsImplementPicker`: each iteration of the loops over bits is a step of
  `PiecePicker` or a stutter. All that is proved of the closed forms holds of the loops.
- `DownloadProofs`: `DownloadTypes`, `DownloadAccounting`, `DownloadAssertions`,
  `DownloadInflight`: the properties `TypeOK`, `AccountingExact`, `AssertionsHold` and
  `InflightCovers` of the run. In its second half `DownloadChoked` (`ChokedMeansQuiet`), `DownloadValidation` (`ValidationFair`),
  `DownloadLimit` (`InflightExact`), `DownloadNeverIdle` (`NeverIdle`), `DownloadOwned` (`WrittenIsOwned`:
  the bit is set before the piece is sent, and stays). With these every state invariant of the
  download's passing runs is proved. `DownloadImplementsLedger` is the refinement: `Download` is a
  `PieceLedger` (`ImplementsLedger`), and so `DownloadConserves`.
- `BencodeProofs`: `DecodersAlwaysAgree` (`DecodersAgree`), `ValuesAlwaysDecoded` (`ValuesDecoded`) and the
  action property `RestAlwaysIgnored` (`RestIgnored`), for any tokens and any values; and of
  the decoders alone, on every sequence of bytes, `DecodersAgreeOn`, `RestIgnoredOn` (what was decoded is
  decoded of every longer input), `EncodedDecoded` (an encoded value is decoded to itself, whatever comes behind
  it) and `DecodersEnd` (the recursion ends, within the input, having taken at least a byte).
- `UdpTrackerProofs`: `UdpTrackerTyped` (`TypeOK`), `UdpTrackerPunctual` (`BoundedTime`),
  `UdpTrackerAllowed` (the action property `AnnouncesAllowed`), `UdpTrackerComplete`
  (`PeersComplete`), `UdpTrackerFindsGood` (`GoodTrackerFound`): every safety property of the run, for any
  trackers in any order, with any faults and any number of them.
- `TorrentStorageProofs`: `StorageBytesInPlace`, `StorageBlocksTile`, `StoragePiecesCover`,
  `StorageFilesExact` for the properties of the run, and `StorageNeverPanics`, for any torrents of any number of
  files; and for every length and piece length above 0 `PieceLengths` (no piece is empty
  or reaches outside the torrent), `BytesHaveOnePiece` (pieces partition it), `BlocksFitU16`
  (a piece of up to 65535 blocks has an exact count in 1..65535, which is what `Download`
  assumes of `NumBlocks`), `RequestsCountDown` (each request leaves one block less, 0 at the end).
- `PeerConnectionProofs`: of the codecs, for every message and whatever bytes follow it,
  `MessageRoundTrip`, `IncompleteWaits` (a part of a message is waited for and nothing taken of it) and
  `HandshakeRoundTrip`; `IsSeedExact` of `is_seed`; and of the connection every safety property of its run:
  `ConnectionTyped` (`TypeOK`), `ConnectionDecodedAsSent` (`DecodedAsSent`), `ConnectionHoldsNothingBack`
  (`NothingHeldBack`), `ConnectionAcceptsSeeds` (`AcceptedIsSeed`) and the refinement
  `ConnectionImplementsStream` (`ImplementsStream`), for any peers that send well-formed messages, any number of messages of any size and any
  cuts of the stream. `PeersAssumption` says what a peer sends: a handshake, and messages whose encoding the
  code itself could have written (a length that fits a u32, a payload of the type's size), with any
  number of `Port` among them. Peers that break the format are
  not covered: on a Have, Request or Piece that is too short the decoder itself panics (`Panic` in `decode_body`).

Three hypotheses are stated in theorems rather than assumed of the constants, since the code does
not enforce them:

- `AllHonest /\ Padded` in the two about the ledger. `AllHonest`: the seeds send right
  content. Of a piece that fails validation the bit is set and the bytes are not sent, which the ledger
  does not know. `Padded`: the number of pieces is no multiple of 8. If it is, `set` panics with the
  last piece (finding 1), and the task dies with a piece that is owned and not sent.
- `ModestReplies` in `UdpTrackerComplete` and `UdpTrackerFindsGood`: no reply lists more than 62 peers. 62 is
  the most: of the 512 bytes of `buf` the connect reply takes 16, the two failed attempts up to
  28 each (an error with a message of 20 bytes, the longest the model has) and the retries in the
  third 48, and the 392 left are 20 + 6 * 62. With more a list can be cut
  silently or refused (finding 5).
- `PiecesFit` in `TorrentStorageProofs`: pieces of up to 65535 blocks, for the u16.

**The argument.** None of these is inductive. `Inv` (in `DownloadProofs`) joins, for each
task, `LocalOK` of its record -- the books balance, requests out are covered by `inflight` --
with `TaskOK`, which ties the record to the place where the task is: only a task at
`complete` has a piece with nothing left, and it is the piece being handled; `todo` holds
only pieces with blocks to request and is empty but at `request`; nobody at `request` is
choked; and a request whose piece is not in the map occurs only on a stream that
is no longer open. The last one is what makes the assertion on a new piece's blocks
(mod.rs:573-576) true: they could clash only with such left-overs, and on a broken
stream nothing is requested successfully. `BitfieldOK` is the bitfield's own
invariant. A panic of the `File`'s task keeps all of it because it leaves no task running and nothing in
the channel (`PanicInv`).
The operators on records are treated once (what each handler does to `LocalOK`), the bitfield's
methods in `BitfieldProofs`; for the rest `DownloadProofs` has one lemma per action.

The second half of `DownloadProofs` adds to `Inv`, for each task, what its peer's faults leave standing (`Fine`). A peer
that sends the right content keeps `Kept`: each block of a piece that was requested is there or
awaited. So when nothing is left of a piece, which by `LocalOK` means that all of it was requested
and none is awaited, its content is complete; a choke sets `requested` to 0 and keeps `Kept` true
of nothing. A peer that neither chokes us nor breaks its stream keeps `Exact`: at most one piece has blocks
that are not requested, because a new one is picked only at `pick`, where none has, and is then the
only one; and a task that goes through its pieces has room. This is why the loop of mod.rs:448-474 can do without
a look at the limit, and it is what a choke destroys (finding 4). `NeverIdle` follows:
`request_pieces` returns early only at the limit, `pick_piece` yields nothing only when all is
owned, and a piece it yields that is under way here is fully requested and not complete, so some of
it is awaited.

The ledger needs no more: by `WrittenIsOwned` and `ValidationFair` the step that sets a bit is the one that
sends the piece (`Deliver`), one that receives a piece is `Write`, and the rest stutter. That it
can end with an error only with nothing on the way rests on `IdleInv`: no sender is left then.

The invariant of the loops (`LoopsInv`) has `PaddingZero` (each 1 bit belongs to a piece),
`FirstMissing` and, while a loop runs, what it has left behind: `Searching` (in `pick_piece` all from
the old `cur` to `cur` is owned, round the end, if it came to that) and `Advancing` (in `set` all up to
`confirmed` is owned). When the loop ends, what was left behind is the quantifier in the closed form.

The invariant of the tracker says what the task knows at each await (`StageInv`), bounds the
end of each attempt (`TimeInv`: no retry moves it), relates the age of the connection id to the attempt
(`AgeInv`: only the third can outlive it) and counts what the answers took from `buf` (`RoomInv`).
For `AnnouncesAllowed` an announce still on its way was sent with an id that is young (`NetInv`). For
`GoodTrackerFound` (`GoodInv`) each attempt before the present one cost the tracker a fault, and what
is awaited is on its way, in time, or was lost and cost one too.

`StorageInv` joins to the four properties that a byte below `requested` is either there or awaited
(`AskedOrFilled`) and what each phase has done. `LenTo`, where a file begins, is a sum over the list of
files by a recursive function: its recursion equation follows from there being exactly one function
with it on each initial segment (`SumExists`, `SumUnique`, by the least counterexample).
`splice` and slices are characterised once (`SpliceIs`, `SliceIs`); the count of blocks
rests on one lemma about the division that rounds up (`RoundedUp`) and one that such a count is
unique (`CountUnique`).

The invariant of the connection says where each byte of the peer is (`Buffered`): the buffer, the
socket and what is still to come are together exactly the encoding of what was not decoded yet, and `taken`
exactly what was decoded and the buffer. Then each look at the buffer has one of three outcomes
(`MessageDecoded`): the next message is whole, and the decoder takes it and no more; it is not, and the
decoder waits; or it is a `Port`. These are all because the messages are well formed. The loop around `next` takes nothing
from the buffer, and a message that ends the task is the last one returned (`Abandon`).
`NoneLeft` is what waiting leaves behind. `Stream` and the model's `LenTo` are recursive functions over the peer's
messages; that they obey their equations, and agree about the length, is proved by the least counterexample
(`SentSteps`, `LenUpToSteps`, `SentLength`). The model writes `Stream` from the last message backwards, and the
places of the bits in a byte as a table, so that both can be reasoned about.

The decoders have no state, so `BencodeProofs` needs no invariant beyond the input being one that begins
with the value's encoding (`ValueInv`). First the definitions must mean something: a recursive function is the `CHOOSE`
of one that fulfils its equation, and there is one because each step uses the results only at spots of lower
`Rank` -- further on in the input, or a value before the list it is the first element of -- as long as a
decoder that succeeds has moved on (`Moves`). `SolutionsExist` builds it rank by rank, by the least
counterexample. Then each statement is an induction over the spots: what a spot returns follows
from the same statement at places further on (`AllRelated` for the agreement, `AllKept` for longer inputs). The numbers and
strings are where the decoders read differently, one up to the first `:` or `e` and the other as long as there are
digits: they meet because the digits end there (`ColonBehindDigits`, `EndBehindDigits`). For
`EncodedDecoded` the induction is over the length of the encoding (`ValuesFound`): a list's first element and
the list of the others have shorter ones. Stated for lists only as a whole it would not go through, so
`FoundWithin` says the same behind the first character.

**Only model-checked**: liveness (`YieldedAgain`, `CallsReturn`, `OkUnlessDeadlocked`,
`EndUnlessDeadlocked`, `SearchEnds`, `SeedIsHeard`, `StorageEnds`), which is outside what the
prover does. Every invariant, every action property and every refinement of the passing runs is proved.

## 6. What is not modelled, and the plan

Not modelled: the HTTP tracker with its compact peers (`main` does not call it; one request, no
state); the meta info's hash and its reading and writing with serde, which decide nothing here;
printing and argument parsing. `from_vec` and `Display` of the bitfield serve the tests and
printing.

Assumed, and not enumerated: a piece length above 0 (`num_pieces` divides by it); as many hashes
as pieces; pieces of at most 65535 blocks (1 GiB; the u16 would wrap); messages whose length fits their type (`decode_body` models what a shorter one does, but no
peer of `MCPeers` sends one); no two files of a torrent with the same path.
The lookup of a tracker's name inside `socket.connect` (udp.rs:42) is under no timeout of the code; the model
takes it to need no time, so `BoundedTime` and `UdpTrackerPunctual` are about the time after it.

Two hazards are only partly in reach of the properties listed with them: none says that a piece that fails
validation is asked for again, as it is not (mod.rs:412-415), and the u8 of `inflight` passes 255 only with
pieces of 4 MiB after a choke, which `InflightExact` excludes and no run is large enough for (mod.rs:580).

The order in which the modules were planned, by how much depends on them:

1. `Bitfield`, `PiecePicker`, `BitfieldLoops`; `SeedDownloader`, `Download`, `PieceLedger`; their first proofs. *Done.*
2. `UdpTracker` and its proofs. *Done.*
3. `Geometry` and `TorrentStorage` and their proofs. *Done.*
4. `PeerCodec`, `PeerConnection`, `MessageStream` and their proofs. *Done.*
5. `Bencode`, `BencodeCheck`, `BencodeValues` and their proofs. *Done.*
6. The proofs of the seeds' tasks, with the refinement of `PieceLedger`; `BitfieldLoopsProofs`. *Done.*
