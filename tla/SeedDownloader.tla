--------------------------- MODULE SeedDownloader ---------------------------
(***************************************************************************)
(* The local state of one `SeedDownloader' (src/src/download/mod.rs:187-   *)
(* 245) and the way its handlers change it, as pure operators on a record  *)
(*   choked_us       the seed has choked us                                *)
(*   inflight        requests sent and not answered, a u8 local of         *)
(*                   `download'                                            *)
(*   pending_pieces  piece -> PieceDownload, the pieces under way          *)
(*   pending_blocks  the outgoing block requests                           *)
(* Lengths are counted in blocks of BLOCK_SIZE: the code requests a piece  *)
(* block by block and `requested' moves by whole blocks, the last of which *)
(* may be short.  A block is named <<piece, number>>.  Of the bytes of a   *)
(* piece we keep which blocks hold the torrent's content: that is what     *)
(* `validate_piece' tells.                                                 *)
(***************************************************************************)
EXTENDS Bitfield

CONSTANTS
    NumBlocks,              \* piece -> how many blocks it has
    MAX_INFLIGHT_PER_PEER   \* 5 in the code

\* u8 and u16 hold the counters of the code.
U8Max == 255
U16Max == 65535

ASSUME NumBlocksAssumption == NumBlocks \in [Pieces -> 1..U16Max]
ASSUME MaxInflightAssumption == MAX_INFLIGHT_PER_PEER \in 1..U8Max

BlocksOf(p) == 0..(NumBlocks[p] - 1)
Block == {x \in Pieces \X Nat : x[2] \in BlocksOf(x[1])}

\* PieceDownload, less the hash (of the piece's content, which never changes) and
\* the length (NumBlocks).  `bytes' are the blocks with the right content.
PieceDownloads ==
    [requested : Nat, remaining_blocks : Nat, bytes : SUBSET Nat]

IsPieceMap(dls) ==
    DOMAIN dls \subseteq Pieces /\ \A p \in DOMAIN dls : dls[p] \in PieceDownloads

IsDownloader(d) ==
    /\ d.choked_us \in BOOLEAN
    /\ d.inflight \in Nat
    /\ IsPieceMap(d.pending_pieces)
    /\ d.pending_blocks \subseteq Block

-----------------------------------------------------------------------------

new == [ choked_us |-> TRUE,
         inflight |-> 0,
         pending_pieces |-> [p \in {} |-> 0],
         pending_blocks |-> {} ]

pending(d) == DOMAIN d.pending_pieces

\* The entry request_pieces makes for a piece it picked.
NewPiece(p) == [requested |-> 0, remaining_blocks |-> NumBlocks[p], bytes |-> {}]

\* The map with entry dl for piece p.
put(dls, p, dl) == [q \in DOMAIN dls \cup {p} |-> IF q = p THEN dl ELSE dls[q]]

\* Mutant: the blocks that came before the choke still count.
ChokeKeepsRemaining(d) ==
    [ choked_us |-> TRUE,
      inflight |-> d.inflight,
      pending_pieces |->
          [p \in pending(d) |-> [d.pending_pieces[p] EXCEPT !.requested = 0]],
      pending_blocks |-> {} ]

\* Mutant: the requests are not forgotten.
ChokeKeepsRequests(d) ==
    [ choked_us |-> TRUE,
      inflight |-> d.inflight,
      pending_pieces |->
          [p \in pending(d) |-> [ requested |-> 0,
                                  remaining_blocks |-> NumBlocks[p],
                                  bytes |-> d.pending_pieces[p].bytes ]],
      pending_blocks |-> d.pending_blocks ]

\* Choke: every piece under way starts over and the requests are forgotten.  The
\* bytes are kept, and so is `inflight'.
choke(d) ==
    [ choked_us |-> TRUE,
      inflight |-> d.inflight,
      pending_pieces |->
          [p \in pending(d) |-> [ requested |-> 0,
                                  remaining_blocks |-> NumBlocks[p],
                                  bytes |-> d.pending_pieces[p].bytes ]],
      pending_blocks |-> {} ]

unchoke(d) ==
    [ choked_us |-> FALSE,
      inflight |-> d.inflight,
      pending_pieces |-> d.pending_pieces,
      pending_blocks |-> d.pending_blocks ]

\* Mutant: `inflight' is not counted down.
ReceiveKeepsInflight(d, p, b, good) ==
    LET dl == d.pending_pieces[p]
        left == dl.remaining_blocks - 1
    IN  [d EXCEPT !.pending_pieces[p].remaining_blocks = left,
                  !.pending_pieces[p].bytes = IF good THEN @ \cup {b} ELSE @ \ {b},
                  !.pending_blocks = @ \ {<<p, b>>}]

\* Piece, for a block that is expected: it fills its place in the piece's bytes,
\* with the right content or not.
receive(d, p, b, good) ==
    LET dl == d.pending_pieces[p]
    IN  [ choked_us |-> d.choked_us,
          inflight |-> d.inflight - 1,
          pending_pieces |->
              put(d.pending_pieces, p,
                  [ requested |-> dl.requested,
                    remaining_blocks |-> dl.remaining_blocks - 1,
                    bytes |-> IF good THEN dl.bytes \cup {b} ELSE dl.bytes \ {b} ]),
          pending_blocks |-> d.pending_blocks \ {<<p, b>>} ]

\* A block that is expected of a piece that is not (any more): its request is
\* struck, and `inflight' is not.
receive_orphan(d, p, b) ==
    [ choked_us |-> d.choked_us,
      inflight |-> d.inflight,
      pending_pieces |-> d.pending_pieces,
      pending_blocks |-> d.pending_blocks \ {<<p, b>>} ]

\* The last block is there: the piece leaves the map, whether or not it is valid.
complete(d, p) ==
    [ choked_us |-> d.choked_us,
      inflight |-> d.inflight,
      pending_pieces |-> [q \in pending(d) \ {p} |-> d.pending_pieces[q]],
      pending_blocks |-> d.pending_blocks ]

validate_piece(d, p) == d.pending_pieces[p].bytes = BlocksOf(p)

\* The number of blocks request_blocks asks for: until the piece is requested or
\* `inflight' EQUALS the limit, which a counter that begins at or above the limit
\* never does again.
Batch(d, left) ==
    LET room == MAX_INFLIGHT_PER_PEER - d.inflight
    IN  IF room \in 1..left THEN room ELSE left

\* Mutant: one block too many.
NextBlocksInclusive(dl, p, k) == {p} \X (dl.requested..(dl.requested + k))

\* The next k blocks of piece p, whose entry in the map is dl.
NextBlocks(dl, p, k) == {p} \X (dl.requested..(dl.requested + k - 1))

\* Mutant: `inflight' is set, not raised.
RequestsSentAlone(d, p, dl, k, dls) ==
    [ choked_us |-> d.choked_us,
      inflight |-> k,
      pending_pieces |-> dls,
      pending_blocks |-> d.pending_blocks \cup NextBlocks(dl, p, k) ]

\* k requests are sent for piece p, and the map becomes dls.
requests_sent(d, p, dl, k, dls) ==
    [ choked_us |-> d.choked_us,
      inflight |-> d.inflight + k,
      pending_pieces |-> dls,
      pending_blocks |-> d.pending_blocks \cup NextBlocks(dl, p, k) ]

Advanced(dl, k) ==
    [ requested |-> dl.requested + k,
      remaining_blocks |-> dl.remaining_blocks,
      bytes |-> dl.bytes ]

\* request_blocks for a piece in the map, when k of its requests are sent ...
request_blocks(d, p, k) ==
    LET dl == d.pending_pieces[p]
    IN  requests_sent(d, p, dl, k, put(d.pending_pieces, p, Advanced(dl, k)))

\* ... for a piece just picked, which enters the map when they are all sent ...
request_new(d, p, k) ==
    requests_sent(d, p, NewPiece(p), k,
                  put(d.pending_pieces, p, Advanced(NewPiece(p), k)))

\* ... and which never does when the request after them fails.
request_new_fails(d, p, k) ==
    requests_sent(d, p, NewPiece(p), k, d.pending_pieces)

-----------------------------------------------------------------------------

PendingOf(d, p) == {x \in d.pending_blocks : x[1] = p}

\* What is left of a piece is what was not requested yet and what was requested and
\* did not arrive: mod.rs:326-331 needs it (`otherwise we will finish the download
\* prematurely'), and so do `remaining_blocks == 0' (:410) and the debug_assert
\* at :451.
PieceAccounted(dl, out, blocks) ==
    /\ dl.requested \in 0..blocks
    /\ \A x \in out : x[2] < dl.requested
    /\ dl.remaining_blocks = blocks - dl.requested + Cardinality(out)

Accounted(d) ==
    \A p \in pending(d) :
        PieceAccounted(d.pending_pieces[p], PendingOf(d, p), NumBlocks[p])
=============================================================================
