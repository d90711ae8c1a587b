------------------------------ MODULE Geometry ------------------------------
(***************************************************************************)
(* How a torrent is cut: its bytes into pieces                             *)
(* (src/src/bencode/meta_info.rs:43-61), a piece into the blocks that are  *)
(* requested (src/src/download/mod.rs:493-494, 556-577), and both put back *)
(* by `splice' (mod.rs:123-125, 405-407).  Lengths and positions are in    *)
(* bytes; a u32 or u64 never overflows for lengths a torrent has.          *)
(***************************************************************************)
EXTENDS Integers, Sequences

CONSTANT BLOCK_SIZE     \* 2^14 in the code

ASSUME BlockSizeAssumption == BLOCK_SIZE \in Nat \ {0}

U16 == 65536

\* Mutant: the last, shorter piece is not counted.
NumPiecesDown(length, piece_length) == length \div piece_length

num_pieces(length, piece_length) == (length + piece_length - 1) \div piece_length

get_piece_length(length, piece_length, i) ==
    LET begin == i * piece_length
    IN  IF begin + piece_length > length THEN length - begin ELSE piece_length

\* Mutant: a piece of whole blocks counts one more.
NumBlocksUp(length) == (length \div BLOCK_SIZE + 1) % U16

\* Mutant: the last, shorter block is not counted.
NumBlocksDown(length) == (length \div BLOCK_SIZE) % U16

num_blocks(length) == ((length + BLOCK_SIZE - 1) \div BLOCK_SIZE) % U16

\* The length of the block that is requested next.
block_len(length, requested) ==
    IF length - requested > BLOCK_SIZE THEN BLOCK_SIZE ELSE length - requested

\* Mutant: nothing gives way, as in `splice(begin..begin, ..)'.
SpliceInserts(bytes, begin, end, others) ==
    SubSeq(bytes, 1, begin) \o others \o SubSeq(bytes, begin + 1, Len(bytes))

\* Vec::splice: the elements from begin up to end give way to others.
splice(bytes, begin, end, others) ==
    SubSeq(bytes, 1, begin) \o others \o SubSeq(bytes, end + 1, Len(bytes))

\* Slicing and splicing past the end panic.
InBounds(bytes, begin, end) == begin <= end /\ end <= Len(bytes)

zeros(n) == [i \in 1..n |-> 0]
=============================================================================
