------------------------------ MODULE Bitfield ------------------------------
(***************************************************************************)
(* The `Bitfield' that the download keeps of its own pieces               *)
(* (src/src/download/bitfield.rs).  A bitfield is a record               *)
(*   own        the pieces whose bit is 1 in `piece_ownership'            *)
(*   cur        where the next `pick_piece' starts to look                *)
(*   confirmed  every piece below this index is owned                     *)
(* This module has the value and its methods only, as pure operators: a    *)
(* method that changes the bitfield returns the changed record.  The loops *)
(* of `set' and `pick_piece' are given in closed form here; module         *)
(* BitfieldLoops runs them one iteration at a time and refines this form. *)
(***************************************************************************)
EXTENDS Integers, FiniteSets

CONSTANT TotalPieces    \* `total_pieces', the number of pieces of the torrent

ASSUME TotalPiecesAssumption == TotalPieces \in Nat \ {0}

Pieces == 0..(TotalPieces - 1)

\* The bits there are in `piece_ownership': whole bytes, the last one padded.
Bits == 8
Capacity == ((TotalPieces + 7) \div 8) * Bits

Bitfields == [own : SUBSET Pieces, cur : 0..TotalPieces, confirmed : 0..TotalPieces]

Smallest(S) == CHOOSE i \in S : \A j \in S : i <= j

-----------------------------------------------------------------------------

zero == [own |-> {}, cur |-> 0, confirmed |-> 0]

has(bf, i) == i \in bf.own

\* Count the zero bits by subtracting the one bits from the number of pieces.
remaining(bf) == TotalPieces - Cardinality(bf.own)

\* The first bit from i on that is 0; the byte after the last one counts as a
\* bit that is 0 too, but reading it is out of bounds (see set_panics).
FirstClear(own, i) == Smallest({j \in i..Capacity : j \notin own})

\* set(piece_idx): own the piece and move `confirmed' over what is now a prefix.
set(bf, i) ==
    LET own == bf.own \cup {i}
    IN  [bf EXCEPT !.own = own,
                   !.confirmed = IF @ = i THEN FirstClear(own, i + 1) ELSE @]

\* The `while self.has(self.confirmed)' of set reads one bit past the vector
\* when every bit of the last byte belongs to a piece and all are owned.
set_panics(bf, i) == bf.confirmed = i /\ set(bf, i).confirmed = Capacity

\* The index pick_piece looks at after i.
AfterIndex(bf, i) == IF i + 1 = TotalPieces THEN bf.confirmed ELSE i + 1

\* Whether pick_piece has a piece to offer ...
pick_some(bf) == bf.confirmed < TotalPieces

\* ... which one: the next piece from `cur' that is not owned, starting over at
\* `confirmed' once the end is reached ...
Picked(bf) ==
    LET ahead == {i \in bf.cur..(TotalPieces - 1) : ~has(bf, i)}
        again == {i \in bf.confirmed..(TotalPieces - 1) : ~has(bf, i)}
    IN  IF ahead # {} THEN Smallest(ahead) ELSE Smallest(again)

\* ... and the bitfield it leaves behind.
pick_piece(bf) == [bf EXCEPT !.cur = AfterIndex(bf, Picked(bf))]

-----------------------------------------------------------------------------

\* `confirmed' is exactly the first piece that is not owned: the field's comment
\* (`We own all the pieces up to this index') and set's (`advance confirmed as
\* much as possible') together.  pick_piece ends its search and tells the end of
\* the download by it.
ConfirmedExact(bf) ==
    /\ \A i \in Pieces : i < bf.confirmed => i \in bf.own
    /\ bf.confirmed \notin bf.own

\* `cur' indexes a piece, so that the next pick_piece reads inside the vector.
CurInRange(bf) == bf.cur < TotalPieces
=============================================================================
