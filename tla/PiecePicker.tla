---------------------------- MODULE PiecePicker ----------------------------
(***************************************************************************)
(* What the shared bitfield promises its users, who call `pick_piece' and  *)
(* `set' one call at a time under the mutex (src/src/download/mod.rs locks *)
(* it around every call).  A seed may complete any piece, one that is      *)
(* already owned included: near the end several seeds download the same    *)
(* piece.                                                                  *)
(***************************************************************************)
EXTENDS Bitfield

VARIABLES
    bf,         \* the bitfield
    answer,     \* what the last pick_piece returned: a piece or NoPiece
    panicked    \* a call of set has read outside `piece_ownership'

vars == <<bf, answer, panicked>>

NoPiece == TotalPieces

TypeOK ==
    /\ bf \in Bitfields
    /\ answer \in Pieces \cup {NoPiece}
    /\ panicked \in BOOLEAN

Init ==
    /\ bf = zero
    /\ answer = NoPiece
    /\ panicked = FALSE

PickSome ==
    /\ pick_some(bf)
    /\ answer' = Picked(bf)
    /\ bf' = pick_piece(bf)
    /\ UNCHANGED panicked

PickNone ==
    /\ ~pick_some(bf)
    /\ answer' = NoPiece
    /\ UNCHANGED <<bf, panicked>>

Set(i) ==
    /\ bf' = set(bf, i)
    /\ panicked' = (panicked \/ set_panics(bf, i))
    /\ UNCHANGED answer

Next == PickSome \/ PickNone \/ \E i \in Pieces : Set(i)

Spec == Init /\ [][Next]_vars

-----------------------------------------------------------------------------

\* After any calls, `confirmed' is the first missing piece and `cur' indexes a
\* piece (bitfield.rs:34-38, 99-105): pick_piece relies on both.
PositionsExact == ConfirmedExact(bf) /\ CurInRange(bf)

\* `set' advances `confirmed' without leaving the vector (bitfield.rs:99
\* `advance confirmed as much as possible'; the test at :265-275 has the bitfield
\* with all 8 of 8 pieces owned and confirmed).
SetStaysInside == ~panicked
=============================================================================
