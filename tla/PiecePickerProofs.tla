------------------------- MODULE PiecePickerProofs -------------------------
(***************************************************************************)
(* The bitfield under any sequence of calls, for any number of pieces.     *)
(***************************************************************************)
EXTENDS PiecePicker, BitfieldProofs

\* The positions are right and what was answered is a piece or nothing.
PickerInv ==
    /\ BitfieldOK(bf)
    /\ answer \in Pieces \cup {NoPiece}
    /\ panicked \in BOOLEAN

LEMMA PickerInductive ==
  /\ Init => PickerInv
  /\ PickerInv /\ [Next]_vars => PickerInv'
<1>1. Init => PickerInv
  BY ZeroOK DEF Init, PickerInv
<1>2. PickerInv /\ [Next]_vars => PickerInv'
  <2> SUFFICES ASSUME PickerInv, [Next]_vars
               PROVE  PickerInv'
    OBVIOUS
  <2> USE DEF PickerInv
  <2>1. CASE PickSome
    BY <2>1, PickOK DEF PickSome
  <2>2. CASE PickNone
    BY <2>2 DEF PickNone
  <2>3. ASSUME NEW i \in Pieces, Set(i)
        PROVE  PickerInv'
    <3>1. BitfieldOK(bf')
      BY <2>3, SetOK DEF Set
    <3>2. panicked' \in BOOLEAN
      BY <2>3 DEF Set
    <3> QED
      BY <2>3, <3>1, <3>2 DEF Set
  <2>4. CASE UNCHANGED vars
    BY <2>4 DEF vars
  <2> QED
    BY <2>1, <2>2, <2>3, <2>4 DEF Next
<1> QED
  BY <1>1, <1>2

\* Whatever is picked and set, and in whatever order, `confirmed' is the first
\* missing piece and `cur' indexes a piece (bitfield.rs:34-38, 70-106).
THEOREM PickerPositions == Spec => [](TypeOK /\ PositionsExact)
<1>1. PickerInv => TypeOK /\ PositionsExact
  BY DEF PickerInv, BitfieldOK, TypeOK, PositionsExact
<1> QED
  BY <1>1, PickerInductive, PTL DEF Spec

\* What pick_piece answers is a piece that is not owned (bitfield.rs:83-85).
THEOREM PickerAnswers == Spec => [][PickSome => answer' \in Pieces \ bf.own]_vars
<1>1. PickerInv /\ [Next]_vars => [PickSome => answer' \in Pieces \ bf.own]_vars
  BY PickOK DEF PickerInv, PickSome
<1> QED
  BY <1>1, PickerInductive, PTL DEF Spec
=============================================================================
