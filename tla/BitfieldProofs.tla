--------------------------- MODULE BitfieldProofs ---------------------------
(***************************************************************************)
(* What the methods of the bitfield preserve, for any number of pieces.    *)
(***************************************************************************)
EXTENDS Bitfield, WellFoundedInduction, TLAPS

\* The bitfield is well formed and its two positions are right.
BitfieldOK(bf) == bf \in Bitfields /\ ConfirmedExact(bf) /\ CurInRange(bf)

LEMMA SmallestIs ==
  ASSUME NEW S \in SUBSET Nat, S # {}
  PROVE  Smallest(S) \in S /\ \A j \in S : Smallest(S) <= j
<1>1. PICK x \in S : \A y \in S : ~(<<y, x>> \in OpToRel(<, Nat))
  BY NatLessThanWellFounded, WFMin
<1>2. \A y \in S : x <= y
  <2> TAKE y \in S
  <2>1. x \in Nat /\ y \in Nat
    OBVIOUS
  <2>2. ~(y < x)
    BY <1>1, <2>1 DEF OpToRel
  <2> QED
    BY <2>1, <2>2
<1> QED
  BY <1>2 DEF Smallest

\* Every piece has its bit.
LEMMA CapacityCovers == Capacity \in Nat /\ TotalPieces \in Nat /\ TotalPieces > 0 /\ Capacity >= TotalPieces
  BY TotalPiecesAssumption DEF Capacity, Bits

\* The first clear bit after i is at most the padding that follows the pieces.
LEMMA FirstClearIs ==
  ASSUME NEW own \in SUBSET Pieces, NEW i \in 0..TotalPieces
  PROVE  LET c == FirstClear(own, i)
         IN  /\ c \in i..TotalPieces /\ c \notin own
             /\ \A j \in i..(c - 1) : j \in own
<1> DEFINE S == {j \in i..Capacity : j \notin own}
           c == Smallest(S)
<1>1. /\ TotalPieces \in Nat /\ Capacity \in Nat /\ TotalPieces <= Capacity /\ i \in Nat
      /\ i <= TotalPieces
  BY CapacityCovers
<1>2. TotalPieces \in S
  <2>1. TotalPieces \notin Pieces
    BY <1>1 DEF Pieces
  <2> QED
    BY <1>1, <2>1
<1>3. S \in SUBSET Nat
  BY <1>1
<1>4. c \in S /\ \A j \in S : c <= j
  <2> HIDE DEF S
  <2> QED
    BY <1>2, <1>3, SmallestIs
<1>5. c \in Nat /\ i <= c /\ c <= TotalPieces /\ c \notin own
  BY <1>1, <1>2, <1>3, <1>4
<1>6. ASSUME NEW j \in i..(c - 1)
      PROVE  j \in own
  <2> HIDE DEF c
  <2>1. j \in Nat /\ i <= j /\ j < c /\ j <= Capacity
    BY <1>1, <1>5
  <2>2. j \notin S
    BY <1>3, <1>4, <2>1
  <2> QED
    BY <1>1, <2>1, <2>2
<1>7. c = FirstClear(own, i)
  BY DEF FirstClear
<1> HIDE DEF c
<1> QED
  BY <1>1, <1>5, <1>6, <1>7

\* A new bitfield (bitfield.rs:60-68).
LEMMA ZeroOK == BitfieldOK(zero)
  BY CapacityCovers DEF BitfieldOK, zero, Bitfields, ConfirmedExact, CurInRange, Pieces

\* `set' keeps `confirmed' at the first missing piece (bitfield.rs:95-106).
LEMMA SetOK ==
  ASSUME NEW bf, BitfieldOK(bf), NEW i \in Pieces
  PROVE  BitfieldOK(set(bf, i)) /\ set(bf, i).own = bf.own \cup {i}
<1> DEFINE own == bf.own \cup {i}
           c == IF bf.confirmed = i THEN FirstClear(own, i + 1) ELSE bf.confirmed
           s == set(bf, i)
<1>1. /\ bf.own \in SUBSET Pieces /\ bf.cur \in 0..TotalPieces
      /\ bf.confirmed \in 0..TotalPieces
      /\ bf.cur < TotalPieces
      /\ bf = [own |-> bf.own, cur |-> bf.cur, confirmed |-> bf.confirmed]
  BY DEF BitfieldOK, Bitfields, CurInRange
<1>2. s = [own |-> own, cur |-> bf.cur, confirmed |-> c]
  <2>1. s = [bf EXCEPT !.own = own, !.confirmed = c]
    BY DEF set
  <2> HIDE DEF s, own, c
  <2> QED
    BY <2>1, <1>1
<1>3. own \in SUBSET Pieces
  BY <1>1
<1>4. /\ i \in Nat /\ i < TotalPieces /\ i + 1 \in 0..TotalPieces /\ TotalPieces \in Nat
  BY CapacityCovers DEF Pieces
<1>5. \A j \in Pieces : j < bf.confirmed => j \in bf.own
  BY DEF BitfieldOK, ConfirmedExact
<1>6. bf.confirmed \notin bf.own
  BY DEF BitfieldOK, ConfirmedExact
<1>7. c \in 0..TotalPieces /\ c \notin own /\ \A j \in Pieces : j < c => j \in own
  <2>1. CASE bf.confirmed # i
    BY <2>1, <1>1, <1>5, <1>6
  <2>2. CASE bf.confirmed = i
    <3> DEFINE f == FirstClear(own, i + 1)
    <3>1. f \in (i + 1)..TotalPieces /\ f \notin own /\ \A j \in (i + 1)..(f - 1) : j \in own
      BY <1>3, <1>4, FirstClearIs
    <3>2. c = f
      BY <2>2
    <3> HIDE DEF f
    <3>3. ASSUME NEW j \in Pieces, j < f
          PROVE  j \in own
      <4>1. j \in Nat /\ (j < i \/ j = i \/ j \in (i + 1)..(f - 1))
        BY <3>1, <3>3, <1>4 DEF Pieces
      <4> QED
        BY <4>1, <3>1, <1>5, <2>2
    <3>4. f \in 0..TotalPieces
      BY <3>1, <1>4
    <3> HIDE DEF c
    <3> QED
      BY <3>1, <3>2, <3>3, <3>4
  <2> QED
    BY <2>1, <2>2
<1> HIDE DEF own, c, s
<1>8. s \in Bitfields
  BY <1>1, <1>2, <1>3, <1>7 DEF Bitfields
<1>9. ConfirmedExact(s)
  BY <1>2, <1>7 DEF ConfirmedExact
<1>10. CurInRange(s) /\ s.own = own
  BY <1>1, <1>2 DEF CurInRange
<1> QED
  BY <1>8, <1>9, <1>10 DEF BitfieldOK, s, own

\* pick_piece yields a missing piece, if there is one, and keeps `cur' a piece's
\* index (bitfield.rs:70-88).
LEMMA PickOK ==
  ASSUME NEW bf, BitfieldOK(bf), pick_some(bf)
  PROVE  /\ Picked(bf) \in Pieces /\ Picked(bf) \notin bf.own
         /\ BitfieldOK(pick_piece(bf)) /\ pick_piece(bf).own = bf.own
<1> DEFINE ahead == {i \in bf.cur..(TotalPieces - 1) : ~has(bf, i)}
           again == {i \in bf.confirmed..(TotalPieces - 1) : ~has(bf, i)}
           p == Picked(bf)
           a == AfterIndex(bf, p)
           s == pick_piece(bf)
<1>1. /\ bf.own \in SUBSET Pieces /\ bf.cur \in Nat /\ bf.confirmed \in Nat
      /\ bf.cur < TotalPieces /\ bf.confirmed < TotalPieces
      /\ TotalPieces \in Nat
      /\ bf = [own |-> bf.own, cur |-> bf.cur, confirmed |-> bf.confirmed]
  BY CapacityCovers DEF BitfieldOK, Bitfields, CurInRange, pick_some
<1>2. bf.confirmed \notin bf.own
  BY DEF BitfieldOK, ConfirmedExact
<1>3. bf.confirmed \in again
  BY <1>1, <1>2 DEF has
<1>4. ahead \in SUBSET Nat /\ again \in SUBSET Nat
  BY <1>1
<1>5. p \in ahead \cup again
  <2>1. p = IF ahead # {} THEN Smallest(ahead) ELSE Smallest(again)
    BY DEF Picked
  <2> HIDE DEF ahead, again, p
  <2> QED
    BY <2>1, <1>3, <1>4, SmallestIs
<1>6. p \in Pieces /\ p \notin bf.own
  <2> HIDE DEF p
  <2> QED
    BY <1>1, <1>5 DEF has, Pieces
<1>7. a \in Nat /\ a < TotalPieces
  <2> HIDE DEF p
  <2> QED
    BY <1>1, <1>6 DEF AfterIndex, Pieces
<1>8. s = [own |-> bf.own, cur |-> a, confirmed |-> bf.confirmed]
  <2>1. s = [bf EXCEPT !.cur = a]
    BY DEF pick_piece
  <2> HIDE DEF s, a
  <2> QED
    BY <2>1, <1>1
<1> HIDE DEF p, a, s
<1>9. s \in Bitfields
  BY <1>1, <1>7, <1>8 DEF Bitfields
<1>10. ConfirmedExact(s)
  BY <1>8 DEF BitfieldOK, ConfirmedExact
<1>11. CurInRange(s) /\ s.own = bf.own
  BY <1>7, <1>8 DEF CurInRange
<1> QED
  BY <1>6, <1>9, <1>10, <1>11 DEF BitfieldOK, p, s
=============================================================================
