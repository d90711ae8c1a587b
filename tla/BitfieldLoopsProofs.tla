------------------------ MODULE BitfieldLoopsProofs ------------------------
(***************************************************************************)
(* That the loops of the bitfield, run one iteration at a time on the bits *)
(* of its bytes, do what PiecePicker says they do in one step, for any     *)
(* number of pieces.                                                       *)
(***************************************************************************)
EXTENDS BitfieldLoops, FiniteSetTheorems, TLAPS

Owned == {i \in Pieces : has(i)}

LoopsTypeOK ==
    /\ ownership \in [Buckets -> SUBSET (0..7)]
    /\ cur \in Pieces
    /\ confirmed \in 0..TotalPieces
    /\ running \in {"none", "pick_piece", "set"}
    /\ answer \in 0..TotalPieces
    /\ panicked \in BOOLEAN
    /\ before \in [own : SUBSET Pieces, cur : Pieces, confirmed : 0..TotalPieces]

\* Every bit that is 1 is the bit of a piece.
PaddingZero == \A b \in Buckets : \A o \in ownership[b] : 8 * b + (7 - o) \in Pieces

\* `c' is the first piece missing from `own'.
FirstMissing(own, c) == c \notin own /\ \A j \in Pieces : j < c => j \in own

\* pick_piece has looked at the pieces from where it began to `cur', or at all
\* of them up to the last one and is back at `confirmed'.
Searching ==
    /\ Owned = before.own
    /\ confirmed = before.confirmed
    /\ \/ before.cur <= cur /\ \A j \in before.cur..(cur - 1) : j \in Owned
       \/ cur = confirmed /\ \A j \in before.cur..(TotalPieces - 1) : j \in Owned
    /\ confirmed >= TotalPieces => cur = before.cur

\* set has added the piece `before.confirmed', and `confirmed' has moved over
\* owned pieces only.
Advancing ==
    /\ before.confirmed \in Pieces
    /\ Owned = before.own \cup {before.confirmed}
    /\ cur = before.cur
    /\ confirmed > before.confirmed
    /\ \A j \in before.confirmed..(confirmed - 1) : j \in Owned

LoopsInv ==
    /\ LoopsTypeOK
    /\ PaddingZero
    /\ FirstMissing(before.own, before.confirmed)
    /\ running = "none" => FirstMissing(Owned, confirmed)
    /\ running = "pick_piece" => Searching
    /\ running = "set" => Advancing

-----------------------------------------------------------------------------

LEMMA Total == TotalPieces \in Nat /\ TotalPieces > 0
  BY TotalPiecesLoopsAssumption

\* Each piece has a bit of its own, and each bit is that of one number.
LEMMA BitOfPiece ==
  ASSUME NEW i \in Nat
  PROVE  /\ bucket(i) \in Nat /\ offset(i) \in 0..7
         /\ 8 * bucket(i) + (7 - offset(i)) = i
  BY DEF bucket, offset

LEMMA PieceOfBit ==
  ASSUME NEW b \in Nat, NEW o \in 0..7
  PROVE  /\ 8 * b + (7 - o) \in Nat
         /\ bucket(8 * b + (7 - o)) = b /\ offset(8 * b + (7 - o)) = o
  BY DEF bucket, offset

\* The vector has a bit for every piece.
LEMMA PieceInBounds ==
  ASSUME NEW i \in Pieces
  PROVE  i \in Nat /\ InBounds(i)
  BY Total DEF Pieces, InBounds, Buckets, bucket

\* Among the positions `confirmed' takes, the vector ends at its capacity.
LEMMA EndOfVector ==
  ASSUME NEW c \in 0..TotalPieces
  PROVE  ~InBounds(c) <=> c = Picker!Capacity
  BY Total DEF InBounds, Buckets, bucket, Picker!Capacity, Picker!Bits

LEMMA CapacityHolds == Picker!Capacity \in Nat /\ Picker!Capacity >= TotalPieces
  BY Total DEF Picker!Capacity, Picker!Bits

\* Storing the bit of a piece adds that piece and no other.
LEMMA SetBit ==
  ASSUME LoopsTypeOK, PaddingZero, NEW i \in Pieces,
         ownership' = [ownership EXCEPT ![bucket(i)] = @ \cup {offset(i)}]
  PROVE  /\ ownership' \in [Buckets -> SUBSET (0..7)]
         /\ PaddingZero'
         /\ Owned' = Owned \cup {i}
<1>1. i \in Nat /\ bucket(i) \in Buckets /\ offset(i) \in 0..7
  BY PieceInBounds, BitOfPiece DEF InBounds
<1>2. ownership \in [Buckets -> SUBSET (0..7)]
  BY DEF LoopsTypeOK
<1>3. ownership' \in [Buckets -> SUBSET (0..7)]
  BY <1>1, <1>2
<1>4. ASSUME NEW b \in Buckets, NEW o
      PROVE  o \in ownership'[b] <=> o \in ownership[b] \/ (b = bucket(i) /\ o = offset(i))
  BY <1>1, <1>2
<1>5. PaddingZero'
  <2>1. ASSUME NEW b \in Buckets, NEW o \in ownership'[b]
        PROVE  8 * b + (7 - o) \in Pieces
    <3>1. CASE o \in ownership[b]
      BY <3>1 DEF PaddingZero
    <3>2. CASE b = bucket(i) /\ o = offset(i)
      BY <3>2, <1>1, BitOfPiece
    <3> QED
      BY <1>4, <3>1, <3>2
  <2>2. Buckets' = Buckets /\ Pieces' = Pieces
    BY DEF Buckets, Pieces
  <2> QED
    BY <2>1, <2>2 DEF PaddingZero
<1>6. ASSUME NEW j \in Pieces
      PROVE  has(j)' <=> has(j) \/ j = i
  <2>1. j \in Nat /\ bucket(j) \in Buckets
    BY PieceInBounds DEF InBounds
  <2>2. has(j)' <=> offset(j) \in ownership'[bucket(j)]
    BY DEF has, offset, bucket
  <2>3. bucket(j) = bucket(i) /\ offset(j) = offset(i) => j = i
    BY <1>1, <2>1, BitOfPiece
  <2> QED
    BY <1>4, <2>1, <2>2, <2>3 DEF has
<1> QED
  BY <1>3, <1>5, <1>6 DEF Owned, Pieces

\* Where no bit is stored, no piece comes or goes.
LEMMA SameBits ==
  ASSUME UNCHANGED ownership
  PROVE  Owned' = Owned /\ PaddingZero' = PaddingZero
  BY DEF Owned, Pieces, has, PaddingZero, Buckets, bucket, offset

\* A set bit inside the vector is that of a piece.
LEMMA HasIsOwned ==
  ASSUME LoopsTypeOK, PaddingZero, NEW c \in 0..TotalPieces
  PROVE  /\ c \in Owned <=> InBounds(c) /\ has(c)
         /\ c \in Owned => c < TotalPieces
<1>1. c \in Nat
  BY Total
<1>2. c \in Pieces <=> c < TotalPieces
  BY Total DEF Pieces
<1>3. ASSUME InBounds(c), has(c)
      PROVE  c \in Pieces
  <2>1. 8 * bucket(c) + (7 - offset(c)) \in Pieces
    BY <1>3 DEF InBounds, has, PaddingZero
  <2> QED
    BY <1>1, <2>1, BitOfPiece
<1> QED
  BY <1>2, <1>3, PieceInBounds DEF Owned

LEMMA SeenIs == Seen = [own |-> Owned, cur |-> cur, confirmed |-> confirmed]
  BY DEF Seen, Owned

-----------------------------------------------------------------------------

LEMMA LoopsInitOK == Init => LoopsInv
<1> SUFFICES ASSUME Init PROVE LoopsInv
  OBVIOUS
<1>1. Owned = {}
  <2>1. ASSUME NEW i \in Pieces PROVE ~has(i)
    BY PieceInBounds DEF Init, has, InBounds
  <2> QED
    BY <2>1 DEF Owned
<1>2. before = [own |-> {}, cur |-> 0, confirmed |-> 0]
  BY <1>1, SeenIs DEF Init
<1>3. LoopsTypeOK
  <2>1. 0 \in Pieces /\ 0 \in 0..TotalPieces /\ TotalPieces \in 0..TotalPieces
    BY Total DEF Pieces
  <2>2. ownership \in [Buckets -> SUBSET (0..7)]
    BY DEF Init
  <2>3. /\ cur = 0 /\ confirmed = 0 /\ running = "none"
        /\ answer = TotalPieces /\ panicked = FALSE
    BY DEF Init
  <2> QED
    BY <1>2, <2>1, <2>2, <2>3 DEF LoopsTypeOK
<1>4. PaddingZero
  BY DEF Init, PaddingZero
<1> QED
  BY <1>1, <1>2, <1>3, <1>4, Total DEF Init, LoopsInv, FirstMissing, Pieces

LEMMA CallPickOK == LoopsInv /\ CallPick => LoopsInv'
<1> SUFFICES ASSUME LoopsInv, CallPick PROVE LoopsInv'
  OBVIOUS
<1>1. /\ LoopsTypeOK /\ PaddingZero /\ FirstMissing(Owned, confirmed)
      /\ UNCHANGED <<ownership, cur, confirmed, panicked>>
      /\ before' = [own |-> Owned, cur |-> cur, confirmed |-> confirmed]
      /\ running' = "pick_piece" /\ answer' = answer
  BY Total, SeenIs DEF LoopsInv, CallPick, LoopsTypeOK, Pieces
<1>2. Owned' = Owned /\ PaddingZero' /\ Pieces' = Pieces
  BY <1>1, SameBits DEF Pieces
<1>3. LoopsTypeOK'
  BY <1>1, <1>2 DEF LoopsTypeOK, Owned, Buckets
<1>4. FirstMissing(before.own, before.confirmed)'
  BY <1>1, <1>2 DEF FirstMissing
<1>5. Searching'
  <2>1. cur \in Nat
    BY <1>1, Total DEF LoopsTypeOK, Pieces
  <2> QED
    BY <1>1, <1>2, <2>1 DEF Searching
<1> QED
  BY <1>1, <1>2, <1>3, <1>4, <1>5 DEF LoopsInv

LEMMA PickIterationOK == LoopsInv /\ PickIteration => LoopsInv'
<1> SUFFICES ASSUME LoopsInv, PickIteration PROVE LoopsInv'
  OBVIOUS
<1>1. /\ LoopsTypeOK /\ PaddingZero /\ FirstMissing(before.own, before.confirmed)
      /\ Searching /\ confirmed < TotalPieces
      /\ UNCHANGED <<ownership, confirmed, panicked, before>>
      /\ cur' = IF cur + 1 = TotalPieces THEN confirmed ELSE cur + 1
      /\ cur \in Nat /\ cur < TotalPieces /\ confirmed \in Nat /\ cur \in Pieces
      /\ before.cur \in Nat /\ before.cur < TotalPieces /\ TotalPieces \in Nat
  BY Total DEF LoopsInv, PickIteration, LoopsTypeOK, Pieces
<1>2. Owned' = Owned /\ PaddingZero' /\ Pieces' = Pieces
  BY <1>1, SameBits DEF Pieces
<1>3. FirstMissing(before.own, before.confirmed)' /\ FirstMissing(Owned, confirmed)
  BY <1>1, <1>2 DEF FirstMissing, Searching
<1>4. cur' \in Pieces
  BY <1>1 DEF Pieces
<1>5. LoopsTypeOK'
  <2>1. answer' \in 0..TotalPieces /\ running' \in {"none", "pick_piece"}
    BY <1>1 DEF PickIteration, LoopsTypeOK
  <2> QED
    BY <1>1, <1>2, <1>4, <2>1 DEF LoopsTypeOK, Buckets
<1>6. CASE has(cur)
  <2>1. running' = "pick_piece"
    BY <1>6 DEF PickIteration
  <2>2. cur \in Owned
    BY <1>1, <1>6 DEF Owned
  <2>3. before.cur <= cur /\ \A j \in before.cur..(cur - 1) : j \in Owned
    BY <1>1, <1>3, <2>2 DEF Searching, FirstMissing
  <2>4. \A j \in before.cur..cur : j \in Owned
    <3> TAKE j \in before.cur..cur
    <3>1. j = cur \/ j \in before.cur..(cur - 1)
      BY <1>1
    <3> QED
      BY <2>2, <2>3, <3>1
  <2>5. Searching'
    <3>1. CASE cur + 1 = TotalPieces
      <4>1. cur' = confirmed /\ cur = TotalPieces - 1
        BY <1>1, <3>1
      <4> QED
        BY <1>1, <1>2, <2>4, <4>1 DEF Searching
    <3>2. CASE cur + 1 # TotalPieces
      <4>1. cur' = cur + 1 /\ cur' - 1 = cur /\ before.cur <= cur'
        BY <1>1, <2>3, <3>2
      <4> QED
        BY <1>1, <1>2, <2>4, <4>1 DEF Searching
    <3> QED
      BY <3>1, <3>2
  <2> QED
    BY <1>2, <1>3, <1>5, <2>1, <2>5 DEF LoopsInv
<1>7. CASE ~has(cur)
  <2>1. running' = "none"
    BY <1>7 DEF PickIteration
  <2>2. FirstMissing(Owned, confirmed)'
    BY <1>1, <1>2, <1>3 DEF FirstMissing
  <2> QED
    BY <1>2, <1>3, <1>5, <2>1, <2>2 DEF LoopsInv
<1> QED
  BY <1>6, <1>7

LEMMA PickExhaustedOK == LoopsInv /\ PickExhausted => LoopsInv'
<1> SUFFICES ASSUME LoopsInv, PickExhausted PROVE LoopsInv'
  OBVIOUS
<1>1. /\ LoopsTypeOK /\ PaddingZero /\ FirstMissing(before.own, before.confirmed)
      /\ Searching
      /\ UNCHANGED <<ownership, cur, confirmed, panicked, before>>
      /\ running' = "none" /\ answer' \in 0..TotalPieces
  BY Total DEF LoopsInv, PickExhausted
<1>2. Owned' = Owned /\ PaddingZero' /\ Pieces' = Pieces
  BY <1>1, SameBits DEF Pieces
<1>3. FirstMissing(before.own, before.confirmed)' /\ FirstMissing(Owned, confirmed)'
  BY <1>1, <1>2 DEF FirstMissing, Searching
<1>4. LoopsTypeOK'
  BY <1>1, <1>2 DEF LoopsTypeOK, Buckets
<1> QED
  BY <1>1, <1>2, <1>3, <1>4 DEF LoopsInv

LEMMA CallSetOK == \A i \in Pieces : LoopsInv /\ CallSet(i) => LoopsInv'
<1> SUFFICES ASSUME NEW i \in Pieces, LoopsInv, CallSet(i) PROVE LoopsInv'
  OBVIOUS
<1>1. /\ LoopsTypeOK /\ PaddingZero /\ FirstMissing(Owned, confirmed)
      /\ ownership' = [ownership EXCEPT ![bucket(i)] = @ \cup {offset(i)}]
      /\ before' = [own |-> Owned, cur |-> cur, confirmed |-> confirmed]
      /\ UNCHANGED <<cur, answer, panicked>>
      /\ i \in Nat /\ i < TotalPieces /\ TotalPieces \in Nat /\ confirmed \in 0..TotalPieces
  BY Total, SeenIs DEF LoopsInv, CallSet, LoopsTypeOK, Pieces
<1>2. /\ ownership' \in [Buckets -> SUBSET (0..7)] /\ PaddingZero'
      /\ Owned' = Owned \cup {i} /\ Pieces' = Pieces
  BY <1>1, SetBit DEF Pieces
<1>3. confirmed' \in 0..TotalPieces /\ running' \in {"none", "set"}
  BY <1>1 DEF CallSet, LoopsInv
<1>4. LoopsTypeOK'
  BY <1>1, <1>2, <1>3 DEF LoopsTypeOK, Owned, Buckets
<1>5. FirstMissing(before.own, before.confirmed)'
  BY <1>1, <1>2 DEF FirstMissing
<1>6. CASE confirmed = i
  <2>1. running' = "set" /\ confirmed' = i + 1
    BY <1>6 DEF CallSet
  <2>2. Advancing'
    BY <1>1, <1>2, <1>6, <2>1 DEF Advancing
  <2> QED
    BY <1>2, <1>4, <1>5, <2>1, <2>2 DEF LoopsInv
<1>7. CASE confirmed # i
  <2>1. running' = "none" /\ confirmed' = confirmed
    BY <1>7 DEF CallSet, LoopsInv
  <2>2. FirstMissing(Owned, confirmed)'
    BY <1>1, <1>2, <1>7, <2>1 DEF FirstMissing
  <2> QED
    BY <1>2, <1>4, <1>5, <2>1, <2>2 DEF LoopsInv
<1> QED
  BY <1>6, <1>7

LEMMA SetIterationOK == LoopsInv /\ SetIteration => LoopsInv'
<1> SUFFICES ASSUME LoopsInv, SetIteration PROVE LoopsInv'
  OBVIOUS
<1>1. /\ LoopsTypeOK /\ PaddingZero /\ FirstMissing(before.own, before.confirmed)
      /\ Advancing
      /\ UNCHANGED <<ownership, cur, answer, before>>
      /\ confirmed \in 0..TotalPieces /\ confirmed \in Nat /\ TotalPieces \in Nat
      /\ before.confirmed \in Nat
  BY Total DEF LoopsInv, SetIteration, LoopsTypeOK, Pieces
<1>2. Owned' = Owned /\ PaddingZero' /\ Pieces' = Pieces
  BY <1>1, SameBits DEF Pieces
<1>3. FirstMissing(before.own, before.confirmed)'
  BY <1>1, <1>2 DEF FirstMissing
<1>4. panicked' \in BOOLEAN
  BY DEF SetIteration
<1>5. CASE InBounds(confirmed) /\ has(confirmed)
  <2>1. confirmed' = confirmed + 1 /\ running' = "set"
    BY <1>5 DEF SetIteration
  <2>2. confirmed \in Owned /\ confirmed < TotalPieces
    BY <1>1, <1>5, HasIsOwned
  <2>3. LoopsTypeOK'
    BY <1>1, <1>2, <1>4, <2>1, <2>2 DEF LoopsTypeOK, Buckets
  <2>4. \A j \in before.confirmed..confirmed : j \in Owned
    <3> TAKE j \in before.confirmed..confirmed
    <3>1. j = confirmed \/ j \in before.confirmed..(confirmed - 1)
      BY <1>1
    <3> QED
      BY <1>1, <2>2, <3>1 DEF Advancing
  <2>5. Advancing'
    <3>1. confirmed' - 1 = confirmed /\ confirmed' > before.confirmed
      BY <1>1, <2>1 DEF Advancing
    <3> QED
      BY <1>1, <1>2, <2>4, <3>1 DEF Advancing
  <2> QED
    BY <1>2, <1>3, <2>1, <2>3, <2>5 DEF LoopsInv
<1>6. CASE ~(InBounds(confirmed) /\ has(confirmed))
  <2>1. confirmed' = confirmed /\ running' = "none"
    BY <1>6 DEF SetIteration
  <2>2. confirmed \notin Owned
    BY <1>1, <1>6, HasIsOwned
  <2>3. LoopsTypeOK'
    BY <1>1, <1>2, <1>4, <2>1, <2>2 DEF LoopsTypeOK, Buckets
  <2>4. \A j \in Pieces : j < confirmed => j \in Owned
    <3> TAKE j \in Pieces
    <3>1. j \in Nat
      BY Total DEF Pieces
    <3>2. j < confirmed => j < before.confirmed \/ j \in before.confirmed..(confirmed - 1)
      BY <1>1, <3>1
    <3> QED
      BY <1>1, <3>2 DEF Advancing, FirstMissing
  <2>5. FirstMissing(Owned, confirmed)'
    BY <1>2, <2>1, <2>2, <2>4 DEF FirstMissing
  <2> QED
    BY <1>2, <1>3, <2>1, <2>3, <2>5 DEF LoopsInv
<1> QED
  BY <1>5, <1>6

LEMMA LoopsStutterOK == LoopsInv /\ UNCHANGED vars => LoopsInv'
<1> SUFFICES ASSUME LoopsInv, UNCHANGED vars PROVE LoopsInv'
  OBVIOUS
<1>1. UNCHANGED <<ownership, cur, confirmed, running, answer, panicked, before>>
  BY DEF vars
<1>2. Owned' = Owned /\ PaddingZero' = PaddingZero /\ Pieces' = Pieces
  BY <1>1, SameBits DEF Pieces
<1> QED
  BY <1>1, <1>2
  DEF LoopsInv, LoopsTypeOK, FirstMissing, Searching, Advancing, Buckets

LEMMA LoopsInvInductive == LoopsInv /\ [Next]_vars => LoopsInv'
  BY CallPickOK, PickIterationOK, PickExhaustedOK, CallSetOK, SetIterationOK, LoopsStutterOK
  DEF Next, Iterate

LEMMA LoopsInvHolds == Spec => []LoopsInv
  BY LoopsInitOK, LoopsInvInductive, PTL DEF Spec

-----------------------------------------------------------------------------

\* Between two calls and in the middle of one, `confirmed' is the first missing
\* piece and `cur' indexes a piece (bitfield.rs:34-38, 99-105).
THEOREM LoopsPositionsExact == Spec => []PositionsExact
<1>1. LoopsInv => PositionsExact
  <2> SUFFICES ASSUME LoopsInv PROVE PositionsExact
    OBVIOUS
  <2> DEFINE bf == IF running = "none" THEN Seen ELSE before
  <2>1. /\ cur < TotalPieces /\ before.cur < TotalPieces
        /\ FirstMissing(before.own, before.confirmed)
        /\ running = "none" => FirstMissing(Owned, confirmed)
    BY Total DEF LoopsInv, LoopsTypeOK, Pieces
  <2>2. FirstMissing(bf.own, bf.confirmed) /\ bf.cur < TotalPieces
    BY <2>1, SeenIs
  <2> QED
    BY <2>2 DEF PositionsExact, Picker!PositionsExact, Picker!ConfirmedExact,
                Picker!CurInRange, FirstMissing, Picker!Pieces, Pieces
<1> QED
  BY <1>1, LoopsInvHolds, PTL

\* The 1 bits of the vector are as many as the owned pieces.
LEMMA OnesAreOwned ==
  ASSUME LoopsTypeOK, PaddingZero
  PROVE  /\ IsFiniteSet(Owned) /\ Cardinality(Owned) \in Nat
         /\ Cardinality(Ones) = Cardinality(Owned)
<1> DEFINE f == [i \in Owned |-> <<bucket(i), offset(i)>>]
<1>1. IsFiniteSet(Pieces)
  BY Total, FS_Interval DEF Pieces
<1>2. IsFiniteSet(Owned) /\ Cardinality(Owned) \in Nat
  BY <1>1, FS_Subset, FS_CardinalityType DEF Owned
<1>3. ASSUME NEW i \in Owned
      PROVE  i \in Nat /\ f[i] \in Ones
  <2>1. i \in Pieces /\ has(i)
    BY DEF Owned
  <2>2. i \in Nat /\ bucket(i) \in Buckets /\ offset(i) \in 0..7
    BY <2>1, PieceInBounds, BitOfPiece DEF InBounds
  <2> QED
    BY <2>1, <2>2 DEF Ones, has
<1>4. ASSUME NEW i \in Owned, NEW j \in Owned, f[i] = f[j]
      PROVE  i = j
  <2>1. bucket(i) = bucket(j) /\ offset(i) = offset(j)
    BY <1>4
  <2> QED
    BY <1>3, <2>1, BitOfPiece
<1>5. ASSUME NEW bit \in Ones
      PROVE  \E i \in Owned : f[i] = bit
  <2>1. PICK b \in Buckets, o \in 0..7 : bit = <<b, o>>
    BY DEF Ones
  <2>2. o \in ownership[b] /\ b \in Nat
    BY <2>1, Total DEF Ones, Buckets
  <2>3. 8 * b + (7 - o) \in Pieces
    BY <2>2 DEF PaddingZero
  <2>4. bucket(8 * b + (7 - o)) = b /\ offset(8 * b + (7 - o)) = o
    BY <2>2, PieceOfBit
  <2>5. 8 * b + (7 - o) \in Owned
    BY <2>2, <2>3, <2>4 DEF Owned, has
  <2> QED
    BY <2>1, <2>4, <2>5
<1>6. f \in Bijection(Owned, Ones)
  <2>1. f \in [Owned -> Ones]
    BY <1>3
  <2> HIDE DEF f
  <2>2. f \in Injection(Owned, Ones)
    BY <1>4, <2>1 DEF Injection, IsInjective
  <2>3. f \in Surjection(Owned, Ones)
    BY <1>5, <2>1 DEF Surjection
  <2> QED
    BY <2>2, <2>3 DEF Bijection
<1>7. Cardinality(Ones) = Cardinality(Owned)
  <2> HIDE DEF f
  <2>1. ExistsBijection(Owned, Ones)
    BY <1>6 DEF ExistsBijection
  <2> QED
    BY <1>2, <2>1, FS_Bijection
<1> QED
  BY <1>2, <1>7

\* remaining() counts the missing pieces.
LEMMA RemainingIs ==
  ASSUME LoopsTypeOK, PaddingZero
  PROVE  /\ remaining = Cardinality(Pieces \ Owned)
         /\ IsFiniteSet(Pieces \ Owned)
<1>1. IsFiniteSet(Pieces) /\ Cardinality(Pieces) = TotalPieces
  <2>1. IsFiniteSet(0..(TotalPieces - 1))
        /\ Cardinality(0..(TotalPieces - 1)) =
             IF 0 > TotalPieces - 1 THEN 0 ELSE (TotalPieces - 1) - 0 + 1
    BY Total, FS_Interval
  <2> QED
    BY <2>1, Total DEF Pieces
<1>2. Pieces \cap Owned = Owned
  BY DEF Owned
<1>3. /\ IsFiniteSet(Pieces \ Owned)
      /\ Cardinality(Pieces \ Owned) = Cardinality(Pieces) - Cardinality(Owned)
  BY <1>1, <1>2, FS_Difference
<1> QED
  BY <1>1, <1>3, OnesAreOwned DEF remaining

\* Counting the 1 bits counts the owned pieces: the padding of the last byte is
\* never touched (bitfield.rs:108-116).
THEOREM LoopsPaddingStaysClear == Spec => []PaddingStaysClear
<1>1. LoopsInv => PaddingStaysClear
  <2>1. {i \in Pieces : ~has(i)} = Pieces \ Owned
    BY DEF Owned
  <2> QED
    BY <2>1, RemainingIs DEF LoopsInv, PaddingStaysClear
<1> QED
  BY <1>1, LoopsInvHolds, PTL

\* Between two calls, nothing remains exactly when pick_piece has nothing to
\* offer (bitfield.rs:70-76, 108-116).
THEOREM LoopsEndsAgree == Spec => []EndsAgree
<1>1. LoopsInv => EndsAgree
  <2> SUFFICES ASSUME LoopsInv, running = "none"
               PROVE  (remaining = 0) <=> (confirmed >= TotalPieces)
    BY DEF EndsAgree
  <2>1. LoopsTypeOK /\ PaddingZero /\ FirstMissing(Owned, confirmed)
    BY DEF LoopsInv
  <2>2. (remaining = 0) <=> (Pieces \ Owned = {})
    BY <2>1, RemainingIs, FS_EmptySet
  <2>3. confirmed \in 0..TotalPieces
    BY <2>1 DEF LoopsTypeOK
  <2>4. CASE confirmed >= TotalPieces
    <3>1. \A j \in Pieces : j < confirmed
      BY <2>3, <2>4, Total DEF Pieces
    <3> QED
      BY <2>1, <2>2, <2>4, <3>1 DEF FirstMissing
  <2>5. CASE ~(confirmed >= TotalPieces)
    <3>1. confirmed \in Pieces \ Owned
      BY <2>1, <2>3, <2>5, Total DEF Pieces, FirstMissing
    <3> QED
      BY <2>2, <2>5, <3>1
  <2> QED
    BY <2>4, <2>5
<1> QED
  BY <1>1, LoopsInvHolds, PTL

-----------------------------------------------------------------------------

\* The bitfield PiecePicker sees.
Abstract == IF running = "none" THEN Seen ELSE before

\* A smallest number is the only one there is.
LEMMA SmallestUnique ==
  ASSUME NEW S \in SUBSET Nat, NEW x \in S, \A j \in S : x <= j
  PROVE  Picker!Smallest(S) = x
<1>1. Picker!Smallest(S) \in S /\ \A j \in S : Picker!Smallest(S) <= j
  BY DEF Picker!Smallest
<1>2. Picker!Smallest(S) \in Nat /\ x \in Nat
  BY <1>1
<1>3. Picker!Smallest(S) <= x /\ x <= Picker!Smallest(S)
  BY <1>1
<1> QED
  BY <1>2, <1>3

\* What each step of the loops is to PiecePicker.
Simulated == Picker!Next \/ UNCHANGED <<Abstract, answer, panicked>>

\* A call of pick_piece begins: nothing has happened yet.
LEMMA CallPickSimulated == LoopsInv /\ CallPick => Simulated
<1> SUFFICES ASSUME LoopsInv, CallPick PROVE UNCHANGED <<Abstract, answer, panicked>>
  BY DEF Simulated
<1>1. /\ running = "none" /\ running' = "pick_piece" /\ before' = Seen
      /\ UNCHANGED <<answer, panicked>>
  BY Total DEF LoopsInv, CallPick, LoopsTypeOK, Pieces
<1> QED
  BY <1>1 DEF Abstract

\* An owned piece is passed over, or the piece found is the one PiecePicker picks.
LEMMA PickIterationSimulated == LoopsInv /\ PickIteration => Simulated
<1> SUFFICES ASSUME LoopsInv, PickIteration PROVE Simulated
  OBVIOUS
<1>1. /\ LoopsTypeOK /\ Searching /\ FirstMissing(before.own, before.confirmed)
      /\ running = "pick_piece" /\ confirmed < TotalPieces
      /\ UNCHANGED <<ownership, confirmed, panicked, before>>
      /\ cur' = IF cur + 1 = TotalPieces THEN confirmed ELSE cur + 1
      /\ cur \in Nat /\ cur < TotalPieces /\ cur \in Pieces /\ confirmed \in Nat
      /\ before.cur \in Nat /\ before.cur < TotalPieces /\ TotalPieces \in Nat
      /\ before = [own |-> before.own, cur |-> before.cur, confirmed |-> before.confirmed]
  BY Total DEF LoopsInv, PickIteration, LoopsTypeOK, Pieces
<1>2. Abstract = before
  BY <1>1 DEF Abstract
<1>3. CASE has(cur)
  <2>1. running' = "pick_piece" /\ answer' = answer
    BY <1>1, <1>3 DEF PickIteration
  <2> QED
    BY <1>1, <1>2, <2>1 DEF Simulated, Abstract
<1>4. CASE ~has(cur)
  <2>1. running' = "none" /\ answer' = cur
    BY <1>4 DEF PickIteration
  <2>2. /\ cur \notin before.own /\ confirmed = before.confirmed
        /\ before.own = Owned /\ Owned' = Owned
    BY <1>1, <1>4, SameBits DEF Searching, Owned
  <2> DEFINE ahead == {i \in before.cur..(TotalPieces - 1) : ~Picker!has(before, i)}
             again == {i \in before.confirmed..(TotalPieces - 1) : ~Picker!has(before, i)}
  <2>3. Picker!Picked(before) = IF ahead # {} THEN Picker!Smallest(ahead)
                                              ELSE Picker!Smallest(again)
    BY DEF Picker!Picked
  <2>4. ahead \in SUBSET Nat /\ again \in SUBSET Nat
    BY <1>1, <2>2
  <2>5. Picker!Picked(before) = cur
    <3>1. CASE before.cur <= cur /\ \A j \in before.cur..(cur - 1) : j \in Owned
      <4>1. cur \in ahead
        BY <1>1, <2>2, <3>1 DEF Picker!has
      <4>2. ASSUME NEW j \in ahead PROVE cur <= j
        <5>1. j \in Nat /\ before.cur <= j /\ j \notin before.own
          BY <1>1 DEF Picker!has
        <5> QED
          BY <1>1, <2>2, <3>1, <5>1
      <4> HIDE DEF ahead, again
      <4> QED
        BY <2>3, <2>4, <4>1, <4>2, SmallestUnique
    <3>2. CASE cur = confirmed /\ \A j \in before.cur..(TotalPieces - 1) : j \in Owned
      <4>1. ahead = {}
        BY <2>2, <3>2 DEF Picker!has
      <4>2. cur \in again
        BY <1>1, <2>2, <3>2 DEF Picker!has
      <4>3. \A j \in again : cur <= j
        BY <1>1, <2>2, <3>2
      <4> HIDE DEF ahead, again
      <4> QED
        BY <2>3, <2>4, <4>1, <4>2, <4>3, SmallestUnique
    <3> QED
      BY <1>1, <3>1, <3>2 DEF Searching
  <2>6. Abstract' = [own |-> before.own, cur |-> cur', confirmed |-> before.confirmed]
    <3>1. Abstract' = Seen'
      BY <2>1 DEF Abstract
    <3>2. Seen' = [own |-> Owned', cur |-> cur', confirmed |-> confirmed']
      BY DEF Seen, Owned
    <3> QED
      BY <1>1, <2>2, <3>1, <3>2
  <2>7. Picker!pick_piece(before) =
          [own |-> before.own, cur |-> cur', confirmed |-> before.confirmed]
    <3>1. Picker!pick_piece(before) =
            [before EXCEPT !.cur = Picker!AfterIndex(before, Picker!Picked(before))]
      BY DEF Picker!pick_piece
    <3>2. Picker!AfterIndex(before, cur) = cur'
      BY <1>1, <2>2 DEF Picker!AfterIndex
    <3> QED
      BY <1>1, <2>5, <3>1, <3>2
  <2>8. Picker!pick_some(before)
    BY <1>1, <2>2 DEF Picker!pick_some
  <2>9. Picker!PickSome
    BY <1>1, <1>2, <2>1, <2>5, <2>6, <2>7, <2>8 DEF Picker!PickSome, Abstract
  <2> QED
    BY <2>9 DEF Simulated, Picker!Next
<1> QED
  BY <1>3, <1>4

\* With every piece owned the search ends with no piece.
LEMMA PickExhaustedSimulated == LoopsInv /\ PickExhausted => Simulated
<1> SUFFICES ASSUME LoopsInv, PickExhausted PROVE Simulated
  OBVIOUS
<1>1. /\ LoopsTypeOK /\ Searching /\ running = "pick_piece" /\ running' = "none"
      /\ confirmed >= TotalPieces /\ answer' = TotalPieces
      /\ UNCHANGED <<ownership, cur, confirmed, panicked, before>>
      /\ confirmed \in Nat /\ TotalPieces \in Nat
      /\ before = [own |-> before.own, cur |-> before.cur, confirmed |-> before.confirmed]
  BY Total DEF LoopsInv, PickExhausted, LoopsTypeOK
<1>2. Owned' = Owned
  BY <1>1, SameBits
<1>3. Abstract = before
  BY <1>1 DEF Abstract
<1>4. Abstract' = before
  <2>1. Abstract' = [own |-> Owned', cur |-> cur', confirmed |-> confirmed']
    BY <1>1 DEF Abstract, Seen, Owned
  <2> QED
    BY <1>1, <1>2, <2>1 DEF Searching
<1>5. ~Picker!pick_some(before)
  BY <1>1 DEF Picker!pick_some, Searching
<1>6. Picker!PickNone
  BY <1>1, <1>3, <1>4, <1>5 DEF Picker!PickNone, Picker!NoPiece, Abstract
<1> QED
  BY <1>6 DEF Simulated, Picker!Next

\* set of a piece other than `confirmed' is done at once; with `confirmed' itself
\* the loop is still to run.
LEMMA CallSetSimulated == \A i \in Pieces : LoopsInv /\ CallSet(i) => Simulated
<1> SUFFICES ASSUME NEW i \in Pieces, LoopsInv, CallSet(i) PROVE Simulated
  OBVIOUS
<1>1. /\ LoopsTypeOK /\ PaddingZero /\ running = "none" /\ before' = Seen
      /\ ownership' = [ownership EXCEPT ![bucket(i)] = @ \cup {offset(i)}]
      /\ UNCHANGED <<cur, answer, panicked>>
  BY DEF LoopsInv, CallSet
<1>2. Owned' = Owned \cup {i}
  BY <1>1, SetBit
<1>3. Abstract = [own |-> Owned, cur |-> cur, confirmed |-> confirmed]
  BY <1>1, SeenIs DEF Abstract
<1>4. CASE confirmed = i
  <2>1. running' = "set"
    BY <1>4 DEF CallSet
  <2> QED
    BY <1>1, <2>1 DEF Simulated, Abstract
<1>5. CASE confirmed # i
  <2>1. running' = "none" /\ confirmed' = confirmed
    BY <1>1, <1>5 DEF CallSet
  <2>2. Abstract' = [own |-> Owned \cup {i}, cur |-> cur, confirmed |-> confirmed]
    <3>1. Abstract' = [own |-> Owned', cur |-> cur', confirmed |-> confirmed']
      BY <2>1 DEF Abstract, Seen, Owned
    <3> QED
      BY <1>1, <1>2, <2>1, <3>1
  <2>3. Picker!set(Abstract, i) = Abstract'
    <3>1. Picker!set(Abstract, i) =
            [Abstract EXCEPT !.own = Owned \cup {i}, !.confirmed = confirmed]
      BY <1>3, <1>5 DEF Picker!set
    <3> QED
      BY <1>3, <2>2, <3>1
  <2>4. ~Picker!set_panics(Abstract, i)
    BY <1>3, <1>5 DEF Picker!set_panics
  <2>5. panicked' = (panicked \/ Picker!set_panics(Abstract, i))
    BY <1>1, <2>4 DEF LoopsTypeOK
  <2>6. Picker!Set(i)
    BY <1>1, <2>3, <2>5 DEF Picker!Set, Abstract
  <2> QED
    BY <2>6 DEF Simulated, Picker!Next, Picker!Pieces, Pieces
<1> QED
  BY <1>4, <1>5

\* An owned piece is passed over, or `confirmed' has come where PiecePicker puts
\* it: past the last bit of the vector, if every bit is 1, where the code panics.
LEMMA SetIterationSimulated == LoopsInv /\ SetIteration => Simulated
<1> SUFFICES ASSUME LoopsInv, SetIteration PROVE Simulated
  OBVIOUS
<1>1. /\ LoopsTypeOK /\ PaddingZero /\ Advancing /\ running = "set"
      /\ UNCHANGED <<ownership, cur, answer, before>>
      /\ panicked' = (panicked \/ ~InBounds(confirmed)) /\ panicked \in BOOLEAN
      /\ confirmed \in 0..TotalPieces /\ confirmed \in Nat /\ TotalPieces \in Nat
      /\ before.confirmed \in Nat /\ before.confirmed \in Pieces
      /\ before = [own |-> before.own, cur |-> before.cur, confirmed |-> before.confirmed]
  BY Total DEF LoopsInv, SetIteration, LoopsTypeOK, Pieces, Advancing
<1>2. Owned' = Owned /\ Abstract = before
  BY <1>1, SameBits DEF Abstract
<1>3. CASE InBounds(confirmed) /\ has(confirmed)
  <2>1. running' = "set" /\ panicked' = panicked
    BY <1>1, <1>3 DEF SetIteration
  <2> QED
    BY <1>1, <1>2, <2>1 DEF Simulated, Abstract
<1>4. CASE ~(InBounds(confirmed) /\ has(confirmed))
  <2> DEFINE i == before.confirmed
             clear == {j \in (i + 1)..Picker!Capacity : j \notin Owned}
  <2>1. confirmed' = confirmed /\ running' = "none"
    BY <1>4 DEF SetIteration
  <2>2. confirmed \notin Owned
    BY <1>1, <1>4, HasIsOwned
  <2>3. before.own \cup {i} = Owned /\ cur = before.cur /\ confirmed > i
        /\ \A j \in i..(confirmed - 1) : j \in Owned
    BY <1>1 DEF Advancing
  <2>4. Picker!Smallest(clear) = confirmed
    <3>1. confirmed \in clear
      BY <1>1, <2>2, <2>3, CapacityHolds
    <3>2. clear \in SUBSET Nat
      BY <1>1, CapacityHolds
    <3>3. ASSUME NEW j \in clear PROVE confirmed <= j
      <4>1. j \in Nat /\ i + 1 <= j /\ j \notin Owned
        BY <1>1, CapacityHolds
      <4> QED
        BY <1>1, <2>3, <4>1
    <3> HIDE DEF clear
    <3> QED
      BY <3>1, <3>2, <3>3, SmallestUnique
  <2>5. Picker!FirstClear(Owned, i + 1) = confirmed
    BY <2>4 DEF Picker!FirstClear
  <2>6. Picker!set(before, i) = [own |-> Owned, cur |-> cur, confirmed |-> confirmed]
    <3>1. Picker!set(before, i) =
            [before EXCEPT !.own = Owned,
                           !.confirmed = Picker!FirstClear(Owned, i + 1)]
      BY <1>1, <2>3 DEF Picker!set
    <3> QED
      BY <1>1, <2>3, <2>5, <3>1
  <2>7. Abstract' = Picker!set(before, i)
    <3>1. Abstract' = [own |-> Owned', cur |-> cur', confirmed |-> confirmed']
      BY <2>1 DEF Abstract, Seen, Owned
    <3> QED
      BY <1>1, <1>2, <2>1, <2>6, <3>1
  <2>8. Picker!set_panics(before, i) <=> ~InBounds(confirmed)
    <3>1. Picker!set_panics(before, i) <=> confirmed = Picker!Capacity
      BY <2>6 DEF Picker!set_panics
    <3> QED
      BY <1>1, <3>1, EndOfVector
  <2>9. panicked' = (panicked \/ Picker!set_panics(before, i))
    BY <1>1, <2>8 DEF Picker!set_panics
  <2>10. Picker!Set(i)
    BY <1>1, <1>2, <2>7, <2>9 DEF Picker!Set, Abstract
  <2> QED
    BY <1>1, <2>10 DEF Simulated, Picker!Next, Picker!Pieces, Pieces
<1> QED
  BY <1>3, <1>4

\* The loops implement the single steps of PiecePicker: whatever is called, each
\* pick_piece finds the piece and each set leaves `cur', `confirmed' and the panic
\* that the closed forms name (bitfield.rs:70-106).
THEOREM LoopsImplementPicker == Spec => ImplementsPicker
<1>1. Init => Picker!Init
  <2> SUFFICES ASSUME Init PROVE Picker!Init
    OBVIOUS
  <2>1. Owned = {}
    <3>1. ASSUME NEW i \in Pieces PROVE ~has(i)
      BY PieceInBounds DEF Init, has, InBounds
    <3> QED
      BY <3>1 DEF Owned
  <2> QED
    BY <2>1, SeenIs DEF Init, Picker!Init, Picker!zero, Picker!NoPiece
<1>2. LoopsInv /\ [Next]_vars => [Picker!Next]_(Picker!vars)
  <2>1. LoopsInv /\ Next => Simulated
    BY CallPickSimulated, PickIterationSimulated, PickExhaustedSimulated,
       CallSetSimulated, SetIterationSimulated DEF Next, Iterate
  <2>2. UNCHANGED vars => UNCHANGED <<Abstract, answer, panicked>>
    BY DEF vars, Abstract, Seen, Pieces, has, bucket, offset
  <2>3. Simulated => [Picker!Next]_(Picker!vars)
    BY DEF Simulated, Abstract, Picker!vars
  <2> QED
    BY <2>1, <2>2, <2>3 DEF Simulated
<1> QED
  BY <1>1, <1>2, LoopsInvHolds, PTL DEF Spec, ImplementsPicker
=============================================================================
