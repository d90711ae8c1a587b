------------------------ MODULE TorrentStorageProofs ------------------------
(***************************************************************************)
(* The arithmetic of pieces and blocks (module Geometry), and that the     *)
(* bytes of a torrent come through the program in place (module            *)
(* TorrentStorage), for every length of the files, pieces and blocks.      *)
(***************************************************************************)
EXTENDS TorrentStorage, FiniteSetTheorems, SequenceTheorems, TLAPS

-----------------------------------------------------------------------------
(* Division and products. *)

\* The quotient is the largest whole number of times p goes into x.
LEMMA Division ==
    ASSUME NEW x \in Nat, NEW p \in Nat \ {0}
    PROVE  /\ x \div p \in Nat
           /\ (x \div p) * p <= x
           /\ x < (x \div p) * p + p
OBVIOUS

\* Products keep the order.
LEMMA TimesMonotone ==
    ASSUME NEW a \in Nat, NEW b \in Nat, NEW p \in Nat, a <= b
    PROVE  a * p <= b * p
OBVIOUS

\* A common factor can be dropped from a comparison.
LEMMA TimesLess ==
    ASSUME NEW a \in Nat, NEW b \in Nat, NEW p \in Nat \ {0}, a * p < b * p
    PROVE  a < b
OBVIOUS

\* One more time p.
LEMMA NextTimes ==
    ASSUME NEW a \in Int, NEW p \in Int
    PROVE  (a + 1) * p = a * p + p
OBVIOUS

\* The division that rounds up gives the number of parts of p that it takes for x:
\* all but the last are full, and the last is not empty.
LEMMA RoundedUp ==
    ASSUME NEW x \in Nat \ {0}, NEW p \in Nat \ {0}, NEW n, n = (x + p - 1) \div p
    PROVE  /\ n \in Nat \ {0}
           /\ n * p >= x
           /\ (n - 1) * p < x
<1>1. x + p - 1 \in Nat
  OBVIOUS
<1>2. n \in Nat /\ n * p <= x + p - 1 /\ x + p - 1 < n * p + p
  BY <1>1, Division
<1>3. n * p \in Nat
  BY <1>2
<1>4. n * p >= x
  BY <1>2, <1>3
<1>5. n # 0
  BY <1>3, <1>4
<1>6. (n - 1) * p = n * p - p
  BY <1>2, NextTimes
<1>7. (n - 1) * p < x
  BY <1>2, <1>3, <1>6
<1> QED
  BY <1>2, <1>4, <1>5, <1>7

-----------------------------------------------------------------------------
(* Pieces. *)

\* No piece is empty or longer than the piece length, and none ends outside the
\* torrent: `length - begin' does not underflow, and the slices and splices that go
\* by it are in bounds (meta_info.rs:43-61, mod.rs:123-125).
THEOREM PieceLengths ==
    ASSUME NEW length \in Nat \ {0}, NEW p \in Nat \ {0},
           NEW i \in 0..(num_pieces(length, p) - 1)
    PROVE  /\ get_piece_length(length, p, i) \in 1..p
           /\ i * p + get_piece_length(length, p, i) <= length
<1> DEFINE n == num_pieces(length, p)
<1>1. n \in Nat \ {0} /\ (n - 1) * p < length
  BY RoundedUp DEF num_pieces
<1>2. i \in Nat /\ n - 1 \in Nat /\ i <= n - 1
  BY <1>1
<1> HIDE DEF n
<1>3. i * p <= (n - 1) * p
  BY <1>2, TimesMonotone
<1>4. i * p \in Nat /\ (n - 1) * p \in Nat
  BY <1>2
<1>5. i * p < length
  BY <1>1, <1>3, <1>4
<1> DEFINE begin == i * p
<1>6. begin \in Nat /\ begin < length
  BY <1>4, <1>5
<1>7. get_piece_length(length, p, i) = IF begin + p > length THEN length - begin ELSE p
  BY DEF get_piece_length
<1> HIDE DEF begin
<1>8. get_piece_length(length, p, i) \in 1..p /\ begin + get_piece_length(length, p, i) <= length
  BY <1>6, <1>7
<1> QED
  BY <1>8 DEF begin

\* Every byte of a torrent is in one piece and in no other: the buffer that the File
\* fills piece by piece has neither a gap nor a byte written by two pieces
\* (meta_info.rs:43-61, mod.rs:108, 123-125).
THEOREM BytesHaveOnePiece ==
    ASSUME NEW length \in Nat \ {0}, NEW p \in Nat \ {0}, NEW k \in 0..(length - 1)
    PROVE  /\ \E i \in 0..(num_pieces(length, p) - 1) :
                 i * p <= k /\ k < i * p + get_piece_length(length, p, i)
           /\ \A i, j \in 0..(num_pieces(length, p) - 1) :
                 /\ i * p <= k /\ k < i * p + get_piece_length(length, p, i)
                 /\ j * p <= k /\ k < j * p + get_piece_length(length, p, j)
                 => i = j
<1> DEFINE n == num_pieces(length, p)
<1>1. n \in Nat \ {0} /\ n * p >= length
  BY RoundedUp DEF num_pieces
<1>2. k \in Nat /\ k < length
  OBVIOUS
<1>3. \E i \in 0..(n - 1) : i * p <= k /\ k < i * p + get_piece_length(length, p, i)
  <2> DEFINE i == k \div p
  <2>1. i \in Nat /\ i * p <= k /\ k < i * p + p
    BY <1>2, Division
  <2> HIDE DEF i, n
  <2>2. i * p \in Nat /\ n * p \in Nat
    BY <1>1, <2>1
  <2>3. i * p < n * p
    BY <1>1, <1>2, <2>1, <2>2
  <2>4. i < n
    BY <1>1, <2>1, <2>3, TimesLess
  <2>5. k < i * p + get_piece_length(length, p, i)
    BY <1>2, <2>1, <2>2 DEF get_piece_length
  <2>6. i \in 0..(n - 1)
    BY <1>1, <2>1, <2>4
  <2> QED
    BY <2>1, <2>5, <2>6
<1>4. ASSUME NEW i \in 0..(n - 1), NEW j \in 0..(n - 1),
             i * p <= k, k < i * p + get_piece_length(length, p, i),
             j * p <= k, k < j * p + get_piece_length(length, p, j)
      PROVE  i = j
  <2>1. get_piece_length(length, p, i) \in 1..p /\ get_piece_length(length, p, j) \in 1..p
    BY PieceLengths
  <2> HIDE DEF n
  <2>2. i \in Nat /\ j \in Nat
    BY <1>1
  <2>3. i * p \in Nat /\ j * p \in Nat /\ (i + 1) * p = i * p + p /\ (j + 1) * p = j * p + p
    BY <2>2, NextTimes
  <2>4. i * p < (j + 1) * p /\ j * p < (i + 1) * p
    BY <1>2, <1>4, <2>1, <2>3
  <2>5. i < j + 1 /\ j < i + 1
    BY <2>2, <2>4, TimesLess
  <2> QED
    BY <2>2, <2>5
<1> QED
  BY <1>3, <1>4

-----------------------------------------------------------------------------
(* Blocks. *)

\* The longest piece whose blocks a u16 counts.
LongestPiece == (U16 - 1) * BLOCK_SIZE

\* The limits are numbers, and there is room for at least one block.
LEMMA LongestPieceType ==
    /\ LongestPiece \in Nat
    /\ U16 \in Nat /\ U16 > 1 /\ U16 - 1 \in Nat
<1>1. U16 \in Nat /\ U16 > 1 /\ U16 - 1 \in Nat
  BY DEF U16
<1>2. BLOCK_SIZE \in Nat
  BY BlockSizeAssumption
<1>3. LongestPiece \in Nat
  BY <1>1, <1>2 DEF LongestPiece
<1> QED
  BY <1>1, <1>3

\* The number of parts before the code cuts it down to a u16.
LEMMA BlocksBeforeCut ==
    ASSUME NEW length \in 1..LongestPiece,
           NEW n, n = (length + BLOCK_SIZE - 1) \div BLOCK_SIZE
    PROVE  /\ n \in 1..(U16 - 1)
           /\ (n - 1) * BLOCK_SIZE < length
           /\ n * BLOCK_SIZE >= length
<1>1. BLOCK_SIZE \in Nat \ {0} /\ length \in Nat \ {0} /\ length <= LongestPiece
  BY BlockSizeAssumption, LongestPieceType
<1>2. n \in Nat \ {0} /\ n * BLOCK_SIZE >= length /\ (n - 1) * BLOCK_SIZE < length
  BY <1>1, RoundedUp
<1>3. n - 1 \in Nat
  BY <1>2
<1>4. (n - 1) * BLOCK_SIZE \in Nat
  BY <1>1, <1>3
<1>5. (n - 1) * BLOCK_SIZE < LongestPiece
  BY <1>1, <1>2, <1>4, LongestPieceType
<1>6. n - 1 < U16 - 1
  BY <1>1, <1>3, <1>5, TimesLess, LongestPieceType DEF LongestPiece
<1>7. n \in 1..(U16 - 1)
  BY <1>2, <1>6, LongestPieceType
<1> QED
  BY <1>2, <1>7

\* A count that fits is not changed when it is cut down to a u16.
LEMMA SmallRemainder ==
    ASSUME NEW n \in 0..(U16 - 1)
    PROVE  n % U16 = n
BY LongestPieceType

\* The number of blocks of a piece, which the code keeps in a u16, is exact for a
\* piece of at most 65535 blocks: it takes that many requests to ask for the whole
\* piece, all but the last of BLOCK_SIZE bytes (mod.rs:493-494, 556-559).  A piece
\* has at least one, which is what module Download assumes of NumBlocks.
THEOREM BlocksFitU16 ==
    ASSUME NEW length \in 1..LongestPiece
    PROVE  /\ num_blocks(length) \in 1..(U16 - 1)
           /\ (num_blocks(length) - 1) * BLOCK_SIZE < length
           /\ num_blocks(length) * BLOCK_SIZE >= length
<1> DEFINE n == (length + BLOCK_SIZE - 1) \div BLOCK_SIZE
<1>1. n \in 1..(U16 - 1) /\ (n - 1) * BLOCK_SIZE < length /\ n * BLOCK_SIZE >= length
  BY BlocksBeforeCut
<1>2. num_blocks(length) = n % U16
  BY DEF num_blocks
<1> HIDE DEF n
<1>3. n \in 0..(U16 - 1)
  BY <1>1, LongestPieceType
<1>4. num_blocks(length) = n
  BY <1>2, <1>3, SmallRemainder
<1> QED
  BY <1>1, <1>4

\* Nothing is left to be asked for once the piece was.
LEMMA NoBlocks == num_blocks(0) = 0
<1> DEFINE x == 0 + BLOCK_SIZE - 1
           q == x \div BLOCK_SIZE
<1>1. BLOCK_SIZE \in Nat \ {0} /\ x \in Nat /\ x < BLOCK_SIZE
  BY BlockSizeAssumption
<1>2. num_blocks(0) = q % U16
  BY DEF num_blocks
<1> HIDE DEF x
<1>3. q \in Nat /\ q * BLOCK_SIZE <= x
  BY <1>1, Division
<1> HIDE DEF q
<1>4. q * BLOCK_SIZE < 1 * BLOCK_SIZE
  <2>1. q * BLOCK_SIZE \in Nat /\ 1 * BLOCK_SIZE = BLOCK_SIZE
    BY <1>1, <1>3
  <2> QED
    BY <1>1, <1>3, <2>1
<1>5. q < 1
  BY <1>1, <1>3, <1>4, TimesLess
<1>6. q = 0
  BY <1>3, <1>5
<1>7. 0 % U16 = 0
  BY SmallRemainder, LongestPieceType
<1> QED
  BY <1>2, <1>6, <1>7

\* The count that fits is unique.
LEMMA CountUnique ==
    ASSUME NEW n \in Nat \ {0}, NEW m \in Nat \ {0}, NEW b \in Nat \ {0}, NEW x \in Nat,
           (n - 1) * b < x, n * b >= x, (m - 1) * b < x, m * b >= x
    PROVE  n = m
<1>1. n - 1 \in Nat /\ m - 1 \in Nat
  OBVIOUS
<1>2. (n - 1) * b \in Nat /\ (m - 1) * b \in Nat /\ n * b \in Nat /\ m * b \in Nat
  BY <1>1
<1>3. (n - 1) * b < m * b /\ (m - 1) * b < n * b
  BY <1>2
<1>4. n - 1 < m /\ m - 1 < n
  BY <1>1, <1>3, TimesLess
<1> QED
  BY <1>4

\* The requests of a piece, each for the bytes after the one before, leave a number
\* of blocks that falls by one each time and is 0 once the whole piece was asked for:
\* what validation is given is complete (mod.rs:556-577, 392, 410).
THEOREM RequestsCountDown ==
    ASSUME NEW length \in 1..LongestPiece, NEW asked \in 0..(length - 1),
           NEW rest, rest = length - asked,
           NEW after, after = rest - block_len(length, asked)
    PROVE  /\ block_len(length, asked) \in 1..BLOCK_SIZE
           /\ after \in Nat
           /\ num_blocks(after) = num_blocks(rest) - 1
<1>1. BLOCK_SIZE \in Nat \ {0} /\ rest \in 1..LongestPiece
  BY BlockSizeAssumption, LongestPieceType
<1>2. block_len(length, asked) = IF rest > BLOCK_SIZE THEN BLOCK_SIZE ELSE rest
  BY DEF block_len
<1>3. block_len(length, asked) \in 1..BLOCK_SIZE /\ after \in Nat
  BY <1>1, <1>2, LongestPieceType
<1> DEFINE n == num_blocks(rest)
<1>4. n \in 1..(U16 - 1) /\ (n - 1) * BLOCK_SIZE < rest /\ n * BLOCK_SIZE >= rest
  BY <1>1, BlocksFitU16
<1> HIDE DEF n
<1>5. n - 1 \in Nat /\ (n - 1) * BLOCK_SIZE = n * BLOCK_SIZE - BLOCK_SIZE /\ n * BLOCK_SIZE \in Nat
  BY <1>1, <1>4, NextTimes, LongestPieceType
<1>6. CASE rest > BLOCK_SIZE
  <2>1. after = rest - BLOCK_SIZE /\ after \in 1..LongestPiece
    BY <1>1, <1>2, <1>6, LongestPieceType
  <2> DEFINE a == num_blocks(after)
  <2>2. a \in 1..(U16 - 1) /\ (a - 1) * BLOCK_SIZE < after /\ a * BLOCK_SIZE >= after
    BY <2>1, BlocksFitU16
  <2> HIDE DEF a
  <2>3. (a + 1) * BLOCK_SIZE = a * BLOCK_SIZE + BLOCK_SIZE
        /\ (a - 1) * BLOCK_SIZE = a * BLOCK_SIZE - BLOCK_SIZE /\ a * BLOCK_SIZE \in Nat
    BY <1>1, <2>2, NextTimes, LongestPieceType
  <2>4. a + 1 \in Nat \ {0} /\ (a + 1) - 1 = a
    BY <2>2, LongestPieceType
  <2>5. rest \in Nat /\ after \in Nat
    BY <1>1, <2>1, LongestPieceType
  <2>6. a * BLOCK_SIZE < rest /\ (a + 1) * BLOCK_SIZE >= rest
    BY <1>1, <2>1, <2>2, <2>3, <2>5
  <2>7. a + 1 = n
    <3>1. n \in Nat \ {0} /\ ((a + 1) - 1) * BLOCK_SIZE < rest
      BY <1>4, <2>4, <2>6, LongestPieceType
    <3> QED
      BY <1>1, <1>4, <2>4, <2>5, <2>6, <3>1, CountUnique
  <2>8. a = n - 1
    BY <1>4, <2>2, <2>7, LongestPieceType
  <2> QED
    BY <1>3, <2>8 DEF a, n
<1>7. CASE ~(rest > BLOCK_SIZE)
  <2>1. after = 0 /\ rest \in Nat \ {0} /\ rest <= BLOCK_SIZE
    BY <1>1, <1>2, <1>7, LongestPieceType
  <2>2. (n - 1) * BLOCK_SIZE < 1 * BLOCK_SIZE
    <3>1. (n - 1) * BLOCK_SIZE \in Nat /\ 1 * BLOCK_SIZE = BLOCK_SIZE
      BY <1>1, <1>5
    <3> QED
      BY <1>1, <1>4, <2>1, <3>1
  <2>3. n - 1 < 1
    BY <1>1, <1>5, <2>2, TimesLess
  <2>4. n = 1
    BY <1>4, <2>3, LongestPieceType
  <2> QED
    BY <1>3, <2>1, <2>4, NoBlocks DEF n
<1> QED
  BY <1>3, <1>6, <1>7 DEF n

-----------------------------------------------------------------------------
(* The sum of the lengths of the files. *)

\* `s' obeys the recursion of LenTo up to n, and is a function to the numbers.
Recurs(s, files, n) == \A i \in 0..n : s[i] = IF i = 0 THEN 0 ELSE s[i - 1] + files[i]
IsSum(s, files, n) == s \in [0..n -> Nat] /\ Recurs(s, files, n)

\* There is such an `s': take the least n for which there is none.
LEMMA SumExists ==
    ASSUME NEW files \in Seq(Nat), NEW n \in 0..Len(files)
    PROVE  \E s : IsSum(s, files, n)
<1> DEFINE Bad == {m \in 0..Len(files) : ~ \E s : IsSum(s, files, m)}
<1>1. Len(files) \in Nat /\ Bad \in SUBSET Nat
  OBVIOUS
<1>2. ASSUME Bad # {} PROVE FALSE
  <2>1. PICK m \in Bad : \A y \in Bad : ~(<<y, m>> \in OpToRel(<, Nat))
    <3> HIDE DEF Bad
    <3> QED
      BY <1>1, <1>2, NatLessThanWellFounded, WFMin
  <2>2. m \in Nat /\ m <= Len(files) /\ ~ \E s : IsSum(s, files, m)
    BY <1>1
  <2>3. CASE m = 0
    <3> DEFINE t == [i \in 0..0 |-> 0]
    <3>1. t \in [0..0 -> Nat] /\ \A i \in 0..0 : i = 0 /\ t[i] = 0
      OBVIOUS
    <3> HIDE DEF t
    <3>2. IsSum(t, files, 0)
      BY <3>1 DEF IsSum, Recurs
    <3> QED
      BY <2>2, <2>3, <3>2
  <2>4. CASE m # 0
    <3>1. m - 1 \in Nat /\ m - 1 < m /\ m - 1 \in 0..Len(files)
      BY <1>1, <2>2, <2>4
    <3>2. m - 1 \notin Bad
      <4> HIDE DEF Bad
      <4> QED
        BY <2>1, <2>2, <3>1 DEF OpToRel
    <3>3. PICK s : IsSum(s, files, m - 1)
      BY <3>1, <3>2
    <3> DEFINE t == [i \in 0..m |-> IF i = m THEN s[m - 1] + files[m] ELSE s[i]]
    <3>4. files[m] \in Nat
      BY <1>1, <2>2, <2>4
    <3>5. s \in [0..(m - 1) -> Nat]
          /\ \A i \in 0..(m - 1) : s[i] = IF i = 0 THEN 0 ELSE s[i - 1] + files[i]
      BY <3>3 DEF IsSum, Recurs
    <3>6. t \in [0..m -> Nat]
      BY <2>2, <3>1, <3>4, <3>5
    <3>7. ASSUME NEW i \in 0..m
          PROVE  t[i] = IF i = 0 THEN 0 ELSE t[i - 1] + files[i]
      <4>1. CASE i = m
        <5>1. t[i] = s[m - 1] + files[m] /\ t[i - 1] = s[m - 1]
          BY <2>2, <2>4, <3>1, <4>1
        <5> QED
          BY <2>4, <4>1, <5>1
      <4>2. CASE i # m
        <5>1. i \in 0..(m - 1) /\ t[i] = s[i] /\ (i # 0 => t[i - 1] = s[i - 1])
          BY <2>2, <3>1, <4>2
        <5> QED
          BY <3>5, <5>1
      <4> QED
        BY <4>1, <4>2
    <3> HIDE DEF t
    <3>8. IsSum(t, files, m)
      BY <3>6, <3>7 DEF IsSum, Recurs
    <3> QED
      BY <2>2, <3>8
  <2> QED
    BY <2>3, <2>4
<1> QED
  BY <1>1, <1>2

\* Whatever obeys the recursion sums up.
LEMMA SumUnique ==
    ASSUME NEW files \in Seq(Nat), NEW n \in Nat, NEW s, IsSum(s, files, n),
           NEW m \in Nat, NEW t,
           Recurs(t, files, m),
           NEW k \in Nat, k <= n, k <= m
    PROVE  t[k] = s[k]
<1> DEFINE Bad == {i \in Nat : i <= n /\ i <= m /\ t[i] # s[i]}
<1>1. Bad \in SUBSET Nat
  OBVIOUS
<1>2. ASSUME Bad # {} PROVE FALSE
  <2>1. PICK i \in Bad : \A y \in Bad : ~(<<y, i>> \in OpToRel(<, Nat))
    <3> HIDE DEF Bad
    <3> QED
      BY <1>1, <1>2, NatLessThanWellFounded, WFMin
  <2>2. i \in Nat /\ i <= n /\ i <= m /\ t[i] # s[i]
    OBVIOUS
  <2>3. i # 0
    BY <2>2 DEF IsSum, Recurs
  <2>4. i - 1 \in Nat /\ i - 1 < i /\ i - 1 <= n /\ i - 1 <= m
    BY <2>2, <2>3
  <2>5. i - 1 \notin Bad
    <3> HIDE DEF Bad
    <3> QED
      BY <2>1, <2>2, <2>4 DEF OpToRel
  <2>6. t[i - 1] = s[i - 1]
    BY <2>4, <2>5
  <2>7. t[i] = t[i - 1] + files[i] /\ s[i] = s[i - 1] + files[i]
    BY <2>2, <2>3 DEF IsSum, Recurs
  <2> QED
    BY <2>2, <2>6, <2>7
<1> QED
  BY <1>2

LEMMA LenToIs ==
    ASSUME NEW files \in Seq(Nat), NEW n \in Nat, NEW s, IsSum(s, files, n)
    PROVE  LenTo(files, n) = s[n]
<1> DEFINE Obeys(t) == t = [i \in 0..n |-> IF i = 0 THEN 0 ELSE t[i - 1] + files[i]]
           t == CHOOSE t : Obeys(t)
<1>1. Obeys(s)
  BY DEF IsSum, Recurs
<1>2. Obeys(t)
  <2> HIDE DEF Obeys
  <2> QED
    BY <1>1
<1>3. LenTo(files, n) = t[n]
  BY DEF LenTo
<1>4. Recurs(t, files, n)
  <2> HIDE DEF t
  <2> QED
    BY <1>2 DEF Recurs
<1> HIDE DEF t
<1> QED
  BY <1>3, <1>4, SumUnique

\* The sum in steps: nothing before the first file, one more length each.
LEMMA LenToStep ==
    ASSUME NEW files \in Seq(Nat)
    PROVE  /\ LenTo(files, 0) = 0
           /\ \A n \in 0..Len(files) : LenTo(files, n) \in Nat
           /\ \A n \in 0..(Len(files) - 1) :
                 LenTo(files, n + 1) = LenTo(files, n) + files[n + 1]
<1>1. Len(files) \in Nat
  OBVIOUS
<1>2. PICK s : IsSum(s, files, Len(files))
  BY <1>1, SumExists
<1>3. ASSUME NEW n \in 0..Len(files)
      PROVE  LenTo(files, n) = s[n]
  <2>1. PICK t : IsSum(t, files, n)
    BY SumExists
  <2>2. n \in Nat /\ n <= Len(files)
    BY <1>1
  <2>3. LenTo(files, n) = t[n]
    BY <2>1, <2>2, LenToIs
  <2>4. Recurs(t, files, n)
    BY <2>1 DEF IsSum
  <2>5. t[n] = s[n]
    BY <1>1, <1>2, <2>2, <2>4, SumUnique
  <2> QED
    BY <2>3, <2>5
<1>4. \A n \in 0..(Len(files) - 1) :
         n \in 0..Len(files) /\ n + 1 \in 0..Len(files) /\ n + 1 # 0 /\ (n + 1) - 1 = n
  BY <1>1
<1>5. s \in [0..Len(files) -> Nat]
      /\ \A i \in 0..Len(files) : s[i] = IF i = 0 THEN 0 ELSE s[i - 1] + files[i]
  BY <1>2 DEF IsSum, Recurs
<1>6. 0 \in 0..Len(files)
  BY <1>1
<1>7. LenTo(files, 0) = 0 /\ \A n \in 0..Len(files) : LenTo(files, n) \in Nat
  BY <1>3, <1>5, <1>6
<1>8. ASSUME NEW n \in 0..(Len(files) - 1)
      PROVE  LenTo(files, n + 1) = LenTo(files, n) + files[n + 1]
  <2>1. s[n + 1] = s[n] + files[n + 1]
    BY <1>4, <1>5
  <2> QED
    BY <1>3, <1>4, <2>1
<1> QED
  BY <1>7, <1>8

\* No prefix is longer than the whole.
LEMMA LenToBound ==
    ASSUME NEW files \in Seq(Nat), NEW n \in 0..Len(files)
    PROVE  LenTo(files, n) <= LenTo(files, Len(files))
<1> DEFINE Len_ == Len(files)
           Bad == {d \in 0..Len_ : ~(LenTo(files, Len_ - d) <= LenTo(files, Len_))}
<1>1. Len_ \in Nat /\ Bad \in SUBSET Nat
  OBVIOUS
<1>2. ASSUME Bad # {} PROVE FALSE
  <2>1. PICK d \in Bad : \A y \in Bad : ~(<<y, d>> \in OpToRel(<, Nat))
    <3> HIDE DEF Bad
    <3> QED
      BY <1>1, <1>2, NatLessThanWellFounded, WFMin
  <2> HIDE DEF Len_
  <2>2. d \in Nat /\ d <= Len_ /\ ~(LenTo(files, Len_ - d) <= LenTo(files, Len_))
    BY <1>1
  <2>3. LenTo(files, Len_) \in Nat
    BY <1>1, LenToStep DEF Len_
  <2>4. d # 0
    <3>1. Len_ - 0 = Len_
      BY <1>1
    <3> QED
      BY <2>2, <2>3, <3>1
  <2>5. d - 1 \in Nat /\ d - 1 < d /\ d - 1 \in 0..Len_
    BY <1>1, <2>2, <2>4
  <2>6. d - 1 \notin Bad
    <3> HIDE DEF Bad
    <3> QED
      BY <2>1, <2>2, <2>5 DEF OpToRel
  <2> DEFINE k == Len_ - d
  <2>7. /\ k \in 0..(Len_ - 1) /\ k \in 0..Len_ /\ k + 1 \in 0..Len_ /\ Len_ - (d - 1) = k + 1
        /\ k + 1 \in 1..Len_
    BY <1>1, <2>2, <2>4
  <2>8. LenTo(files, k + 1) <= LenTo(files, Len_)
    BY <2>5, <2>6, <2>7
  <2> HIDE DEF k
  <2>9. files[k + 1] \in Nat
    BY <2>7 DEF Len_
  <2>10. LenTo(files, k + 1) = LenTo(files, k) + files[k + 1]
         /\ LenTo(files, k) \in Nat
    BY <2>7, LenToStep DEF Len_
  <2> QED
    BY <2>2, <2>3, <2>8, <2>9, <2>10 DEF k
<1>3. Len_ - n \in 0..Len_ /\ Len_ - (Len_ - n) = n
  BY <1>1
<1> QED
  BY <1>2, <1>3

-----------------------------------------------------------------------------
(* Slices and splices. *)

\* The elements after the first `from' up to number `to'.
LEMMA SliceIs ==
    ASSUME NEW s \in Seq(Nat), NEW from \in Nat, NEW to \in Nat, from <= to, to <= Len(s)
    PROVE  /\ SubSeq(s, from + 1, to) \in Seq(Nat)
           /\ Len(SubSeq(s, from + 1, to)) = to - from
           /\ \A j \in 1..(to - from) : SubSeq(s, from + 1, to)[j] = s[from + j]
<1> DEFINE t == SubSeq(s, from + 1, to)
<1>1. \A i \in (from + 1)..to : s[i] \in Nat
  OBVIOUS
<1>2. /\ t \in Seq(Nat)
      /\ Len(t) = IF from + 1 <= to THEN to - (from + 1) + 1 ELSE 0
      /\ \A i \in 1..(to - (from + 1) + 1) : t[i] = s[(from + 1) + i - 1]
  BY <1>1, SubSeqProperties
<1> HIDE DEF t
<1>3. Len(t) = to - from /\ \A j \in 1..(to - from) : t[j] = s[from + j]
  <2>1. Len(t) = to - from
    BY <1>2
  <2>2. ASSUME NEW j \in 1..(to - from)
        PROVE  t[j] = s[from + j]
    <3>1. j \in 1..(to - (from + 1) + 1) /\ (from + 1) + j - 1 = from + j
      OBVIOUS
    <3>2. t[j] = s[(from + 1) + j - 1]
      BY <1>2, <3>1
    <3> QED
      BY <3>1, <3>2
  <2> QED
    BY <2>1, <2>2
<1> QED
  BY <1>2, <1>3 DEF t

\* Splicing as many bytes as give way changes those and moves none.
Spliced(t, s, from, to, others) ==
    /\ t \in Seq(Nat)
    /\ Len(t) = Len(s)
    /\ \A k \in 1..Len(s) : t[k] = IF from < k /\ k <= to THEN others[k - from] ELSE s[k]

LEMMA SpliceIs ==
    ASSUME NEW s \in Seq(Nat), NEW from \in Nat, NEW to \in Nat, from <= to, to <= Len(s),
           NEW others \in Seq(Nat), Len(others) = to - from
    PROVE  Spliced(splice(s, from, to, others), s, from, to, others)
<1> DEFINE a == SubSeq(s, 1, from)
           b == SubSeq(s, to + 1, Len(s))
           ao == a \o others
           aob == ao \o b
<1>1. Len(s) \in Nat /\ from <= Len(s)
  OBVIOUS
<1>2. a \in Seq(Nat) /\ Len(a) = from /\ \A j \in 1..from : a[j] = s[j]
  <2>1. /\ SubSeq(s, 0 + 1, from) \in Seq(Nat)
        /\ Len(SubSeq(s, 0 + 1, from)) = from - 0
        /\ \A j \in 1..(from - 0) : SubSeq(s, 0 + 1, from)[j] = s[0 + j]
    BY <1>1, SliceIs
  <2> QED
    BY <2>1
<1>3. /\ b \in Seq(Nat) /\ Len(b) = Len(s) - to
      /\ \A j \in 1..(Len(s) - to) : b[j] = s[to + j]
  BY <1>1, SliceIs
<1> HIDE DEF a, b
<1>4. /\ ao \in Seq(Nat) /\ Len(ao) = to
      /\ \A i \in 1..to : ao[i] = IF i <= from THEN a[i] ELSE others[i - from]
  <2>1. /\ ao \in Seq(Nat) /\ Len(ao) = Len(a) + Len(others)
        /\ \A i \in 1..(Len(a) + Len(others)) :
              ao[i] = IF i <= Len(a) THEN a[i] ELSE others[i - Len(a)]
    BY <1>2, ConcatProperties
  <2>2. Len(a) + Len(others) = to
    BY <1>2
  <2> QED
    BY <1>2, <2>1, <2>2
<1> HIDE DEF ao
<1>5. /\ aob \in Seq(Nat) /\ Len(aob) = Len(s)
      /\ \A i \in 1..Len(s) : aob[i] = IF i <= to THEN ao[i] ELSE b[i - to]
  <2>1. /\ aob \in Seq(Nat) /\ Len(aob) = Len(ao) + Len(b)
        /\ \A i \in 1..(Len(ao) + Len(b)) :
              aob[i] = IF i <= Len(ao) THEN ao[i] ELSE b[i - Len(ao)]
    BY <1>3, <1>4, ConcatProperties
  <2>2. Len(ao) + Len(b) = Len(s)
    BY <1>1, <1>3, <1>4
  <2> QED
    BY <1>4, <2>1, <2>2
<1> HIDE DEF aob
<1>6. ASSUME NEW k \in 1..Len(s)
      PROVE  aob[k] = IF from < k /\ k <= to THEN others[k - from] ELSE s[k]
  <2>0. k \in Nat /\ 1 <= k /\ k <= Len(s)
    BY <1>1
  <2>1. CASE k <= from
    <3>1. k \in 1..from /\ k \in 1..to /\ ~(from < k)
      BY <2>0, <2>1
    <3> QED
      BY <1>2, <1>4, <1>5, <2>0, <2>1, <3>1
  <2>2. CASE from < k /\ k <= to
    <3>1. k \in 1..to /\ ~(k <= from)
      BY <2>0, <2>2
    <3> QED
      BY <1>4, <1>5, <2>0, <2>2, <3>1
  <2>3. CASE to < k
    <3>1. k - to \in 1..(Len(s) - to) /\ to + (k - to) = k /\ ~(k <= to)
      BY <1>1, <2>0, <2>3
    <3> QED
      BY <1>3, <1>5, <2>0, <2>3, <3>1
  <2> QED
    BY <2>0, <2>1, <2>2, <2>3
<1>7. splice(s, from, to, others) = aob
  BY DEF splice, aob, ao, a, b
<1>8. Spliced(aob, s, from, to, others)
  BY <1>5, <1>6 DEF Spliced
<1> QED
  BY ONLY <1>7, <1>8

LEMMA ZerosAre ==
    ASSUME NEW n \in Nat
    PROVE  /\ zeros(n) \in Seq(Nat) /\ Len(zeros(n)) = n
           /\ \A k \in 1..n : zeros(n)[k] = 0
  BY DEF zeros

-----------------------------------------------------------------------------
(* The torrent and its pieces. *)

\* The u16 counts the blocks of every piece.
PiecesFit == \A t \in Torrents : t.piece_length <= LongestPiece

LEMMA InfoIs ==
    ASSUME info \in Torrents
    PROVE  /\ info.piece_length \in Nat \ {0} /\ info.files \in Seq(Nat)
           /\ total_length \in Nat
<1>1. info.piece_length \in Nat \ {0} /\ info.files \in Seq(Nat)
  BY TorrentsAssumption
<1>2. Len(info.files) \in 0..Len(info.files)
  BY <1>1
<1> QED
  BY <1>1, <1>2, LenToStep DEF total_length

\* An empty torrent has no pieces.
LEMMA NoPieces ==
    ASSUME NEW p \in Nat \ {0}
    PROVE  num_pieces(0, p) = 0
<1> DEFINE x == 0 + p - 1
           n == x \div p
<1>1. x \in Nat /\ x < p
  OBVIOUS
<1>2. n \in Nat /\ n * p <= x
  <2> HIDE DEF x
  <2> QED
    BY <1>1, Division
<1>3. num_pieces(0, p) = n
  BY DEF num_pieces
<1> HIDE DEF n
<1>4. n * p < 1 * p
  <2>1. n * p \in Nat /\ 1 * p = p
    BY <1>2
  <2> QED
    BY <1>1, <1>2, <2>1
<1>5. n < 1
  BY <1>2, <1>4, TimesLess
<1> QED
  BY <1>2, <1>3, <1>5

LEMMA PieceFacts ==
    ASSUME info \in Torrents, NEW i \in Pieces
    PROVE  /\ i \in Nat /\ i # NoPiece
           /\ i * info.piece_length \in Nat
           /\ piece_len(i) \in Nat /\ piece_len(i) \in 1..info.piece_length
           /\ i * info.piece_length + piece_len(i) <= total_length
<1>1. info.piece_length \in Nat \ {0} /\ total_length \in Nat
  BY InfoIs
<1> DEFINE n == num_pieces(total_length, info.piece_length)
<1>2. i \in 0..(n - 1)
  BY DEF Pieces
<1>3. total_length # 0
  <2>1. CASE total_length = 0
    <3>1. n = 0
      BY <1>1, <2>1, NoPieces
    <3> HIDE DEF n
    <3> QED
      BY <1>2, <3>1
  <2> QED
    BY <2>1
<1>4. /\ piece_len(i) \in 1..info.piece_length
      /\ i * info.piece_length + piece_len(i) <= total_length
  BY <1>1, <1>2, <1>3, PieceLengths DEF piece_len
<1>5. n \in Nat
  BY <1>1, <1>3, RoundedUp DEF num_pieces
<1> HIDE DEF n
<1>6. i \in Nat
  BY <1>2, <1>5
<1>7. i * info.piece_length \in Nat
  BY <1>1, <1>6
<1> QED
  BY <1>1, <1>4, <1>6, <1>7 DEF NoPiece

\* Each byte of the torrent is a byte of a piece.
LEMMA InSomePiece ==
    ASSUME info \in Torrents, NEW k \in 1..total_length
    PROVE  \E i \in Pieces : \E j \in 1..piece_len(i) : k = i * info.piece_length + j
<1>1. info.piece_length \in Nat \ {0} /\ total_length \in Nat \ {0} /\ k \in Nat
  BY InfoIs
<1> DEFINE p == info.piece_length
           c == k - 1
<1>2. c \in 0..(total_length - 1)
  BY <1>1
<1>3. PICK i \in Pieces : i * p <= c /\ c < i * p + piece_len(i)
  <2>1. ASSUME NEW length \in Nat \ {0}, NEW q \in Nat \ {0}, NEW b \in 0..(length - 1)
        PROVE  \E i \in 0..(num_pieces(length, q) - 1) :
                  i * q <= b /\ b < i * q + get_piece_length(length, q, i)
    BY BytesHaveOnePiece
  <2>2. \E i \in 0..(num_pieces(total_length, p) - 1) :
           i * p <= c /\ c < i * p + get_piece_length(total_length, p, i)
    BY <1>1, <1>2, <2>1
  <2> QED
    BY <2>2 DEF Pieces, piece_len
<1>4. i * p \in Nat /\ piece_len(i) \in Nat
  BY PieceFacts
<1> DEFINE j == k - i * p
<1>5. j \in 1..piece_len(i) /\ k = i * p + j
  <2> DEFINE base == i * p
  <2>1. base \in Nat /\ base <= c /\ c < base + piece_len(i)
    BY <1>3, <1>4
  <2>2. j = k - base
    OBVIOUS
  <2> HIDE DEF base, j
  <2>3. j \in 1..piece_len(i) /\ k = base + j
    BY <1>1, <1>4, <2>1, <2>2
  <2> QED
    BY <2>3 DEF base
<1> QED
  BY <1>5

LEMMA ContentIs ==
    ASSUME info \in Torrents
    PROVE  /\ Content \in Seq(Nat) /\ Len(Content) = total_length
           /\ \A k \in 1..total_length : Content[k] = k
<1>1. total_length \in Nat
  BY InfoIs
<1> QED
  BY <1>1 DEF Content

LEMMA PieceContentIs ==
    ASSUME info \in Torrents, NEW i \in Pieces
    PROVE  /\ PieceContent(i) \in Seq(Nat) /\ Len(PieceContent(i)) = piece_len(i)
           /\ \A j \in 1..piece_len(i) : PieceContent(i)[j] = i * info.piece_length + j
<1> DEFINE from == i * info.piece_length
           to == from + piece_len(i)
<1>1. /\ from \in Nat /\ piece_len(i) \in Nat /\ to <= total_length
      /\ total_length \in Nat
  BY PieceFacts, InfoIs
<1>2. PieceContent(i) = SubSeq(Content, from + 1, to)
  BY DEF PieceContent
<1> HIDE DEF from
<1>3. to \in Nat /\ from <= to /\ to - from = piece_len(i)
  BY <1>1
<1>4. /\ SubSeq(Content, from + 1, to) \in Seq(Nat)
      /\ Len(SubSeq(Content, from + 1, to)) = to - from
      /\ \A j \in 1..(to - from) : SubSeq(Content, from + 1, to)[j] = Content[from + j]
  <2> HIDE DEF to
  <2> QED
    BY <1>1, <1>3, ContentIs, SliceIs
<1>5. ASSUME NEW j \in 1..piece_len(i)
      PROVE  Content[from + j] = from + j
  <2>1. from + j \in 1..total_length
    BY <1>1
  <2> QED
    BY <2>1, ContentIs
<1> QED
  BY <1>2, <1>3, <1>4, <1>5 DEF from

\* Where every piece was received, the buffer is the torrent.
LEMMA AllReceived ==
    ASSUME info \in Torrents, bytes \in Seq(Nat), Len(bytes) = total_length,
           \A i \in Pieces : \A k \in 1..piece_len(i) :
              bytes[i * info.piece_length + k] = i * info.piece_length + k
    PROVE  bytes = Content
<1>1. ASSUME NEW k \in 1..total_length
      PROVE  bytes[k] = k
  BY InSomePiece
<1> QED
  BY <1>1, ContentIs, SeqEqual

\* A count of blocks left that is 0 is the count of no bytes.
LEMMA BlocksLeft ==
    ASSUME NEW rest \in 0..LongestPiece
    PROVE  num_blocks(rest) \in Nat /\ (num_blocks(rest) = 0 => rest = 0)
<1>1. CASE rest = 0
  BY <1>1, NoBlocks
<1>2. CASE rest # 0
  <2>1. rest \in 1..LongestPiece
    BY <1>2, LongestPieceType
  <2>2. num_blocks(rest) \in 1..(U16 - 1)
    BY <2>1, BlocksFitU16
  <2> QED
    BY <2>2, LongestPieceType
<1> QED
  BY <1>1, <1>2

\* The torrent does not change.
LEMMA SameInfo ==
    ASSUME info' = info
    PROVE  /\ total_length' = total_length /\ Pieces' = Pieces /\ Content' = Content
           /\ \A i : piece_len(i)' = piece_len(i)
  BY DEF total_length, Pieces, Content, piece_len

-----------------------------------------------------------------------------
(* The invariant. *)

\* Every index is in bounds: no step has panicked.
StorageTypeOK ==
    /\ info \in Torrents
    /\ bytes \in Seq(Nat)
    /\ piece \in Pieces \cup {NoPiece}
    /\ requested \in Nat
    /\ remaining_blocks \in Int
    /\ piece_bytes \in Seq(Nat)
    /\ pending_blocks \in SUBSET (Nat \X Nat) /\ IsFiniteSet(pending_blocks)
    /\ received \in SUBSET Pieces
    /\ phase \in {"download", "write", "ok", "err"}
    /\ idx \in Nat
    /\ disk \in Seq(Seq(Nat))

InBlock(k, b) == b[1] < k /\ k <= b[1] + b[2]

\* A byte of the piece that has been asked for is on its way or there; one that has
\* not is still 0.
AskedOrFilled ==
    piece # NoPiece =>
        /\ requested <= Len(piece_bytes)
        /\ \A k \in 1..Len(piece_bytes) :
              IF k <= requested
              THEN (\E b \in pending_blocks : InBlock(k, b))
                   \/ piece_bytes[k] = piece * info.piece_length + k
              ELSE piece_bytes[k] = 0

\* Between two pieces nothing is asked for; nothing is written before every piece
\* was received; and the position in the buffer is where the next file begins.
Phases ==
    /\ piece = NoPiece => pending_blocks = {}
    /\ phase = "download" => idx = 0 /\ disk = <<>>
    /\ phase # "download" => piece = NoPiece /\ received = Pieces
    /\ phase = "write" =>
          Len(disk) <= Len(info.files) /\ idx = LenTo(info.files, Len(disk))

StorageInv ==
    /\ StorageTypeOK
    /\ BytesInPlace /\ BlocksTile /\ PiecesCover /\ FilesExact
    /\ AskedOrFilled /\ Phases

-----------------------------------------------------------------------------
(* The steps. *)

LEMMA StorageInitOK == Init => StorageInv
<1> SUFFICES ASSUME Init PROVE StorageInv
  OBVIOUS
<1>1. /\ info \in Torrents /\ bytes = zeros(total_length) /\ piece = NoPiece
      /\ requested = 0 /\ remaining_blocks = 0 /\ piece_bytes = <<>>
      /\ pending_blocks = {} /\ received = {} /\ phase = "download"
      /\ idx = 0 /\ disk = <<>>
  BY DEF Init
<1>2. total_length \in Nat
  BY <1>1, InfoIs
<1>3. /\ bytes \in Seq(Nat) /\ Len(bytes) = total_length
      /\ \A k \in 1..total_length : bytes[k] = 0
  BY <1>1, <1>2, ZerosAre
<1>4. StorageTypeOK
  BY <1>1, <1>3, FS_EmptySet DEF StorageTypeOK
<1>5. BytesInPlace
  BY <1>1, <1>3 DEF BytesInPlace
<1>6. PiecesCover
  BY <1>1, <1>3, AllReceived DEF PiecesCover
<1>7. FilesExact
  BY <1>1 DEF FilesExact
<1>8. BlocksTile /\ AskedOrFilled
  BY <1>1 DEF BlocksTile, AskedOrFilled
<1>9. Phases
  BY <1>1 DEF Phases
<1> QED
  BY <1>4, <1>5, <1>6, <1>7, <1>8, <1>9 DEF StorageInv

\* While the download goes on nothing is on the disk.
LEMMA NothingWritten ==
    ASSUME StorageInv, phase = "download", phase' = "download", UNCHANGED diskVars
    PROVE  FilesExact' /\ idx' = 0 /\ disk' = <<>>
<1>1. disk' = <<>> /\ idx' = 0
  BY DEF StorageInv, Phases, diskVars
<1> QED
  BY <1>1 DEF FilesExact

LEMMA PickPieceOK == StorageInv /\ PickPiece => StorageInv'
<1> SUFFICES ASSUME StorageInv, PickPiece PROVE StorageInv'
  OBVIOUS
<1>1. /\ StorageTypeOK /\ BytesInPlace /\ PiecesCover /\ pending_blocks = {}
      /\ phase = "download" /\ piece = NoPiece
      /\ UNCHANGED <<info, bytes, pending_blocks, received, phase, diskVars>>
  BY DEF StorageInv, PickPiece, Phases
<1>2. PICK i \in Pieces :
         /\ piece' = i /\ requested' = 0
         /\ remaining_blocks' = num_blocks(piece_len(i))
         /\ piece_bytes' = zeros(piece_len(i))
  BY DEF PickPiece
<1>3. info \in Torrents /\ i \in Nat /\ i # NoPiece /\ piece_len(i) \in Nat
      /\ piece_len(i) \in 1..info.piece_length
  BY <1>1, PieceFacts DEF StorageTypeOK
<1>4. /\ total_length' = total_length /\ Pieces' = Pieces /\ Content' = Content
      /\ piece_len(i)' = piece_len(i) /\ \A j : piece_len(j)' = piece_len(j)
  BY <1>1, SameInfo
<1>5. /\ piece_bytes' \in Seq(Nat) /\ Len(piece_bytes') = piece_len(i)
      /\ \A k \in 1..piece_len(i) : piece_bytes'[k] = 0
  BY <1>2, <1>3, ZerosAre
<1>6. num_blocks(piece_len(i)) \in Int
  <2> DEFINE x == (piece_len(i) + BLOCK_SIZE - 1) \div BLOCK_SIZE
  <2>1. piece_len(i) + BLOCK_SIZE - 1 \in Nat /\ BLOCK_SIZE \in Nat \ {0}
    BY <1>3, BlockSizeAssumption
  <2>2. x \in Nat
    BY <2>1, Division
  <2>3. num_blocks(piece_len(i)) = x % U16
    BY DEF num_blocks
  <2> HIDE DEF x
  <2> QED
    BY <2>2, <2>3, LongestPieceType
<1>7. StorageTypeOK'
  BY <1>1, <1>2, <1>4, <1>5, <1>6 DEF StorageTypeOK, diskVars
<1>8. BytesInPlace'
  <2>1. \A k \in DOMAIN piece_bytes' : piece_bytes'[k] = 0
    BY <1>5
  <2> QED
    BY <1>1, <1>2, <1>4, <1>5, <2>1 DEF BytesInPlace
<1>9. BlocksTile'
  <2>1. Cardinality({}) = 0
    BY FS_EmptySet
  <2>2. Len(piece_bytes') - 0 = piece_len(i)
    BY <1>3, <1>5
  <2>3. num_blocks(piece_len(i)) = 0 + num_blocks(piece_len(i))
    BY <1>6
  <2> QED
    BY <1>1, <1>2, <2>1, <2>2, <2>3 DEF BlocksTile
<1>10. PiecesCover'
  BY <1>1, <1>4 DEF PiecesCover
<1>11. AskedOrFilled'
  <2>1. \A k \in 1..piece_len(i) : ~(k <= 0)
    BY <1>3
  <2> QED
    BY <1>2, <1>3, <1>5, <2>1 DEF AskedOrFilled
<1>12. FilesExact' /\ idx' = 0 /\ disk' = <<>>
  BY <1>1, NothingWritten
<1>13. Phases'
  BY <1>1, <1>2, <1>3, <1>12 DEF Phases
<1> QED
  BY <1>7, <1>8, <1>9, <1>10, <1>11, <1>12, <1>13 DEF StorageInv

\* What the steps of a download know of the piece under way.
LEMMA UnderWay ==
    ASSUME StorageInv, piece # NoPiece
    PROVE  /\ info \in Torrents /\ piece \in Pieces /\ piece \in Nat
           /\ piece * info.piece_length \in Nat
           /\ piece_bytes \in Seq(Nat) /\ Len(piece_bytes) = piece_len(piece)
           /\ Len(piece_bytes) \in 1..info.piece_length
           /\ requested \in Nat /\ requested <= Len(piece_bytes)
           /\ PiecesFit => Len(piece_bytes) \in 1..LongestPiece
           /\ piece * info.piece_length + Len(piece_bytes) <= total_length
           /\ total_length \in Nat
<1>1. info \in Torrents /\ piece \in Pieces /\ requested \in Nat /\ piece_bytes \in Seq(Nat)
  BY DEF StorageInv, StorageTypeOK
<1>2. Len(piece_bytes) = piece_len(piece) /\ requested <= Len(piece_bytes)
  BY DEF StorageInv, BytesInPlace, AskedOrFilled
<1>3. /\ piece \in Nat /\ piece * info.piece_length \in Nat
      /\ Len(piece_bytes) \in 1..info.piece_length
      /\ piece * info.piece_length + Len(piece_bytes) <= total_length
  BY <1>1, <1>2, PieceFacts
<1>4. info.piece_length \in Nat /\ total_length \in Nat
  BY <1>1, InfoIs
<1>5. PiecesFit => Len(piece_bytes) \in 1..LongestPiece
  <2>1. PiecesFit => info.piece_length <= LongestPiece
    BY <1>1 DEF PiecesFit
  <2> QED
    BY <1>3, <1>4, <2>1, LongestPieceType
<1> QED
  BY <1>1, <1>2, <1>3, <1>4, <1>5

LEMMA RequestBlockOK == PiecesFit /\ StorageInv /\ RequestBlock => StorageInv'
<1> SUFFICES ASSUME PiecesFit, StorageInv, RequestBlock PROVE StorageInv'
  OBVIOUS
<1> DEFINE L == Len(piece_bytes)
           length == block_len(L, requested)
           b == <<requested, length>>
<1>1. /\ StorageTypeOK /\ BytesInPlace /\ PiecesCover /\ BlocksTile /\ AskedOrFilled
      /\ phase = "download" /\ piece # NoPiece /\ requested < L
      /\ pending_blocks' = pending_blocks \cup {b}
      /\ requested' = requested + length
      /\ UNCHANGED <<info, bytes, piece, remaining_blocks, piece_bytes, received, phase, diskVars>>
  BY DEF StorageInv, RequestBlock
<1>2. /\ requested \in Nat /\ L \in Nat /\ L \in 1..LongestPiece
      /\ pending_blocks \in SUBSET (Nat \X Nat) /\ IsFiniteSet(pending_blocks)
      /\ remaining_blocks \in Int
  BY <1>1, UnderWay, LongestPieceType DEF StorageTypeOK
<1>3. /\ length \in 1..BLOCK_SIZE
      /\ L - requested - length \in Nat
      /\ num_blocks(L - requested - length) = num_blocks(L - requested) - 1
  <2>1. requested \in 0..(L - 1)
    BY <1>1, <1>2
  <2> HIDE DEF L
  <2> QED
    BY <1>2, <2>1, RequestsCountDown
<1>4. length \in Nat /\ length > 0 /\ requested + length <= L
  <2> HIDE DEF length
  <2> QED
    BY <1>2, <1>3, BlockSizeAssumption
<1>5. /\ total_length' = total_length /\ Pieces' = Pieces /\ Content' = Content
      /\ \A j : piece_len(j)' = piece_len(j)
  BY <1>1, SameInfo
<1>6. /\ remaining_blocks = Cardinality(pending_blocks) + num_blocks(L - requested)
      /\ \A c \in pending_blocks :
            /\ c \in Nat \X Nat /\ c[2] > 0 /\ c[1] + c[2] <= requested
            /\ \A k \in (c[1] + 1)..(c[1] + c[2]) : piece_bytes[k] = 0
            /\ \A d \in pending_blocks \ {c} : d[1] + d[2] <= c[1] \/ c[1] + c[2] <= d[1]
  BY <1>1, <1>2 DEF BlocksTile
<1>7. \A k \in 1..L :
         IF k <= requested
         THEN (\E c \in pending_blocks : InBlock(k, c))
              \/ piece_bytes[k] = piece * info.piece_length + k
         ELSE piece_bytes[k] = 0
  BY <1>1 DEF AskedOrFilled
<1> HIDE DEF length, L
<1>8. b \in Nat \X Nat /\ b[1] = requested /\ b[2] = length
  BY <1>2, <1>4
<1> HIDE DEF b
<1>9. b \notin pending_blocks
  <2>1. ~(b[1] + b[2] <= requested)
    BY <1>2, <1>4, <1>8
  <2> QED
    BY <1>6, <2>1
<1>10. /\ IsFiniteSet(pending_blocks') /\ Cardinality(pending_blocks) \in Nat
       /\ Cardinality(pending_blocks') = Cardinality(pending_blocks) + 1
  BY <1>1, <1>2, <1>9, FS_AddElement, FS_CardinalityType
<1>11. requested' \in Nat /\ pending_blocks' \in SUBSET (Nat \X Nat)
  BY <1>1, <1>2, <1>4, <1>8
<1>12. StorageTypeOK'
  BY <1>1, <1>5, <1>10, <1>11 DEF StorageTypeOK, diskVars
<1>13. BytesInPlace'
  BY <1>1, <1>5 DEF BytesInPlace
<1>14. BlocksTile'
  <2>1. num_blocks(L - requested) \in Nat
    <3>1. L - requested \in 0..LongestPiece
      BY <1>1, <1>2, LongestPieceType DEF L
    <3> QED
      BY <3>1, BlocksLeft
  <2>2. remaining_blocks' = Cardinality(pending_blocks') + num_blocks(Len(piece_bytes') - requested')
    <3>1. Len(piece_bytes') - requested' = L - requested - length
      BY <1>1, <1>2, <1>4 DEF L
    <3> QED
      BY <1>1, <1>3, <1>6, <1>10, <2>1, <3>1
  <2>3. ASSUME NEW c \in pending_blocks'
        PROVE  /\ c[2] > 0 /\ c[1] + c[2] <= requested'
               /\ \A k \in (c[1] + 1)..(c[1] + c[2]) : piece_bytes'[k] = 0
               /\ \A d \in pending_blocks' \ {c} :
                     d[1] + d[2] <= c[1] \/ c[1] + c[2] <= d[1]
    <3>1. CASE c = b
      <4>1. \A k \in (requested + 1)..(requested + length) : k \in 1..L /\ ~(k <= requested)
        BY <1>2, <1>4
      <4>2. \A k \in (requested + 1)..(requested + length) : piece_bytes[k] = 0
        BY <1>7, <4>1
      <4>3. \A d \in pending_blocks' \ {c} : d[1] + d[2] <= c[1]
        BY <1>1, <1>6, <1>8, <3>1
      <4> QED
        BY <1>1, <1>2, <1>4, <1>8, <3>1, <4>2, <4>3
    <3>2. CASE c \in pending_blocks
      <4>1. c[2] > 0 /\ c[1] \in Nat /\ c[2] \in Nat /\ c[1] + c[2] <= requested
        BY <1>6, <3>2
      <4>2. c[1] + c[2] <= requested'
        BY <1>1, <1>2, <1>4, <4>1
      <4>3. \A k \in (c[1] + 1)..(c[1] + c[2]) : piece_bytes'[k] = 0
        BY <1>1, <1>6, <3>2
      <4>4. ASSUME NEW d \in pending_blocks' \ {c}
            PROVE  d[1] + d[2] <= c[1] \/ c[1] + c[2] <= d[1]
        <5>1. CASE d = b
          BY <1>8, <4>1, <5>1
        <5>2. CASE d # b
          BY <1>1, <1>6, <3>2, <5>2
        <5> QED
          BY <5>1, <5>2
      <4> QED
        BY <4>1, <4>2, <4>3, <4>4
    <3> QED
      BY <1>1, <3>1, <3>2
  <2> QED
    BY <2>2, <2>3 DEF BlocksTile
<1>15. PiecesCover'
  BY <1>1, <1>5 DEF PiecesCover
<1>16. AskedOrFilled'
  <2>1. ASSUME NEW k \in 1..L
        PROVE  IF k <= requested'
               THEN (\E c \in pending_blocks' : InBlock(k, c))
                    \/ piece_bytes'[k] = piece' * info'.piece_length + k
               ELSE piece_bytes'[k] = 0
    <3>1. CASE k <= requested
      <4>1. k <= requested'
        BY <1>1, <1>2, <1>4, <3>1
      <4> QED
        BY <1>1, <1>7, <3>1, <4>1
    <3>2. CASE requested < k /\ k <= requested'
      <4>1. InBlock(k, b)
        BY <1>1, <1>8, <3>2 DEF InBlock
      <4> QED
        BY <1>1, <3>2, <4>1
    <3>3. CASE ~(k <= requested')
      <4>1. ~(k <= requested)
        BY <1>1, <1>2, <1>4, <3>3
      <4> QED
        BY <1>1, <1>7, <3>3, <4>1
    <3> QED
      BY <1>2, <1>11, <3>1, <3>2, <3>3
  <2>2. requested' <= L
    BY <1>1, <1>4
  <2> QED
    BY <1>1, <2>1, <2>2 DEF AskedOrFilled, L
<1>17. FilesExact' /\ idx' = 0 /\ disk' = <<>>
  BY <1>1, NothingWritten
<1>18. Phases'
  BY <1>1, <1>17 DEF Phases
<1> QED
  BY <1>12, <1>13, <1>14, <1>15, <1>16, <1>17, <1>18 DEF StorageInv

\* What the block b does to the piece under way.
LEMMA BlockFills ==
    ASSUME StorageInv, piece # NoPiece, NEW b \in pending_blocks,
           NEW filled,
           filled = splice(piece_bytes, b[1], b[1] + b[2],
                           SubSeq(PieceContent(piece), b[1] + 1, b[1] + b[2]))
    PROVE  /\ b \in Nat \X Nat /\ b[1] \in Nat /\ b[2] \in Nat /\ b[2] > 0
           /\ b[1] + b[2] <= requested
           /\ filled \in Seq(Nat) /\ Len(filled) = Len(piece_bytes)
           /\ \A k \in 1..Len(piece_bytes) :
                 filled[k] = IF InBlock(k, b) THEN piece * info.piece_length + k
                                              ELSE piece_bytes[k]
<1> DEFINE L == Len(piece_bytes)
           begin == b[1]
           end == b[1] + b[2]
           base == piece * info.piece_length
           block == SubSeq(PieceContent(piece), begin + 1, end)
<1>1. b \in Nat \X Nat /\ b[1] \in Nat /\ b[2] \in Nat /\ b[2] > 0 /\ b[1] + b[2] <= requested
  BY DEF StorageInv, StorageTypeOK, BlocksTile
<1>2. /\ info \in Torrents /\ piece \in Pieces /\ base \in Nat
      /\ piece_bytes \in Seq(Nat) /\ L = piece_len(piece) /\ L \in Nat
      /\ requested \in Nat /\ requested <= L
  BY UnderWay
<1>3. begin \in Nat /\ end \in Nat /\ begin <= end /\ end <= L
  <2> HIDE DEF L
  <2> QED
    BY <1>1, <1>2
<1>4. /\ PieceContent(piece) \in Seq(Nat) /\ Len(PieceContent(piece)) = L
      /\ \A j \in 1..L : PieceContent(piece)[j] = base + j
  BY <1>2, PieceContentIs
<1> HIDE DEF L, base, begin, end
<1>5. /\ block \in Seq(Nat) /\ Len(block) = end - begin
      /\ \A j \in 1..(end - begin) : block[j] = PieceContent(piece)[begin + j]
  BY <1>3, <1>4, SliceIs
<1> HIDE DEF block
<1>6. /\ filled \in Seq(Nat) /\ Len(filled) = L
      /\ \A k \in 1..L : filled[k] = IF begin < k /\ k <= end THEN block[k - begin]
                                                              ELSE piece_bytes[k]
  <2>1. filled = splice(piece_bytes, begin, end, block)
    BY DEF block, begin, end
  <2>2. Spliced(filled, piece_bytes, begin, end, block)
    BY <1>2, <1>3, <1>5, <2>1, SpliceIs DEF L
  <2> QED
    BY <1>2, <2>2 DEF L, Spliced
<1>7. ASSUME NEW k \in 1..L, begin < k, k <= end
      PROVE  filled[k] = base + k
  <2>1. k - begin \in 1..(end - begin) /\ begin + (k - begin) = k
    BY <1>2, <1>3, <1>7
  <2>2. filled[k] = block[k - begin]
    BY <1>6, <1>7
  <2> QED
    BY <1>4, <1>5, <2>1, <2>2
<1>8. \A k \in 1..L : filled[k] = IF InBlock(k, b) THEN base + k ELSE piece_bytes[k]
  BY <1>6, <1>7 DEF InBlock, begin, end
<1> QED
  BY <1>1, <1>6, <1>8 DEF L, base

\* A block that is not the last of its piece.
LEMMA BlockTakenOK ==
    ASSUME PiecesFit, StorageInv, phase = "download", piece # NoPiece,
           NEW b \in pending_blocks, NEW filled,
           filled = splice(piece_bytes, b[1], b[1] + b[2],
                           SubSeq(PieceContent(piece), b[1] + 1, b[1] + b[2])),
           remaining_blocks' = remaining_blocks - 1,
           piece_bytes' = filled, pending_blocks' = pending_blocks \ {b},
           UNCHANGED <<info, diskVars, piece, requested, received, bytes, phase>>
    PROVE  StorageInv'
<1> DEFINE L == Len(piece_bytes)
           base == piece * info.piece_length
<1>1. StorageTypeOK /\ BytesInPlace /\ PiecesCover /\ BlocksTile /\ AskedOrFilled
  BY DEF StorageInv
<1>2. /\ requested \in Nat /\ L \in 1..LongestPiece /\ L \in Nat /\ base \in Nat
      /\ requested <= L
      /\ pending_blocks \in SUBSET (Nat \X Nat) /\ IsFiniteSet(pending_blocks)
      /\ remaining_blocks \in Int
  BY <1>1, UnderWay, LongestPieceType DEF StorageTypeOK
<1>3. /\ b \in Nat \X Nat /\ b[1] \in Nat /\ b[2] \in Nat /\ b[2] > 0
      /\ b[1] + b[2] <= requested
      /\ filled \in Seq(Nat) /\ Len(filled) = L
      /\ \A k \in 1..L : filled[k] = IF InBlock(k, b) THEN base + k ELSE piece_bytes[k]
  BY BlockFills
<1>4. /\ total_length' = total_length /\ Pieces' = Pieces /\ Content' = Content
      /\ \A j : piece_len(j)' = piece_len(j)
  BY SameInfo
<1>5. /\ IsFiniteSet(pending_blocks') /\ Cardinality(pending_blocks) \in Nat
      /\ Cardinality(pending_blocks') = Cardinality(pending_blocks) - 1
  BY <1>2, FS_RemoveElement, FS_CardinalityType
<1>6. StorageTypeOK'
  <2>1. remaining_blocks' \in Int /\ piece_bytes' \in Seq(Nat)
    BY <1>2, <1>3
  <2>2. pending_blocks' \in SUBSET (Nat \X Nat) /\ IsFiniteSet(pending_blocks')
    BY <1>2, <1>5
  <2>3. UNCHANGED <<info, idx, disk, piece, requested, received, bytes, phase>>
    BY DEF diskVars
  <2> QED
    BY <1>1, <1>4, <2>1, <2>2, <2>3 DEF StorageTypeOK
<1>7. /\ Len(piece_bytes) = piece_len(piece)
      /\ \A k \in 1..L : piece_bytes[k] \in {0, base + k}
      /\ Len(bytes) = total_length
      /\ \A k \in 1..total_length : bytes[k] \in {0, k}
  <2>1. DOMAIN piece_bytes = 1..L
    BY <1>1 DEF StorageTypeOK
  <2> QED
    BY <1>1, <2>1 DEF BytesInPlace
<1>8. BytesInPlace'
  <2>1. DOMAIN filled = 1..L
    BY <1>3
  <2>2. \A k \in 1..L : filled[k] \in {0, base + k}
    BY <1>3, <1>7
  <2> QED
    BY <1>3, <1>4, <1>7, <2>1, <2>2 DEF BytesInPlace
<1>9. /\ remaining_blocks = Cardinality(pending_blocks) + num_blocks(L - requested)
      /\ \A c \in pending_blocks :
            /\ c[1] \in Nat /\ c[2] \in Nat /\ c[2] > 0 /\ c[1] + c[2] <= requested
            /\ \A k \in (c[1] + 1)..(c[1] + c[2]) : piece_bytes[k] = 0
            /\ \A d \in pending_blocks \ {c} : d[1] + d[2] <= c[1] \/ c[1] + c[2] <= d[1]
  BY <1>1, <1>2 DEF BlocksTile
<1>10. \A k \in 1..L :
         IF k <= requested
         THEN (\E c \in pending_blocks : InBlock(k, c)) \/ piece_bytes[k] = base + k
         ELSE piece_bytes[k] = 0
  BY <1>1 DEF AskedOrFilled
<1>11. num_blocks(L - requested) \in Nat
  <2>1. L - requested \in 0..LongestPiece
    <3> HIDE DEF L
    <3> QED
      BY <1>2, LongestPieceType
  <2> QED
    BY <2>1, BlocksLeft
<1> HIDE DEF L, base
<1>12. BlocksTile'
  <2>1. remaining_blocks' = Cardinality(pending_blocks') + num_blocks(Len(piece_bytes') - requested')
    <3>1. Cardinality(pending_blocks) \in Nat /\ requested' = requested
          /\ remaining_blocks' = remaining_blocks - 1 /\ Len(piece_bytes') = L
      BY <1>3, <1>5
    <3>2. remaining_blocks = Cardinality(pending_blocks) + num_blocks(L - requested)
      BY ONLY <1>9
    <3>3. num_blocks(Len(piece_bytes') - requested') = num_blocks(L - requested)
      BY ONLY <3>1
    <3> QED
      BY ONLY <1>5, <1>11, <3>1, <3>2, <3>3
  <2>2. ASSUME NEW c \in pending_blocks', NEW k \in (c[1] + 1)..(c[1] + c[2])
        PROVE  piece_bytes'[k] = 0
    <3>1. c \in pending_blocks /\ b \in pending_blocks \ {c}
      OBVIOUS
    <3>2. /\ b[1] + b[2] <= c[1] \/ c[1] + c[2] <= b[1]
          /\ c[1] \in Nat /\ c[2] \in Nat /\ c[1] + c[2] <= requested
          /\ piece_bytes[k] = 0
      BY <1>9, <3>1
    <3>3. k \in Nat /\ c[1] < k /\ k <= c[1] + c[2]
      BY <3>2
    <3>4. k \in 1..L
      BY <1>2, <3>2, <3>3
    <3>5. ~InBlock(k, b)
      BY <1>3, <3>2, <3>3 DEF InBlock
    <3> QED
      BY <1>3, <3>2, <3>4, <3>5
  <2> QED
    BY <1>9, <2>1, <2>2 DEF BlocksTile
<1>13. PiecesCover'
  BY <1>1, <1>4 DEF PiecesCover
<1>14. AskedOrFilled'
  <2>1. ASSUME NEW k \in 1..L
        PROVE  IF k <= requested
               THEN (\E c \in pending_blocks' : InBlock(k, c)) \/ filled[k] = base + k
               ELSE filled[k] = 0
    <3>1. CASE InBlock(k, b)
      <4>1. k <= requested
        BY <1>2, <1>3, <3>1 DEF InBlock
      <4> QED
        BY <1>3, <3>1, <4>1
    <3>2. CASE ~InBlock(k, b)
      <4>1. filled[k] = piece_bytes[k]
        BY <1>3, <3>2
      <4> QED
        BY <1>10, <3>2, <4>1
    <3> QED
      BY <3>1, <3>2
  <2> QED
    BY <1>2, <1>3, <2>1 DEF AskedOrFilled, base
<1>15. FilesExact' /\ idx' = 0 /\ disk' = <<>>
  BY NothingWritten DEF diskVars
<1>16. Phases'
  BY <1>15 DEF Phases
<1> QED
  BY <1>6, <1>8, <1>12, <1>13, <1>14, <1>15, <1>16 DEF StorageInv

\* The last block of a piece: the whole piece is there, and takes its place.
LEMMA PieceTakenOK ==
    ASSUME PiecesFit, StorageInv, phase = "download", piece # NoPiece,
           NEW b \in pending_blocks, NEW filled,
           filled = splice(piece_bytes, b[1], b[1] + b[2],
                           SubSeq(PieceContent(piece), b[1] + 1, b[1] + b[2])),
           remaining_blocks = 1, remaining_blocks' = 0, TakePiece(filled),
           UNCHANGED <<info, diskVars>>
    PROVE  StorageInv'
<1> DEFINE L == Len(piece_bytes)
           base == piece * info.piece_length
           end == base + L
<1>1. StorageTypeOK /\ BytesInPlace /\ PiecesCover /\ BlocksTile /\ AskedOrFilled
  BY DEF StorageInv
<1>2. /\ requested \in Nat /\ L \in 1..LongestPiece /\ L \in Nat /\ base \in Nat
      /\ requested <= L /\ L = piece_len(piece) /\ end <= total_length
      /\ total_length \in Nat /\ piece \in Pieces /\ info \in Torrents
      /\ IsFiniteSet(pending_blocks)
  BY <1>1, UnderWay, LongestPieceType DEF StorageTypeOK
<1>3. /\ filled \in Seq(Nat) /\ Len(filled) = L
      /\ \A k \in 1..L : filled[k] = IF InBlock(k, b) THEN base + k ELSE piece_bytes[k]
  BY BlockFills
<1>4. pending_blocks = {b} /\ requested = L
  <2>1. 1 = Cardinality(pending_blocks) + num_blocks(L - requested)
    BY <1>1 DEF BlocksTile
  <2>2. Cardinality(pending_blocks) \in Nat /\ Cardinality(pending_blocks) # 0
    BY <1>2, FS_CardinalityType, FS_EmptySet
  <2>3. num_blocks(L - requested) \in Nat /\ (num_blocks(L - requested) = 0 => L - requested = 0)
    <3>1. L - requested \in 0..LongestPiece
      <4> HIDE DEF L
      <4> QED
        BY <1>2, LongestPieceType
    <3> QED
      BY <3>1, BlocksLeft
  <2> HIDE DEF L
  <2>4. Cardinality(pending_blocks) = 1 /\ num_blocks(L - requested) = 0
    BY <2>1, <2>2, <2>3
  <2>5. requested = L
    BY <1>2, <2>3, <2>4
  <2>6. \E x : pending_blocks = {x}
    BY <1>2, <2>4, FS_Singleton
  <2> QED
    BY <2>5, <2>6
<1>5. \A k \in 1..L : filled[k] = base + k
  <2>1. \A k \in 1..L : k <= requested
    BY <1>2, <1>4
  <2>2. \A k \in 1..L : InBlock(k, b) \/ piece_bytes[k] = base + k
    BY <1>1, <1>4, <2>1 DEF AskedOrFilled
  <2> QED
    BY <1>3, <2>2
<1>6. /\ bytes \in Seq(Nat) /\ Len(bytes) = total_length
      /\ \A k \in 1..total_length : bytes[k] \in {0, k}
      /\ \A i \in received : \A k \in 1..piece_len(i) :
            bytes[i * info.piece_length + k] = i * info.piece_length + k
      /\ received \in SUBSET Pieces
  BY <1>1 DEF StorageTypeOK, BytesInPlace, PiecesCover
<1> HIDE DEF L
<1>7. base <= end /\ end \in Nat /\ end - base = L
  <2> HIDE DEF base
  <2> QED
    BY <1>2
<1>8. /\ bytes' = splice(bytes, base, end, filled) /\ phase' = phase
      /\ received' = received \cup {piece}
      /\ piece' = NoPiece /\ requested' = 0 /\ piece_bytes' = <<>> /\ pending_blocks' = {}
  <2>1. InBounds(bytes, base, base + piece_len(piece))
    BY <1>2, <1>6, <1>7 DEF InBounds
  <2> QED
    BY <1>2, <2>1 DEF TakePiece
<1> HIDE DEF base, end
<1>9. /\ bytes' \in Seq(Nat) /\ Len(bytes') = total_length
      /\ \A k \in 1..total_length :
            bytes'[k] = IF base < k /\ k <= end THEN filled[k - base] ELSE bytes[k]
  <2>1. base \in Nat /\ end \in Nat /\ base <= end /\ end <= Len(bytes)
        /\ Len(filled) = end - base
    BY <1>2, <1>3, <1>6, <1>7
  <2> DEFINE s == splice(bytes, base, end, filled)
  <2>2. Spliced(s, bytes, base, end, filled)
    BY <1>3, <1>6, <2>1, SpliceIs
  <2>3. bytes' = s
    BY <1>8
  <2> HIDE DEF s
  <2> QED
    BY ONLY <1>6, <2>2, <2>3 DEF Spliced
<1>10. \A k \in 1..total_length : bytes'[k] = IF base < k /\ k <= end THEN k ELSE bytes[k]
  <2>1. ASSUME NEW k \in 1..total_length, base < k, k <= end
        PROVE  filled[k - base] = k
    <3>1. k - base \in 1..L /\ base + (k - base) = k
      BY <1>2, <1>7, <2>1
    <3> QED
      BY <1>5, <3>1
  <2> QED
    BY <1>9, <2>1
<1>11. /\ total_length' = total_length /\ Pieces' = Pieces /\ Content' = Content
       /\ \A j : piece_len(j)' = piece_len(j)
  BY SameInfo
<1>12. StorageTypeOK'
  <2>1. piece_bytes' \in Seq(Nat) /\ requested' \in Nat /\ remaining_blocks' \in Int
    BY <1>8
  <2>2. pending_blocks' \in SUBSET (Nat \X Nat) /\ IsFiniteSet(pending_blocks')
    BY <1>8, FS_EmptySet
  <2>3. received' \in SUBSET Pieces' /\ piece' \in Pieces' \cup {NoPiece}
    BY <1>2, <1>6, <1>8, <1>11
  <2>4. info' \in Torrents /\ phase' = "download" /\ idx' \in Nat /\ disk' \in Seq(Seq(Nat))
    BY <1>1, <1>8 DEF StorageTypeOK, diskVars
  <2> QED
    BY <1>9, <2>1, <2>2, <2>3, <2>4 DEF StorageTypeOK
<1>13. BytesInPlace'
  BY <1>6, <1>8, <1>9, <1>10, <1>11 DEF BytesInPlace
<1>14. ASSUME NEW i \in received', NEW k \in 1..piece_len(i)
       PROVE  bytes'[i * info.piece_length + k] = i * info.piece_length + k
  <2> DEFINE x == i * info.piece_length
  <2>1. i \in Pieces
    BY <1>2, <1>6, <1>8
  <2>2. x \in Nat /\ piece_len(i) \in Nat /\ x + piece_len(i) <= total_length
    BY <1>2, <2>1, PieceFacts
  <2>3. x + k \in 1..total_length
    <3> HIDE DEF x
    <3> QED
      BY <1>2, <2>2
  <2>4. CASE i \in received
    BY <1>6, <1>10, <2>3, <2>4
  <2>5. CASE i = piece
    <3>1. x = base
      BY <2>5 DEF base
    <3> HIDE DEF x
    <3>2. base < x + k /\ x + k <= end
      BY <1>2, <2>2, <2>5, <3>1 DEF end
    <3>3. bytes'[x + k] = x + k
      BY <1>10, <2>3, <3>2
    <3> QED
      BY <3>3 DEF x
  <2> QED
    BY <1>8, <2>4, <2>5
<1>15. PiecesCover'
  <2>1. received' = Pieces => bytes' = Content
    <3> SUFFICES ASSUME received' = Pieces PROVE bytes' = Content
      OBVIOUS
    <3>1. ASSUME NEW k \in 1..total_length
          PROVE  bytes'[k] = k
      <4>1. PICK i \in Pieces : \E j \in 1..piece_len(i) : k = i * info.piece_length + j
        BY <1>2, InSomePiece
      <4>2. PICK j \in 1..piece_len(i) : k = i * info.piece_length + j
        BY <4>1
      <4> QED
        BY <1>14, <4>2
    <3> QED
      BY <1>2, <1>9, <3>1, ContentIs, SeqEqual
  <2> QED
    BY <1>11, <1>14, <2>1 DEF PiecesCover
<1>16. BlocksTile' /\ AskedOrFilled'
  BY <1>8 DEF BlocksTile, AskedOrFilled
<1>17. FilesExact' /\ idx' = 0 /\ disk' = <<>>
  BY <1>8, NothingWritten
<1>18. Phases'
  BY <1>8, <1>17 DEF Phases
<1> QED
  BY <1>12, <1>13, <1>15, <1>16, <1>17, <1>18 DEF StorageInv

LEMMA ReceiveBlockOK == PiecesFit /\ StorageInv /\ ReceiveBlock => StorageInv'
<1> SUFFICES ASSUME PiecesFit, StorageInv, ReceiveBlock PROVE StorageInv'
  OBVIOUS
<1>1. phase = "download" /\ UNCHANGED <<info, again, diskVars>>
  BY DEF ReceiveBlock
<1>2. PICK b \in pending_blocks :
         LET begin == b[1]
             end == b[1] + b[2]
             block == SubSeq(PieceContent(piece), begin + 1, end)
             filled == splice(piece_bytes, begin, end, block)
         IN  /\ remaining_blocks' = remaining_blocks - 1
             /\ IF remaining_blocks = 1
                THEN TakePiece(filled)
                ELSE /\ piece_bytes' = filled
                     /\ pending_blocks' = pending_blocks \ {b}
                     /\ UNCHANGED <<piece, requested, received, bytes, phase>>
  BY DEF ReceiveBlock
<1> DEFINE filled == splice(piece_bytes, b[1], b[1] + b[2],
                            SubSeq(PieceContent(piece), b[1] + 1, b[1] + b[2]))
<1>3. /\ remaining_blocks' = remaining_blocks - 1
      /\ IF remaining_blocks = 1
         THEN TakePiece(filled)
         ELSE /\ piece_bytes' = filled
              /\ pending_blocks' = pending_blocks \ {b}
              /\ UNCHANGED <<piece, requested, received, bytes, phase>>
  BY <1>2
<1>4. piece # NoPiece
  BY DEF StorageInv, Phases
<1>5. filled = splice(piece_bytes, b[1], b[1] + b[2],
                      SubSeq(PieceContent(piece), b[1] + 1, b[1] + b[2]))
  OBVIOUS
<1> HIDE DEF filled
<1>6. CASE remaining_blocks = 1
  <2>1. remaining_blocks' = 0 /\ TakePiece(filled)
    BY <1>3, <1>6
  <2> QED
    BY <1>1, <1>4, <1>5, <1>6, <2>1, PieceTakenOK
<1>7. CASE remaining_blocks # 1
  BY <1>1, <1>3, <1>4, <1>5, <1>7, BlockTakenOK
<1> QED
  BY <1>6, <1>7

LEMMA StartWritingOK == StorageInv /\ StartWriting => StorageInv'
<1> SUFFICES ASSUME StorageInv, StartWriting PROVE StorageInv'
  OBVIOUS
<1>1. /\ StorageTypeOK /\ BytesInPlace /\ PiecesCover /\ BlocksTile /\ AskedOrFilled /\ Phases
      /\ phase = "download" /\ piece = NoPiece /\ received = Pieces /\ phase' = "write"
      /\ UNCHANGED <<info, bytes, pieceVars, received, diskVars>>
  BY DEF StorageInv, StartWriting
<1>2. UNCHANGED <<piece, requested, remaining_blocks, piece_bytes, pending_blocks, idx, disk>>
  BY <1>1 DEF pieceVars, diskVars
<1>3. /\ total_length' = total_length /\ Pieces' = Pieces /\ Content' = Content
      /\ \A j : piece_len(j)' = piece_len(j)
  BY <1>1, SameInfo
<1>4. StorageTypeOK'
  BY <1>1, <1>2, <1>3 DEF StorageTypeOK
<1>5. BytesInPlace' /\ PiecesCover'
  BY <1>1, <1>2, <1>3 DEF BytesInPlace, PiecesCover
<1>6. BlocksTile' /\ AskedOrFilled'
  BY <1>1, <1>2 DEF BlocksTile, AskedOrFilled
<1>7. disk = <<>> /\ idx = 0
  BY <1>1 DEF Phases
<1>8. FilesExact'
  BY <1>1, <1>2, <1>7 DEF FilesExact
<1>9. Phases'
  <2>1. info.files \in Seq(Nat)
    BY <1>1, InfoIs DEF StorageTypeOK
  <2>2. Len(disk) = 0 /\ LenTo(info.files, 0) = 0 /\ 0 <= Len(info.files)
    BY <1>7, <2>1, LenToStep
  <2> QED
    BY <1>1, <1>2, <1>3, <1>7, <2>2 DEF Phases
<1> QED
  BY <1>4, <1>5, <1>6, <1>8, <1>9 DEF StorageInv

\* While files are written nothing but the disk and the phase changes.
LEMMA OnlyDisk ==
    ASSUME StorageInv, phase = "write", phase' \in {"write", "ok", "err"},
           UNCHANGED <<info, bytes, pieceVars, received>>,
           idx' \in Nat, disk' \in Seq(Seq(Nat)), FilesExact',
           phase' = "write" =>
              Len(disk') <= Len(info.files) /\ idx' = LenTo(info.files, Len(disk'))
    PROVE  StorageInv'
<1>1. /\ StorageTypeOK /\ BytesInPlace /\ PiecesCover /\ BlocksTile /\ AskedOrFilled
      /\ piece = NoPiece /\ received = Pieces /\ pending_blocks = {}
  BY DEF StorageInv, Phases
<1>2. UNCHANGED <<piece, requested, remaining_blocks, piece_bytes, pending_blocks>>
  BY DEF pieceVars
<1>3. /\ total_length' = total_length /\ Pieces' = Pieces /\ Content' = Content
      /\ \A j : piece_len(j)' = piece_len(j)
  BY SameInfo
<1>4. StorageTypeOK'
  BY <1>1, <1>2, <1>3 DEF StorageTypeOK
<1>5. BytesInPlace' /\ PiecesCover' /\ BlocksTile' /\ AskedOrFilled'
  BY <1>1, <1>2, <1>3 DEF BytesInPlace, PiecesCover, BlocksTile, AskedOrFilled
<1>6. Phases'
  BY <1>1, <1>2, <1>3 DEF Phases
<1> QED
  BY <1>4, <1>5, <1>6 DEF StorageInv

\* The file on the disk that is told by its place among the files.
FileAt(f) == SubSeq(Content, LenTo(info.files, f - 1) + 1, LenTo(info.files, f))

\* Where the next file is in the buffer.
LEMMA NextFile ==
    ASSUME StorageInv, phase = "write", Len(disk) < Len(info.files)
    PROVE  /\ InBounds(bytes, idx, idx + file_len)
           /\ idx \in Nat /\ file_len \in Nat
           /\ Len(disk) + 1 \in 1..Len(info.files) /\ Len(disk) \in Nat
           /\ idx + file_len = LenTo(info.files, Len(disk) + 1)
           /\ Slice = FileAt(Len(disk) + 1)
           /\ Slice \in Seq(Nat) /\ Len(Slice) = file_len
<1> DEFINE n == Len(disk)
           files == info.files
<1>1. /\ info \in Torrents /\ bytes \in Seq(Nat) /\ Len(bytes) = total_length
      /\ disk \in Seq(Seq(Nat)) /\ idx = LenTo(files, n) /\ bytes = Content
  BY DEF StorageInv, StorageTypeOK, BytesInPlace, Phases, PiecesCover
<1>2. files \in Seq(Nat) /\ total_length = LenTo(files, Len(files))
  BY <1>1, InfoIs DEF total_length
<1>3. n \in Nat /\ n < Len(files) /\ Len(files) \in Nat
  BY <1>1, <1>2
<1> HIDE DEF n, files
<1>4. /\ n \in 0..Len(files) /\ n \in 0..(Len(files) - 1) /\ n + 1 \in 0..Len(files)
      /\ n + 1 \in 1..Len(files) /\ (n + 1) - 1 = n
  BY <1>3
<1>5. /\ LenTo(files, n) \in Nat /\ LenTo(files, n + 1) \in Nat
      /\ LenTo(files, n + 1) = LenTo(files, n) + files[n + 1]
      /\ LenTo(files, n + 1) <= total_length
  BY <1>2, <1>4, LenToStep, LenToBound
<1>6. file_len = files[n + 1] /\ files[n + 1] \in Nat
  BY <1>2, <1>4 DEF file_len, n, files
<1>7. idx \in Nat /\ file_len \in Nat /\ idx + file_len = LenTo(files, n + 1)
  BY <1>1, <1>5, <1>6
<1>8. InBounds(bytes, idx, idx + file_len)
  BY <1>1, <1>5, <1>7 DEF InBounds
<1>9. Slice = FileAt(n + 1)
  <2>1. Slice = SubSeq(Content, LenTo(files, n) + 1, LenTo(files, n + 1))
    BY <1>1, <1>7 DEF Slice
  <2> QED
    BY <1>4, <2>1 DEF FileAt, files
<1>10. Slice \in Seq(Nat) /\ Len(Slice) = file_len
  <2>1. /\ idx + file_len \in Nat /\ idx <= idx + file_len /\ idx + file_len <= Len(bytes)
        /\ (idx + file_len) - idx = file_len
    BY <1>1, <1>5, <1>7
  <2> QED
    BY <1>1, <1>7, <2>1, SliceIs DEF Slice
<1> QED
  BY <1>3, <1>4, <1>7, <1>8, <1>9, <1>10 DEF n, files

\* The files written before are whole.
LEMMA WrittenFiles ==
    ASSUME StorageInv, phase = "write", NEW f \in 1..Len(disk)
    PROVE  disk[f] = FileAt(f) /\ disk[f] \in Seq(Nat)
  BY DEF StorageInv, StorageTypeOK, FilesExact, FileAt

\* One more file after the ones that were written.
LEMMA OneMoreFile ==
    ASSUME StorageInv, phase = "write", NEW file \in Seq(Nat), disk' = Append(disk, file)
    PROVE  /\ disk' \in Seq(Seq(Nat)) /\ Len(disk) \in Nat /\ Len(disk') = Len(disk) + 1
           /\ disk'[Len(disk) + 1] = file
           /\ \A f \in 1..Len(disk') : f # Len(disk') => f \in 1..Len(disk) /\ disk'[f] = disk[f]
<1>1. disk \in Seq(Seq(Nat)) /\ Len(disk) \in Nat
  BY DEF StorageInv, StorageTypeOK
<1>2. /\ disk' \in Seq(Seq(Nat)) /\ Len(disk') = Len(disk) + 1
      /\ disk'[Len(disk) + 1] = file
      /\ \A f \in 1..Len(disk) : disk'[f] = disk[f]
  BY <1>1, AppendProperties
<1>3. \A f \in 1..(Len(disk) + 1) : f # Len(disk) + 1 => f \in 1..Len(disk)
  BY <1>1
<1> QED
  BY <1>1, <1>2, <1>3

LEMMA WriteFileOK == StorageInv /\ WriteFile => StorageInv'
<1> SUFFICES ASSUME StorageInv, WriteFile PROVE StorageInv'
  OBVIOUS
<1>1. /\ phase = "write" /\ Len(disk) < Len(info.files)
      /\ UNCHANGED <<info, bytes, pieceVars, received>>
  BY DEF WriteFile
<1>2. /\ InBounds(bytes, idx, idx + file_len)
      /\ idx \in Nat /\ file_len \in Nat
      /\ Len(disk) + 1 \in 1..Len(info.files) /\ Len(disk) \in Nat
      /\ idx + file_len = LenTo(info.files, Len(disk) + 1)
      /\ Slice = FileAt(Len(disk) + 1) /\ Slice \in Seq(Nat)
  BY <1>1, NextFile
<1>3. disk' = Append(disk, Slice) /\ idx' = idx + file_len /\ phase' = "write"
  BY <1>1, <1>2 DEF WriteFile
<1>4. /\ disk' \in Seq(Seq(Nat)) /\ Len(disk') = Len(disk) + 1
      /\ disk'[Len(disk) + 1] = Slice
      /\ \A f \in 1..Len(disk') : f # Len(disk') => f \in 1..Len(disk) /\ disk'[f] = disk[f]
  BY <1>1, <1>2, <1>3, OneMoreFile
<1>5. \A f \in 1..Len(disk') : disk'[f] = FileAt(f)
  BY <1>1, <1>2, <1>4, WrittenFiles
<1>6. FilesExact'
  <2>1. Content' = Content
    BY <1>1, SameInfo
  <2> QED
    BY <1>1, <1>3, <1>5, <2>1 DEF FilesExact, FileAt
<1>7. Len(disk') <= Len(info.files) /\ idx' = LenTo(info.files, Len(disk')) /\ idx' \in Nat
  BY <1>2, <1>3, <1>4
<1> QED
  BY <1>1, <1>3, <1>4, <1>6, <1>7, OnlyDisk

LEMMA WriteFailsOK == StorageInv /\ WriteFails => StorageInv'
<1> SUFFICES ASSUME StorageInv, WriteFails PROVE StorageInv'
  OBVIOUS
<1>1. /\ phase = "write" /\ Len(disk) < Len(info.files) /\ phase' = "err"
      /\ UNCHANGED <<info, bytes, pieceVars, received, idx>>
      /\ disk' \in {disk} \cup {Append(disk, SubSeq(Slice, 1, n)) : n \in 0..file_len}
  BY DEF WriteFails
<1>2. /\ file_len \in Nat /\ Len(disk) \in Nat
      /\ Slice = FileAt(Len(disk) + 1) /\ Slice \in Seq(Nat) /\ Len(Slice) = file_len
  BY <1>1, NextFile
<1>3. disk \in Seq(Seq(Nat)) /\ idx \in Nat
  BY DEF StorageInv, StorageTypeOK
<1>4. Content' = Content
  BY <1>1, SameInfo
<1>5. disk' \in Seq(Seq(Nat)) /\ FilesExact'
  <2>1. CASE disk' = disk
    <3>1. ASSUME NEW f \in 1..Len(disk)
          PROVE  disk[f] = FileAt(f) /\ disk[f] = SubSeq(FileAt(f), 1, Len(disk[f]))
      <4>1. disk[f] = FileAt(f) /\ disk[f] \in Seq(Nat)
        BY <1>1, WrittenFiles
      <4>2. SubSeq(disk[f], 1, Len(disk[f])) = disk[f]
        BY <4>1, SubSeqFull
      <4> QED
        BY <4>1, <4>2
    <3> QED
      BY <1>1, <1>3, <1>4, <2>1, <3>1 DEF FilesExact, FileAt
  <2>2. CASE disk' \in {Append(disk, SubSeq(Slice, 1, n)) : n \in 0..file_len}
    <3>1. PICK n \in 0..file_len : disk' = Append(disk, SubSeq(Slice, 1, n))
      BY <2>2
    <3> DEFINE part == SubSeq(Slice, 1, n)
    <3>2. part \in Seq(Nat) /\ Len(part) = n
      <4>1. n \in Nat /\ 0 <= n /\ n <= Len(Slice)
        BY <1>2
      <4>2. SubSeq(Slice, 0 + 1, n) \in Seq(Nat) /\ Len(SubSeq(Slice, 0 + 1, n)) = n - 0
        BY <1>2, <4>1, SliceIs
      <4> QED
        BY <4>1, <4>2
    <3> HIDE DEF part
    <3>3. disk' = Append(disk, part)
      BY <3>1 DEF part
    <3>4. /\ disk' \in Seq(Seq(Nat)) /\ Len(disk') = Len(disk) + 1
          /\ disk'[Len(disk) + 1] = part
          /\ \A f \in 1..Len(disk') :
                f # Len(disk') => f \in 1..Len(disk) /\ disk'[f] = disk[f]
      BY <1>1, <3>2, <3>3, OneMoreFile
    <3>5. \A f \in 1..Len(disk') : f # Len(disk') => disk'[f] = FileAt(f)
      BY <1>1, <3>4, WrittenFiles
    <3>6. part = SubSeq(FileAt(Len(disk) + 1), 1, Len(part))
      BY <1>2, <3>2 DEF part
    <3>7. disk'[Len(disk')] = SubSeq(FileAt(Len(disk')), 1, Len(disk'[Len(disk')]))
      BY <3>4, <3>6
    <3> QED
      BY <1>1, <1>4, <3>4, <3>5, <3>7 DEF FilesExact, FileAt
  <2> QED
    BY <1>1, <2>1, <2>2
<1> QED
  BY <1>1, <1>3, <1>5, OnlyDisk

LEMMA WriteDoneOK == StorageInv /\ WriteDone => StorageInv'
<1> SUFFICES ASSUME StorageInv, WriteDone PROVE StorageInv'
  OBVIOUS
<1>1. /\ phase = "write" /\ Len(disk) = Len(info.files) /\ phase' = "ok"
      /\ UNCHANGED <<info, bytes, pieceVars, received, diskVars>> /\ UNCHANGED <<idx, disk>>
  BY DEF WriteDone, diskVars
<1>2. disk \in Seq(Seq(Nat)) /\ idx \in Nat /\ Content' = Content
  BY <1>1, SameInfo DEF StorageInv, StorageTypeOK
<1>3. \A f \in 1..Len(disk) : disk[f] = FileAt(f)
  BY <1>1, WrittenFiles
<1>4. FilesExact'
  BY <1>1, <1>2, <1>3 DEF FilesExact, FileAt
<1> QED
  BY <1>1, <1>2, <1>4, OnlyDisk

LEMMA StorageStutterOK == StorageInv /\ UNCHANGED vars => StorageInv'
<1> SUFFICES ASSUME StorageInv, UNCHANGED vars PROVE StorageInv'
  OBVIOUS
<1>1. UNCHANGED <<info, bytes, piece, requested, remaining_blocks, piece_bytes, pending_blocks,
                  received, phase, idx, disk>>
  BY DEF vars, pieceVars, diskVars
<1>2. /\ total_length' = total_length /\ Pieces' = Pieces /\ Content' = Content
      /\ \A j : piece_len(j)' = piece_len(j)
  BY <1>1, SameInfo
<1>3. StorageTypeOK'
  BY <1>1, <1>2 DEF StorageInv, StorageTypeOK
<1>4. BytesInPlace' /\ PiecesCover' /\ BlocksTile' /\ AskedOrFilled'
  BY <1>1, <1>2 DEF StorageInv, BytesInPlace, PiecesCover, BlocksTile, AskedOrFilled
<1>5. FilesExact' /\ Phases'
  BY <1>1, <1>2 DEF StorageInv, FilesExact, Phases
<1> QED
  BY <1>3, <1>4, <1>5 DEF StorageInv

LEMMA StorageInvInductive == PiecesFit /\ StorageInv /\ [Next]_vars => StorageInv'
  BY PickPieceOK, RequestBlockOK, ReceiveBlockOK, StartWritingOK, WriteFileOK, WriteFailsOK,
     WriteDoneOK, StorageStutterOK DEF Next, Download, Write

Safety == Init /\ [][Next]_vars

\* `PiecesFit' is about constants: it holds at every step or never.
LEMMA StorageInvHolds == PiecesFit => (Safety => []StorageInv)
<1> SUFFICES ASSUME PiecesFit PROVE Safety => []StorageInv
  OBVIOUS
<1>1. Init => StorageInv
  BY StorageInitOK
<1>2. StorageInv /\ [Next]_vars => StorageInv'
  BY StorageInvInductive
<1> QED
  BY <1>1, <1>2, PTL DEF Safety

-----------------------------------------------------------------------------
(* The theorems. *)

\* No byte is moved by the splices of blocks into pieces and of pieces into the
\* buffer, whatever the lengths and the order they come in (mod.rs:41, 123-125,
\* 405-407, 501).
THEOREM StorageBytesInPlace == PiecesFit => (Safety => []BytesInPlace)
<1> SUFFICES ASSUME PiecesFit PROVE Safety => []BytesInPlace
  OBVIOUS
<1>1. Safety => []StorageInv
  BY StorageInvHolds
<1>2. StorageInv => BytesInPlace
  BY DEF StorageInv
<1> QED
  BY <1>1, <1>2, PTL

\* The count of blocks and the requests that are cut agree: a piece is complete with
\* its last block and not before (mod.rs:392, 410, 493-500, 550-577).
THEOREM StorageBlocksTile == PiecesFit => (Safety => []BlocksTile)
<1> SUFFICES ASSUME PiecesFit PROVE Safety => []BlocksTile
  OBVIOUS
<1>1. Safety => []StorageInv
  BY StorageInvHolds
<1>2. StorageInv => BlocksTile
  BY DEF StorageInv
<1> QED
  BY <1>1, <1>2, PTL

\* With all the pieces received the buffer is the torrent (meta_info.rs:43-61,
\* mod.rs:108, 123-125).
THEOREM StoragePiecesCover == PiecesFit => (Safety => []PiecesCover)
<1> SUFFICES ASSUME PiecesFit PROVE Safety => []PiecesCover
  OBVIOUS
<1>1. Safety => []StorageInv
  BY StorageInvHolds
<1>2. StorageInv => PiecesCover
  BY DEF StorageInv
<1> QED
  BY <1>1, <1>2, PTL

\* Each file on the disk has its own bytes, and all of them but for the one an error
\* cut short (file/mod.rs:18-29).
THEOREM StorageFilesExact == PiecesFit => (Safety => []FilesExact)
<1> SUFFICES ASSUME PiecesFit PROVE Safety => []FilesExact
  OBVIOUS
<1>1. Safety => []StorageInv
  BY StorageInvHolds
<1>2. StorageInv => FilesExact
  BY DEF StorageInv
<1> QED
  BY <1>1, <1>2, PTL

\* No slice or splice of the buffer or a file is out of bounds (mod.rs:123-125,
\* file/mod.rs:26).
THEOREM StorageNeverPanics == PiecesFit => (Safety => [](phase # "panicked"))
<1> SUFFICES ASSUME PiecesFit PROVE Safety => [](phase # "panicked")
  OBVIOUS
<1>1. Safety => []StorageInv
  BY StorageInvHolds
<1>2. StorageInv => phase # "panicked"
  BY DEF StorageInv, StorageTypeOK
<1> QED
  BY <1>1, <1>2, PTL
=============================================================================
