---------------------------- MODULE BencodeProofs ----------------------------
(***************************************************************************)
(* The two decoders on any input: they agree, neither looks past the value *)
(* it returns, and an encoded value is decoded to itself.                  *)
(***************************************************************************)
EXTENDS BencodeCheck, SequenceTheorems, WellFoundedInduction, TLAPS

-----------------------------------------------------------------------------
(* Results. *)

LEMMA Results ==
  /\ Err.out = "err" /\ Panic.out = "panic"
  /\ \A rest, v : /\ Ok(rest, v).out = "ok"
                      /\ Ok(rest, v).rest = rest
                      /\ Ok(rest, v).value = v
  BY DEF Ok, Err, Panic

LEMMA ThenIs ==
  ASSUME NEW r, NEW v
  PROVE  /\ r.out = "ok" => Then(r, v) = Ok(r.rest, v)
         /\ r.out # "ok" => Then(r, v) = r
  BY DEF Then

\* A result for the part of s that begins at i: what was decoded was not empty, and
\* was there.
Moves(s, i, r) ==
    \/ r = Err
    \/ r = Panic
    \/ r = Ok(r.rest, r.value) /\ r.rest \in (i + 1)..(Len(s) + 1)

LEMMA OkMoves ==
  ASSUME NEW s \in Inputs, NEW i \in Nat, NEW rest \in (i + 1)..(Len(s) + 1), NEW v
  PROVE  Moves(s, i, Ok(rest, v))
  BY Results DEF Moves

LEMMA MovesOk ==
  ASSUME NEW s \in Inputs, NEW i \in Nat, NEW r, Moves(s, i, r), r.out = "ok"
  PROVE  r = Ok(r.rest, r.value) /\ r.rest \in (i + 1)..(Len(s) + 1)
  BY Results DEF Moves

\* Further on is further from here.
LEMMA MovesFrom ==
  ASSUME NEW s \in Inputs, NEW i \in Nat, NEW j \in Nat, i <= j, NEW r, Moves(s, j, r)
  PROVE  Moves(s, i, r)
<1>1. Len(s) \in Nat
  BY DEF Inputs
<1> QED
  BY <1>1 DEF Moves

LEMMA ThenMoves ==
  ASSUME NEW s \in Inputs, NEW i \in Nat, NEW j \in Nat, i <= j, NEW r, Moves(s, j, r), NEW v
  PROVE  Moves(s, i, Then(r, v))
<1>1. CASE r.out = "ok"
  <2>1. r.rest \in (j + 1)..(Len(s) + 1) /\ Then(r, v) = Ok(r.rest, v)
    BY <1>1, MovesOk, ThenIs
  <2>2. Len(s) \in Nat
    BY DEF Inputs
  <2>3. r.rest \in (i + 1)..(Len(s) + 1)
    BY <2>1, <2>2
  <2> QED
    BY <2>1, <2>3, OkMoves
<1>2. CASE r.out # "ok"
  BY <1>2, MovesFrom, ThenIs
<1> QED
  BY <1>1, <1>2

-----------------------------------------------------------------------------
(* Characters. *)

LEMMA Least ==
  ASSUME NEW B \in SUBSET Nat, B # {}
  PROVE  \E n \in B : \A k \in Nat : k < n => k \notin B
<1>1. PICK n \in B : \A y \in B : ~(<<y, n>> \in OpToRel(<, Nat))
  BY NatLessThanWellFounded, WFMin
<1> QED
  BY <1>1 DEF OpToRel

LEMMA NotDigits ==
  ~IsDigit(":") /\ ~IsDigit("e") /\ ~IsDigit("i") /\ ~IsDigit("l") /\ ~IsDigit("d")
<1>1. DOMAIN Digits = 1..10
  BY DEF Digits
<1>2. \A d \in 1..10 : \/ d = 1 \/ d = 2 \/ d = 3 \/ d = 4 \/ d = 5
                       \/ d = 6 \/ d = 7 \/ d = 8 \/ d = 9 \/ d = 10
  OBVIOUS
<1>3. \A d \in 1..10 : /\ Digits[d] # ":" /\ Digits[d] # "e" /\ Digits[d] # "i"
                       /\ Digits[d] # "l" /\ Digits[d] # "d"
  BY <1>2 DEF Digits
<1> QED
  BY <1>1, <1>3 DEF IsDigit

\* The least of some positions.
LEMMA LeastIs ==
  ASSUME NEW B \in SUBSET Nat, B # {}
  PROVE  LET n == CHOOSE k \in B : \A j \in B : k <= j
         IN  n \in B /\ \A j \in B : n <= j
<1>1. PICK n \in B : \A k \in Nat : k < n => k \notin B
  BY Least
<1>2. \A j \in B : n <= j
  BY <1>1
<1> QED
  BY <1>1, <1>2

FirstAt(s, i, c, k) == k \in i..Len(s) /\ s[k] = c /\ \A j \in i..(k - 1) : s[j] # c

LEMMA PositionIs ==
  ASSUME NEW s \in Inputs, NEW i \in Nat, NEW c
  PROVE  \/ Position(s, i, c) = 0 /\ \A j \in i..Len(s) : s[j] # c
         \/ Position(s, i, c) # 0 /\ FirstAt(s, i, c, Position(s, i, c))
         \/ i = 0
<1> DEFINE at == {k \in i..Len(s) : s[k] = c}
           n == CHOOSE k \in at : \A j \in at : k <= j
<1>1. Len(s) \in Nat
  BY DEF Inputs
<1>2. at \in SUBSET Nat
  BY <1>1
<1>3. Position(s, i, c) = IF at = {} THEN 0 ELSE n
  BY DEF Position
<1>4. CASE at = {}
  BY <1>3, <1>4
<1>5. CASE at # {} /\ i # 0
  <2>1. n \in at /\ \A j \in at : n <= j
    <3> HIDE DEF at
    <3> QED
      BY <1>2, <1>5, LeastIs
  <2> HIDE DEF n
  <2>2. n \in i..Len(s) /\ s[n] = c /\ n # 0
    BY <1>1, <1>5, <2>1
  <2>3. ASSUME NEW j \in i..(n - 1) PROVE s[j] # c
    <3>1. j \in i..Len(s) /\ ~(n <= j)
      BY <1>1, <2>2
    <3> QED
      BY <2>1, <3>1
  <2>4. FirstAt(s, i, c, n)
    BY <2>2, <2>3 DEF FirstAt
  <2> HIDE DEF at
  <2> QED
    BY <1>3, <1>5, <2>2, <2>4
<1> QED
  BY <1>4, <1>5

LEMMA PositionAt ==
  ASSUME NEW s \in Inputs, NEW i \in Nat \ {0}, NEW c, NEW k, FirstAt(s, i, c, k)
  PROVE  Position(s, i, c) = k
<1> DEFINE n == Position(s, i, c)
<1>1. Len(s) \in Nat
  BY DEF Inputs
<1>2. k \in i..Len(s) /\ s[k] = c /\ \A j \in i..(k - 1) : s[j] # c
  BY DEF FirstAt
<1>3. \/ n = 0 /\ \A j \in i..Len(s) : s[j] # c
      \/ n # 0 /\ FirstAt(s, i, c, n)
  BY PositionIs
<1> HIDE DEF n
<1>4. n \in i..Len(s) /\ s[n] = c /\ \A j \in i..(n - 1) : s[j] # c
  BY <1>2, <1>3 DEF FirstAt
<1>5. ~(n < k) /\ ~(k < n)
  BY <1>1, <1>2, <1>4
<1> QED
  BY <1>1, <1>2, <1>4, <1>5 DEF n

\* The digits from i on end at k.
DigitsTo(s, i, k) ==
    /\ k \in i..(Len(s) + 1)
    /\ \A j \in i..(k - 1) : IsDigit(s[j])
    /\ k \in DOMAIN s => ~IsDigit(s[k])

LEMMA DigitsEndIs ==
  ASSUME NEW s \in Inputs, NEW i \in 1..(Len(s) + 1)
  PROVE  DigitsTo(s, i, DigitsEnd(s, i))
<1> DEFINE ends == {k \in i..Len(s) : ~IsDigit(s[k])}
           n == CHOOSE k \in ends : \A j \in ends : k <= j
<1>1. Len(s) \in Nat /\ DOMAIN s = 1..Len(s) /\ i \in Nat
  BY DEF Inputs
<1>2. ends \in SUBSET Nat
  BY <1>1
<1>3. DigitsEnd(s, i) = IF ends = {} THEN Len(s) + 1 ELSE n
  BY DEF DigitsEnd
<1>4. CASE ends = {}
  <2>1. \A j \in i..(Len(s) + 1 - 1) : IsDigit(s[j])
    BY <1>1, <1>4
  <2> QED
    BY <1>1, <1>3, <1>4, <2>1 DEF DigitsTo
<1>5. CASE ends # {}
  <2>1. n \in ends /\ \A j \in ends : n <= j
    <3> HIDE DEF ends
    <3> QED
      BY <1>2, <1>5, LeastIs
  <2> HIDE DEF n
  <2>2. n \in i..Len(s) /\ ~IsDigit(s[n])
    BY <2>1
  <2>3. ASSUME NEW j \in i..(n - 1) PROVE IsDigit(s[j])
    <3>1. j \in i..Len(s) /\ ~(n <= j)
      BY <1>1, <2>2
    <3> QED
      BY <2>1, <3>1
  <2>4. DigitsTo(s, i, n)
    BY <1>1, <2>2, <2>3 DEF DigitsTo
  <2> HIDE DEF ends
  <2> QED
    BY <1>3, <1>5, <2>4
<1> QED
  BY <1>4, <1>5

LEMMA DigitsEndAt ==
  ASSUME NEW s \in Inputs, NEW i \in 1..(Len(s) + 1), NEW k, DigitsTo(s, i, k)
  PROVE  DigitsEnd(s, i) = k
<1> DEFINE n == DigitsEnd(s, i)
<1>1. Len(s) \in Nat /\ DOMAIN s = 1..Len(s) /\ i \in Nat
  BY DEF Inputs
<1>2. DigitsTo(s, i, n)
  BY DigitsEndIs
<1> HIDE DEF n
<1>3. ~(n < k) /\ ~(k < n) /\ n \in Nat /\ k \in Nat
  BY <1>1, <1>2 DEF DigitsTo
<1> QED
  BY <1>3 DEF n

-----------------------------------------------------------------------------
(* Numbers. *)

LEMMA DigitOfIs ==
  ASSUME NEW c, IsDigit(c)
  PROVE  DigitOf(c) \in Nat
<1>1. DOMAIN Digits = 1..10
  BY DEF Digits
<1> DEFINE n == CHOOSE d \in DOMAIN Digits : Digits[d] = c
<1>2. n \in DOMAIN Digits
  BY DEF IsDigit
<1>3. DigitOf(c) = n - 1
  BY DEF DigitOf
<1> HIDE DEF n
<1>4. n - 1 \in Nat
  BY ONLY <1>1, <1>2
<1> QED
  BY ONLY <1>3, <1>4

\* `f' is the value of the first n digits.
Values(f, digits, n) ==
    /\ f \in [0..n -> Nat]
    /\ \A k \in 0..n : f[k] = IF k = 0 THEN 0 ELSE 10 * f[k - 1] + DigitOf(digits[k])

LEMMA ValuesExist ==
  ASSUME NEW digits \in Inputs, \A k \in 1..Len(digits) : IsDigit(digits[k]),
         NEW n \in 0..Len(digits)
  PROVE  \E f : Values(f, digits, n)
<1> DEFINE Bad == {m \in 0..Len(digits) : ~ \E f : Values(f, digits, m)}
<1>1. Len(digits) \in Nat /\ Bad \in SUBSET Nat
  BY DEF Inputs
<1>2. ASSUME Bad # {} PROVE FALSE
  <2>1. PICK m \in Bad : \A y \in Nat : y < m => y \notin Bad
    <3> HIDE DEF Bad
    <3> QED
      BY <1>1, <1>2, Least
  <2>2. m \in Nat /\ m <= Len(digits) /\ ~ \E f : Values(f, digits, m)
    BY <1>1
  <2>3. CASE m = 0
    <3> DEFINE t == [k \in 0..0 |-> 0]
    <3>1. t \in [0..0 -> Nat] /\ \A k \in 0..0 : k = 0 /\ t[k] = 0
      OBVIOUS
    <3> HIDE DEF t
    <3>2. Values(t, digits, 0)
      BY <3>1 DEF Values
    <3> QED
      BY <2>2, <2>3, <3>2
  <2>4. CASE m # 0
    <3>1. m - 1 \in Nat /\ m - 1 < m /\ m - 1 \in 0..Len(digits) /\ m \in 1..Len(digits)
      BY <1>1, <2>2, <2>4
    <3>2. m - 1 \notin Bad
      <4> HIDE DEF Bad
      <4> QED
        BY <2>1, <3>1
    <3>3. PICK f : Values(f, digits, m - 1)
      BY <3>1, <3>2
    <3> DEFINE d(k) == DigitOf(digits[k])
               t == [k \in 0..m |-> IF k = m THEN 10 * f[m - 1] + d(m) ELSE f[k]]
    <3>4. d(m) \in Nat
      BY <3>1, DigitOfIs
    <3>5. /\ f \in [0..(m - 1) -> Nat]
          /\ \A k \in 0..(m - 1) : f[k] = IF k = 0 THEN 0 ELSE 10 * f[k - 1] + d(k)
      BY <3>3 DEF Values
    <3> HIDE DEF d
    <3>6. t \in [0..m -> Nat]
      <4>1. f[m - 1] \in Nat
        BY <3>1, <3>5
      <4>2. 10 * f[m - 1] + d(m) \in Nat
        BY <3>4, <4>1
      <4>3. \A k \in 0..m : k # m => k \in 0..(m - 1)
        BY <2>2
      <4> QED
        BY <3>5, <4>2, <4>3
    <3>7. ASSUME NEW k \in 0..m
          PROVE  t[k] = IF k = 0 THEN 0 ELSE 10 * t[k - 1] + d(k)
      <4>1. CASE k = m
        <5>1. t[k] = 10 * f[m - 1] + d(m) /\ t[k - 1] = f[m - 1]
          BY <2>2, <2>4, <3>1, <4>1
        <5> QED
          BY <2>4, <4>1, <5>1
      <4>2. CASE k # m
        <5>1. k \in 0..(m - 1) /\ t[k] = f[k] /\ (k # 0 => t[k - 1] = f[k - 1])
          BY <2>2, <3>1, <4>2
        <5> QED
          BY <3>5, <5>1
      <4> QED
        BY <4>1, <4>2
    <3> HIDE DEF t
    <3>8. Values(t, digits, m)
      BY <3>6, <3>7 DEF Values, d
    <3> QED
      BY <2>2, <3>8
  <2> QED
    BY <2>3, <2>4
<1> QED
  BY <1>1, <1>2

\* Digits are a number.
LEMMA NumberIs ==
  ASSUME NEW digits \in Inputs, \A k \in 1..Len(digits) : IsDigit(digits[k])
  PROVE  Number(digits) \in Nat
<1> DEFINE L == Len(digits)
           rec(f) == [n \in 0..L |-> IF n = 0 THEN 0 ELSE 10 * f[n - 1] + DigitOf(digits[n])]
           g == CHOOSE f : f = rec(f)
<1>1. L \in Nat /\ L \in 0..L
  BY DEF Inputs
<1>2. PICK h : Values(h, digits, L)
  BY <1>1, ValuesExist
<1>3. h = rec(h)
  BY <1>2 DEF Values
<1>4. g = rec(g)
  <2> HIDE DEF rec
  <2> QED
    BY <1>3
<1>5. Number(digits) = g[L]
  BY DEF Number
<1> HIDE DEF g
<1>6. \A n \in 0..L : g[n] = IF n = 0 THEN 0 ELSE 10 * g[n - 1] + DigitOf(digits[n])
  BY <1>4
<1> DEFINE Bad == {n \in 0..L : g[n] \notin Nat}
<1>7. ASSUME Bad # {} PROVE FALSE
  <2>0. Bad \in SUBSET Nat
    BY <1>1
  <2>1. PICK n \in Bad : \A y \in Nat : y < n => y \notin Bad
    <3> HIDE DEF Bad
    <3> QED
      BY <1>7, <2>0, Least
  <2>2. n \in 0..L /\ g[n] \notin Nat
    OBVIOUS
  <2>3. n # 0
    BY <1>6, <2>2
  <2>4. n - 1 \in 0..L /\ n - 1 \in Nat /\ n - 1 < n /\ n \in 1..L
    BY <1>1, <2>2, <2>3
  <2>5. g[n - 1] \in Nat
    BY <2>1, <2>4
  <2>6. DigitOf(digits[n]) \in Nat
    BY <2>4, DigitOfIs
  <2>7. g[n] = 10 * g[n - 1] + DigitOf(digits[n])
    BY <1>6, <2>2, <2>3
  <2> QED
    BY <2>2, <2>5, <2>6, <2>7
<1> QED
  BY <1>1, <1>5, <1>7

LEMMA ToUsizeIs ==
  ASSUME NEW s \in Inputs, NEW i \in Nat \ {0}, NEW j \in Nat, j <= Len(s) + 1,
         AllDigits(s, i, j)
  PROVE  ToUsize(s, i, j) \in Nat
<1> DEFINE d == SubSeq(s, i, j - 1)
<1>1. Len(s) \in Nat /\ i < j /\ \A k \in i..(j - 1) : IsDigit(s[k])
  BY DEF Inputs, AllDigits
<1>2. \A k \in i..(j - 1) : s[k] \in STRING
  BY <1>1 DEF Inputs
<1>3. /\ d \in Seq(STRING) /\ Len(d) = (j - 1) - i + 1
      /\ \A k \in 1..((j - 1) - i + 1) : d[k] = s[i + k - 1]
  BY <1>1, <1>2, SubSeqProperties DEF Inputs
<1> HIDE DEF d
<1>4. ASSUME NEW k \in 1..Len(d) PROVE IsDigit(d[k])
  <2>1. d[k] = s[i + k - 1] /\ i + k - 1 \in i..(j - 1)
    BY <1>1, <1>3
  <2> QED
    BY <1>1, <2>1
<1>5. Number(d) \in Nat
  BY <1>3, <1>4, NumberIs DEF Inputs
<1> QED
  BY <1>5 DEF ToUsize, d

-----------------------------------------------------------------------------
(* Strings and integers. *)

LEMMA SignEndIs ==
  ASSUME NEW s \in Inputs, NEW i \in 1..(Len(s) + 1)
  PROVE  /\ SignEnd(s, i) \in {i, i + 1} /\ SignEnd(s, i) \in i..(Len(s) + 1)
         /\ SignEnd(s, i) = i + 1 => i \in 1..Len(s) /\ s[i] \in {"-", "+"}
<1>1. Len(s) \in Nat /\ DOMAIN s = 1..Len(s) /\ i \in Nat
  BY DEF Inputs
<1> QED
  BY <1>1 DEF SignEnd, At

\* When a string is read, and where it ends.
LEMMA PlainStringIs ==
  ASSUME NEW s \in Inputs, NEW i \in 1..Len(s), NEW c, c = Position(s, i, ":")
  PROVE  /\ c = 0 \/ ~AllDigits(s, i, c) \/ ToUsize(s, i, c) > MaxUsize
               => plain_string(s, i) = Err
         /\ c # 0 /\ AllDigits(s, i, c) /\ ~(ToUsize(s, i, c) > MaxUsize)
               => IF c + ToUsize(s, i, c) > Len(s) THEN plain_string(s, i) = Panic
                  ELSE plain_string(s, i) =
                          Ok(c + ToUsize(s, i, c) + 1,
                             <<"String", Text(SubSeq(s, c + 1, c + ToUsize(s, i, c)))>>)
  BY DEF plain_string

LEMMA NomStringIs ==
  ASSUME NEW s \in Inputs, NEW i \in 1..Len(s), NEW c, c = DigitsEnd(s, i)
  PROVE  /\ c = i \/ ~At(s, c, ":") \/ ToUsize(s, i, c) > MaxUsize
            \/ c + ToUsize(s, i, c) > Len(s)
               => nom_string(s, i) = Err
         /\ ~(c = i \/ ~At(s, c, ":") \/ ToUsize(s, i, c) > MaxUsize
               \/ c + ToUsize(s, i, c) > Len(s))
               => nom_string(s, i) =
                     Ok(c + ToUsize(s, i, c) + 1,
                        <<"String", Text(SubSeq(s, c + 1, c + ToUsize(s, i, c)))>>)
  BY DEF nom_string

\* Up to the first colon there are digits only, or behind the digits there is a colon:
\* that is the same.
LEMMA ColonBehindDigits ==
  ASSUME NEW s \in Inputs, NEW i \in 1..Len(s), NEW c \in Nat
  PROVE  (c # 0 /\ c = Position(s, i, ":") /\ AllDigits(s, i, c))
            <=> (c # i /\ c = DigitsEnd(s, i) /\ At(s, c, ":"))
<1>1. Len(s) \in Nat /\ DOMAIN s = 1..Len(s) /\ i \in Nat \ {0} /\ i \in 1..(Len(s) + 1)
  BY DEF Inputs
<1>2. ASSUME c # 0, c = Position(s, i, ":"), AllDigits(s, i, c)
      PROVE  c # i /\ c = DigitsEnd(s, i) /\ At(s, c, ":")
  <2>1. FirstAt(s, i, ":", c)
    BY <1>1, <1>2, PositionIs
  <2>2. c \in i..Len(s) /\ s[c] = ":" /\ i < c /\ \A k \in i..(c - 1) : IsDigit(s[k])
    BY <1>2, <2>1 DEF FirstAt, AllDigits
  <2>3. DigitsTo(s, i, c)
    BY <1>1, <2>2, NotDigits DEF DigitsTo
  <2> QED
    BY <1>1, <2>2, <2>3, DigitsEndAt DEF At
<1>3. ASSUME c # i, c = DigitsEnd(s, i), At(s, c, ":")
      PROVE  c # 0 /\ c = Position(s, i, ":") /\ AllDigits(s, i, c)
  <2>1. DigitsTo(s, i, c)
    BY <1>1, <1>3, DigitsEndIs
  <2>2. c \in i..Len(s) /\ s[c] = ":" /\ i < c /\ \A k \in i..(c - 1) : IsDigit(s[k])
    BY <1>1, <1>3, <2>1 DEF DigitsTo, At
  <2>3. FirstAt(s, i, ":", c)
    BY <2>2, NotDigits DEF FirstAt
  <2> QED
    BY <1>1, <2>2, <2>3, PositionAt DEF AllDigits
<1> QED
  BY <1>2, <1>3

\* Where a string ends, whichever parser reads it.
LEMMA StringEnds ==
  ASSUME NEW s \in Inputs, NEW i \in 1..Len(s), NEW c \in Nat, c # 0,
         c = Position(s, i, ":"), AllDigits(s, i, c), NEW n, n = ToUsize(s, i, c)
  PROVE  n \in Nat /\ i < c /\ c <= Len(s)
<1>1. Len(s) \in Nat /\ i \in Nat \ {0}
  BY DEF Inputs
<1>2. c \in i..Len(s) /\ i < c
  BY <1>1, PositionIs DEF FirstAt, AllDigits
<1>3. c <= Len(s) + 1
  BY <1>1, <1>2
<1> QED
  BY <1>1, <1>2, <1>3, ToUsizeIs

\* What nom reads as a string the plain decoder reads as the same string; where it
\* does not, the plain one does not either, or panics.
LEMMA StringsAgree ==
  ASSUME NEW s \in Inputs, NEW i \in 1..Len(s)
  PROVE  /\ plain_string(s, i) = Panic => nom_string(s, i) = Err
         /\ plain_string(s, i) # Panic => nom_string(s, i) = plain_string(s, i)
<1> DEFINE c == Position(s, i, ":")
           e == DigitsEnd(s, i)
<1>1. Len(s) \in Nat /\ i \in Nat \ {0} /\ i \in 1..(Len(s) + 1)
  BY DEF Inputs
<1>2. c \in Nat /\ e \in Nat
  BY <1>1, PositionIs, DigitsEndIs DEF FirstAt, DigitsTo
<1>3. Ok(0, 0) # Panic /\ Err # Panic /\ \A r, v : Ok(r, v) # Panic
  BY Results
<1>4. CASE c # 0 /\ AllDigits(s, i, c)
  <2>1. e = c /\ c # i /\ At(s, c, ":")
    BY <1>2, <1>4, ColonBehindDigits
  <2> DEFINE n == ToUsize(s, i, c)
  <2>2. n \in Nat
    BY <1>2, <1>4, StringEnds
  <2> HIDE DEF c, e, n
  <2>3. CASE n > MaxUsize
    BY <1>3, <1>4, <2>1, <2>3, PlainStringIs, NomStringIs DEF c, e, n
  <2>4. CASE ~(n > MaxUsize) /\ c + n > Len(s)
    BY <1>3, <1>4, <2>1, <2>4, PlainStringIs, NomStringIs DEF c, e, n
  <2>5. CASE ~(n > MaxUsize) /\ ~(c + n > Len(s))
    <3> DEFINE r == Ok(c + n + 1, <<"String", Text(SubSeq(s, c + 1, c + n))>>)
    <3>1. plain_string(s, i) = r
      BY <1>4, <2>5, PlainStringIs DEF c, n
    <3>2. nom_string(s, i) = r
      BY <2>1, <2>5, NomStringIs DEF e, n
    <3> HIDE DEF r
    <3> QED
      BY <1>3, <3>1, <3>2 DEF r
  <2> QED
    BY <2>3, <2>4, <2>5
<1>5. CASE ~(c # 0 /\ AllDigits(s, i, c))
  <2>1. plain_string(s, i) = Err
    BY <1>5, PlainStringIs
  <2>2. ~(e # i /\ At(s, e, ":"))
    BY <1>2, <1>5, ColonBehindDigits
  <2>3. nom_string(s, i) = Err
    BY <2>2, NomStringIs
  <2> QED
    BY <1>3, <2>1, <2>3
<1> QED
  BY <1>4, <1>5

LEMMA PlainStringMoves ==
  ASSUME NEW s \in Inputs, NEW i \in 1..Len(s)
  PROVE  /\ Moves(s, i, plain_string(s, i))
         /\ plain_string(s, i).out = "ok" => plain_string(s, i).value[1] = "String"
<1> DEFINE c == Position(s, i, ":")
           n == ToUsize(s, i, c)
           v == <<"String", Text(SubSeq(s, c + 1, c + n))>>
<1>1. Len(s) \in Nat /\ i \in Nat \ {0}
  BY DEF Inputs
<1>2. c \in Nat
  BY <1>1, PositionIs DEF FirstAt
<1>3. v[1] = "String"
  OBVIOUS
<1>4. CASE plain_string(s, i) = Err \/ plain_string(s, i) = Panic
  BY <1>4, Results DEF Moves
<1>5. CASE plain_string(s, i) # Err /\ plain_string(s, i) # Panic
  <2>1. c # 0 /\ AllDigits(s, i, c) /\ ~(c + n > Len(s)) /\ plain_string(s, i) = Ok(c + n + 1, v)
    BY <1>5, PlainStringIs
  <2>2. n \in Nat /\ i < c
    BY <1>2, <2>1, StringEnds
  <2> HIDE DEF c, n, v
  <2>3. c + n + 1 \in (i + 1)..(Len(s) + 1)
    BY ONLY <1>1, <1>2, <2>1, <2>2
  <2>4. i \in Nat
    BY <1>1
  <2>5. Moves(s, i, Ok(c + n + 1, v))
    BY <2>3, <2>4, OkMoves
  <2> QED
    BY <1>3, <2>1, <2>5, Results
<1> QED
  BY <1>4, <1>5

LEMMA NomStringMoves ==
  ASSUME NEW s \in Inputs, NEW i \in 1..Len(s)
  PROVE  /\ Moves(s, i, nom_string(s, i))
         /\ nom_string(s, i).out = "ok" => nom_string(s, i).value[1] = "String"
<1>1. nom_string(s, i) = Err \/ nom_string(s, i) = plain_string(s, i)
  BY StringsAgree
<1> QED
  BY <1>1, PlainStringMoves, Results DEF Moves
LEMMA PlainIntIs ==
  ASSUME NEW s \in Inputs, NEW i \in 1..Len(s), NEW e, e = Position(s, i, "e")
  PROVE  /\ e = 0 \/ ~AllDigits(s, SignEnd(s, i + 1), e) \/ ~FitsI64(ToInt(s, i + 1, e))
               => plain_int(s, i) = Err
         /\ e # 0 /\ AllDigits(s, SignEnd(s, i + 1), e) /\ FitsI64(ToInt(s, i + 1, e))
               => plain_int(s, i) = Ok(e + 1, <<"Int", ToInt(s, i + 1, e)>>)
  BY DEF plain_int

LEMMA NomIntegerIs ==
  ASSUME NEW s \in Inputs, NEW i \in 1..Len(s), s[i] = "i",
         NEW f, f = SignEnd(s, i + 1), NEW e, e = DigitsEnd(s, f)
  PROVE  /\ e = f \/ ~At(s, e, "e") \/ ~FitsI64(ToInt(s, i + 1, e))
               => nom_integer(s, i) = Err
         /\ e # f /\ At(s, e, "e") /\ FitsI64(ToInt(s, i + 1, e))
               => nom_integer(s, i) = Ok(e + 1, <<"Int", ToInt(s, i + 1, e)>>)
<1>1. At(s, i, "i")
  BY DEF At, Inputs
<1> QED
  BY <1>1 DEF nom_integer

\* An integer: digits only up to the first 'e', or an 'e' behind the digits.
LEMMA EndBehindDigits ==
  ASSUME NEW s \in Inputs, NEW i \in 1..Len(s), s[i] = "i",
         NEW f, f = SignEnd(s, i + 1), NEW e \in Nat
  PROVE  /\ f \in (i + 1)..(Len(s) + 1)
         /\ (e # 0 /\ e = Position(s, i, "e") /\ AllDigits(s, f, e))
               <=> (e # f /\ e = DigitsEnd(s, f) /\ At(s, e, "e"))
<1>1. Len(s) \in Nat /\ DOMAIN s = 1..Len(s) /\ i \in Nat \ {0} /\ i + 1 \in 1..(Len(s) + 1)
  BY DEF Inputs
<1>2. /\ f \in {i + 1, i + 1 + 1} /\ f \in (i + 1)..(Len(s) + 1)
      /\ f = i + 1 + 1 => s[i + 1] \in {"-", "+"}
  BY <1>1, SignEndIs
<1>3. \A k \in i..(f - 1) : s[k] # "e"
  <2> SUFFICES ASSUME NEW k \in i..(f - 1) PROVE s[k] # "e"
    OBVIOUS
  <2>1. k = i \/ (k = i + 1 /\ f = i + 1 + 1)
    BY <1>1, <1>2
  <2> QED
    BY <1>2, <2>1
<1>4. f \in 1..(Len(s) + 1) /\ f \in Nat /\ i < f
  BY <1>1, <1>2
<1>5. ASSUME e # 0, e = Position(s, i, "e"), AllDigits(s, f, e)
      PROVE  e # f /\ e = DigitsEnd(s, f) /\ At(s, e, "e")
  <2>1. FirstAt(s, i, "e", e)
    BY <1>1, <1>5, PositionIs
  <2>2. e \in i..Len(s) /\ s[e] = "e" /\ f < e /\ \A k \in f..(e - 1) : IsDigit(s[k])
    BY <1>5, <2>1 DEF FirstAt, AllDigits
  <2>3. DigitsTo(s, f, e)
    BY <1>1, <1>4, <2>2, NotDigits DEF DigitsTo
  <2> QED
    BY <1>1, <1>4, <2>2, <2>3, DigitsEndAt DEF At
<1>6. ASSUME e # f, e = DigitsEnd(s, f), At(s, e, "e")
      PROVE  e # 0 /\ e = Position(s, i, "e") /\ AllDigits(s, f, e)
  <2>1. DigitsTo(s, f, e)
    BY <1>4, <1>6, DigitsEndIs
  <2>2. e \in f..Len(s) /\ s[e] = "e" /\ f < e /\ \A k \in f..(e - 1) : IsDigit(s[k])
    BY <1>1, <1>4, <1>6, <2>1 DEF DigitsTo, At
  <2>3. \A k \in i..(e - 1) : s[k] # "e"
    <3> SUFFICES ASSUME NEW k \in i..(e - 1) PROVE s[k] # "e"
      OBVIOUS
    <3>1. k \in i..(f - 1) \/ k \in f..(e - 1)
      BY <1>1, <1>4, <2>2
    <3> QED
      BY <1>3, <2>2, <3>1, NotDigits
  <2>4. e \in i..Len(s) /\ e # 0
    BY <1>1, <1>4, <2>2
  <2>5. FirstAt(s, i, "e", e)
    BY <2>2, <2>3, <2>4 DEF FirstAt
  <2> QED
    BY <1>1, <2>2, <2>4, <2>5, PositionAt DEF AllDigits
<1> QED
  BY <1>2, <1>5, <1>6

\* Both read the same integers, and refuse the same ones.
LEMMA IntegersAgree ==
  ASSUME NEW s \in Inputs, NEW i \in 1..Len(s), s[i] = "i"
  PROVE  nom_integer(s, i) = plain_int(s, i)
<1> DEFINE f == SignEnd(s, i + 1)
           e == Position(s, i, "e")
           d == DigitsEnd(s, f)
<1>1. Len(s) \in Nat /\ i \in Nat \ {0}
  BY DEF Inputs
<1>2. e \in Nat
  BY <1>1, PositionIs DEF FirstAt
<1>3. f \in (i + 1)..(Len(s) + 1) /\ f \in 1..(Len(s) + 1)
  BY <1>1, <1>2, EndBehindDigits
<1>4. d \in Nat
  BY <1>1, <1>3, DigitsEndIs DEF DigitsTo
<1>5. CASE e # 0 /\ AllDigits(s, f, e)
  <2>1. d = e /\ e # f /\ At(s, e, "e")
    BY <1>2, <1>5, EndBehindDigits
  <2> DEFINE n == ToInt(s, i + 1, e)
  <2> HIDE DEF d, e, f, n
  <2>2. CASE FitsI64(n)
    BY <1>5, <2>1, <2>2, PlainIntIs, NomIntegerIs DEF d, e, f, n
  <2>3. CASE ~FitsI64(n)
    BY <1>5, <2>1, <2>3, PlainIntIs, NomIntegerIs DEF d, e, f, n
  <2> QED
    BY <2>2, <2>3
<1>6. CASE ~(e # 0 /\ AllDigits(s, f, e))
  <2>1. plain_int(s, i) = Err
    BY <1>6, PlainIntIs
  <2>2. ~(d # f /\ At(s, d, "e"))
    BY <1>4, <1>6, EndBehindDigits
  <2>3. nom_integer(s, i) = Err
    BY <2>2, NomIntegerIs
  <2> QED
    BY <2>1, <2>3
<1> QED
  BY <1>5, <1>6

LEMMA PlainIntMoves ==
  ASSUME NEW s \in Inputs, NEW i \in 1..Len(s)
  PROVE  /\ Moves(s, i, plain_int(s, i))
         /\ plain_int(s, i).out = "ok" => plain_int(s, i).value[1] = "Int"
<1> DEFINE e == Position(s, i, "e")
           v == <<"Int", ToInt(s, i + 1, e)>>
<1>1. Len(s) \in Nat /\ i \in Nat \ {0}
  BY DEF Inputs
<1>2. v[1] = "Int"
  OBVIOUS
<1>3. CASE plain_int(s, i) = Err
  BY <1>3, Results DEF Moves
<1>4. CASE plain_int(s, i) # Err
  <2>1. e # 0 /\ plain_int(s, i) = Ok(e + 1, v)
    BY <1>4, PlainIntIs
  <2>2. e \in i..Len(s)
    BY <1>1, <2>1, PositionIs DEF FirstAt
  <2> HIDE DEF e, v
  <2>3. e + 1 \in (i + 1)..(Len(s) + 1) /\ i \in Nat
    BY <1>1, <2>2
  <2>4. Moves(s, i, Ok(e + 1, v))
    BY <2>3, OkMoves
  <2> QED
    BY <1>2, <2>1, <2>4, Results
<1> QED
  BY <1>3, <1>4

-----------------------------------------------------------------------------
(* One step of a decoder. *)

Kinds == {"value", "list", "dict"}
List(f, i) == Then(f[<<i, "list">>], <<"List", f[<<i, "list">>].value>>)
Map(f, i) == Then(f[<<i, "dict">>], <<"Map", f[<<i, "dict">>].value>>)

LEMMA PlainValueIs ==
  ASSUME NEW s, NEW f, NEW i
  PROVE  /\ i > Len(s) => plain_value(s, f, i) = Err
         /\ ~(i > Len(s)) =>
               /\ IsDigit(s[i]) => plain_value(s, f, i) = plain_string(s, i)
               /\ s[i] = "i" => plain_value(s, f, i) = plain_int(s, i)
               /\ s[i] = "l" => plain_value(s, f, i) = List(f, i + 1)
               /\ s[i] = "d" => plain_value(s, f, i) = Map(f, i + 1)
               /\ ~IsDigit(s[i]) /\ s[i] \notin {"i", "l", "d"} => plain_value(s, f, i) = Panic
  BY NotDigits DEF plain_value, List, Map

LEMMA NomValueIs ==
  ASSUME NEW s, NEW f, NEW i
  PROVE  /\ i > Len(s) => nom_value(s, f, i) = Err
         /\ ~(i > Len(s)) =>
               /\ IsDigit(s[i]) => nom_value(s, f, i) = nom_string(s, i)
               /\ s[i] = "i" => nom_value(s, f, i) = nom_integer(s, i)
               /\ s[i] = "l" => nom_value(s, f, i) = List(f, i + 1)
               /\ s[i] = "d" => nom_value(s, f, i) = Map(f, i + 1)
               /\ ~IsDigit(s[i]) /\ s[i] \notin {"i", "l", "d"} => nom_value(s, f, i) = Err
  BY NotDigits DEF nom_value, List, Map

\* f and g are the same wherever a decoder at i may look, and what they say is well
\* formed.
Below(s, f, g, i, k) ==
    /\ k # "value" => f[<<i, "value">>] = g[<<i, "value">>] /\ Moves(s, i, f[<<i, "value">>])
    /\ \A j \in (i + 1)..(Len(s) + 1) : \A l \in Kinds :
          f[<<j, l>>] = g[<<j, l>>] /\ Moves(s, j, f[<<j, l>>])

LEMMA ContainersStep ==
  ASSUME NEW s \in Inputs, NEW i \in 1..Len(s), NEW f, NEW g, Below(s, f, g, i, "value")
  PROVE  /\ List(f, i + 1) = List(g, i + 1) /\ Moves(s, i, List(f, i + 1))
         /\ Map(f, i + 1) = Map(g, i + 1) /\ Moves(s, i, Map(f, i + 1))
<1>1. Len(s) \in Nat /\ i \in Nat /\ i + 1 \in Nat /\ i <= i + 1
      /\ i + 1 \in (i + 1)..(Len(s) + 1)
  BY DEF Inputs
<1>2. \A l \in Kinds : f[<<i + 1, l>>] = g[<<i + 1, l>>] /\ Moves(s, i + 1, f[<<i + 1, l>>])
  BY <1>1 DEF Below
<1>3. /\ f[<<i + 1, "list">>] = g[<<i + 1, "list">>] /\ Moves(s, i + 1, f[<<i + 1, "list">>])
      /\ f[<<i + 1, "dict">>] = g[<<i + 1, "dict">>] /\ Moves(s, i + 1, f[<<i + 1, "dict">>])
  BY <1>2 DEF Kinds
<1>4. \A r, v : Moves(s, i + 1, r) => Moves(s, i, Then(r, v))
  BY <1>1, ThenMoves
<1> QED
  BY <1>3, <1>4 DEF List, Map

LEMMA ValueStep ==
  ASSUME NEW s \in Inputs, NEW i \in 1..(Len(s) + 1), NEW f, NEW g, Below(s, f, g, i, "value")
  PROVE  /\ plain_value(s, f, i) = plain_value(s, g, i) /\ Moves(s, i, plain_value(s, f, i))
         /\ nom_value(s, f, i) = nom_value(s, g, i) /\ Moves(s, i, nom_value(s, f, i))
<1>1. Len(s) \in Nat /\ (i > Len(s) \/ (~(i > Len(s)) /\ i \in 1..Len(s)))
  BY DEF Inputs
<1>2. Moves(s, i, Err) /\ Moves(s, i, Panic)
  BY DEF Moves
<1>3. CASE i > Len(s)
  BY <1>2, <1>3, PlainValueIs, NomValueIs
<1>4. CASE ~(i > Len(s))
  <2>1. i \in 1..Len(s)
    BY <1>1, <1>4
  <2>2. CASE IsDigit(s[i])
    BY <1>4, <2>1, <2>2, PlainValueIs, NomValueIs, PlainStringMoves, NomStringMoves
  <2>3. CASE s[i] = "i"
    BY <1>4, <2>1, <2>3, PlainValueIs, NomValueIs, PlainIntMoves, IntegersAgree
  <2>4. CASE s[i] = "l"
    BY <1>4, <2>1, <2>4, PlainValueIs, NomValueIs, ContainersStep
  <2>5. CASE s[i] = "d"
    BY <1>4, <2>1, <2>5, PlainValueIs, NomValueIs, ContainersStep
  <2>6. CASE ~IsDigit(s[i]) /\ s[i] \notin {"i", "l", "d"}
    BY <1>2, <1>4, <2>6, PlainValueIs, NomValueIs
  <2> QED
    BY <2>2, <2>3, <2>4, <2>5, <2>6
<1> QED
  BY <1>3, <1>4

\* What can be done with a first element that ends at j.
LEMMA ElementStep ==
  ASSUME NEW s \in Inputs, NEW i \in 1..(Len(s) + 1), NEW f, NEW g, NEW k, NEW l \in Kinds,
         Below(s, f, g, i, k), NEW j \in (i + 1)..(Len(s) + 1)
  PROVE  /\ f[<<j, l>>] = g[<<j, l>>] /\ Moves(s, j, f[<<j, l>>])
         /\ \A v : Moves(s, i, Then(f[<<j, l>>], v))
         /\ At(s, j, "e") => \A v : Moves(s, i, Ok(j + 1, v))
<1>1. Len(s) \in Nat /\ i \in Nat /\ j \in Nat /\ i <= j
  BY DEF Inputs
<1>2. f[<<j, l>>] = g[<<j, l>>] /\ Moves(s, j, f[<<j, l>>])
  BY DEF Below
<1>3. \A v : Moves(s, i, Then(f[<<j, l>>], v))
  BY <1>1, <1>2, ThenMoves
<1>4. ASSUME At(s, j, "e"), NEW v PROVE Moves(s, i, Ok(j + 1, v))
  <2>1. j + 1 \in (i + 1)..(Len(s) + 1)
    BY <1>1, <1>4 DEF At, Inputs
  <2> QED
    BY <1>1, <2>1, OkMoves
<1> QED
  BY <1>2, <1>3, <1>4

LEMMA ListStep ==
  ASSUME NEW s \in Inputs, NEW i \in 1..(Len(s) + 1), NEW f, NEW g, Below(s, f, g, i, "list")
  PROVE  /\ plain_list(s, f, i) = plain_list(s, g, i) /\ Moves(s, i, plain_list(s, f, i))
         /\ nom_list(s, f, i) = nom_list(s, g, i) /\ Moves(s, i, nom_list(s, f, i))
<1> DEFINE elem == f[<<i, "value">>]
<1>1. Len(s) \in Nat /\ i \in Nat /\ i <= i
  BY DEF Inputs
<1>2. elem = g[<<i, "value">>] /\ Moves(s, i, elem)
  BY DEF Below
<1>3. Moves(s, i, Err) /\ "list" \in Kinds
  BY DEF Moves, Kinds
<1>4. At(s, i, "e") => Moves(s, i, Ok(i + 1, <<>>))
  <2>1. At(s, i, "e") => i + 1 \in (i + 1)..(Len(s) + 1)
    BY <1>1 DEF At, Inputs
  <2> QED
    BY <1>1, <2>1, OkMoves
<1>5. CASE elem.out # "ok"
  BY <1>2, <1>3, <1>4, <1>5 DEF plain_list, nom_list
<1>6. CASE elem.out = "ok"
  <2> DEFINE j == elem.rest
             more == f[<<j, "list">>]
  <2>1. j \in (i + 1)..(Len(s) + 1)
    BY <1>1, <1>2, <1>6, MovesOk
  <2>2. /\ more = g[<<j, "list">>]
        /\ \A v : Moves(s, i, Then(more, v))
        /\ At(s, j, "e") => \A v : Moves(s, i, Ok(j + 1, v))
    <3> HIDE DEF j
    <3> QED
      BY <1>3, <2>1, ElementStep
  <2> DEFINE more2 == g[<<j, "list">>]
             v == <<elem.value>> \o more.value
  <2>3. /\ plain_list(s, f, i) = IF At(s, j, "e") THEN Ok(j + 1, <<elem.value>>) ELSE Then(more, v)
        /\ plain_list(s, g, i) = IF At(s, j, "e") THEN Ok(j + 1, <<elem.value>>) ELSE Then(more, v)
    BY <1>2, <1>6, <2>2, Zenon DEF plain_list
  <2>4. nom_list(s, f, i) = Then(more, v) /\ nom_list(s, g, i) = Then(more, v)
    BY <1>2, <1>6, <2>2, Zenon DEF nom_list
  <2> HIDE DEF elem, j, more, v
  <2> QED
    BY <2>2, <2>3, <2>4
<1> QED
  BY <1>5, <1>6

LEMMA PlainDictStep ==
  ASSUME NEW s \in Inputs, NEW i \in 1..(Len(s) + 1), NEW f, NEW g, Below(s, f, g, i, "dict")
  PROVE  plain_dict(s, f, i) = plain_dict(s, g, i) /\ Moves(s, i, plain_dict(s, f, i))
<1> DEFINE key == f[<<i, "value">>]
           val == f[<<key.rest, "value">>]
<1>1. Len(s) \in Nat /\ i \in Nat /\ i <= i
  BY DEF Inputs
<1>2. key = g[<<i, "value">>] /\ Moves(s, i, key)
  BY DEF Below
<1>3. Moves(s, i, Panic) /\ "dict" \in Kinds /\ "value" \in Kinds
  BY DEF Moves, Kinds
<1>4. CASE key.out # "ok"
  BY <1>2, <1>4 DEF plain_dict
<1>5. CASE key.out = "ok" /\ key.value[1] # "String"
  BY <1>2, <1>3, <1>5 DEF plain_dict
<1>6. CASE key.out = "ok" /\ key.value[1] = "String"
  <2>1. key.rest \in (i + 1)..(Len(s) + 1)
    BY <1>1, <1>2, <1>6, MovesOk
  <2>2. val = g[<<key.rest, "value">>] /\ Moves(s, key.rest, val)
    <3> DEFINE j == key.rest
    <3> HIDE DEF j
    <3>1. f[<<j, "value">>] = g[<<j, "value">>] /\ Moves(s, j, f[<<j, "value">>])
      BY <1>3, <2>1, ElementStep DEF j
    <3> QED
      BY <3>1 DEF j
  <2>3. key.rest \in Nat /\ i <= key.rest
    BY <1>1, <2>1
  <2>4. Moves(s, i, val)
    <3> HIDE DEF val, key
    <3> QED
      BY <1>1, <2>2, <2>3, MovesFrom
  <2>5. CASE val.out # "ok"
    BY <1>2, <1>6, <2>2, <2>4, <2>5, Zenon DEF plain_dict
  <2>6. CASE val.out = "ok"
    <3> DEFINE j == val.rest
               more == f[<<j, "dict">>]
               pair == Under(<<>>, key.value[2], val.value)
               v == Under(more.value, key.value[2], val.value)
    <3>1. j \in (i + 1)..(Len(s) + 1)
      BY <1>1, <2>4, <2>6, MovesOk
    <3>2. /\ more = g[<<j, "dict">>]
          /\ \A w : Moves(s, i, Then(more, w))
          /\ At(s, j, "e") => \A w : Moves(s, i, Ok(j + 1, w))
      <4> HIDE DEF j
      <4> QED
        BY <1>3, <3>1, ElementStep
    <3>3. plain_dict(s, f, i) = IF At(s, j, "e") THEN Ok(j + 1, pair) ELSE Then(more, v)
      BY <1>6, <2>6, Zenon DEF plain_dict
    <3>4. plain_dict(s, g, i) = IF At(s, j, "e") THEN Ok(j + 1, pair) ELSE Then(more, v)
      BY <1>2, <1>6, <2>2, <2>6, <3>2, Zenon DEF plain_dict
    <3> HIDE DEF key, val, j, more, pair, v
    <3> QED
      BY <3>2, <3>3, <3>4
  <2> QED
    BY <2>5, <2>6
<1> QED
  BY <1>4, <1>5, <1>6

LEMMA NomDictStep ==
  ASSUME NEW s \in Inputs, NEW i \in 1..(Len(s) + 1), NEW f, NEW g, Below(s, f, g, i, "dict")
  PROVE  nom_dict(s, f, i) = nom_dict(s, g, i) /\ Moves(s, i, nom_dict(s, f, i))
<1> DEFINE key == nom_string(s, i)
           val == f[<<key.rest, "value">>]
<1>1. Len(s) \in Nat /\ i \in Nat /\ i <= i
  BY DEF Inputs
<1>2. Moves(s, i, Err) /\ "dict" \in Kinds /\ "value" \in Kinds
  BY DEF Moves, Kinds
<1>3. At(s, i, "e") => Moves(s, i, Ok(i + 1, <<>>))
  <2>1. At(s, i, "e") => i + 1 \in (i + 1)..(Len(s) + 1)
    BY <1>1 DEF At, Inputs
  <2> QED
    BY <1>1, <2>1, OkMoves
<1>4. CASE key.out # "ok"
  BY <1>2, <1>3, <1>4 DEF nom_dict
<1>5. CASE key.out = "ok"
  <2>1. key.rest \in (i + 1)..(Len(s) + 1)
    <3>1. Moves(s, i, key)
      <4>1. CASE i \in 1..Len(s)
        BY <4>1, NomStringMoves
      <4>2. CASE i \notin 1..Len(s)
        <5>1. i = Len(s) + 1
          BY <1>1, <4>2
        <5>2. DigitsTo(s, i, DigitsEnd(s, i))
          BY DigitsEndIs
        <5>3. DigitsEnd(s, i) = i
          BY <1>1, <5>1, <5>2 DEF DigitsTo
        <5>4. key = Err
          BY <5>3 DEF nom_string
        <5> QED
          BY <1>2, <5>4
      <4> QED
        BY <4>1, <4>2
    <3> QED
      BY <1>1, <1>5, <3>1, MovesOk
  <2>2. val = g[<<key.rest, "value">>] /\ Moves(s, key.rest, val)
    <3> DEFINE j == key.rest
    <3> HIDE DEF j
    <3>1. f[<<j, "value">>] = g[<<j, "value">>] /\ Moves(s, j, f[<<j, "value">>])
      BY <1>2, <2>1, ElementStep DEF j
    <3> QED
      BY <3>1 DEF j
  <2>3. key.rest \in Nat /\ i <= key.rest
    BY <1>1, <2>1
  <2>4. Moves(s, i, val)
    <3> HIDE DEF val, key
    <3> QED
      BY <1>1, <2>2, <2>3, MovesFrom
  <2>5. CASE val.out # "ok"
    <3>1. /\ nom_dict(s, f, i) = IF At(s, i, "e") THEN Ok(i + 1, <<>>) ELSE Err
          /\ nom_dict(s, g, i) = IF At(s, i, "e") THEN Ok(i + 1, <<>>) ELSE Err
      BY <2>2, <2>5, Zenon DEF nom_dict
    <3> QED
      BY <1>2, <1>3, <3>1
  <2>6. CASE val.out = "ok"
    <3> DEFINE j == val.rest
               more == f[<<j, "dict">>]
               v == Under(more.value, key.value[2], val.value)
    <3>1. j \in (i + 1)..(Len(s) + 1)
      BY <1>1, <2>4, <2>6, MovesOk
    <3>2. /\ more = g[<<j, "dict">>]
          /\ \A w : Moves(s, i, Then(more, w))
      <4> HIDE DEF j
      <4> QED
        BY <1>2, <3>1, ElementStep
    <3>3. nom_dict(s, f, i) = Then(more, v)
      BY <1>5, <2>6, Zenon DEF nom_dict
    <3>4. nom_dict(s, g, i) = Then(more, v)
      BY <1>5, <2>2, <2>6, <3>2, Zenon DEF nom_dict
    <3> HIDE DEF key, val, j, more, v
    <3> QED
      BY <3>2, <3>3, <3>4
  <2> QED
    BY <2>5, <2>6
<1> QED
  BY <1>4, <1>5

-----------------------------------------------------------------------------
(* The recursion.  A decoder looks further on, or from a container at the value where *)
(* it is: every spot has a rank, and those it looks at have a lower one.              *)

Rank(s, p) == 2 * (Len(s) + 1 - p[1]) + (IF p[2] = "value" THEN 0 ELSE 1)

\* One step of either decoder.
Step(d, s, f, p) == IF d = "plain" THEN plain_at(s, f, p) ELSE nom_at(s, f, p)
Decoders == {"plain", "nom"}

LEMMA SpotIs ==
  ASSUME NEW s \in Inputs, NEW p \in Spots(s)
  PROVE  /\ p[1] \in 1..(Len(s) + 1) /\ p[2] \in Kinds /\ p = <<p[1], p[2]>>
         /\ Rank(s, p) \in Nat
<1>1. Len(s) \in Nat
  BY DEF Inputs
<1>2. p[1] \in 1..(Len(s) + 1) /\ p[2] \in Kinds /\ p = <<p[1], p[2]>>
  BY DEF Spots, Kinds
<1>3. Len(s) + 1 - p[1] \in Nat
  BY <1>1, <1>2
<1> QED
  BY <1>2, <1>3 DEF Rank

LEMMA ASpot ==
  ASSUME NEW s \in Inputs, NEW i \in 1..(Len(s) + 1), NEW k \in Kinds
  PROVE  <<i, k>> \in Spots(s)
  BY DEF Spots, Kinds

LEMMA LowerRanks ==
  ASSUME NEW s \in Inputs, NEW i \in 1..(Len(s) + 1), NEW k \in Kinds
  PROVE  /\ \A j \in (i + 1)..(Len(s) + 1) : \A l \in Kinds :
               <<j, l>> \in Spots(s) /\ Rank(s, <<j, l>>) < Rank(s, <<i, k>>)
         /\ k # "value" =>
               <<i, "value">> \in Spots(s) /\ Rank(s, <<i, "value">>) < Rank(s, <<i, k>>)
<1>1. Len(s) \in Nat /\ i \in Nat /\ "value" \in Kinds
  BY DEF Inputs, Kinds
<1>2. ASSUME NEW j \in (i + 1)..(Len(s) + 1), NEW l \in Kinds
      PROVE  <<j, l>> \in Spots(s) /\ Rank(s, <<j, l>>) < Rank(s, <<i, k>>)
  <2>1. j \in 1..(Len(s) + 1)
    BY <1>1
  <2>2. 2 * (Len(s) + 1 - j) + 1 < 2 * (Len(s) + 1 - i)
    BY <1>1
  <2> QED
    BY <1>1, <2>1, <2>2, ASpot DEF Rank
<1>3. ASSUME k # "value"
      PROVE  <<i, "value">> \in Spots(s) /\ Rank(s, <<i, "value">>) < Rank(s, <<i, k>>)
  BY <1>1, <1>3, ASpot DEF Rank
<1> QED
  BY <1>2, <1>3

\* A step depends on the spots of lower rank, and moves on if they do.
LEMMA StepBelow ==
  ASSUME NEW d \in Decoders, NEW s \in Inputs, NEW p \in Spots(s), NEW f, NEW g,
         \A q \in Spots(s) : Rank(s, q) < Rank(s, p) => f[q] = g[q] /\ Moves(s, q[1], f[q])
  PROVE  Step(d, s, f, p) = Step(d, s, g, p) /\ Moves(s, p[1], Step(d, s, f, p))
<1> DEFINE i == p[1]
           k == p[2]
<1>1. i \in 1..(Len(s) + 1) /\ k \in Kinds /\ p = <<i, k>>
  BY SpotIs
<1>2. Below(s, f, g, i, k)
  <2>1. ASSUME NEW j \in (i + 1)..(Len(s) + 1), NEW l \in Kinds
        PROVE  f[<<j, l>>] = g[<<j, l>>] /\ Moves(s, j, f[<<j, l>>])
    <3>1. <<j, l>> \in Spots(s) /\ Rank(s, <<j, l>>) < Rank(s, p)
      BY <1>1, LowerRanks
    <3>2. <<j, l>>[1] = j
      OBVIOUS
    <3> QED
      BY <3>1, <3>2
  <2>2. ASSUME k # "value"
        PROVE  f[<<i, "value">>] = g[<<i, "value">>] /\ Moves(s, i, f[<<i, "value">>])
    <3>1. <<i, "value">> \in Spots(s) /\ Rank(s, <<i, "value">>) < Rank(s, p)
      BY <1>1, <2>2, LowerRanks
    <3>2. <<i, "value">>[1] = i
      OBVIOUS
    <3> QED
      BY <3>1, <3>2
  <2> HIDE DEF i, k
  <2> QED
    BY <2>1, <2>2 DEF Below
<1>3. CASE k = "value"
  <2>1. /\ plain_at(s, f, p) = plain_value(s, f, i) /\ plain_at(s, g, p) = plain_value(s, g, i)
        /\ nom_at(s, f, p) = nom_value(s, f, i) /\ nom_at(s, g, p) = nom_value(s, g, i)
    BY <1>3 DEF plain_at, nom_at
  <2> HIDE DEF i, k
  <2> QED
    BY <1>1, <1>2, <1>3, <2>1, ValueStep DEF Step, i
<1>4. CASE k = "list"
  <2>1. /\ plain_at(s, f, p) = plain_list(s, f, i) /\ plain_at(s, g, p) = plain_list(s, g, i)
        /\ nom_at(s, f, p) = nom_list(s, f, i) /\ nom_at(s, g, p) = nom_list(s, g, i)
    BY <1>4 DEF plain_at, nom_at
  <2> HIDE DEF i, k
  <2> QED
    BY <1>1, <1>2, <1>4, <2>1, ListStep DEF Step, i
<1>5. CASE k = "dict"
  <2>1. /\ plain_at(s, f, p) = plain_dict(s, f, i) /\ plain_at(s, g, p) = plain_dict(s, g, i)
        /\ nom_at(s, f, p) = nom_dict(s, f, i) /\ nom_at(s, g, p) = nom_dict(s, g, i)
    BY <1>5 DEF plain_at, nom_at
  <2> HIDE DEF i, k
  <2> QED
    BY <1>1, <1>2, <1>5, <2>1, PlainDictStep, NomDictStep DEF Step, i
<1> QED
  BY <1>1, <1>3, <1>4, <1>5 DEF Kinds

\* `f' obeys the recursion of decoder d below rank n.
Solves(d, s, f, n) ==
    \A p \in Spots(s) :
        Rank(s, p) < n => f[p] = Step(d, s, f, p) /\ Moves(s, p[1], f[p])

LEMMA SolutionsExist ==
  ASSUME NEW d \in Decoders, NEW s \in Inputs, NEW n \in Nat
  PROVE  \E f : Solves(d, s, f, n)
<1> DEFINE Bad == {m \in Nat : ~ \E f : Solves(d, s, f, m)}
<1>1. ASSUME Bad # {} PROVE FALSE
  <2>1. PICK m \in Bad : \A y \in Nat : y < m => y \notin Bad
    <3>1. Bad \in SUBSET Nat
      OBVIOUS
    <3> HIDE DEF Bad
    <3> QED
      BY <1>1, <3>1, Least
  <2>2. m \in Nat /\ ~ \E f : Solves(d, s, f, m)
    OBVIOUS
  <2>3. CASE m = 0
    <3>1. Solves(d, s, <<>>, 0)
      BY SpotIs DEF Solves
    <3> QED
      BY <2>2, <2>3, <3>1
  <2>4. CASE m # 0
    <3> DEFINE n1 == m - 1
    <3>1. n1 \in Nat /\ n1 < m /\ \A r \in Nat : r < m => r < n1 \/ r = n1
      BY <2>2, <2>4
    <3> HIDE DEF n1
    <3>2. PICK f : Solves(d, s, f, n1)
      BY <2>1, <3>1
    <3> DEFINE g == [p \in Spots(s) |-> IF Rank(s, p) = n1 THEN Step(d, s, f, p) ELSE f[p]]
    <3>3. \A p \in Spots(s) : Rank(s, p) < n1 =>
             f[p] = Step(d, s, f, p) /\ Moves(s, p[1], f[p]) /\ f[p] = g[p]
      <4>1. \A p \in Spots(s) : Rank(s, p) < n1 => Rank(s, p) # n1
        BY <3>1, SpotIs
      <4> QED
        BY <3>2, <4>1 DEF Solves
    <3>4. \A p \in Spots(s) : Rank(s, p) = n1 => g[p] = Step(d, s, f, p)
      OBVIOUS
    <3> HIDE DEF g
    <3>5. ASSUME NEW p \in Spots(s), Rank(s, p) < m
          PROVE  g[p] = Step(d, s, g, p) /\ Moves(s, p[1], g[p])
      <4>1. Rank(s, p) < n1 \/ Rank(s, p) = n1
        BY <3>1, <3>5, SpotIs
      <4>2. \A q \in Spots(s) : Rank(s, q) < Rank(s, p) => f[q] = g[q] /\ Moves(s, q[1], f[q])
        <5>1. \A q \in Spots(s) : Rank(s, q) < Rank(s, p) => Rank(s, q) < n1
          BY <3>1, <4>1, SpotIs
        <5> QED
          BY <3>3, <5>1
      <4>3. Step(d, s, f, p) = Step(d, s, g, p) /\ Moves(s, p[1], Step(d, s, f, p))
        BY <4>2, StepBelow
      <4>4. g[p] = Step(d, s, f, p)
        BY <3>3, <3>4, <4>1
      <4> QED
        BY <4>3, <4>4
    <3>6. Solves(d, s, g, m)
      BY <3>5 DEF Solves
    <3> QED
      BY <2>2, <3>6
  <2> QED
    BY <2>3, <2>4
<1> QED
  BY <1>1

\* A function that obeys it everywhere moves on everywhere.
LEMMA SolutionMoves ==
  ASSUME NEW d \in Decoders, NEW s \in Inputs, NEW f,
         \A p \in Spots(s) : f[p] = Step(d, s, f, p), NEW p \in Spots(s)
  PROVE  Moves(s, p[1], f[p])
<1> DEFINE Bad == {n \in Nat : \E q \in Spots(s) : Rank(s, q) = n /\ ~Moves(s, q[1], f[q])}
<1>1. ASSUME Bad # {} PROVE FALSE
  <2>1. PICK n \in Bad : \A y \in Nat : y < n => y \notin Bad
    <3>1. Bad \in SUBSET Nat
      OBVIOUS
    <3> HIDE DEF Bad
    <3> QED
      BY <1>1, <3>1, Least
  <2>2. PICK q \in Spots(s) : Rank(s, q) = n /\ ~Moves(s, q[1], f[q])
    OBVIOUS
  <2>3. \A r \in Spots(s) : Rank(s, r) < n => Moves(s, r[1], f[r])
    BY <2>1, SpotIs
  <2>4. Moves(s, q[1], Step(d, s, f, q))
    BY <2>2, <2>3, StepBelow
  <2> QED
    BY <2>2, <2>4
<1>2. Rank(s, p) \in Nat
  BY SpotIs
<1> QED
  BY <1>1, <1>2

LEMMA SolutionExists ==
  ASSUME NEW d \in Decoders, NEW s \in Inputs
  PROVE  \E f : f = [p \in Spots(s) |-> Step(d, s, f, p)]
<1> DEFINE n == 2 * (Len(s) + 1) + 2
<1>1. Len(s) \in Nat /\ n \in Nat
  BY DEF Inputs
<1>2. \A p \in Spots(s) : Rank(s, p) < n
  <2> SUFFICES ASSUME NEW p \in Spots(s) PROVE Rank(s, p) < n
    OBVIOUS
  <2>1. p[1] \in 1..(Len(s) + 1)
    BY SpotIs
  <2>2. 2 * (Len(s) + 1 - p[1]) + 1 < n
    BY <1>1, <2>1
  <2> QED
    BY <1>1, <2>1, <2>2 DEF Rank
<1>3. PICK f : Solves(d, s, f, n)
  BY <1>1, SolutionsExist
<1> DEFINE g == [p \in Spots(s) |-> f[p]]
<1>4. \A p \in Spots(s) : g[p] = f[p] /\ f[p] = Step(d, s, f, p) /\ Moves(s, p[1], f[p])
  BY <1>2, <1>3 DEF Solves
<1>5. \A p \in Spots(s) : Step(d, s, f, p) = Step(d, s, g, p)
  <2> HIDE DEF g
  <2> SUFFICES ASSUME NEW p \in Spots(s) PROVE Step(d, s, f, p) = Step(d, s, g, p)
    OBVIOUS
  <2>1. \A q \in Spots(s) : Rank(s, q) < Rank(s, p) => f[q] = g[q] /\ Moves(s, q[1], f[q])
    BY <1>4
  <2> QED
    BY <2>1, StepBelow
<1>6. g = [p \in Spots(s) |-> Step(d, s, g, p)]
  BY <1>4, <1>5
<1> QED
  BY <1>6

\* The decoders obey their equations, and what they decode is there: no input makes
\* them go round for ever or step outside it.
LEMMA PlainSteps ==
  ASSUME NEW s \in Inputs, NEW p \in Spots(s)
  PROVE  plain(s)[p] = plain_at(s, plain(s), p) /\ Moves(s, p[1], plain(s)[p])
<1> DEFINE rec(f) == [q \in Spots(s) |-> plain_at(s, f, q)]
           g == CHOOSE f : f = rec(f)
<1>1. "plain" \in Decoders /\ \A f, q : Step("plain", s, f, q) = plain_at(s, f, q)
  BY DEF Decoders, Step
<1>2. PICK f : f = [q \in Spots(s) |-> Step("plain", s, f, q)]
  BY <1>1, SolutionExists
<1>3. f = rec(f)
  BY <1>1, <1>2
<1>4. g = rec(g)
  <2> HIDE DEF rec
  <2> QED
    BY <1>3
<1>5. plain(s) = g
  BY DEF plain
<1> HIDE DEF g
<1>6. \A q \in Spots(s) : g[q] = plain_at(s, g, q)
  BY <1>4
<1>7. Moves(s, p[1], g[p])
  <2>1. \A q \in Spots(s) : g[q] = Step("plain", s, g, q)
    BY <1>1, <1>6
  <2> QED
    BY <1>1, <2>1, SolutionMoves
<1> QED
  BY <1>5, <1>6, <1>7

LEMMA NomSteps ==
  ASSUME NEW s \in Inputs, NEW p \in Spots(s)
  PROVE  nom(s)[p] = nom_at(s, nom(s), p) /\ Moves(s, p[1], nom(s)[p])
<1> DEFINE rec(f) == [q \in Spots(s) |-> nom_at(s, f, q)]
           g == CHOOSE f : f = rec(f)
<1>1. "nom" \in Decoders /\ \A f, q : Step("nom", s, f, q) = nom_at(s, f, q)
  BY DEF Decoders, Step
<1>2. PICK f : f = [q \in Spots(s) |-> Step("nom", s, f, q)]
  BY <1>1, SolutionExists
<1>3. f = rec(f)
  BY <1>1, <1>2
<1>4. g = rec(g)
  <2> HIDE DEF rec
  <2> QED
    BY <1>3
<1>5. nom(s) = g
  BY DEF nom
<1> HIDE DEF g
<1>6. \A q \in Spots(s) : g[q] = nom_at(s, g, q)
  BY <1>4
<1>7. Moves(s, p[1], g[p])
  <2>1. \A q \in Spots(s) : g[q] = Step("nom", s, g, q)
    BY <1>1, <1>6
  <2> QED
    BY <1>1, <2>1, SolutionMoves
<1> QED
  BY <1>5, <1>6, <1>7

\* The same spot by spot.
LEMMA DecodersStep ==
  ASSUME NEW s \in Inputs, NEW i \in 1..(Len(s) + 1)
  PROVE  LET P == plain(s)
             N == nom(s)
         IN  /\ P[<<i, "value">>] = plain_value(s, P, i) /\ N[<<i, "value">>] = nom_value(s, N, i)
             /\ P[<<i, "list">>] = plain_list(s, P, i) /\ N[<<i, "list">>] = nom_list(s, N, i)
             /\ P[<<i, "dict">>] = plain_dict(s, P, i) /\ N[<<i, "dict">>] = nom_dict(s, N, i)
             /\ \A k \in Kinds : Moves(s, i, P[<<i, k>>]) /\ Moves(s, i, N[<<i, k>>])
<1> DEFINE P == plain(s)
           N == nom(s)
<1>1. \A k \in Kinds : /\ P[<<i, k>>] = plain_at(s, P, <<i, k>>) /\ Moves(s, i, P[<<i, k>>])
                       /\ N[<<i, k>>] = nom_at(s, N, <<i, k>>) /\ Moves(s, i, N[<<i, k>>])
  <2> SUFFICES ASSUME NEW k \in Kinds
               PROVE  /\ P[<<i, k>>] = plain_at(s, P, <<i, k>>) /\ Moves(s, i, P[<<i, k>>])
                      /\ N[<<i, k>>] = nom_at(s, N, <<i, k>>) /\ Moves(s, i, N[<<i, k>>])
    OBVIOUS
  <2>1. <<i, k>> \in Spots(s) /\ <<i, k>>[1] = i
    BY ASpot
  <2> HIDE DEF P, N
  <2> QED
    BY <2>1, PlainSteps, NomSteps DEF P, N
<1> HIDE DEF P, N
<1>2. /\ plain_at(s, P, <<i, "value">>) = plain_value(s, P, i)
      /\ plain_at(s, P, <<i, "list">>) = plain_list(s, P, i)
      /\ plain_at(s, P, <<i, "dict">>) = plain_dict(s, P, i)
  BY DEF plain_at
<1>3. /\ nom_at(s, N, <<i, "value">>) = nom_value(s, N, i)
      /\ nom_at(s, N, <<i, "list">>) = nom_list(s, N, i)
      /\ nom_at(s, N, <<i, "dict">>) = nom_dict(s, N, i)
  BY DEF nom_at
<1>4. "value" \in Kinds /\ "list" \in Kinds /\ "dict" \in Kinds
  BY DEF Kinds
<1> QED
  BY <1>1, <1>2, <1>3, <1>4 DEF P, N

\* Decoding ends, whatever the input: with an error, with a panic, or past the first
\* character and within the input (plain.rs:11-66, nom.rs:18-60).
THEOREM DecodersEnd ==
  ASSUME NEW s \in Inputs
  PROVE  \A r \in {plain_decode(s), nom_decode(s)} :
            \/ r = Err
            \/ r = Panic
            \/ r.out = "ok" /\ r.rest \in 2..(Len(s) + 1)
<1>1. Len(s) \in Nat /\ 1 \in 1..(Len(s) + 1) /\ 1 \in Nat /\ "value" \in Kinds
  BY DEF Inputs, Kinds
<1>2. Moves(s, 1, plain_decode(s)) /\ Moves(s, 1, nom_decode(s))
  BY <1>1, DecodersStep DEF plain_decode, nom_decode
<1>3. \A r : Moves(s, 1, r) => r = Err \/ r = Panic \/ (r.out = "ok" /\ r.rest \in 2..(Len(s) + 1))
  BY Results DEF Moves
<1> QED
  BY <1>2, <1>3

-----------------------------------------------------------------------------
(* The two decoders agree. *)

\* Nothing but a digit begins a string.
LEMMA NoString ==
  ASSUME NEW s \in Inputs, NEW i \in 1..(Len(s) + 1), ~(i \in 1..Len(s) /\ IsDigit(s[i]))
  PROVE  nom_string(s, i) = Err
<1>1. Len(s) \in Nat /\ DOMAIN s = 1..Len(s) /\ i \in Nat
  BY DEF Inputs
<1>2. DigitsTo(s, i, i)
  BY <1>1 DEF DigitsTo
<1>3. DigitsEnd(s, i) = i
  BY <1>2, DigitsEndAt
<1> QED
  BY <1>3 DEF nom_string

\* What the decoders make of the end of a list or dictionary.
LEMMA AtTheEnd ==
  ASSUME NEW s \in Inputs, NEW i \in 1..(Len(s) + 1), At(s, i, "e"),
         NEW P, P = plain(s), NEW N, N = nom(s)
  PROVE  /\ i \in 1..Len(s) /\ nom_string(s, i) = Err
         /\ P[<<i, "value">>] = Panic /\ P[<<i, "list">>] = Panic /\ P[<<i, "dict">>] = Panic
         /\ N[<<i, "value">>] = Err
         /\ N[<<i, "list">>] = Ok(i + 1, <<>>) /\ N[<<i, "dict">>] = Ok(i + 1, <<>>)
<1>1. Len(s) \in Nat /\ i \in 1..Len(s) /\ s[i] = "e" /\ ~(i > Len(s))
  BY DEF Inputs, At
<1>2. nom_string(s, i) = Err
  BY <1>1, NoString, NotDigits
<1>3. /\ P[<<i, "value">>] = plain_value(s, P, i) /\ N[<<i, "value">>] = nom_value(s, N, i)
      /\ P[<<i, "list">>] = plain_list(s, P, i) /\ N[<<i, "list">>] = nom_list(s, N, i)
      /\ P[<<i, "dict">>] = plain_dict(s, P, i) /\ N[<<i, "dict">>] = nom_dict(s, N, i)
  BY DecodersStep
<1>4. P[<<i, "value">>] = Panic /\ N[<<i, "value">>] = Err
  BY <1>1, <1>3, NotDigits, PlainValueIs, NomValueIs
<1>5. plain_list(s, P, i) = Panic /\ plain_dict(s, P, i) = Panic
  BY <1>4, Results DEF plain_list, plain_dict
<1>6. nom_list(s, N, i) = Ok(i + 1, <<>>) /\ nom_dict(s, N, i) = Ok(i + 1, <<>>)
  BY <1>2, <1>4, Results DEF nom_list, nom_dict
<1> QED
  BY <1>1, <1>2, <1>3, <1>4, <1>5, <1>6

\* Of two results, one of each decoder.
Related(s, i, a, b) ==
    /\ a.out = "ok" => b = a
    /\ a.out = "err" => b.out = "err"
    /\ a.out = "panic" /\ b.out = "ok" => EmptyWithin(s, i, b.rest)

LEMMA AgreeIs ==
  ASSUME NEW s, NEW i, NEW a, NEW b, Moves(s, i, a), Related(s, i, a, b)
  PROVE  Agree(s, i, a, b)
<1>1. a.out \in {"ok", "err", "panic"}
  BY Results DEF Moves
<1> QED
  BY <1>1 DEF Agree, Related

LEMMA EmptyWithinMore ==
  ASSUME NEW s \in Inputs, NEW i \in Nat, NEW j \in Nat, i <= j, NEW m \in Nat, NEW n \in Nat, m <= n,
         EmptyWithin(s, j, m)
  PROVE  EmptyWithin(s, i, n)
<1>1. PICK k \in j..(m - 2) : s[k] \in {"l", "d"} /\ s[k + 1] = "e"
  BY DEF EmptyWithin
<1>2. k \in i..(n - 2)
  BY <1>1
<1> QED
  BY <1>1, <1>2 DEF EmptyWithin

\* Results that go into a larger one: what surrounds them is the same.
LEMMA ThenRelated ==
  ASSUME NEW s \in Inputs, NEW i \in Nat, NEW j \in Nat, i <= j, NEW a, NEW b,
         Moves(s, j, a), Moves(s, j, b), Related(s, j, a, b),
         NEW v, NEW w, a = b => v = w
  PROVE  Related(s, i, Then(a, v), Then(b, w))
<1>1. Len(s) \in Nat
  BY DEF Inputs
<1>2. CASE a.out = "ok"
  BY <1>2, ThenIs, Results DEF Related
<1>3. CASE a.out = "err"
  BY <1>3, ThenIs, Results DEF Related
<1>4. CASE a.out = "panic"
  <2>1. Then(a, v).out = "panic"
    BY <1>4, ThenIs
  <2>2. ASSUME Then(b, w).out = "ok" PROVE EmptyWithin(s, i, Then(b, w).rest)
    <3>1. b.out = "ok"
      BY <2>2, ThenIs
    <3>2. Then(b, w).rest = b.rest /\ EmptyWithin(s, j, b.rest)
      BY <1>4, <3>1, ThenIs, Results DEF Related
    <3>3. b.rest \in Nat
      <4>1. b.rest \in (j + 1)..(Len(s) + 1)
        BY <3>1, MovesOk
      <4> QED
        BY <1>1, <4>1
    <3> QED
      BY <3>2, <3>3, EmptyWithinMore
  <2> QED
    BY <2>1, <2>2 DEF Related
<1> QED
  BY <1>2, <1>3, <1>4, Results DEF Moves

\* The decoders' results further on are related, and those of the value here.
FurtherRelated(s, i) ==
    \A j \in (i + 1)..(Len(s) + 1) :
        /\ Related(s, j, plain(s)[<<j, "value">>], nom(s)[<<j, "value">>])
        /\ ~At(s, j, "e") =>
              /\ Related(s, j, plain(s)[<<j, "list">>], nom(s)[<<j, "list">>])
              /\ Related(s, j, plain(s)[<<j, "dict">>], nom(s)[<<j, "dict">>])

\* A list or dictionary that begins behind its letter.
LEMMA ContainerRelated ==
  ASSUME NEW s \in Inputs, NEW i \in 1..Len(s), s[i] \in {"l", "d"}, NEW a, NEW b,
         Moves(s, i + 1, a), Moves(s, i + 1, b),
         At(s, i + 1, "e") => a = Panic,
         ~At(s, i + 1, "e") => Related(s, i + 1, a, b),
         NEW v, NEW w, a = b => v = w
  PROVE  Related(s, i, Then(a, v), Then(b, w))
<1>1. Len(s) \in Nat /\ i \in Nat /\ i + 1 \in Nat /\ i <= i + 1
  BY DEF Inputs
<1>2. CASE ~At(s, i + 1, "e")
  BY <1>1, <1>2, ThenRelated
<1>3. CASE At(s, i + 1, "e")
  <2>1. Then(a, v).out = "panic"
    BY <1>3, ThenIs, Results
  <2>2. ASSUME Then(b, w).out = "ok" PROVE EmptyWithin(s, i, Then(b, w).rest)
    <3>1. b.out = "ok"
      BY <2>2, ThenIs
    <3>2. Then(b, w).rest = b.rest
      BY <3>1, ThenIs, Results
    <3>3. b.rest \in (i + 2)..(Len(s) + 1)
      <4>1. b.rest \in (i + 1 + 1)..(Len(s) + 1)
        BY <1>1, <3>1, MovesOk
      <4> QED
        BY <1>1, <4>1
    <3>4. i \in i..(b.rest - 2)
      BY <1>1, <3>3
    <3>5. s[i + 1] = "e"
      BY <1>3 DEF At
    <3> QED
      BY <3>2, <3>4, <3>5 DEF EmptyWithin
  <2> QED
    BY <2>1, <2>2 DEF Related
<1> QED
  BY <1>2, <1>3

LEMMA ValueRelated ==
  ASSUME NEW s \in Inputs, NEW i \in 1..(Len(s) + 1), FurtherRelated(s, i)
  PROVE  Related(s, i, plain(s)[<<i, "value">>], nom(s)[<<i, "value">>])
<1> DEFINE P == plain(s)
           N == nom(s)
<1>1. /\ P[<<i, "value">>] = plain_value(s, P, i) /\ N[<<i, "value">>] = nom_value(s, N, i)
  BY DecodersStep
<1> HIDE DEF P, N
<1>2. Len(s) \in Nat
  BY DEF Inputs
<1>3. CASE i > Len(s)
  BY <1>1, <1>3, PlainValueIs, NomValueIs, Results DEF Related, P, N
<1>4. CASE ~(i > Len(s))
  <2>1. i \in 1..Len(s) /\ i + 1 \in (i + 1)..(Len(s) + 1) /\ i + 1 \in 1..(Len(s) + 1)
    BY <1>2, <1>4
  <2>2. "list" \in Kinds /\ "dict" \in Kinds
    BY DEF Kinds
  <2>3. /\ Moves(s, i + 1, P[<<i + 1, "list">>]) /\ Moves(s, i + 1, N[<<i + 1, "list">>])
        /\ Moves(s, i + 1, P[<<i + 1, "dict">>]) /\ Moves(s, i + 1, N[<<i + 1, "dict">>])
    BY <2>1, <2>2, DecodersStep DEF P, N
  <2>4. At(s, i + 1, "e") => P[<<i + 1, "list">>] = Panic /\ P[<<i + 1, "dict">>] = Panic
    BY <2>1, AtTheEnd DEF P
  <2>5. ~At(s, i + 1, "e") =>
              /\ Related(s, i + 1, P[<<i + 1, "list">>], N[<<i + 1, "list">>])
              /\ Related(s, i + 1, P[<<i + 1, "dict">>], N[<<i + 1, "dict">>])
    BY <2>1 DEF FurtherRelated, P, N
  <2>6. CASE IsDigit(s[i])
    <3>1. P[<<i, "value">>] = plain_string(s, i) /\ N[<<i, "value">>] = nom_string(s, i)
      BY <1>1, <1>4, <2>6, PlainValueIs, NomValueIs
    <3>2. Related(s, i, plain_string(s, i), nom_string(s, i))
      BY <2>1, StringsAgree, PlainStringMoves, Results DEF Related, Moves
    <3> QED
      BY <3>1, <3>2 DEF P, N
  <2>7. CASE s[i] = "i"
    <3>1. P[<<i, "value">>] = plain_int(s, i) /\ N[<<i, "value">>] = nom_integer(s, i)
      BY <1>1, <1>4, <2>7, PlainValueIs, NomValueIs
    <3>2. Related(s, i, plain_int(s, i), nom_integer(s, i))
      BY <2>1, <2>7, IntegersAgree DEF Related
    <3> QED
      BY <3>1, <3>2 DEF P, N
  <2>8. CASE s[i] = "l"
    <3>1. P[<<i, "value">>] = List(P, i + 1) /\ N[<<i, "value">>] = List(N, i + 1)
      BY <1>1, <1>4, <2>8, PlainValueIs, NomValueIs
    <3>2. Related(s, i, List(P, i + 1), List(N, i + 1))
      BY <2>1, <2>3, <2>4, <2>5, <2>8, ContainerRelated DEF List
    <3> QED
      BY <3>1, <3>2 DEF P, N
  <2>9. CASE s[i] = "d"
    <3>1. P[<<i, "value">>] = Map(P, i + 1) /\ N[<<i, "value">>] = Map(N, i + 1)
      BY <1>1, <1>4, <2>9, PlainValueIs, NomValueIs
    <3>2. Related(s, i, Map(P, i + 1), Map(N, i + 1))
      BY <2>1, <2>3, <2>4, <2>5, <2>9, ContainerRelated DEF Map
    <3> QED
      BY <3>1, <3>2 DEF P, N
  <2>10. CASE ~IsDigit(s[i]) /\ s[i] \notin {"i", "l", "d"}
    BY <1>1, <1>4, <2>10, PlainValueIs, NomValueIs, Results DEF Related, P, N
  <2> QED
    BY <2>6, <2>7, <2>8, <2>9, <2>10
<1> QED
  BY <1>3, <1>4

\* A list that goes on.
LEMMA ListRelated ==
  ASSUME NEW s \in Inputs, NEW i \in 1..(Len(s) + 1), FurtherRelated(s, i), ~At(s, i, "e"),
         Related(s, i, plain(s)[<<i, "value">>], nom(s)[<<i, "value">>])
  PROVE  Related(s, i, plain(s)[<<i, "list">>], nom(s)[<<i, "list">>])
<1> DEFINE P == plain(s)
           N == nom(s)
           a == P[<<i, "value">>]
           b == N[<<i, "value">>]
           j == b.rest
           w == <<b.value>> \o N[<<j, "list">>].value
<1>1. P[<<i, "list">>] = plain_list(s, P, i) /\ N[<<i, "list">>] = nom_list(s, N, i)
  BY DecodersStep
<1>2. Moves(s, i, a) /\ Moves(s, i, b) /\ "list" \in Kinds /\ "value" \in Kinds
  BY DecodersStep DEF Kinds
<1>3. Related(s, i, a, b)
  OBVIOUS
<1>4. Len(s) \in Nat /\ i \in Nat
  BY DEF Inputs
<1>5. CASE b.out # "ok"
  <2>1. nom_list(s, N, i) = Err
    BY <1>5 DEF nom_list
  <2>2. a.out # "ok" /\ plain_list(s, P, i) = a
    <3>1. a.out # "ok"
      BY <1>3, <1>5 DEF Related
    <3> QED
      BY <3>1 DEF plain_list
  <2> HIDE DEF a, b, P, N
  <2> QED
    BY <1>1, <2>1, <2>2, Results DEF Related, P, N
<1>6. CASE b.out = "ok"
  <2>1. j \in (i + 1)..(Len(s) + 1) /\ j \in 1..(Len(s) + 1) /\ j \in Nat /\ i <= j
    <3>1. j \in (i + 1)..(Len(s) + 1)
      BY <1>2, <1>4, <1>6, MovesOk
    <3> QED
      BY <1>4, <3>1
  <2>2. nom_list(s, N, i) = Then(N[<<j, "list">>], w)
    BY <1>6 DEF nom_list
  <2>3. Moves(s, j, N[<<j, "list">>]) /\ Moves(s, j, P[<<j, "list">>])
    <3> HIDE DEF j
    <3> QED
      BY <1>2, <2>1, DecodersStep
  <2>4. CASE a.out = "ok"
    <3>1. a = b
      BY <1>3, <2>4 DEF Related
    <3>2. CASE At(s, j, "e")
      <4>1. plain_list(s, P, i) = Ok(j + 1, <<b.value>>)
        BY <1>6, <3>1, <3>2, Zenon DEF plain_list
      <4>2. N[<<j, "list">>] = Ok(j + 1, <<>>)
        <5> HIDE DEF j
        <5> QED
          BY <2>1, <3>2, AtTheEnd
      <4>3. nom_list(s, N, i) = Ok(j + 1, <<b.value>> \o <<>>)
        <5> HIDE DEF N, j, b
        <5>1. N[<<j, "list">>].value = <<>>
          BY <4>2, Results
        <5>2. w = <<b.value>> \o <<>>
          BY <5>1
        <5> HIDE DEF w
        <5> QED
          BY <2>2, <4>2, <5>2, Results, ThenIs
      <4>4. <<b.value>> \o <<>> = <<b.value>>
        <5> HIDE DEF b
        <5> QED
          OBVIOUS
      <4> HIDE DEF a, b, j, w, P, N
      <4> QED
        BY <1>1, <4>1, <4>3, <4>4, Results DEF Related, P, N
    <3>3. CASE ~At(s, j, "e")
      <4> DEFINE v == <<b.value>> \o P[<<j, "list">>].value
      <4>1. plain_list(s, P, i) = Then(P[<<j, "list">>], v)
        BY <1>6, <3>1, <3>3, Zenon DEF plain_list
      <4>2. Related(s, j, P[<<j, "list">>], N[<<j, "list">>])
        BY <2>1, <3>3 DEF FurtherRelated
      <4>3. P[<<j, "list">>] = N[<<j, "list">>] => v = w
        OBVIOUS
      <4> HIDE DEF a, b, j, w, v, P, N
      <4>4. Related(s, i, Then(P[<<j, "list">>], v), Then(N[<<j, "list">>], w))
        BY <1>4, <2>1, <2>3, <4>2, <4>3, ThenRelated
      <4> QED
        BY <1>1, <2>2, <4>1, <4>4 DEF P, N
    <3> QED
      BY <3>2, <3>3
  <2>5. CASE a.out # "ok"
    <3>1. a.out = "panic" /\ plain_list(s, P, i) = a
      <4>1. a.out = "panic"
        BY <1>2, <1>3, <1>6, <2>5, Results DEF Related, Moves
      <4> QED
        BY <2>5, <4>1 DEF plain_list
    <3>2. EmptyWithin(s, i, j)
      BY <1>3, <1>6, <3>1 DEF Related
    <3> HIDE DEF a, b, j, w, P, N
    <3>3. ASSUME nom_list(s, N, i).out = "ok" PROVE EmptyWithin(s, i, nom_list(s, N, i).rest)
      <4>1. N[<<j, "list">>].out = "ok"
        BY <2>2, <3>3, ThenIs
      <4>2. nom_list(s, N, i).rest = N[<<j, "list">>].rest
        BY <2>2, <4>1, ThenIs, Results
      <4>3. N[<<j, "list">>].rest \in (j + 1)..(Len(s) + 1)
        BY <2>1, <2>3, <4>1, MovesOk
      <4>4. N[<<j, "list">>].rest \in Nat /\ j <= N[<<j, "list">>].rest
        BY <1>4, <2>1, <4>3
      <4> QED
        BY <1>4, <2>1, <3>2, <4>2, <4>4, EmptyWithinMore
    <3> QED
      BY <1>1, <3>1, <3>3 DEF Related, P, N
  <2> QED
    BY <2>4, <2>5
<1> QED
  BY <1>5, <1>6

\* The key of a pair: a value for the one decoder, a string for the other.
LEMMA KeysRelated ==
  ASSUME NEW s \in Inputs, NEW i \in 1..(Len(s) + 1),
         NEW a, a = plain(s)[<<i, "value">>]
  PROVE  /\ a.out = "ok" /\ a.value[1] = "String" => nom_string(s, i) = a
         /\ ~(a.out = "ok" /\ a.value[1] = "String") => nom_string(s, i) = Err
<1> DEFINE P == plain(s)
<1>1. a = plain_value(s, P, i)
  BY DecodersStep
<1>2. Len(s) \in Nat /\ (i \in 1..Len(s) <=> ~(i > Len(s)))
  BY DEF Inputs
<1> HIDE DEF P
<1>3. CASE ~(i \in 1..Len(s) /\ IsDigit(s[i]))
  <2>1. nom_string(s, i) = Err
    BY <1>3, NoString
  <2>2. ASSUME a.out = "ok" PROVE a.value[1] # "String"
    <3>1. i \in 1..Len(s) /\ ~(i > Len(s)) /\ s[i] \in {"i", "l", "d"}
      BY <1>1, <1>2, <1>3, <2>2, PlainValueIs, Results
    <3>2. CASE s[i] = "i"
      BY <1>1, <2>2, <3>1, <3>2, PlainValueIs, PlainIntMoves
    <3>3. CASE s[i] = "l"
      <4> DEFINE r == P[<<i + 1, "list">>]
      <4>1. a = Then(r, <<"List", r.value>>)
        <5>1. a = List(P, i + 1)
          BY <1>1, <3>1, <3>3, PlainValueIs
        <5> QED
          BY <5>1 DEF List
      <4> HIDE DEF r
      <4>2. a.value = <<"List", r.value>>
        BY <2>2, <4>1, ThenIs, Results
      <4> QED
        BY <4>2
    <3>4. CASE s[i] = "d"
      <4> DEFINE r == P[<<i + 1, "dict">>]
      <4>1. a = Then(r, <<"Map", r.value>>)
        <5>1. a = Map(P, i + 1)
          BY <1>1, <3>1, <3>4, PlainValueIs
        <5> QED
          BY <5>1 DEF Map
      <4> HIDE DEF r
      <4>2. a.value = <<"Map", r.value>>
        BY <2>2, <4>1, ThenIs, Results
      <4> QED
        BY <4>2
    <3> QED
      BY <3>1, <3>2, <3>3, <3>4
  <2> QED
    BY <2>1, <2>2
<1>4. CASE i \in 1..Len(s) /\ IsDigit(s[i])
  <2>1. a = plain_string(s, i)
    BY <1>1, <1>2, <1>4, PlainValueIs
  <2>2. a = Panic => nom_string(s, i) = Err
    BY <1>4, <2>1, StringsAgree
  <2>3. a # Panic => nom_string(s, i) = a
    BY <1>4, <2>1, StringsAgree
  <2>4. Moves(s, i, a) /\ (a.out = "ok" => a.value[1] = "String")
    BY <1>4, <2>1, PlainStringMoves
  <2> QED
    BY <2>2, <2>3, <2>4, Results DEF Moves
<1> QED
  BY <1>3, <1>4

\* A dictionary that goes on.
LEMMA DictRelated ==
  ASSUME NEW s \in Inputs, NEW i \in 1..(Len(s) + 1), FurtherRelated(s, i), ~At(s, i, "e")
  PROVE  Related(s, i, plain(s)[<<i, "dict">>], nom(s)[<<i, "dict">>])
<1> DEFINE P == plain(s)
           N == nom(s)
           key == P[<<i, "value">>]
           k == key.rest
           a == P[<<k, "value">>]
           b == N[<<k, "value">>]
           j == b.rest
           w == Under(N[<<j, "dict">>].value, key.value[2], b.value)
<1>1. P[<<i, "dict">>] = plain_dict(s, P, i) /\ N[<<i, "dict">>] = nom_dict(s, N, i)
  BY DecodersStep
<1>2. Moves(s, i, key) /\ "dict" \in Kinds /\ "value" \in Kinds
  BY DecodersStep DEF Kinds
<1>3. /\ key.out = "ok" /\ key.value[1] = "String" => nom_string(s, i) = key
      /\ ~(key.out = "ok" /\ key.value[1] = "String") => nom_string(s, i) = Err
  BY KeysRelated
<1>4. Len(s) \in Nat /\ i \in Nat
  BY DEF Inputs
<1>5. CASE ~(key.out = "ok" /\ key.value[1] = "String")
  <2>1. nom_dict(s, N, i) = Err
    BY <1>3, <1>5, Results DEF nom_dict
  <2>2. plain_dict(s, P, i).out # "ok"
    <3>1. CASE key.out # "ok"
      <4>1. plain_dict(s, P, i) = key
        BY <3>1 DEF plain_dict
      <4> QED
        BY <3>1, <4>1
    <3>2. CASE key.out = "ok" /\ key.value[1] # "String"
      <4>1. plain_dict(s, P, i) = Panic
        BY <3>2, Zenon DEF plain_dict
      <4> QED
        BY <4>1, Results
    <3> QED
      BY <1>5, <3>1, <3>2
  <2> HIDE DEF P, N
  <2> QED
    BY <1>1, <2>1, <2>2, Results DEF Related, P, N
<1>6. CASE key.out = "ok" /\ key.value[1] = "String"
  <2>1. k \in (i + 1)..(Len(s) + 1) /\ k \in 1..(Len(s) + 1) /\ k \in Nat /\ i <= k
    <3>1. k \in (i + 1)..(Len(s) + 1)
      BY <1>2, <1>4, <1>6, MovesOk
    <3> QED
      BY <1>4, <3>1
  <2>2. Moves(s, k, a) /\ Moves(s, k, b) /\ Related(s, k, a, b)
    <3> HIDE DEF k
    <3>1. Moves(s, k, a) /\ Moves(s, k, b)
      BY <1>2, <2>1, DecodersStep
    <3>2. Related(s, k, a, b)
      BY <2>1 DEF FurtherRelated
    <3> QED
      BY <3>1, <3>2
  <2>3. CASE b.out # "ok"
    <3>1. nom_dict(s, N, i) = Err
      <4>1. nom_string(s, i) = key
        BY <1>3, <1>6
      <4> QED
        BY <2>3, <4>1, Zenon DEF nom_dict
    <3>2. a.out # "ok"
      <4> HIDE DEF a, b
      <4> QED
        BY <2>2, <2>3 DEF Related
    <3>3. plain_dict(s, P, i) = a
      BY <1>6, <3>2, Zenon DEF plain_dict
    <3> HIDE DEF a, b, k, P, N
    <3> QED
      BY <1>1, <3>1, <3>2, <3>3, Results DEF Related, P, N
  <2>4. CASE b.out = "ok"
    <3>1. j \in (k + 1)..(Len(s) + 1) /\ j \in 1..(Len(s) + 1) /\ j \in Nat /\ k <= j /\ i <= j
          /\ j \in (i + 1)..(Len(s) + 1)
      <4> HIDE DEF k, b
      <4>1. j \in (k + 1)..(Len(s) + 1)
        BY <2>1, <2>2, <2>4, MovesOk
      <4> HIDE DEF j
      <4> QED
        BY <1>4, <2>1, <4>1
    <3>2. nom_dict(s, N, i) = Then(N[<<j, "dict">>], w)
      <4>1. nom_string(s, i) = key /\ nom_string(s, i).out = "ok"
        BY <1>3, <1>6
      <4> QED
        BY <2>4, <4>1, Zenon DEF nom_dict
    <3>3. Moves(s, j, N[<<j, "dict">>]) /\ Moves(s, j, P[<<j, "dict">>])
      <4> HIDE DEF j
      <4> QED
        BY <1>2, <3>1, DecodersStep
    <3>4. CASE a.out = "ok"
      <4>1. a = b
        <5> HIDE DEF a, b
        <5> QED
          BY <2>2, <3>4 DEF Related
      <4>2. CASE At(s, j, "e")
        <5> DEFINE one == Under(<<>>, key.value[2], b.value)
        <5>1. plain_dict(s, P, i) = Ok(j + 1, one)
          BY <1>6, <2>4, <4>1, <4>2, Zenon DEF plain_dict
        <5>2. N[<<j, "dict">>] = Ok(j + 1, <<>>)
          <6> HIDE DEF j
          <6> QED
            BY <3>1, <4>2, AtTheEnd
        <5>3. nom_dict(s, N, i) = Ok(j + 1, one)
          <6> HIDE DEF N, j, b, k, key
          <6>1. N[<<j, "dict">>].value = <<>>
            BY <5>2, Results
          <6>2. w = one
            BY <6>1
          <6> HIDE DEF w, one
          <6> QED
            BY <3>2, <5>2, <6>2, Results, ThenIs
        <5> HIDE DEF key, a, b, k, j, w, P, N, one
        <5> QED
          BY <1>1, <5>1, <5>3, Results DEF Related, P, N
      <4>3. CASE ~At(s, j, "e")
        <5> DEFINE v == Under(P[<<j, "dict">>].value, key.value[2], b.value)
        <5>1. plain_dict(s, P, i) = Then(P[<<j, "dict">>], v)
          BY <1>6, <2>4, <4>1, <4>3, Zenon DEF plain_dict
        <5>2. Related(s, j, P[<<j, "dict">>], N[<<j, "dict">>])
          <6> HIDE DEF j
          <6> QED
            BY <3>1, <4>3 DEF FurtherRelated
        <5>3. P[<<j, "dict">>] = N[<<j, "dict">>] => v = w
          <6> HIDE DEF j, b, key
          <6> QED
            BY Zenon
        <5> HIDE DEF key, a, b, k, j, w, v, P, N
        <5>4. Related(s, i, Then(P[<<j, "dict">>], v), Then(N[<<j, "dict">>], w))
          BY <1>4, <3>1, <3>3, <5>2, <5>3, ThenRelated
        <5> QED
          BY <1>1, <3>2, <5>1, <5>4 DEF P, N
      <4> QED
        BY <4>2, <4>3
    <3>5. CASE a.out # "ok"
      <4>1. a.out = "panic"
        <5> HIDE DEF a, b, k
        <5> QED
          BY <2>2, <2>4, <3>5, Results DEF Related, Moves
      <4>2. plain_dict(s, P, i) = a
        BY <1>6, <3>5, Zenon DEF plain_dict
      <4>3. EmptyWithin(s, k, j)
        <5> HIDE DEF a, b, k
        <5> QED
          BY <2>2, <2>4, <4>1 DEF Related
      <4> HIDE DEF key, a, b, k, j, w, P, N
      <4>4. ASSUME nom_dict(s, N, i).out = "ok" PROVE EmptyWithin(s, i, nom_dict(s, N, i).rest)
        <5>1. N[<<j, "dict">>].out = "ok"
          BY <3>2, <4>4, ThenIs
        <5>2. nom_dict(s, N, i).rest = N[<<j, "dict">>].rest
          BY <3>2, <5>1, ThenIs, Results
        <5>3. N[<<j, "dict">>].rest \in (j + 1)..(Len(s) + 1)
          BY <3>1, <3>3, <5>1, MovesOk
        <5>4. N[<<j, "dict">>].rest \in Nat /\ j <= N[<<j, "dict">>].rest
          BY <1>4, <3>1, <5>3
        <5> QED
          BY <1>4, <2>1, <3>1, <4>3, <5>2, <5>4, EmptyWithinMore
      <4> QED
        BY <1>1, <4>1, <4>2, <4>4 DEF Related, P, N
    <3> QED
      BY <3>4, <3>5
  <2> QED
    BY <2>3, <2>4
<1> QED
  BY <1>5, <1>6

RelatedAt(s, j) ==
    /\ Related(s, j, plain(s)[<<j, "value">>], nom(s)[<<j, "value">>])
    /\ ~At(s, j, "e") =>
          /\ Related(s, j, plain(s)[<<j, "list">>], nom(s)[<<j, "list">>])
          /\ Related(s, j, plain(s)[<<j, "dict">>], nom(s)[<<j, "dict">>])

\* Wherever the decoders begin, and whatever they take the input for there.
LEMMA AllRelated ==
  ASSUME NEW s \in Inputs, NEW i \in 1..(Len(s) + 1)
  PROVE  RelatedAt(s, i)
<1> DEFINE Bad == {n \in 0..Len(s) : ~RelatedAt(s, Len(s) + 1 - n)}
<1>1. Len(s) \in Nat
  BY DEF Inputs
<1>2. Bad \in SUBSET Nat
  BY <1>1
<1>3. ASSUME Bad # {} PROVE FALSE
  <2>1. PICK n \in Bad : \A y \in Nat : y < n => y \notin Bad
    <3> HIDE DEF Bad
    <3> QED
      BY <1>2, <1>3, Least
  <2> DEFINE j == Len(s) + 1 - n
  <2>2. n \in 0..Len(s) /\ j \in 1..(Len(s) + 1) /\ ~RelatedAt(s, j)
    BY <1>1
  <2>3. ASSUME NEW m \in (j + 1)..(Len(s) + 1) PROVE RelatedAt(s, m)
    <3> DEFINE y == Len(s) + 1 - m
    <3>1. y \in Nat /\ y < n /\ y \in 0..Len(s) /\ m = Len(s) + 1 - y
      BY <1>1, <2>2
    <3>2. y \notin Bad
      <4> HIDE DEF Bad, y
      <4> QED
        BY <2>1, <3>1
    <3>3. RelatedAt(s, Len(s) + 1 - y)
      <4> HIDE DEF y
      <4> QED
        BY <3>1, <3>2
    <3> HIDE DEF y
    <3> QED
      BY <3>1, <3>3
  <2> HIDE DEF j, Bad
  <2>4. FurtherRelated(s, j)
    BY <2>3 DEF FurtherRelated, RelatedAt
  <2>5. RelatedAt(s, j)
    BY <2>2, <2>4, ValueRelated, ListRelated, DictRelated DEF RelatedAt
  <2> QED
    BY <2>2, <2>5
<1>4. Len(s) + 1 - i \in 0..Len(s) /\ i = Len(s) + 1 - (Len(s) + 1 - i)
  BY <1>1
<1> QED
  BY <1>3, <1>4

\* Whatever the input: what the plain decoder returns Ok the other returns too, where
\* it returns an error the other does, and where it panics the other errs too, or read
\* an empty list or dictionary (plain.rs:11-66, nom.rs:18-60).
THEOREM DecodersAgreeOn ==
  ASSUME NEW s \in Inputs
  PROVE  Agree(s, 1, plain_decode(s), nom_decode(s))
<1>1. 1 \in 1..(Len(s) + 1) /\ "value" \in Kinds
  BY DEF Inputs, Kinds
<1>2. Related(s, 1, plain_decode(s), nom_decode(s))
  BY <1>1, AllRelated DEF RelatedAt, plain_decode, nom_decode
<1>3. Moves(s, 1, plain_decode(s))
  BY <1>1, DecodersStep DEF plain_decode
<1> QED
  BY <1>2, <1>3, AgreeIs

\* What is typed is an input.
InputInv == input \in Inputs

LEMMA InputIs == Spec => []InputInv
<1>1. ASSUME Init PROVE InputInv
  <2>1. CASE value = NoValue
    BY <1>1, <2>1 DEF Init, InputInv, Inputs
  <2>2. CASE value # NoValue
    BY <1>1, <2>2, TextAssumption DEF Init, InputInv
  <2> QED
    BY <2>1, <2>2
<1>2. InputInv /\ [Next]_vars => InputInv'
  <2> SUFFICES ASSUME InputInv, [Next]_vars PROVE InputInv'
    OBVIOUS
  <2>1. CASE Next
    <3>1. PICK t \in Tokens : input' = input \o t
      BY <2>1 DEF Next, Type
    <3>2. t \in Seq(STRING) /\ input \in Seq(STRING)
      BY TextAssumption DEF InputInv, Inputs
    <3>3. input \o t \in Seq(STRING)
      BY <3>2, ConcatProperties
    <3> QED
      BY <3>1, <3>3 DEF InputInv, Inputs
  <2>2. CASE UNCHANGED vars
    BY <2>2 DEF vars, InputInv
  <2> QED
    BY <2>1, <2>2
<1> QED
  BY <1>1, <1>2, PTL DEF Spec

\* The decoders agree on everything that is typed, token by token or behind an encoded
\* value (mod.rs:36-43, where one of them is chosen).
THEOREM DecodersAlwaysAgree == Spec => []DecodersAgree
<1>1. InputInv => DecodersAgree
  BY DecodersAgreeOn DEF DecodersAgree, InputInv
<1> QED
  BY <1>1, InputIs, PTL

-----------------------------------------------------------------------------
(* More input behind what was decoded. *)

\* u begins with s.
Begins(s, u) == Len(s) <= Len(u) /\ \A i \in 1..Len(s) : u[i] = s[i]

LEMMA ConcatBegins ==
  ASSUME NEW s \in Inputs, NEW t \in Inputs
  PROVE  s \o t \in Inputs /\ Begins(s, s \o t)
<1>1. /\ s \o t \in Seq(STRING) /\ Len(s \o t) = Len(s) + Len(t)
      /\ \A i \in 1..(Len(s) + Len(t)) : (s \o t)[i] = IF i <= Len(s) THEN s[i] ELSE t[i - Len(s)]
  BY ConcatProperties DEF Inputs
<1>2. Len(s) \in Nat /\ Len(t) \in Nat
  BY DEF Inputs
<1>3. \A i \in 1..Len(s) : i \in 1..(Len(s) + Len(t)) /\ i <= Len(s)
  BY <1>2
<1> QED
  BY <1>1, <1>2, <1>3 DEF Inputs, Begins

\* Numbers among the characters that were there.
LEMMA SameNumbers ==
  ASSUME NEW s \in Inputs, NEW u \in Inputs, Begins(s, u),
         NEW i \in Nat \ {0}, NEW j \in Nat, j <= Len(s) + 1
  PROVE  /\ SubSeq(u, i, j - 1) = SubSeq(s, i, j - 1)
         /\ ToUsize(u, i, j) = ToUsize(s, i, j)
         /\ AllDigits(s, i, j) => AllDigits(u, i, j)
<1>1. /\ Len(s) \in Nat /\ Len(u) \in Nat /\ Len(s) <= Len(u)
      /\ \A k \in 1..Len(s) : u[k] = s[k]
  BY DEF Inputs, Begins
<1>2. \A k \in i..(j - 1) : k \in 1..Len(s) /\ k \in 1..Len(u)
  BY <1>1
<1>3. \A k \in i..(j - 1) : u[k] = s[k] /\ s[k] \in STRING /\ u[k] \in STRING
  BY <1>1, <1>2 DEF Inputs
<1>4. SubSeq(u, i, j - 1) = SubSeq(s, i, j - 1)
  <2> DEFINE n == IF i <= j - 1 THEN (j - 1) - i + 1 ELSE 0
  <2>1. /\ SubSeq(s, i, j - 1) \in Seq(STRING) /\ Len(SubSeq(s, i, j - 1)) = n
        /\ \A k \in 1..n : SubSeq(s, i, j - 1)[k] = s[i + k - 1]
    BY <1>1, <1>3, SubSeqProperties DEF Inputs
  <2>2. /\ SubSeq(u, i, j - 1) \in Seq(STRING) /\ Len(SubSeq(u, i, j - 1)) = n
        /\ \A k \in 1..n : SubSeq(u, i, j - 1)[k] = u[i + k - 1]
    BY <1>1, <1>3, SubSeqProperties DEF Inputs
  <2>3. \A k \in 1..n : i + k - 1 \in i..(j - 1)
    BY <1>1
  <2> HIDE DEF n
  <2>4. \A k \in 1..n : SubSeq(u, i, j - 1)[k] = SubSeq(s, i, j - 1)[k]
    BY <1>3, <2>1, <2>2, <2>3
  <2> QED
    BY <2>1, <2>2, <2>4, SeqEqual
<1>5. AllDigits(s, i, j) => AllDigits(u, i, j)
  BY <1>3 DEF AllDigits
<1> QED
  BY <1>4, <1>5 DEF ToUsize

LEMMA SamePosition ==
  ASSUME NEW s \in Inputs, NEW u \in Inputs, Begins(s, u), NEW i \in 1..Len(s), NEW c,
         Position(s, i, c) # 0
  PROVE  Position(u, i, c) = Position(s, i, c) /\ Position(s, i, c) \in i..Len(s)
<1>1. /\ Len(s) \in Nat /\ Len(u) \in Nat /\ Len(s) <= Len(u) /\ i \in Nat \ {0}
      /\ \A k \in 1..Len(s) : u[k] = s[k]
  BY DEF Inputs, Begins
<1> DEFINE n == Position(s, i, c)
<1>2. FirstAt(s, i, c, n)
  BY <1>1, PositionIs
<1> HIDE DEF n
<1>3. n \in i..Len(s) /\ s[n] = c /\ \A j \in i..(n - 1) : s[j] # c
  BY <1>2 DEF FirstAt
<1>4. n \in 1..Len(s) /\ n \in i..Len(u) /\ \A j \in i..(n - 1) : j \in 1..Len(s)
  BY <1>1, <1>3
<1>5. FirstAt(u, i, c, n)
  BY <1>1, <1>3, <1>4 DEF FirstAt
<1> QED
  BY <1>1, <1>3, <1>5, PositionAt DEF n

LEMMA StringKept ==
  ASSUME NEW s \in Inputs, NEW u \in Inputs, Begins(s, u), NEW i \in 1..Len(s)
  PROVE  /\ plain_string(s, i).out = "ok" => plain_string(u, i) = plain_string(s, i)
         /\ nom_string(s, i).out = "ok" => nom_string(u, i) = nom_string(s, i)
<1>1. Len(s) \in Nat /\ Len(u) \in Nat /\ Len(s) <= Len(u) /\ i \in Nat \ {0} /\ i \in 1..Len(u)
  BY DEF Inputs, Begins
<1>2. ASSUME plain_string(s, i).out = "ok" PROVE plain_string(u, i) = plain_string(s, i)
  <2> DEFINE c == Position(s, i, ":")
             n == ToUsize(s, i, c)
             r == Ok(c + n + 1, <<"String", Text(SubSeq(s, c + 1, c + n))>>)
  <2>1. c # 0 /\ AllDigits(s, i, c) /\ ~(n > MaxUsize) /\ ~(c + n > Len(s)) /\ plain_string(s, i) = r
    BY <1>2, PlainStringIs, Results
  <2>2. Position(u, i, ":") = c /\ c \in i..Len(s)
    BY <2>1, SamePosition
  <2> HIDE DEF c
  <2>3. c \in Nat /\ c <= Len(s) + 1 /\ c + 1 \in Nat \ {0}
    BY <1>1, <2>2
  <2>4. ToUsize(u, i, c) = n /\ AllDigits(u, i, c)
    BY <1>1, <2>1, <2>3, SameNumbers
  <2>5. n \in Nat
    BY <1>1, <2>1, <2>3, ToUsizeIs
  <2> HIDE DEF n, r
  <2>6. c + n + 1 \in Nat /\ c + n + 1 <= Len(s) + 1 /\ (c + n + 1) - 1 = c + n /\ ~(c + n > Len(u))
    BY <1>1, <2>1, <2>3, <2>5
  <2>7. SubSeq(u, c + 1, c + n) = SubSeq(s, c + 1, c + n)
    <3>1. SubSeq(u, c + 1, (c + n + 1) - 1) = SubSeq(s, c + 1, (c + n + 1) - 1)
      BY <2>3, <2>6, SameNumbers
    <3> QED
      BY <2>6, <3>1
  <2>8. plain_string(u, i) = Ok(c + n + 1, <<"String", Text(SubSeq(u, c + 1, c + n))>>)
    BY <1>1, <2>1, <2>2, <2>4, <2>6, PlainStringIs
  <2> QED
    BY <2>1, <2>7, <2>8 DEF r
<1>3. ASSUME nom_string(s, i).out = "ok" PROVE nom_string(u, i) = nom_string(s, i)
  <2>1. nom_string(s, i) = plain_string(s, i)
    BY <1>3, StringsAgree, Results
  <2>2. plain_string(u, i) = plain_string(s, i) /\ plain_string(u, i) # Panic
    BY <1>2, <1>3, <2>1, Results
  <2> QED
    BY <1>1, <2>1, <2>2, StringsAgree
<1> QED
  BY <1>2, <1>3

LEMMA IntKept ==
  ASSUME NEW s \in Inputs, NEW u \in Inputs, Begins(s, u), NEW i \in 1..Len(s),
         plain_int(s, i).out = "ok"
  PROVE  plain_int(u, i) = plain_int(s, i)
<1> DEFINE e == Position(s, i, "e")
           f == SignEnd(s, i + 1)
           n == ToInt(s, i + 1, e)
<1>1. /\ Len(s) \in Nat /\ Len(u) \in Nat /\ Len(s) <= Len(u) /\ i \in Nat \ {0} /\ i \in 1..Len(u)
      /\ DOMAIN s = 1..Len(s) /\ DOMAIN u = 1..Len(u) /\ \A k \in 1..Len(s) : u[k] = s[k]
  BY DEF Inputs, Begins
<1>2. e # 0 /\ AllDigits(s, f, e) /\ FitsI64(n) /\ plain_int(s, i) = Ok(e + 1, <<"Int", n>>)
  BY PlainIntIs, Results
<1>3. Position(u, i, "e") = e /\ e \in i..Len(s)
  BY <1>2, SamePosition
<1>4. f \in {i + 1, i + 2} /\ f \in Nat \ {0}
  BY <1>1 DEF SignEnd
<1>5. f < e
  BY <1>2 DEF AllDigits
<1> HIDE DEF e, f, n
<1>6. i + 1 \in 1..Len(s) /\ e \in Nat /\ e <= Len(s) + 1
  BY <1>1, <1>3, <1>4, <1>5
<1>7. \A c : At(u, i + 1, c) <=> At(s, i + 1, c)
  BY <1>1, <1>6 DEF At
<1>8. SignEnd(u, i + 1) = f
  BY <1>7 DEF SignEnd, f
<1>9. ToUsize(u, f, e) = ToUsize(s, f, e) /\ AllDigits(u, f, e)
  BY <1>2, <1>4, <1>6, SameNumbers
<1>10. ToInt(u, i + 1, e) = n
  BY <1>7, <1>8, <1>9 DEF ToInt, n, f
<1> QED
  BY <1>1, <1>2, <1>3, <1>8, <1>9, <1>10, PlainIntIs

\* What is Ok stays as it is.
Kept(a, b) == a.out = "ok" => b = a

LEMMA ThenKept ==
  ASSUME NEW a, NEW b, Kept(a, b), NEW v, NEW w, a = b => v = w
  PROVE  Kept(Then(a, v), Then(b, w))
<1>1. Then(a, v).out = "ok" => a.out = "ok"
  BY ThenIs
<1> QED
  BY <1>1 DEF Kept

KeptAt(s, u, i) ==
    \A k \in Kinds : /\ Kept(plain(s)[<<i, k>>], plain(u)[<<i, k>>])
                     /\ Kept(nom(s)[<<i, k>>], nom(u)[<<i, k>>])

LEMMA ValueKept ==
  ASSUME NEW s \in Inputs, NEW u \in Inputs, Begins(s, u), NEW i \in 1..(Len(s) + 1),
         i <= Len(s) => KeptAt(s, u, i + 1)
  PROVE  /\ Kept(plain(s)[<<i, "value">>], plain(u)[<<i, "value">>])
         /\ Kept(nom(s)[<<i, "value">>], nom(u)[<<i, "value">>])
<1> DEFINE P == plain(s)
           N == nom(s)
           Q == plain(u)
           M == nom(u)
<1>1. /\ Len(s) \in Nat /\ Len(u) \in Nat /\ Len(s) <= Len(u) /\ \A k \in 1..Len(s) : u[k] = s[k]
      /\ i \in 1..(Len(u) + 1)
  BY DEF Inputs, Begins
<1>2. P[<<i, "value">>] = plain_value(s, P, i) /\ N[<<i, "value">>] = nom_value(s, N, i)
  BY DecodersStep
<1>3. Q[<<i, "value">>] = plain_value(u, Q, i) /\ M[<<i, "value">>] = nom_value(u, M, i)
  BY <1>1, DecodersStep
<1>4. i <= Len(s) => /\ Kept(P[<<i + 1, "list">>], Q[<<i + 1, "list">>])
                     /\ Kept(P[<<i + 1, "dict">>], Q[<<i + 1, "dict">>])
                     /\ Kept(N[<<i + 1, "list">>], M[<<i + 1, "list">>])
                     /\ Kept(N[<<i + 1, "dict">>], M[<<i + 1, "dict">>])
  BY DEF KeptAt, Kinds
<1> HIDE DEF P, N, Q, M
<1> SUFFICES /\ Kept(plain_value(s, P, i), plain_value(u, Q, i))
             /\ Kept(nom_value(s, N, i), nom_value(u, M, i))
  BY <1>2, <1>3 DEF P, N, Q, M
<1>5. CASE i > Len(s)
  BY <1>5, PlainValueIs, NomValueIs, Results DEF Kept
<1>6. CASE ~(i > Len(s))
  <2>1. i \in 1..Len(s) /\ ~(i > Len(u)) /\ u[i] = s[i] /\ i \in 1..Len(u) /\ i <= Len(s)
    BY <1>1, <1>6
  <2>2. CASE IsDigit(s[i])
    <3>1. plain_value(s, P, i) = plain_string(s, i) /\ nom_value(s, N, i) = nom_string(s, i)
      BY <1>6, <2>2, PlainValueIs, NomValueIs
    <3>2. plain_value(u, Q, i) = plain_string(u, i) /\ nom_value(u, M, i) = nom_string(u, i)
      BY <2>1, <2>2, PlainValueIs, NomValueIs
    <3> QED
      BY <2>1, <3>1, <3>2, StringKept DEF Kept
  <2>3. CASE s[i] = "i"
    <3>1. plain_value(s, P, i) = plain_int(s, i) /\ nom_value(s, N, i) = plain_int(s, i)
      BY <1>6, <2>1, <2>3, PlainValueIs, NomValueIs, IntegersAgree
    <3>2. plain_value(u, Q, i) = plain_int(u, i) /\ nom_value(u, M, i) = plain_int(u, i)
      BY <2>1, <2>3, PlainValueIs, NomValueIs, IntegersAgree
    <3> QED
      BY <2>1, <3>1, <3>2, IntKept DEF Kept
  <2>4. CASE s[i] = "l"
    <3>1. plain_value(s, P, i) = List(P, i + 1) /\ nom_value(s, N, i) = List(N, i + 1)
      BY <1>6, <2>4, PlainValueIs, NomValueIs
    <3>2. plain_value(u, Q, i) = List(Q, i + 1) /\ nom_value(u, M, i) = List(M, i + 1)
      BY <2>1, <2>4, PlainValueIs, NomValueIs
    <3>3. Kept(List(P, i + 1), List(Q, i + 1)) /\ Kept(List(N, i + 1), List(M, i + 1))
      BY <1>4, <2>1, ThenKept DEF List
    <3> QED
      BY <3>1, <3>2, <3>3
  <2>5. CASE s[i] = "d"
    <3>1. plain_value(s, P, i) = Map(P, i + 1) /\ nom_value(s, N, i) = Map(N, i + 1)
      BY <1>6, <2>5, PlainValueIs, NomValueIs
    <3>2. plain_value(u, Q, i) = Map(Q, i + 1) /\ nom_value(u, M, i) = Map(M, i + 1)
      BY <2>1, <2>5, PlainValueIs, NomValueIs
    <3>3. Kept(Map(P, i + 1), Map(Q, i + 1)) /\ Kept(Map(N, i + 1), Map(M, i + 1))
      BY <1>4, <2>1, ThenKept DEF Map
    <3> QED
      BY <3>1, <3>2, <3>3
  <2>6. CASE ~IsDigit(s[i]) /\ s[i] \notin {"i", "l", "d"}
    BY <1>6, <2>6, PlainValueIs, NomValueIs, Results DEF Kept
  <2> QED
    BY <2>2, <2>3, <2>4, <2>5, <2>6
<1> QED
  BY <1>5, <1>6

\* Further on, and the value here.
ElementKept(s, u, i) ==
    /\ Kept(plain(s)[<<i, "value">>], plain(u)[<<i, "value">>])
    /\ Kept(nom(s)[<<i, "value">>], nom(u)[<<i, "value">>])
    /\ \A j \in (i + 1)..(Len(s) + 1) : KeptAt(s, u, j)

\* Where an element was followed by more of a list or dictionary, it still is.
LEMMA MoreKept ==
  ASSUME NEW s \in Inputs, NEW u \in Inputs, Begins(s, u), NEW j \in 1..(Len(s) + 1),
         NEW r, Moves(s, j, r), r.out = "ok"
  PROVE  /\ j \in 1..Len(s)
         /\ \A c : At(u, j, c) <=> At(s, j, c)
<1>1. /\ Len(s) \in Nat /\ Len(u) \in Nat /\ Len(s) <= Len(u) /\ \A k \in 1..Len(s) : u[k] = s[k]
      /\ DOMAIN s = 1..Len(s) /\ DOMAIN u = 1..Len(u) /\ j \in Nat
  BY DEF Inputs, Begins
<1>2. r.rest \in (j + 1)..(Len(s) + 1)
  BY <1>1, MovesOk
<1>3. j \in 1..Len(s) /\ j \in 1..Len(u)
  BY <1>1, <1>2
<1> QED
  BY <1>1, <1>3 DEF At

\* The end of a list or dictionary.
LEMMA EndKept ==
  ASSUME NEW s \in Inputs, NEW u \in Inputs, Begins(s, u), NEW j \in Nat \ {0}, At(s, j, "e")
  PROVE  At(u, j, "e") /\ j \in 1..Len(s) /\ j \in 1..(Len(s) + 1) /\ j \in 1..(Len(u) + 1)
<1>1. /\ Len(s) \in Nat /\ Len(u) \in Nat /\ Len(s) <= Len(u) /\ \A k \in 1..Len(s) : u[k] = s[k]
      /\ DOMAIN s = 1..Len(s) /\ DOMAIN u = 1..Len(u)
  BY DEF Inputs, Begins
<1>2. j \in 1..Len(s) /\ s[j] = "e"
  BY <1>1 DEF At
<1>3. j \in 1..Len(u) /\ j \in 1..(Len(s) + 1) /\ j \in 1..(Len(u) + 1)
  BY <1>1, <1>2
<1> QED
  BY <1>1, <1>2, <1>3 DEF At

LEMMA PlainListKept ==
  ASSUME NEW s \in Inputs, NEW u \in Inputs, Begins(s, u), NEW i \in 1..(Len(s) + 1),
         ElementKept(s, u, i)
  PROVE  Kept(plain(s)[<<i, "list">>], plain(u)[<<i, "list">>])
<1> DEFINE P == plain(s)
           Q == plain(u)
           a == P[<<i, "value">>]
           b == Q[<<i, "value">>]
           j == a.rest
<1>1. Len(s) \in Nat /\ Len(u) \in Nat /\ i \in Nat /\ i \in 1..(Len(u) + 1)
  BY DEF Inputs, Begins
<1>2. P[<<i, "list">>] = plain_list(s, P, i) /\ Q[<<i, "list">>] = plain_list(u, Q, i)
  BY <1>1, DecodersStep
<1>3. "value" \in Kinds /\ "list" \in Kinds
  BY DEF Kinds
<1>4. Moves(s, i, a)
  BY <1>3, DecodersStep
<1>5. Kept(a, b)
  BY DEF ElementKept
<1> SUFFICES ASSUME plain_list(s, P, i).out = "ok"
             PROVE  plain_list(u, Q, i) = plain_list(s, P, i)
  <2> HIDE DEF P, Q
  <2> QED
    BY <1>2 DEF Kept, P, Q
<1>6. a.out = "ok"
  <2> SUFFICES ASSUME a.out # "ok" PROVE FALSE
    OBVIOUS
  <2>1. plain_list(s, P, i) = a
    BY DEF plain_list
  <2> QED
    BY <2>1
<1>7. b = a
  <2> HIDE DEF a, b
  <2> QED
    BY <1>5, <1>6 DEF Kept
<1>8. j \in (i + 1)..(Len(s) + 1) /\ j \in 1..(Len(s) + 1) /\ j \in Nat \ {0}
  <2>1. j \in (i + 1)..(Len(s) + 1)
    BY <1>1, <1>4, <1>6, MovesOk
  <2> QED
    BY <1>1, <2>1
<1>9. CASE At(s, j, "e")
  <2>1. At(u, j, "e")
    <3> HIDE DEF j
    <3> QED
      BY <1>8, <1>9, EndKept
  <2>2. plain_list(s, P, i) = Ok(j + 1, <<a.value>>)
    BY <1>6, <1>9, Zenon DEF plain_list
  <2>3. plain_list(u, Q, i) = Ok(j + 1, <<a.value>>)
    BY <1>6, <1>7, <2>1, Zenon DEF plain_list
  <2> QED
    BY <2>2, <2>3
<1>10. CASE ~At(s, j, "e")
  <2> DEFINE more == P[<<j, "list">>]
             v == <<a.value>> \o more.value
  <2>1. plain_list(s, P, i) = Then(more, v)
    BY <1>6, <1>10, Zenon DEF plain_list
  <2>2. more.out = "ok"
    <3> HIDE DEF more, v
    <3> QED
      BY <2>1, ThenIs
  <2>3. Moves(s, j, more) /\ Q[<<j, "list">>] = more
    <3> HIDE DEF j
    <3>1. Moves(s, j, more)
      BY <1>3, <1>8, DecodersStep
    <3>2. Kept(more, Q[<<j, "list">>])
      BY <1>3, <1>8 DEF ElementKept, KeptAt
    <3> HIDE DEF more, Q
    <3> QED
      BY <2>2, <3>1, <3>2 DEF Kept
  <2>4. ~At(u, j, "e")
    <3> HIDE DEF j, more
    <3> QED
      BY <1>8, <1>10, <2>2, <2>3, MoreKept
  <2>5. plain_list(u, Q, i) = Then(more, v)
    BY <1>6, <1>7, <2>3, <2>4, Zenon DEF plain_list
  <2> QED
    BY <2>1, <2>5
<1> QED
  BY <1>9, <1>10

LEMMA NomListKept ==
  ASSUME NEW s \in Inputs, NEW u \in Inputs, Begins(s, u), NEW i \in 1..(Len(s) + 1),
         ElementKept(s, u, i)
  PROVE  Kept(nom(s)[<<i, "list">>], nom(u)[<<i, "list">>])
<1> DEFINE P == nom(s)
           Q == nom(u)
           a == P[<<i, "value">>]
           b == Q[<<i, "value">>]
           j == a.rest
<1>1. Len(s) \in Nat /\ Len(u) \in Nat /\ i \in Nat \ {0} /\ i \in 1..(Len(u) + 1)
  BY DEF Inputs, Begins
<1>2. P[<<i, "list">>] = nom_list(s, P, i) /\ Q[<<i, "list">>] = nom_list(u, Q, i)
  BY <1>1, DecodersStep
<1>3. "value" \in Kinds /\ "list" \in Kinds
  BY DEF Kinds
<1>4. Moves(s, i, a)
  BY <1>3, DecodersStep
<1>5. Kept(a, b)
  BY DEF ElementKept
<1> SUFFICES ASSUME P[<<i, "list">>].out = "ok"
             PROVE  Q[<<i, "list">>] = P[<<i, "list">>]
  BY DEF Kept
<1>6. CASE a.out = "ok"
  <2>1. b = a
    <3> HIDE DEF a, b
    <3> QED
      BY <1>5, <1>6 DEF Kept
  <2>2. j \in (i + 1)..(Len(s) + 1)
    BY <1>1, <1>4, <1>6, MovesOk
  <2> DEFINE more == P[<<j, "list">>]
             v == <<a.value>> \o more.value
  <2>3. nom_list(s, P, i) = Then(more, v)
    BY <1>6, Zenon DEF nom_list
  <2>4. more.out = "ok"
    <3>1. Then(more, v).out = "ok"
      BY <1>2, <2>3
    <3> HIDE DEF more, v
    <3> QED
      BY <3>1, ThenIs
  <2>5. Q[<<j, "list">>] = more
    <3> HIDE DEF j
    <3>1. Kept(more, Q[<<j, "list">>])
      BY <1>3, <2>2 DEF ElementKept, KeptAt
    <3> HIDE DEF more, Q
    <3> QED
      BY <2>4, <3>1 DEF Kept
  <2>6. nom_list(u, Q, i) = Then(more, v)
    BY <1>6, <2>1, <2>5, Zenon DEF nom_list
  <2> QED
    BY <1>2, <2>3, <2>6
<1>7. CASE a.out # "ok"
  <2>1. At(s, i, "e")
    <3> SUFFICES ASSUME ~At(s, i, "e") PROVE FALSE
      OBVIOUS
    <3>1. nom_list(s, P, i) = Err
      BY <1>7, Zenon DEF nom_list
    <3> QED
      BY <1>2, <3>1, Results
  <2>2. At(u, i, "e")
    BY <1>1, <2>1, EndKept
  <2>3. P[<<i, "list">>] = Ok(i + 1, <<>>) /\ Q[<<i, "list">>] = Ok(i + 1, <<>>)
    BY <1>1, <2>1, <2>2, AtTheEnd
  <2> QED
    BY <2>3
<1> QED
  BY <1>6, <1>7

LEMMA PlainDictKept ==
  ASSUME NEW s \in Inputs, NEW u \in Inputs, Begins(s, u), NEW i \in 1..(Len(s) + 1),
         ElementKept(s, u, i)
  PROVE  Kept(plain(s)[<<i, "dict">>], plain(u)[<<i, "dict">>])
<1> DEFINE P == plain(s)
           Q == plain(u)
           key == P[<<i, "value">>]
           k == key.rest
           a == P[<<k, "value">>]
           b == Q[<<k, "value">>]
           j == a.rest
<1>1. Len(s) \in Nat /\ Len(u) \in Nat /\ i \in Nat /\ i \in 1..(Len(u) + 1)
  BY DEF Inputs, Begins
<1>2. P[<<i, "dict">>] = plain_dict(s, P, i) /\ Q[<<i, "dict">>] = plain_dict(u, Q, i)
  BY <1>1, DecodersStep
<1>3. "value" \in Kinds /\ "dict" \in Kinds
  BY DEF Kinds
<1>4. Moves(s, i, key)
  BY <1>3, DecodersStep
<1>5. Kept(key, Q[<<i, "value">>])
  BY DEF ElementKept
<1> SUFFICES ASSUME plain_dict(s, P, i).out = "ok"
             PROVE  plain_dict(u, Q, i) = plain_dict(s, P, i)
  <2> HIDE DEF P, Q
  <2> QED
    BY <1>2 DEF Kept, P, Q
<1>6. key.out = "ok" /\ key.value[1] = "String"
  <2>1. key.out = "ok"
    <3> SUFFICES ASSUME key.out # "ok" PROVE FALSE
      OBVIOUS
    <3>1. plain_dict(s, P, i) = key
      BY Zenon DEF plain_dict
    <3> QED
      BY <3>1
  <2>2. key.value[1] = "String"
    <3> SUFFICES ASSUME key.value[1] # "String" PROVE FALSE
      OBVIOUS
    <3>1. plain_dict(s, P, i) = Panic
      BY <2>1, Zenon DEF plain_dict
    <3> QED
      BY <3>1, Results
  <2> QED
    BY <2>1, <2>2
<1>7. Q[<<i, "value">>] = key
  <2> HIDE DEF key, Q
  <2> QED
    BY <1>5, <1>6 DEF Kept
<1>8. k \in (i + 1)..(Len(s) + 1) /\ k \in 1..(Len(s) + 1) /\ k \in Nat
  <2>1. k \in (i + 1)..(Len(s) + 1)
    BY <1>1, <1>4, <1>6, MovesOk
  <2> QED
    BY <1>1, <2>1
<1>9. Moves(s, k, a) /\ Kept(a, b)
  <2> HIDE DEF k
  <2>1. Moves(s, k, a)
    BY <1>3, <1>8, DecodersStep
  <2>2. Kept(a, b)
    BY <1>3, <1>8 DEF ElementKept, KeptAt
  <2> QED
    BY <2>1, <2>2
<1>10. a.out = "ok"
  <2> SUFFICES ASSUME a.out # "ok" PROVE FALSE
    OBVIOUS
  <2>1. plain_dict(s, P, i) = a
    BY <1>6, Zenon DEF plain_dict
  <2> QED
    BY <2>1
<1>11. b = a
  <2> HIDE DEF a, b
  <2> QED
    BY <1>9, <1>10 DEF Kept
<1>12. j \in (i + 1)..(Len(s) + 1) /\ j \in 1..(Len(s) + 1) /\ j \in Nat \ {0}
  <2> HIDE DEF k, a
  <2>1. j \in (k + 1)..(Len(s) + 1)
    BY <1>8, <1>9, <1>10, MovesOk
  <2> HIDE DEF j
  <2> QED
    BY <1>1, <1>8, <2>1
<1>13. CASE At(s, j, "e")
  <2>1. At(u, j, "e")
    <3> HIDE DEF j
    <3> QED
      BY <1>12, <1>13, EndKept
  <2>2. plain_dict(s, P, i) = Ok(j + 1, Under(<<>>, key.value[2], a.value))
    BY <1>6, <1>10, <1>13, Zenon DEF plain_dict
  <2>3. plain_dict(u, Q, i) = Ok(j + 1, Under(<<>>, key.value[2], a.value))
    BY <1>6, <1>7, <1>10, <1>11, <2>1, Zenon DEF plain_dict
  <2> QED
    BY <2>2, <2>3
<1>14. CASE ~At(s, j, "e")
  <2> DEFINE more == P[<<j, "dict">>]
             v == Under(more.value, key.value[2], a.value)
  <2>1. plain_dict(s, P, i) = Then(more, v)
    BY <1>6, <1>10, <1>14, Zenon DEF plain_dict
  <2>2. more.out = "ok"
    <3> HIDE DEF more, v
    <3> QED
      BY <2>1, ThenIs
  <2>3. Moves(s, j, more) /\ Q[<<j, "dict">>] = more
    <3> HIDE DEF j
    <3>1. Moves(s, j, more)
      BY <1>3, <1>12, DecodersStep
    <3>2. Kept(more, Q[<<j, "dict">>])
      BY <1>3, <1>12 DEF ElementKept, KeptAt
    <3> HIDE DEF more, Q
    <3> QED
      BY <2>2, <3>1, <3>2 DEF Kept
  <2>4. ~At(u, j, "e")
    <3> HIDE DEF j, more
    <3> QED
      BY <1>12, <1>14, <2>2, <2>3, MoreKept
  <2>5. plain_dict(u, Q, i) = Then(more, v)
    BY <1>6, <1>7, <1>10, <1>11, <2>3, <2>4, Zenon DEF plain_dict
  <2> QED
    BY <2>1, <2>5
<1> QED
  BY <1>13, <1>14

LEMMA NomDictKept ==
  ASSUME NEW s \in Inputs, NEW u \in Inputs, Begins(s, u), NEW i \in 1..(Len(s) + 1),
         ElementKept(s, u, i)
  PROVE  Kept(nom(s)[<<i, "dict">>], nom(u)[<<i, "dict">>])
<1> DEFINE P == nom(s)
           Q == nom(u)
           key == nom_string(s, i)
           k == key.rest
           a == P[<<k, "value">>]
           b == Q[<<k, "value">>]
           j == a.rest
<1>1. /\ Len(s) \in Nat /\ Len(u) \in Nat /\ i \in Nat \ {0} /\ i \in 1..(Len(u) + 1)
  BY DEF Inputs, Begins
<1>2. P[<<i, "dict">>] = nom_dict(s, P, i) /\ Q[<<i, "dict">>] = nom_dict(u, Q, i)
  BY <1>1, DecodersStep
<1>3. "value" \in Kinds /\ "dict" \in Kinds
  BY DEF Kinds
<1> SUFFICES ASSUME P[<<i, "dict">>].out = "ok"
             PROVE  Q[<<i, "dict">>] = P[<<i, "dict">>]
  BY DEF Kept
<1>4. CASE key.out = "ok" /\ a.out = "ok"
  <2>1. i \in 1..Len(s)
    <3> SUFFICES ASSUME i \notin 1..Len(s) PROVE FALSE
      OBVIOUS
    <3> QED
      BY <1>4, NoString, Results
  <2>2. nom_string(u, i) = key
    BY <1>4, <2>1, StringKept
  <2>3. k \in (i + 1)..(Len(s) + 1) /\ k \in 1..(Len(s) + 1) /\ k \in Nat
    <3>1. Moves(s, i, key)
      BY <2>1, NomStringMoves
    <3> HIDE DEF key
    <3>2. k \in (i + 1)..(Len(s) + 1)
      BY <1>1, <1>4, <3>1, MovesOk
    <3> QED
      BY <1>1, <3>2
  <2>4. Moves(s, k, a) /\ b = a
    <3> HIDE DEF k
    <3>1. Moves(s, k, a)
      BY <1>3, <2>3, DecodersStep
    <3>2. Kept(a, b)
      BY <1>3, <2>3 DEF ElementKept, KeptAt
    <3> HIDE DEF a, b
    <3> QED
      BY <1>4, <3>1, <3>2 DEF Kept
  <2>5. j \in (i + 1)..(Len(s) + 1)
    <3> HIDE DEF k, a
    <3>1. j \in (k + 1)..(Len(s) + 1)
      BY <1>4, <2>3, <2>4, MovesOk
    <3> HIDE DEF j
    <3> QED
      BY <1>1, <2>3, <3>1
  <2> DEFINE more == P[<<j, "dict">>]
             v == Under(more.value, key.value[2], a.value)
  <2>6. nom_dict(s, P, i) = Then(more, v)
    BY <1>4, Zenon DEF nom_dict
  <2>7. more.out = "ok"
    <3>1. Then(more, v).out = "ok"
      BY <1>2, <2>6
    <3> HIDE DEF more, v
    <3> QED
      BY <3>1, ThenIs
  <2>8. Q[<<j, "dict">>] = more
    <3> HIDE DEF j
    <3>1. Kept(more, Q[<<j, "dict">>])
      BY <1>3, <2>5 DEF ElementKept, KeptAt
    <3> HIDE DEF more, Q
    <3> QED
      BY <2>7, <3>1 DEF Kept
  <2>9. nom_dict(u, Q, i) = Then(more, v)
    BY <1>4, <2>2, <2>4, <2>8, Zenon DEF nom_dict
  <2> QED
    BY <1>2, <2>6, <2>9
<1>5. CASE ~(key.out = "ok" /\ a.out = "ok")
  <2>1. At(s, i, "e")
    <3> SUFFICES ASSUME ~At(s, i, "e") PROVE FALSE
      OBVIOUS
    <3>1. nom_dict(s, P, i) = Err
      BY <1>5, Zenon DEF nom_dict
    <3> QED
      BY <1>2, <3>1, Results
  <2>2. At(u, i, "e")
    BY <1>1, <2>1, EndKept
  <2>3. P[<<i, "dict">>] = Ok(i + 1, <<>>) /\ Q[<<i, "dict">>] = Ok(i + 1, <<>>)
    BY <1>1, <2>1, <2>2, AtTheEnd
  <2> QED
    BY <2>3
<1> QED
  BY <1>4, <1>5

LEMMA AllKept ==
  ASSUME NEW s \in Inputs, NEW u \in Inputs, Begins(s, u), NEW i \in 1..(Len(s) + 1)
  PROVE  KeptAt(s, u, i)
<1> DEFINE Bad == {n \in 0..Len(s) : ~KeptAt(s, u, Len(s) + 1 - n)}
<1>1. Len(s) \in Nat
  BY DEF Inputs
<1>2. Bad \in SUBSET Nat
  BY <1>1
<1>3. ASSUME Bad # {} PROVE FALSE
  <2>1. PICK n \in Bad : \A y \in Nat : y < n => y \notin Bad
    <3> HIDE DEF Bad
    <3> QED
      BY <1>2, <1>3, Least
  <2> DEFINE j == Len(s) + 1 - n
  <2>2. n \in 0..Len(s) /\ j \in 1..(Len(s) + 1) /\ ~KeptAt(s, u, j)
    BY <1>1
  <2>3. ASSUME NEW m \in (j + 1)..(Len(s) + 1) PROVE KeptAt(s, u, m)
    <3> DEFINE y == Len(s) + 1 - m
    <3>1. y \in Nat /\ y < n /\ y \in 0..Len(s) /\ m = Len(s) + 1 - y
      BY <1>1, <2>2
    <3>2. y \notin Bad
      <4> HIDE DEF Bad, y
      <4> QED
        BY <2>1, <3>1
    <3>3. KeptAt(s, u, Len(s) + 1 - y)
      <4> HIDE DEF y
      <4> QED
        BY <3>1, <3>2
    <3> HIDE DEF y
    <3> QED
      BY <3>1, <3>3
  <2> HIDE DEF j, Bad
  <2>4. j <= Len(s) => j + 1 \in (j + 1)..(Len(s) + 1)
    BY <1>1, <2>2
  <2>5. /\ Kept(plain(s)[<<j, "value">>], plain(u)[<<j, "value">>])
        /\ Kept(nom(s)[<<j, "value">>], nom(u)[<<j, "value">>])
    BY <2>2, <2>3, <2>4, ValueKept
  <2>6. ElementKept(s, u, j)
    BY <2>3, <2>5 DEF ElementKept
  <2>7. /\ Kept(plain(s)[<<j, "list">>], plain(u)[<<j, "list">>])
        /\ Kept(nom(s)[<<j, "list">>], nom(u)[<<j, "list">>])
    BY <2>2, <2>6, PlainListKept, NomListKept
  <2>8. /\ Kept(plain(s)[<<j, "dict">>], plain(u)[<<j, "dict">>])
        /\ Kept(nom(s)[<<j, "dict">>], nom(u)[<<j, "dict">>])
    BY <2>2, <2>6, PlainDictKept, NomDictKept
  <2>9. KeptAt(s, u, j)
    BY <2>5, <2>7, <2>8 DEF KeptAt, Kinds
  <2> QED
    BY <2>2, <2>9
<1>4. Len(s) + 1 - i \in 0..Len(s) /\ i = Len(s) + 1 - (Len(s) + 1 - i)
  BY <1>1
<1> QED
  BY <1>3, <1>4

\* Whatever comes behind an input that was decoded, what was decoded is the same
\* (plain.rs:18-21, 28, nom.rs:36-37).
THEOREM RestIgnoredOn ==
  ASSUME NEW s \in Inputs, NEW t \in Inputs
  PROVE  /\ plain_decode(s).out = "ok" => plain_decode(s \o t) = plain_decode(s)
         /\ nom_decode(s).out = "ok" => nom_decode(s \o t) = nom_decode(s)
<1> DEFINE u == s \o t
<1>1. u \in Inputs /\ Begins(s, u)
  BY ConcatBegins
<1>2. 1 \in 1..(Len(s) + 1) /\ "value" \in Kinds
  BY DEF Inputs, Kinds
<1> HIDE DEF u
<1>3. KeptAt(s, u, 1)
  BY <1>1, <1>2, AllKept
<1> QED
  BY <1>2, <1>3 DEF KeptAt, Kept, plain_decode, nom_decode, u

\* Typing more never changes what was decoded (the tests' `unparsed').
THEOREM RestAlwaysIgnored == Spec => RestIgnored
<1>1. InputInv /\ [Next]_vars =>
         [/\ plain_decode(input).out = "ok" => plain_decode(input') = plain_decode(input)
          /\ nom_decode(input).out = "ok" => nom_decode(input') = nom_decode(input)]_vars
  <2> SUFFICES ASSUME InputInv, Next
               PROVE  /\ plain_decode(input).out = "ok" => plain_decode(input') = plain_decode(input)
                      /\ nom_decode(input).out = "ok" => nom_decode(input') = nom_decode(input)
    OBVIOUS
  <2>1. PICK t \in Tokens : input' = input \o t
    BY DEF Next, Type
  <2>2. t \in Inputs /\ input \in Inputs
    BY TextAssumption DEF InputInv
  <2> QED
    BY <2>1, <2>2, RestIgnoredOn
<1> QED
  BY <1>1, InputIs, PTL DEF Spec, RestIgnored

-----------------------------------------------------------------------------
(* Encoded values. *)

\* e is in s, from i on.
Occurs(s, i, e) ==
    /\ i + Len(e) <= Len(s) + 1
    /\ \A k \in 1..Len(e) : s[i + k - 1] = e[k]

LEMMA OccursParts ==
  ASSUME NEW s \in Inputs, NEW i \in Nat \ {0}, NEW d \in Inputs, NEW e \in Inputs,
         Occurs(s, i, d \o e)
  PROVE  /\ Occurs(s, i, d) /\ Occurs(s, i + Len(d), e)
         /\ d \o e \in Inputs /\ Len(d \o e) = Len(d) + Len(e)
<1>1. Len(s) \in Nat /\ Len(d) \in Nat /\ Len(e) \in Nat
  BY DEF Inputs
<1>2. /\ Len(d \o e) = Len(d) + Len(e) /\ d \o e \in Seq(STRING)
      /\ \A k \in 1..(Len(d) + Len(e)) : (d \o e)[k] = IF k <= Len(d) THEN d[k] ELSE e[k - Len(d)]
  BY ConcatProperties DEF Inputs
<1>3. ASSUME NEW k \in 1..Len(d) PROVE s[i + k - 1] = d[k]
  <2>1. k \in 1..(Len(d) + Len(e)) /\ k <= Len(d)
    BY <1>1
  <2> QED
    BY <1>2, <2>1 DEF Occurs
<1>4. ASSUME NEW k \in 1..Len(e) PROVE s[i + Len(d) + k - 1] = e[k]
  <2>1. Len(d) + k \in 1..(Len(d) + Len(e)) /\ ~(Len(d) + k <= Len(d)) /\ Len(d) + k - Len(d) = k
    BY <1>1
  <2>2. s[i + (Len(d) + k) - 1] = e[k]
    BY <1>2, <2>1 DEF Occurs
  <2>3. i + (Len(d) + k) - 1 = i + Len(d) + k - 1
    BY <1>1
  <2> QED
    BY <2>2, <2>3
<1>5. i + Len(d) <= Len(s) + 1 /\ i + Len(d) + Len(e) <= Len(s) + 1
  BY <1>1, <1>2 DEF Occurs
<1> QED
  BY <1>2, <1>3, <1>4, <1>5 DEF Occurs, Inputs

LEMMA OccursTail ==
  ASSUME NEW s \in Inputs, NEW i \in Nat \ {0}, NEW e \in Inputs, e # <<>>, Occurs(s, i, e)
  PROVE  /\ i \in 1..Len(s) /\ s[i] = e[1]
         /\ Occurs(s, i + 1, Tail(e)) /\ Tail(e) \in Inputs /\ Len(Tail(e)) = Len(e) - 1
<1>1. /\ Len(s) \in Nat /\ Len(e) \in Nat \ {0} /\ Tail(e) \in Seq(STRING)
      /\ Len(Tail(e)) = Len(e) - 1 /\ \A k \in 1..Len(Tail(e)) : Tail(e)[k] = e[k + 1]
  BY HeadTailProperties, EmptySeq DEF Inputs
<1>2. i \in 1..Len(s) /\ 1 \in 1..Len(e) /\ i + 1 - 1 = i
  BY <1>1 DEF Occurs
<1>3. s[i] = e[1]
  BY <1>2 DEF Occurs
<1>4. ASSUME NEW k \in 1..Len(Tail(e)) PROVE s[i + 1 + k - 1] = Tail(e)[k]
  <2>1. k + 1 \in 1..Len(e) /\ i + (k + 1) - 1 = i + 1 + k - 1
    BY <1>1
  <2> QED
    BY <1>1, <2>1 DEF Occurs
<1>5. i + 1 + Len(Tail(e)) <= Len(s) + 1
  BY <1>1 DEF Occurs
<1> QED
  BY <1>1, <1>2, <1>3, <1>4, <1>5 DEF Occurs, Inputs

Slice(s, i, j) == SubSeq(s, i, j - 1)

\* The part of e from a up to b, where e occurs.
LEMMA OccursSame ==
  ASSUME NEW s \in Inputs, NEW i \in Nat \ {0}, NEW e \in Inputs, Occurs(s, i, e),
         NEW a \in Nat \ {0}, NEW b \in Nat, a <= b, b <= Len(e) + 1,
         NEW x, x = i + a - 1, NEW y, y = i + b - 1
  PROVE  /\ x \in Nat \ {0} /\ y \in Nat /\ y <= Len(s) + 1
         /\ Slice(s, x, y) = Slice(e, a, b)
         /\ ToUsize(s, x, y) = ToUsize(e, a, b)
         /\ AllDigits(e, a, b) => AllDigits(s, x, y)
<1>1. Len(s) \in Nat /\ Len(e) \in Nat /\ i + Len(e) <= Len(s) + 1
  BY DEF Inputs, Occurs
<1>2. x \in Nat \ {0} /\ y \in Nat /\ y <= Len(s) + 1
  BY <1>1
<1>3. ASSUME NEW k \in 0..(b - a - 1) PROVE s[x + k] = e[a + k] /\ x + k \in 1..Len(s) /\ a + k \in 1..Len(e)
  <2>1. a + k \in 1..Len(e) /\ i + (a + k) - 1 = x + k /\ x + k \in 1..Len(s)
    BY <1>1
  <2> QED
    BY <2>1 DEF Occurs
<1>4. SubSeq(s, x, y - 1) = SubSeq(e, a, b - 1)
  <2> DEFINE n == b - a
  <2>1. \A k \in x..(y - 1) : s[k] \in STRING
    <3> SUFFICES ASSUME NEW k \in x..(y - 1) PROVE s[k] \in STRING
      OBVIOUS
    <3>1. k \in 1..Len(s)
      BY <1>1, <1>2
    <3> QED
      BY <3>1 DEF Inputs
  <2>2. \A k \in a..(b - 1) : e[k] \in STRING
    <3> SUFFICES ASSUME NEW k \in a..(b - 1) PROVE e[k] \in STRING
      OBVIOUS
    <3>1. k \in 1..Len(e)
      BY <1>1
    <3> QED
      BY <3>1 DEF Inputs
  <2>3. /\ SubSeq(s, x, y - 1) \in Seq(STRING)
        /\ Len(SubSeq(s, x, y - 1)) = IF x <= y - 1 THEN (y - 1) - x + 1 ELSE 0
        /\ \A k \in 1..((y - 1) - x + 1) : SubSeq(s, x, y - 1)[k] = s[x + k - 1]
    BY <1>2, <2>1, SubSeqProperties DEF Inputs
  <2>4. /\ SubSeq(e, a, b - 1) \in Seq(STRING)
        /\ Len(SubSeq(e, a, b - 1)) = IF a <= b - 1 THEN (b - 1) - a + 1 ELSE 0
        /\ \A k \in 1..((b - 1) - a + 1) : SubSeq(e, a, b - 1)[k] = e[a + k - 1]
    BY <1>1, <2>2, SubSeqProperties DEF Inputs
  <2>5. (y - 1) - x + 1 = n /\ (b - 1) - a + 1 = n /\ n \in Nat
        /\ (x <= y - 1 <=> n # 0) /\ (a <= b - 1 <=> n # 0)
    BY <1>1
  <2> HIDE DEF n
  <2>6. Len(SubSeq(s, x, y - 1)) = n /\ Len(SubSeq(e, a, b - 1)) = n
    BY <2>3, <2>4, <2>5
  <2>7. ASSUME NEW k \in 1..n PROVE SubSeq(s, x, y - 1)[k] = SubSeq(e, a, b - 1)[k]
    <3>1. k - 1 \in 0..(b - a - 1) /\ x + (k - 1) = x + k - 1 /\ a + (k - 1) = a + k - 1
      BY <1>2, <2>5
    <3>2. s[x + k - 1] = e[a + k - 1]
      BY <1>3, <3>1
    <3> QED
      BY <2>3, <2>4, <2>5, <3>2
  <2> DEFINE u == SubSeq(s, x, y - 1)
             v == SubSeq(e, a, b - 1)
  <2>8. u \in Seq(STRING) /\ v \in Seq(STRING)
    BY ONLY <2>3, <2>4, Zenon
  <2>9. Len(u) = n /\ Len(v) = n /\ \A k \in 1..n : u[k] = v[k]
    BY ONLY <2>6, <2>7, Zenon
  <2> HIDE DEF u, v
  <2>10. u = v
    BY ONLY <2>8, <2>9, SeqEqual
  <2> QED
    BY ONLY <2>10, Zenon DEF u, v
<1>5. ASSUME AllDigits(e, a, b) PROVE AllDigits(s, x, y)
  <2>1. a < b /\ \A k \in a..(b - 1) : IsDigit(e[k])
    BY <1>5 DEF AllDigits
  <2>2. ASSUME NEW k \in x..(y - 1) PROVE IsDigit(s[k])
    <3> DEFINE m == k - x
    <3>1. m \in 0..(b - a - 1) /\ x + m = k /\ a + m \in a..(b - 1)
      BY <1>1, <1>2
    <3> HIDE DEF m
    <3> QED
      BY <1>3, <2>1, <3>1
  <2>3. x < y
    BY <1>1, <2>1
  <2> QED
    BY <2>2, <2>3 DEF AllDigits
<1> QED
  BY <1>2, <1>4, <1>5 DEF ToUsize, Slice

LEMMA StringReads ==
  ASSUME NEW s \in Inputs, NEW i \in Nat \ {0}, NEW e \in Inputs, Occurs(s, i, e),
         NEW text, IsString(e, text)
  PROVE  /\ i \in 1..Len(s) /\ IsDigit(s[i]) /\ Len(e) \in Nat \ {0}
         /\ plain_string(s, i) = Ok(i + Len(e), <<"String", text>>)
         /\ nom_string(s, i) = Ok(i + Len(e), <<"String", text>>)
<1>1. PICK c \in DOMAIN e :
         /\ e[c] = ":" /\ AllDigits(e, 1, c)
         /\ ToUsize(e, 1, c) = Len(e) - c /\ Len(e) - c <= MaxUsize
         /\ text = Text(SubSeq(e, c + 1, Len(e)))
  BY DEF IsString
<1>2. /\ Len(s) \in Nat /\ Len(e) \in Nat /\ c \in 1..Len(e) /\ i + Len(e) <= Len(s) + 1
      /\ \A k \in 1..Len(e) : s[i + k - 1] = e[k]
  BY DEF Inputs, Occurs
<1>3. 1 < c /\ \A k \in 1..(c - 1) : IsDigit(e[k])
  BY <1>1 DEF AllDigits
<1> DEFINE C == i + c - 1
           n == Len(e) - c
<1>4. /\ C \in i..Len(s) /\ C \in Nat /\ C # 0 /\ n \in Nat /\ i \in 1..Len(s)
      /\ C + n + 1 = i + Len(e) /\ ~(C + n > Len(s)) /\ i = i + 1 - 1
  <2>1. c \in Nat /\ 1 < c /\ c <= Len(e)
    BY <1>2, <1>3
  <2>2. n \in Nat /\ C \in Nat /\ C # 0 /\ i <= C
    BY <1>2, <2>1
  <2>3. C <= Len(s) /\ i <= Len(s)
    BY <1>2, <2>1
  <2>4. C + n + 1 = i + Len(e) /\ i = i + 1 - 1
    BY <1>2, <2>1
  <2>5. ~(C + n > Len(s))
    BY <1>2, <2>1, <2>4
  <2> HIDE DEF C, n
  <2> QED
    BY <1>2, <2>2, <2>3, <2>4, <2>5
<1>5. s[C] = ":"
  BY <1>1, <1>2
<1>6. ASSUME NEW j \in i..(C - 1) PROVE IsDigit(s[j])
  <2>1. j - i + 1 \in 1..(c - 1) /\ j - i + 1 \in 1..Len(e) /\ i + (j - i + 1) - 1 = j
    BY <1>2
  <2> QED
    BY <1>2, <1>3, <2>1
<1>7. Position(s, i, ":") = C
  <2> HIDE DEF C
  <2>1. \A j \in i..(C - 1) : s[j] # ":"
    BY <1>6, NotDigits
  <2> QED
    BY <1>4, <1>5, <2>1, PositionAt DEF FirstAt
<1>8. ToUsize(s, i, C) = n /\ AllDigits(s, i, C)
  <2>1. ASSUME NEW a \in Nat \ {0}, NEW b \in Nat, a <= b, b <= Len(e) + 1
        PROVE  /\ ToUsize(s, i + a - 1, i + b - 1) = ToUsize(e, a, b)
               /\ AllDigits(e, a, b) => AllDigits(s, i + a - 1, i + b - 1)
    <3> HIDE DEF C, n
    <3> QED
      BY <2>1, OccursSame
  <2>2. 1 \in Nat \ {0} /\ c \in Nat /\ 1 <= c /\ c <= Len(e) + 1
    BY <1>2
  <2>3. /\ ToUsize(s, i + 1 - 1, i + c - 1) = ToUsize(e, 1, c)
        /\ AllDigits(s, i + 1 - 1, i + c - 1)
    BY <1>1, <2>1, <2>2
  <2>4. i + 1 - 1 = i
    OBVIOUS
  <2> QED
    BY ONLY <1>1, <2>3, <2>4, Zenon
<1>9. SubSeq(s, C + 1, C + n) = SubSeq(e, c + 1, Len(e))
  <2>1. ASSUME NEW a \in Nat \ {0}, NEW b \in Nat, a <= b, b <= Len(e) + 1
        PROVE  Slice(s, i + a - 1, i + b - 1) = Slice(e, a, b)
    <3> HIDE DEF C, n
    <3> QED
      BY <2>1, OccursSame
  <2>2. c + 1 \in Nat \ {0} /\ Len(e) + 1 \in Nat /\ c + 1 <= Len(e) + 1 /\ Len(e) + 1 <= Len(e) + 1
    BY <1>2
  <2>3. Slice(s, i + (c + 1) - 1, i + (Len(e) + 1) - 1) = Slice(e, c + 1, Len(e) + 1)
    BY <2>1, <2>2
  <2>4. i + (c + 1) - 1 = C + 1 /\ i + (Len(e) + 1) - 1 - 1 = C + n /\ Len(e) + 1 - 1 = Len(e)
    BY <1>2
  <2> QED
    BY <2>3, <2>4 DEF Slice
<1>10. ~(n > MaxUsize)
  BY <1>1, <1>4, WidthAssumption
<1>11. plain_string(s, i) = Ok(i + Len(e), <<"String", text>>)
  <2> HIDE DEF C, n
  <2>1. plain_string(s, i) = Ok(C + n + 1, <<"String", Text(SubSeq(s, C + 1, C + n))>>)
    BY <1>4, <1>7, <1>8, <1>10, PlainStringIs
  <2> QED
    BY <1>1, <1>4, <1>9, <2>1
<1>12. nom_string(s, i) = plain_string(s, i)
  <2> HIDE DEF C, n
  <2>1. plain_string(s, i) # Panic
    BY <1>11, Results
  <2> QED
    BY <1>4, <2>1, StringsAgree
<1>13. IsDigit(s[i])
  BY <1>2, <1>3, <1>6
<1> QED
  BY <1>2, <1>4, <1>11, <1>12, <1>13

LEMMA IntReads ==
  ASSUME NEW s \in Inputs, NEW i \in Nat \ {0}, NEW e \in Inputs, Occurs(s, i, e),
         NEW n, IsInt(e, n)
  PROVE  /\ i \in 1..Len(s) /\ s[i] = "i"
         /\ plain_int(s, i) = Ok(i + Len(e), <<"Int", n>>)
<1> DEFINE f == SignEnd(e, 2)
           E == i + Len(e) - 1
           F == i + f - 1
<1>1. /\ At(e, 1, "i") /\ At(e, Len(e), "e") /\ AllDigits(e, f, Len(e))
      /\ n = ToInt(e, 2, Len(e)) /\ FitsI64(n)
  BY DEF IsInt
<1>2. /\ Len(s) \in Nat /\ Len(e) \in Nat /\ i + Len(e) <= Len(s) + 1
      /\ \A k \in 1..Len(e) : s[i + k - 1] = e[k]
      /\ DOMAIN e = 1..Len(e) /\ DOMAIN s = 1..Len(s)
  BY DEF Inputs, Occurs
<1>3. f \in {2, 3} /\ (f = 3 => e[2] \in {"-", "+"})
  BY DEF SignEnd, At
<1>4. f < Len(e) /\ \A k \in f..(Len(e) - 1) : IsDigit(e[k])
  BY <1>1 DEF AllDigits
<1> HIDE DEF f
<1>5. /\ e[1] = "i" /\ e[Len(e)] = "e" /\ 1 \in 1..Len(e) /\ 2 \in 1..Len(e) /\ Len(e) \in 1..Len(e)
      /\ i \in 1..Len(s) /\ i + 1 \in 1..Len(s) /\ i + 1 - 1 = i /\ i + 2 - 1 = i + 1
      /\ E \in i..Len(s) /\ E \in Nat /\ E # 0 /\ E + 1 = i + Len(e)
  BY <1>1, <1>2, <1>3, <1>4 DEF At
<1>6. s[i] = "i" /\ s[E] = "e" /\ s[i + 1] = e[2]
  BY <1>2, <1>5
<1>7. ASSUME NEW k \in 1..(Len(e) - 1) PROVE e[k] # "e"
  <2>1. k = 1 \/ (k = 2 /\ f = 3) \/ k \in f..(Len(e) - 1)
    BY <1>2, <1>3
  <2> QED
    BY <1>3, <1>4, <1>5, <2>1, NotDigits
<1>8. Position(s, i, "e") = E
  <2>1. ASSUME NEW j \in i..(E - 1) PROVE s[j] # "e"
    <3>1. j - i + 1 \in 1..(Len(e) - 1) /\ j - i + 1 \in 1..Len(e) /\ i + (j - i + 1) - 1 = j
      BY <1>2
    <3> QED
      BY <1>2, <1>7, <3>1
  <2> HIDE DEF E
  <2> QED
    BY <1>5, <1>6, <2>1, PositionAt DEF FirstAt
<1>9. \A c : At(s, i + 1, c) <=> At(e, 2, c)
  BY <1>2, <1>5, <1>6 DEF At
<1>10. SignEnd(s, i + 1) = F
  BY <1>3, <1>9 DEF SignEnd, f
<1>11. ToUsize(s, F, E) = ToUsize(e, f, Len(e)) /\ AllDigits(s, F, E)
  <2>1. f \in Nat \ {0} /\ f <= Len(e) /\ Len(e) <= Len(e) + 1
    BY <1>2, <1>3, <1>4
  <2> HIDE DEF E, F
  <2> QED
    BY <1>1, <1>2, <2>1, OccursSame DEF E, F
<1> HIDE DEF E, F
<1>12. ToInt(s, i + 1, E) = n
  BY <1>1, <1>9, <1>10, <1>11 DEF ToInt, f
<1>13. plain_int(s, i) = Ok(E + 1, <<"Int", n>>)
  BY <1>1, <1>5, <1>8, <1>10, <1>11, <1>12, PlainIntIs
<1> QED
  BY <1>5, <1>6, <1>13

\* What the elements and pairs make of a list or dictionary.
LEMMA NomListReads ==
  ASSUME NEW s \in Inputs, NEW i \in 1..(Len(s) + 1), NEW N, N = nom(s), NEW j, NEW x,
         N[<<i, "value">>] = Ok(j, x), NEW k, NEW rest, N[<<j, "list">>] = Ok(k, rest)
  PROVE  N[<<i, "list">>] = Ok(k, <<x>> \o rest)
<1>1. N[<<i, "list">>] = nom_list(s, N, i)
  BY DecodersStep
<1>2. /\ Ok(j, x).out = "ok" /\ Ok(j, x).rest = j /\ Ok(j, x).value = x
      /\ Ok(k, rest).out = "ok" /\ Ok(k, rest).rest = k /\ Ok(k, rest).value = rest
  BY Results
<1>3. nom_list(s, N, i) = Then(Ok(k, rest), <<x>> \o rest)
  BY <1>2, Zenon DEF nom_list
<1>4. Then(Ok(k, rest), <<x>> \o rest) = Ok(k, <<x>> \o rest)
  BY <1>2, ThenIs
<1> QED
  BY <1>1, <1>3, <1>4

LEMMA PlainListEnds ==
  ASSUME NEW s \in Inputs, NEW i \in 1..(Len(s) + 1), NEW P, P = plain(s), NEW j, NEW x,
         P[<<i, "value">>] = Ok(j, x),
         At(s, j, "e")
  PROVE  P[<<i, "list">>] = Ok(j + 1, <<x>>)
<1>1. P[<<i, "list">>] = plain_list(s, P, i) /\ Moves(s, i, P[<<i, "value">>])
  BY DecodersStep DEF Kinds
<1>2. Ok(j, x).out = "ok" /\ Ok(j, x).rest = j /\ Ok(j, x).value = x
  BY Results
<1>3. plain_list(s, P, i) = Ok(j + 1, <<x>>)
  BY <1>2, Zenon DEF plain_list
<1> QED
  BY <1>1, <1>3

LEMMA PlainListGoes ==
  ASSUME NEW s \in Inputs, NEW i \in 1..(Len(s) + 1), NEW P, P = plain(s), NEW j, NEW x,
         P[<<i, "value">>] = Ok(j, x),
         NEW k, NEW rest, P[<<j, "list">>] = Ok(k, rest)
  PROVE  P[<<i, "list">>] = Ok(k, <<x>> \o rest)
<1>1. P[<<i, "list">>] = plain_list(s, P, i) /\ Moves(s, i, P[<<i, "value">>])
  BY DecodersStep DEF Kinds
<1>2. Ok(j, x).out = "ok" /\ Ok(j, x).rest = j /\ Ok(j, x).value = x
  BY Results
<1>3. plain_list(s, P, i) = Ok(k, <<x>> \o rest)
  <2>1. j \in 1..(Len(s) + 1)
    <3>1. Len(s) \in Nat
      BY DEF Inputs
    <3>2. j \in (i + 1)..(Len(s) + 1)
      BY <1>1, <1>2, <3>1, MovesOk
    <3> QED
      BY <3>1, <3>2
  <2>2. Ok(k, rest).out = "ok" /\ Ok(k, rest).rest = k /\ Ok(k, rest).value = rest
    BY Results
  <2>3. ~At(s, j, "e")
    <3> SUFFICES ASSUME At(s, j, "e") PROVE FALSE
      OBVIOUS
    <3>1. P[<<j, "list">>] = Panic
      BY <2>1, AtTheEnd
    <3> QED
      BY <2>2, <3>1, Results
  <2>4. plain_list(s, P, i) = Then(Ok(k, rest), <<x>> \o rest)
    BY <1>2, <2>2, <2>3, Zenon DEF plain_list
  <2>5. Then(Ok(k, rest), <<x>> \o rest) = Ok(k, <<x>> \o rest)
    BY <2>2, ThenIs
  <2> QED
    BY <2>4, <2>5
<1> QED
  BY <1>1, <1>3

LEMMA NomDictReads ==
  ASSUME NEW s \in Inputs, NEW i \in 1..(Len(s) + 1), NEW N, N = nom(s), NEW j, NEW key,
         nom_string(s, i) = Ok(j, <<"String", key>>),
         NEW k, NEW x, N[<<j, "value">>] = Ok(k, x),
         NEW l, NEW rest, N[<<k, "dict">>] = Ok(l, rest)
  PROVE  N[<<i, "dict">>] = Ok(l, Under(rest, key, x))
<1>1. N[<<i, "dict">>] = nom_dict(s, N, i)
  BY DecodersStep
<1> DEFINE name == <<"String", key>>
<1>2. /\ Ok(j, name).out = "ok" /\ Ok(j, name).rest = j /\ Ok(j, name).value = name /\ name[2] = key
      /\ Ok(k, x).out = "ok" /\ Ok(k, x).rest = k /\ Ok(k, x).value = x
      /\ Ok(l, rest).out = "ok" /\ Ok(l, rest).rest = l /\ Ok(l, rest).value = rest
  BY Results
<1>3. nom_string(s, i) = Ok(j, name)
  OBVIOUS
<1> HIDE DEF name
<1>4. nom_dict(s, N, i) = Then(Ok(l, rest), Under(rest, key, x))
  BY <1>2, <1>3, Zenon DEF nom_dict
<1>5. Then(Ok(l, rest), Under(rest, key, x)) = Ok(l, Under(rest, key, x))
  BY <1>2, ThenIs
<1> QED
  BY <1>1, <1>4, <1>5

\* P reads a key from i up to j and a value from there up to k.
PairRead(P, i, j, key, k, x) ==
    P[<<i, "value">>] = Ok(j, <<"String", key>>) /\ P[<<j, "value">>] = Ok(k, x)

LEMMA PlainDictEnds ==
  ASSUME NEW s \in Inputs, NEW i \in 1..(Len(s) + 1), NEW P, P = plain(s), NEW j, NEW key,
         NEW k, NEW x, PairRead(P, i, j, key, k, x),
         At(s, k, "e")
  PROVE  P[<<i, "dict">>] = Ok(k + 1, Under(<<>>, key, x))
<1> DEFINE name == <<"String", key>>
<1>1. P[<<i, "dict">>] = plain_dict(s, P, i) /\ Moves(s, i, P[<<i, "value">>])
  BY DecodersStep DEF Kinds
<1>2. /\ Ok(j, name).out = "ok" /\ Ok(j, name).rest = j /\ Ok(j, name).value = name
      /\ name[1] = "String" /\ name[2] = key
      /\ Ok(k, x).out = "ok" /\ Ok(k, x).rest = k /\ Ok(k, x).value = x
  BY Results
<1>3. P[<<i, "value">>] = Ok(j, name) /\ P[<<j, "value">>] = Ok(k, x)
  BY DEF PairRead
<1> HIDE DEF name
<1>4. plain_dict(s, P, i) = Ok(k + 1, Under(<<>>, key, x))
  BY <1>2, <1>3, Zenon DEF plain_dict
<1> QED
  BY <1>1, <1>4

LEMMA PlainDictGoes ==
  ASSUME NEW s \in Inputs, NEW i \in 1..(Len(s) + 1), NEW P, P = plain(s), NEW j, NEW key,
         NEW k, NEW x, PairRead(P, i, j, key, k, x),
         NEW l, NEW rest, P[<<k, "dict">>] = Ok(l, rest)
  PROVE  P[<<i, "dict">>] = Ok(l, Under(rest, key, x))
<1> DEFINE name == <<"String", key>>
<1>1. P[<<i, "dict">>] = plain_dict(s, P, i) /\ Moves(s, i, P[<<i, "value">>])
  BY DecodersStep DEF Kinds
<1>2. /\ Ok(j, name).out = "ok" /\ Ok(j, name).rest = j /\ Ok(j, name).value = name
      /\ name[1] = "String" /\ name[2] = key
      /\ Ok(k, x).out = "ok" /\ Ok(k, x).rest = k /\ Ok(k, x).value = x
  BY Results
<1>3. P[<<i, "value">>] = Ok(j, name) /\ P[<<j, "value">>] = Ok(k, x)
  BY DEF PairRead
<1> HIDE DEF name
<1>4. plain_dict(s, P, i) = Ok(l, Under(rest, key, x))
  <2>1. k \in 1..(Len(s) + 1)
    <3>1. Len(s) \in Nat
      BY DEF Inputs
    <3>2. j \in (i + 1)..(Len(s) + 1)
      BY <1>1, <1>2, <1>3, <3>1, MovesOk
    <3>3. j \in 1..(Len(s) + 1)
      BY <3>1, <3>2
    <3>4. Moves(s, j, P[<<j, "value">>])
      BY <3>3, DecodersStep DEF Kinds
    <3>5. k \in (j + 1)..(Len(s) + 1)
      BY <1>2, <1>3, <3>1, <3>3, <3>4, MovesOk
    <3> QED
      BY <3>1, <3>3, <3>5
  <2>2. Ok(l, rest).out = "ok" /\ Ok(l, rest).rest = l /\ Ok(l, rest).value = rest
    BY Results
  <2>3. ~At(s, k, "e")
    <3> SUFFICES ASSUME At(s, k, "e") PROVE FALSE
      OBVIOUS
    <3>1. P[<<k, "dict">>] = Panic
      BY <2>1, AtTheEnd
    <3> QED
      BY <2>2, <3>1, Results
  <2>4. plain_dict(s, P, i) = Then(Ok(l, rest), Under(rest, key, x))
    BY <1>2, <1>3, <2>2, <2>3, Zenon DEF plain_dict
  <2>5. Then(Ok(l, rest), Under(rest, key, x)) = Ok(l, Under(rest, key, x))
    BY <2>2, ThenIs
  <2> QED
    BY <2>4, <2>5
<1> QED
  BY <1>1, <1>4

LEMMA Single ==
  ASSUME NEW S, NEW c \in S
  PROVE  <<c>> \in Seq(S) /\ Len(<<c>>) = 1 /\ <<c>>[1] = c
OBVIOUS

\* e is one character, the one of f, and d behind it.
Split(e, f, d) == e # <<>> /\ e[1] = f[1] /\ Tail(e) = d /\ Len(e) = 1 + Len(d)

LEMMA Prepended ==
  ASSUME NEW S, NEW f \in Seq(S), Len(f) = 1, NEW d \in Seq(S)
  PROVE  Split(f \o d, f, d)
<1> DEFINE e == f \o d
<1>1. Len(d) \in Nat
  OBVIOUS
<1>2. /\ e \in Seq(S) /\ Len(e) = 1 + Len(d)
      /\ \A k \in 1..(1 + Len(d)) : e[k] = IF k <= 1 THEN f[k] ELSE d[k - 1]
  <2>1. /\ e \in Seq(S) /\ Len(e) = Len(f) + Len(d)
        /\ \A k \in 1..(Len(f) + Len(d)) : e[k] = IF k <= Len(f) THEN f[k] ELSE d[k - Len(f)]
    BY ConcatProperties
  <2> HIDE DEF e
  <2> QED
    BY <1>1, <2>1
<1> HIDE DEF e
<1>3. e # <<>>
  BY <1>1, <1>2
<1>4. /\ Tail(e) \in Seq(S) /\ Len(Tail(e)) = Len(d)
      /\ \A k \in 1..Len(Tail(e)) : Tail(e)[k] = e[k + 1]
  BY <1>1, <1>2, <1>3, HeadTailProperties
<1>5. e[1] = f[1]
  <2>1. 1 \in 1..(1 + Len(d))
    BY <1>1
  <2> QED
    BY <1>2, <2>1
<1>6. ASSUME NEW k \in 1..Len(d) PROVE Tail(e)[k] = d[k]
  <2>1. k + 1 \in 1..(1 + Len(d)) /\ ~(k + 1 <= 1) /\ k + 1 - 1 = k
    BY <1>1
  <2> QED
    BY <1>2, <1>4, <2>1
<1>7. Tail(e) = d
  BY <1>1, <1>4, <1>6, SeqEqual
<1>8. Split(e, f, d)
  BY <1>2, <1>3, <1>5, <1>7 DEF Split
<1> QED
  BY <1>8 DEF e

Regroups(a, b, c) == (a \o b) \o c = a \o (b \o c)

LEMMA JoinedThrice ==
  ASSUME NEW S, NEW a \in Seq(S), NEW b \in Seq(S), NEW c \in Seq(S)
  PROVE  Regroups(a, b, c)
BY ConcatAssociative DEF Regroups

LEMMA PrependedParts ==
  ASSUME NEW S, NEW f \in Seq(S), Len(f) = 1, NEW a \in Seq(S), NEW b \in Seq(S)
  PROVE  /\ Split((f \o a) \o b, f, a \o b)
         /\ Len(a \o b) = Len(a) + Len(b)
<1>1. Regroups(f, a, b)
  BY JoinedThrice
<1>2. a \o b \in Seq(S) /\ Len(a \o b) = Len(a) + Len(b)
  BY ConcatProperties
<1>3. Split(f \o (a \o b), f, a \o b)
  BY <1>2, Prepended
<1> QED
  BY <1>1, <1>2, <1>3, Zenon DEF Regroups

SplitThree(f, q, a, b) ==
    /\ Split(((f \o q) \o a) \o b, f, (q \o a) \o b)
    /\ Len((q \o a) \o b) = Len(q) + Len(a) + Len(b)

LEMMA PrependedThree ==
  ASSUME NEW S, NEW f \in Seq(S), Len(f) = 1,
         NEW q \in Seq(S), NEW a \in Seq(S), NEW b \in Seq(S)
  PROVE  SplitThree(f, q, a, b)
<1>1. Regroups(f, q, a)
  BY JoinedThrice
<1>2. q \o a \in Seq(S) /\ Len(q \o a) = Len(q) + Len(a)
  BY ConcatProperties
<1>3. /\ Split((f \o (q \o a)) \o b, f, (q \o a) \o b)
      /\ Len((q \o a) \o b) = Len(q \o a) + Len(b)
  BY <1>2, PrependedParts
<1> QED
  BY <1>1, <1>2, <1>3, Zenon DEF SplitThree, Regroups

\* The characters that the encodings are put together from.
Chars == STRING \cup {"l", "d", "e"}

LEMMA CharsAre ==
  /\ \A s \in Inputs : s \in Seq(Chars)
  /\ \A c \in {"l", "d", "e"} : <<c>> \in Seq(Chars) /\ Len(<<c>>) = 1 /\ <<c>>[1] = c
<1>1. STRING \subseteq Chars /\ \A c \in {"l", "d", "e"} : c \in Chars
  BY DEF Chars
<1>2. Seq(STRING) \subseteq Seq(Chars)
  BY <1>1, SeqMonotonic
<1> QED
  BY <1>1, <1>2, Single DEF Inputs

LEMMA EncodingIs ==
  ASSUME NEW v \in DOMAIN Encoding, NEW e, e = Encoding[v]
  PROVE  /\ e \in Inputs /\ e # <<>> /\ Len(e) \in Nat \ {0}
         /\ Tail(e) \in Inputs /\ Len(Tail(e)) = Len(e) - 1
<1>1. e \in Seq(STRING) /\ e # <<>>
  BY TextAssumption DEF Inputs
<1> QED
  BY <1>1, HeadTailProperties, EmptySeq DEF Inputs

\* The parts of an encoded list.
ListOf(v, e, list) ==
    /\ v = <<"List", list>> /\ e[1] = "l"
    /\ \/ list = <<>> /\ Tail(e) = <<"e">>
       \/ \E h, w \in DOMAIN Encoding :
             /\ list = <<h>> \o Tail(list) /\ list # <<>> /\ h = list[1]
             /\ w = <<"List", Tail(list)>>
             /\ Tail(e) = Encoding[h] \o Tail(Encoding[w])
             /\ Len(e) = Len(Encoding[h]) + Len(Encoding[w])

LEMMA ListIs ==
  ASSUME NEW v \in DOMAIN Encoding, v[1] = "List",
         NEW e, e = Encoding[v], NEW list, list = v[2]
  PROVE  ListOf(v, e, list)
<1> USE DEF ListOf
<1>1. v = <<"List", list>> /\ IsList(e, list)
  BY EncodingAssumption
<1>2. CASE list = <<>> /\ e = <<"l", "e">>
  <2> DEFINE d == <<"e">>
             f == <<"l">>
  <2>1. e = f \o d
    BY <1>2
  <2>2. f \in Seq(Chars) /\ Len(f) = 1 /\ f[1] = "l" /\ d \in Seq(Chars)
    BY CharsAre
  <2> HIDE DEF d, f
  <2>3. Split(e, f, d)
    BY <2>1, <2>2, Prepended
  <2> QED
    BY <1>1, <1>2, <2>2, <2>3 DEF d, Split
<1>3. CASE /\ list # <<>> /\ <<"List", Tail(list)>> \in DOMAIN Encoding
           /\ e = <<"l">> \o Encoding[Head(list)] \o Tail(Encoding[<<"List", Tail(list)>>])
  <2> DEFINE h == Head(list)
             w == <<"List", Tail(list)>>
             a == Encoding[h]
             b == Tail(Encoding[w])
             f == <<"l">>
  <2>1. list \in Seq(DOMAIN Encoding)
    BY <1>1 DEF IsList
  <2>2. h \in DOMAIN Encoding /\ h = list[1] /\ list = <<h>> \o Tail(list)
    BY <1>3, <2>1
  <2>3. w \in DOMAIN Encoding
    BY <1>3
  <2>4. e = (f \o a) \o b
    BY <1>3
  <2>5. f \in Seq(Chars) /\ Len(f) = 1 /\ f[1] = "l"
    BY CharsAre
  <2>6. a \in Seq(Chars) /\ Len(a) \in Nat
    <3> HIDE DEF h
    <3> QED
      BY <2>2, EncodingIs, CharsAre
  <2>7. b \in Seq(Chars) /\ Len(b) = Len(Encoding[w]) - 1 /\ Len(Encoding[w]) \in Nat
    <3> HIDE DEF w
    <3> QED
      BY <2>3, EncodingIs, CharsAre
  <2> HIDE DEF h, w, a, b, f
  <2>8. Split(e, f, a \o b) /\ Len(a \o b) = Len(a) + Len(b)
    <3>1. Split((f \o a) \o b, f, a \o b) /\ Len(a \o b) = Len(a) + Len(b)
      BY ONLY <2>5, <2>6, <2>7, PrependedParts
    <3> QED
      BY ONLY <2>4, <3>1, Zenon
  <2>9. e[1] = "l" /\ Tail(e) = a \o b /\ Len(e) = Len(a) + Len(Encoding[w])
    BY ONLY <2>5, <2>6, <2>7, <2>8 DEF Split
  <2>10. w = <<"List", Tail(list)>>
    BY DEF w
  <2> QED
    BY <1>1, <1>3, <2>2, <2>3, <2>9, <2>10 DEF a, b
<1> QED
  BY <1>1, <1>2, <1>3 DEF IsList

\* The parts of an encoded dictionary.
MapOf(v, e, map) ==
    /\ v = <<"Map", map>> /\ e[1] = "d"
    /\ \/ map = <<>> /\ Tail(e) = <<"e">>
       \/ \E k \in DOMAIN map, q \in Inputs, w \in DOMAIN Encoding :
             /\ map = [l \in DOMAIN map |-> map[l]] /\ map[k] \in DOMAIN Encoding
             /\ IsString(q, k)
             /\ w = <<"Map", Without(map, k)>>
             /\ Tail(e) = (q \o Encoding[map[k]]) \o Tail(Encoding[w])
             /\ Len(e) = Len(q) + Len(Encoding[map[k]]) + Len(Encoding[w])

LEMMA MapIs ==
  ASSUME NEW v \in DOMAIN Encoding, v[1] = "Map",
         NEW e, e = Encoding[v], NEW map, map = v[2]
  PROVE  MapOf(v, e, map)
<1> USE DEF MapOf
<1>1. v = <<"Map", map>> /\ IsMap(e, map) /\ e \in Seq(STRING)
  BY EncodingAssumption, TextAssumption DEF Inputs
<1>2. CASE map = <<>> /\ e = <<"d", "e">>
  <2> DEFINE d == <<"e">>
             f == <<"d">>
  <2>1. e = f \o d
    BY <1>2
  <2>2. f \in Seq(Chars) /\ Len(f) = 1 /\ f[1] = "d" /\ d \in Seq(Chars)
    BY CharsAre
  <2> HIDE DEF d, f
  <2>3. Split(e, f, d)
    BY <2>1, <2>2, Prepended
  <2> QED
    BY <1>1, <1>2, <2>2, <2>3 DEF d, Split
<1>3. ASSUME NEW k \in DOMAIN map, NEW c \in DOMAIN e,
             IsString(SubSeq(e, 2, c), k),
             <<"Map", Without(map, k)>> \in DOMAIN Encoding,
             e = <<"d">> \o SubSeq(e, 2, c) \o Encoding[map[k]]
                        \o Tail(Encoding[<<"Map", Without(map, k)>>])
      PROVE  /\ e[1] = "d"
             /\ \E q \in Inputs, w \in DOMAIN Encoding :
                  /\ map = [l \in DOMAIN map |-> map[l]] /\ map[k] \in DOMAIN Encoding
                  /\ IsString(q, k)
                  /\ w = <<"Map", Without(map, k)>>
                  /\ Tail(e) = (q \o Encoding[map[k]]) \o Tail(Encoding[w])
                  /\ Len(e) = Len(q) + Len(Encoding[map[k]]) + Len(Encoding[w])
  <2> DEFINE h == map[k]
             w == <<"Map", Without(map, k)>>
             q == SubSeq(e, 2, c)
             a == Encoding[h]
             b == Tail(Encoding[w])
             f == <<"d">>
  <2>1. h \in DOMAIN Encoding /\ map = [l \in DOMAIN map |-> map[l]]
    BY <1>1 DEF IsMap
  <2>2. q \in Seq(STRING) /\ q \in Inputs
    <3>1. c \in 1..Len(e) /\ Len(e) \in Nat
      BY <1>1
    <3>2. \A n \in 2..c : e[n] \in STRING
      <4> SUFFICES ASSUME NEW n \in 2..c PROVE e[n] \in STRING
        OBVIOUS
      <4>1. n \in 1..Len(e)
        BY <3>1
      <4> QED
        BY ONLY <1>1, <4>1
    <3>3. q \in Seq(STRING)
      BY <1>1, <3>1, <3>2, SubSeqProperties
    <3> QED
      BY <3>3 DEF Inputs
  <2>3. w \in DOMAIN Encoding
    BY <1>3
  <2>4. e = ((f \o q) \o a) \o b
    BY <1>3
  <2>5. f \in Seq(Chars) /\ Len(f) = 1 /\ f[1] = "d"
    BY CharsAre
  <2>6. a \in Seq(Chars) /\ Len(a) \in Nat /\ q \in Seq(Chars) /\ Len(q) \in Nat
    <3> HIDE DEF h
    <3>1. a \in Inputs /\ Len(a) \in Nat
      BY <2>1, EncodingIs
    <3> HIDE DEF q, a
    <3>2. Len(q) \in Nat
      BY ONLY <2>2
    <3> QED
      BY ONLY <2>2, <3>1, <3>2, CharsAre
  <2>7. b \in Seq(Chars) /\ Len(b) = Len(Encoding[w]) - 1 /\ Len(Encoding[w]) \in Nat
    <3> HIDE DEF w
    <3> QED
      BY <2>3, EncodingIs, CharsAre
  <2>8. IsString(q, k) /\ w = <<"Map", Without(map, k)>>
    BY <1>3
  <2> HIDE DEF h, w, q, a, b, f
  <2> DEFINE d == (q \o a) \o b
  <2>9. Split(e, f, d) /\ Len(d) = Len(q) + Len(a) + Len(b)
    <3>1. SplitThree(f, q, a, b)
      BY ONLY <2>5, <2>6, <2>7, PrependedThree
    <3> QED
      BY ONLY <2>4, <3>1, Zenon DEF SplitThree, d
  <2> HIDE DEF d
  <2>10. e[1] = "d" /\ Tail(e) = d /\ Len(e) = Len(q) + Len(a) + Len(Encoding[w])
    <3>1. e[1] = f[1] /\ Tail(e) = d /\ Len(e) = 1 + Len(d)
      BY ONLY <2>9, Zenon DEF Split
    <3>2. Len(d) = Len(q) + Len(a) + Len(b)
      BY ONLY <2>9
    <3>3. Len(q) \in Nat /\ Len(a) \in Nat /\ Len(b) = Len(Encoding[w]) - 1 /\ Len(Encoding[w]) \in Nat
      BY ONLY <2>6, <2>7, Zenon
    <3>4. Len(e) = Len(q) + Len(a) + Len(Encoding[w])
      BY ONLY <3>1, <3>2, <3>3
    <3> QED
      BY ONLY <2>5, <3>1, <3>4, Zenon
  <2>11. /\ map[k] \in DOMAIN Encoding
         /\ Tail(e) = (q \o Encoding[map[k]]) \o Tail(Encoding[w])
         /\ Len(e) = Len(q) + Len(Encoding[map[k]]) + Len(Encoding[w])
    BY ONLY <2>1, <2>10, Zenon DEF a, b, d, h
  <2>12. \E y \in Inputs, z \in DOMAIN Encoding :
            /\ map = [l \in DOMAIN map |-> map[l]] /\ map[k] \in DOMAIN Encoding
            /\ IsString(y, k)
            /\ z = <<"Map", Without(map, k)>>
            /\ Tail(e) = (y \o Encoding[map[k]]) \o Tail(Encoding[z])
            /\ Len(e) = Len(y) + Len(Encoding[map[k]]) + Len(Encoding[z])
    BY ONLY <2>1, <2>2, <2>3, <2>8, <2>11, Zenon
  <2> QED
    BY ONLY <2>10, <2>12, Zenon
<1> QED
  BY <1>1, <1>2, <1>3 DEF IsMap

\* What the decoders return where the encoding of v is, the plain one if there is
\* nothing empty in v; and behind the first character of a list or dictionary.
Found(v) ==
    \A s \in Inputs, i \in Nat \ {0} : Occurs(s, i, Encoding[v]) =>
        /\ nom(s)[<<i, "value">>] = Ok(i + Len(Encoding[v]), v)
        /\ v \in NoneEmpty => plain(s)[<<i, "value">>] = Ok(i + Len(Encoding[v]), v)

FoundWithin(v, kind) ==
    \A s \in Inputs, i \in Nat \ {0} : Occurs(s, i, Tail(Encoding[v])) =>
        /\ nom(s)[<<i, kind>>] = Ok(i + Len(Tail(Encoding[v])), v[2])
        /\ v \in NoneEmpty => plain(s)[<<i, kind>>] = Ok(i + Len(Tail(Encoding[v])), v[2])

LEMMA ScalarFound ==
  ASSUME NEW v \in DOMAIN Encoding, v[1] \in {"Int", "String"}
  PROVE  Found(v)
<1> SUFFICES ASSUME NEW s \in Inputs, NEW i \in Nat \ {0}, Occurs(s, i, Encoding[v])
             PROVE  /\ nom(s)[<<i, "value">>] = Ok(i + Len(Encoding[v]), v)
                    /\ plain(s)[<<i, "value">>] = Ok(i + Len(Encoding[v]), v)
  BY DEF Found
<1>1. Encoding[v] \in Inputs
  BY TextAssumption
<1>2. Len(s) \in Nat
  BY DEF Inputs
<1>3. CASE v = <<"Int", v[2]>> /\ IsInt(Encoding[v], v[2])
  <2>1. /\ i \in 1..Len(s) /\ s[i] = "i"
        /\ plain_int(s, i) = Ok(i + Len(Encoding[v]), v)
    <3>1. /\ i \in 1..Len(s) /\ s[i] = "i"
          /\ plain_int(s, i) = Ok(i + Len(Encoding[v]), <<"Int", v[2]>>)
      BY <1>1, <1>3, IntReads
    <3> QED
      BY <1>3, <3>1, Zenon
  <2>2. i \in 1..(Len(s) + 1) /\ ~(i > Len(s))
    BY <1>2, <2>1
  <2>3. /\ plain(s)[<<i, "value">>] = plain_value(s, plain(s), i)
        /\ nom(s)[<<i, "value">>] = nom_value(s, nom(s), i)
    BY <2>2, DecodersStep
  <2>4. plain_value(s, plain(s), i) = plain_int(s, i)
    BY <2>1, <2>2, PlainValueIs
  <2>5. nom_value(s, nom(s), i) = nom_integer(s, i)
    BY <2>1, <2>2, NomValueIs
  <2>6. nom_integer(s, i) = plain_int(s, i)
    BY <2>1, IntegersAgree
  <2> QED
    BY <2>1, <2>3, <2>4, <2>5, <2>6
<1>4. CASE v = <<"String", v[2]>> /\ IsString(Encoding[v], v[2])
  <2>1. /\ i \in 1..Len(s) /\ IsDigit(s[i])
        /\ plain_string(s, i) = Ok(i + Len(Encoding[v]), v)
        /\ nom_string(s, i) = Ok(i + Len(Encoding[v]), v)
    <3>1. /\ i \in 1..Len(s) /\ IsDigit(s[i])
          /\ plain_string(s, i) = Ok(i + Len(Encoding[v]), <<"String", v[2]>>)
          /\ nom_string(s, i) = Ok(i + Len(Encoding[v]), <<"String", v[2]>>)
      BY <1>1, <1>4, StringReads
    <3> QED
      BY <1>4, <3>1, Zenon
  <2>2. i \in 1..(Len(s) + 1) /\ ~(i > Len(s))
    BY <1>2, <2>1
  <2>3. /\ plain(s)[<<i, "value">>] = plain_value(s, plain(s), i)
        /\ nom(s)[<<i, "value">>] = nom_value(s, nom(s), i)
    BY <2>2, DecodersStep
  <2>4. plain_value(s, plain(s), i) = plain_string(s, i)
    BY <2>1, <2>2, PlainValueIs
  <2>5. nom_value(s, nom(s), i) = nom_string(s, i)
    BY <2>1, <2>2, NomValueIs
  <2> QED
    BY <2>1, <2>3, <2>4, <2>5
<1> QED
  BY <1>3, <1>4, EncodingAssumption

LEMMA ContainerFound ==
  ASSUME NEW v \in DOMAIN Encoding,
         \/ v = <<"List", v[2]>> /\ Encoding[v][1] = "l" /\ FoundWithin(v, "list")
         \/ v = <<"Map", v[2]>> /\ Encoding[v][1] = "d" /\ FoundWithin(v, "dict")
  PROVE  Found(v)
<1> SUFFICES ASSUME NEW s \in Inputs, NEW i \in Nat \ {0}, Occurs(s, i, Encoding[v])
             PROVE  /\ nom(s)[<<i, "value">>] = Ok(i + Len(Encoding[v]), v)
                    /\ v \in NoneEmpty => plain(s)[<<i, "value">>] = Ok(i + Len(Encoding[v]), v)
  BY DEF Found
<1> DEFINE e == Encoding[v]
           d == Tail(e)
<1>1. e \in Inputs /\ e # <<>> /\ Len(e) \in Nat \ {0} /\ Len(d) = Len(e) - 1
  BY EncodingIs
<1>2. i \in 1..Len(s) /\ s[i] = e[1] /\ Occurs(s, i + 1, d)
  BY <1>1, OccursTail
<1> HIDE DEF d
<1>3. /\ i \in 1..(Len(s) + 1) /\ ~(i > Len(s)) /\ i + 1 \in Nat \ {0}
      /\ i + 1 + Len(d) = i + Len(e)
  <2>1. Len(s) \in Nat
    BY DEF Inputs
  <2> QED
    BY <1>1, <1>2, <2>1
<1>4. /\ plain(s)[<<i, "value">>] = plain_value(s, plain(s), i)
      /\ nom(s)[<<i, "value">>] = nom_value(s, nom(s), i)
  BY <1>3, DecodersStep
<1>5. \A x, y : Ok(x, y).out = "ok" /\ Ok(x, y).rest = x /\ Ok(x, y).value = y
  BY Results
<1>6. CASE v = <<"List", v[2]>> /\ e[1] = "l" /\ FoundWithin(v, "list")
  <2>1. /\ nom(s)[<<i + 1, "list">>] = Ok(i + Len(e), v[2])
        /\ v \in NoneEmpty => plain(s)[<<i + 1, "list">>] = Ok(i + Len(e), v[2])
    BY <1>2, <1>3, <1>6 DEF FoundWithin, d
  <2>2. \A f : f[<<i + 1, "list">>] = Ok(i + Len(e), v[2]) => List(f, i + 1) = Ok(i + Len(e), v)
    <3> TAKE f
    <3> HAVE f[<<i + 1, "list">>] = Ok(i + Len(e), v[2])
    <3> DEFINE r == f[<<i + 1, "list">>]
               x == v[2]
    <3>1. List(f, i + 1) = Then(r, <<"List", r.value>>)
      BY ONLY DEF List
    <3>2. r.out = "ok" /\ r.rest = i + Len(e) /\ r.value = x
      BY <1>5
    <3>3. v = <<"List", x>>
      BY <1>6
    <3> HIDE DEF r, x
    <3>4. Then(r, <<"List", r.value>>) = Ok(r.rest, <<"List", r.value>>)
      BY ONLY <3>2, ThenIs
    <3> QED
      BY ONLY <3>1, <3>2, <3>3, <3>4, Zenon
  <2>3. nom_value(s, nom(s), i) = List(nom(s), i + 1)
    BY <1>2, <1>3, <1>6, NomValueIs
  <2>4. plain_value(s, plain(s), i) = List(plain(s), i + 1)
    BY <1>2, <1>3, <1>6, PlainValueIs
  <2> HIDE DEF e
  <2>5. nom(s)[<<i, "value">>] = Ok(i + Len(e), v)
    BY <1>4, <2>1, <2>2, <2>3
  <2>6. v \in NoneEmpty => plain(s)[<<i, "value">>] = Ok(i + Len(e), v)
    BY <1>4, <2>1, <2>2, <2>4
  <2> QED
    BY <2>5, <2>6 DEF e
<1>7. CASE v = <<"Map", v[2]>> /\ e[1] = "d" /\ FoundWithin(v, "dict")
  <2>1. /\ nom(s)[<<i + 1, "dict">>] = Ok(i + Len(e), v[2])
        /\ v \in NoneEmpty => plain(s)[<<i + 1, "dict">>] = Ok(i + Len(e), v[2])
    BY <1>2, <1>3, <1>7 DEF FoundWithin, d
  <2>2. \A f : f[<<i + 1, "dict">>] = Ok(i + Len(e), v[2]) => Map(f, i + 1) = Ok(i + Len(e), v)
    <3> TAKE f
    <3> HAVE f[<<i + 1, "dict">>] = Ok(i + Len(e), v[2])
    <3> DEFINE r == f[<<i + 1, "dict">>]
               x == v[2]
    <3>1. Map(f, i + 1) = Then(r, <<"Map", r.value>>)
      BY ONLY DEF Map
    <3>2. r.out = "ok" /\ r.rest = i + Len(e) /\ r.value = x
      BY <1>5
    <3>3. v = <<"Map", x>>
      BY <1>7
    <3> HIDE DEF r, x
    <3>4. Then(r, <<"Map", r.value>>) = Ok(r.rest, <<"Map", r.value>>)
      BY ONLY <3>2, ThenIs
    <3> QED
      BY ONLY <3>1, <3>2, <3>3, <3>4, Zenon
  <2>3. nom_value(s, nom(s), i) = Map(nom(s), i + 1)
    BY <1>2, <1>3, <1>7, NomValueIs
  <2>4. plain_value(s, plain(s), i) = Map(plain(s), i + 1)
    BY <1>2, <1>3, <1>7, PlainValueIs
  <2> HIDE DEF e
  <2>5. nom(s)[<<i, "value">>] = Ok(i + Len(e), v)
    BY <1>4, <2>1, <2>2, <2>3
  <2>6. v \in NoneEmpty => plain(s)[<<i, "value">>] = Ok(i + Len(e), v)
    BY <1>4, <2>1, <2>2, <2>4
  <2> QED
    BY <2>5, <2>6 DEF e
<1> QED
  BY <1>6, <1>7

\* The 'e' that closes a list or dictionary.
LEMMA EndFound ==
  ASSUME NEW s \in Inputs, NEW i \in Nat \ {0}, Occurs(s, i, <<"e">>)
  PROVE  /\ i \in 1..(Len(s) + 1) /\ At(s, i, "e")
         /\ nom(s)[<<i, "list">>] = Ok(i + 1, <<>>) /\ nom(s)[<<i, "dict">>] = Ok(i + 1, <<>>)
<1> DEFINE e == <<"e">>
<1>1. Len(e) = 1 /\ e[1] = "e" /\ Len(s) \in Nat /\ DOMAIN s = 1..Len(s)
  BY DEF Inputs
<1>2. Occurs(s, i, e)
  OBVIOUS
<1> HIDE DEF e
<1>3. i + 1 <= Len(s) + 1 /\ s[i + 1 - 1] = "e"
  BY <1>1, <1>2 DEF Occurs
<1>4. i \in 1..Len(s) /\ i \in 1..(Len(s) + 1) /\ i + 1 - 1 = i
  BY <1>1, <1>3
<1>5. At(s, i, "e")
  BY <1>1, <1>3, <1>4 DEF At
<1> QED
  BY <1>4, <1>5, AtTheEnd

\* Where an element or a pair is and what remains of the list or dictionary behind it.
LEMMA OccursBehind ==
  ASSUME NEW s \in Inputs, NEW i \in Nat \ {0}, NEW a \in Inputs, NEW b \in Inputs,
         Occurs(s, i, a \o b)
  PROVE  /\ i \in 1..(Len(s) + 1) /\ i + Len(a) \in Nat \ {0} /\ i + Len(a) \in 1..(Len(s) + 1)
         /\ Occurs(s, i, a) /\ Occurs(s, i + Len(a), b)
         /\ i + Len(a) + Len(b) = i + Len(a \o b) /\ Len(a) \in Nat /\ Len(b) \in Nat
<1>1. /\ Occurs(s, i, a) /\ Occurs(s, i + Len(a), b) /\ Len(a \o b) = Len(a) + Len(b)
  BY OccursParts
<1>2. Len(s) \in Nat /\ Len(a) \in Nat /\ Len(b) \in Nat
  BY DEF Inputs
<1>3. i + Len(a) + Len(b) <= Len(s) + 1
  BY <1>1 DEF Occurs
<1> QED
  BY <1>1, <1>2, <1>3

\* The element a list begins with and the list of the others.
LEMMA ListFound ==
  ASSUME NEW v \in DOMAIN Encoding, v[1] = "List",
         \A w \in DOMAIN Encoding : Len(Encoding[w]) < Len(Encoding[v]) =>
            Found(w) /\ (w[1] = "List" => FoundWithin(w, "list"))
  PROVE  FoundWithin(v, "list")
<1> DEFINE e == Encoding[v]
           list == v[2]
<1> SUFFICES ASSUME NEW s \in Inputs, NEW i \in Nat \ {0}, Occurs(s, i, Tail(e))
             PROVE  /\ nom(s)[<<i, "list">>] = Ok(i + Len(Tail(e)), list)
                    /\ v \in NoneEmpty => plain(s)[<<i, "list">>] = Ok(i + Len(Tail(e)), list)
  BY DEF FoundWithin
<1>0. ListOf(v, e, list)
  BY ListIs
<1>1. v = <<"List", list>>
  BY <1>0 DEF ListOf
<1>2. CASE list = <<>> /\ Tail(e) = <<"e">>
  <2>1. v \notin NoneEmpty
    BY <1>2, NoneEmptyAssumption
  <2>2. Len(<<"e">>) = 1
    OBVIOUS
  <2>3. Occurs(s, i, <<"e">>)
    BY <1>2
  <2>4. nom(s)[<<i, "list">>] = Ok(i + 1, <<>>)
    BY <2>3, EndFound
  <2> QED
    BY <1>2, <2>1, <2>2, <2>4
<1>3. ASSUME NEW h \in DOMAIN Encoding, NEW w \in DOMAIN Encoding,
             list = <<h>> \o Tail(list), list # <<>>, h = list[1],
             w = <<"List", Tail(list)>>,
             Tail(e) = Encoding[h] \o Tail(Encoding[w]),
             Len(e) = Len(Encoding[h]) + Len(Encoding[w])
      PROVE  /\ nom(s)[<<i, "list">>] = Ok(i + Len(Tail(e)), list)
             /\ v \in NoneEmpty => plain(s)[<<i, "list">>] = Ok(i + Len(Tail(e)), list)
  <2> DEFINE a == Encoding[h]
             b == Tail(Encoding[w])
             j == i + Len(a)
             k == j + Len(b)
             rest == Tail(list)
  <2>1. /\ a \in Inputs /\ Len(a) \in Nat \ {0}
        /\ b \in Inputs /\ Len(Encoding[w]) \in Nat \ {0}
    BY EncodingIs
  <2>2. Len(Encoding[h]) < Len(Encoding[v]) /\ Len(Encoding[w]) < Len(Encoding[v])
    BY <1>3, <2>1
  <2>3. Found(h) /\ FoundWithin(w, "list") /\ w[1] = "List" /\ w[2] = rest
    BY <1>3, <2>2
  <2>4. /\ i \in 1..(Len(s) + 1) /\ j \in Nat \ {0} /\ j \in 1..(Len(s) + 1)
        /\ Occurs(s, i, a) /\ Occurs(s, j, b) /\ k = i + Len(Tail(e))
    <3> HIDE DEF a, b
    <3>1. Occurs(s, i, a \o b) /\ Tail(e) = a \o b
      BY <1>3 DEF a, b
    <3> HIDE DEF e
    <3>2. /\ i \in 1..(Len(s) + 1) /\ i + Len(a) \in Nat \ {0} /\ i + Len(a) \in 1..(Len(s) + 1)
          /\ Occurs(s, i, a) /\ Occurs(s, i + Len(a), b)
          /\ i + Len(a) + Len(b) = i + Len(a \o b)
      BY <2>1, <3>1, OccursBehind
    <3> QED
      BY ONLY <3>1, <3>2, Zenon DEF j, k
  <2>5. nom(s)[<<i, "value">>] = Ok(j, h) /\ (h \in NoneEmpty => plain(s)[<<i, "value">>] = Ok(j, h))
    BY <2>3, <2>4 DEF Found
  <2>6. /\ nom(s)[<<j, "list">>] = Ok(k, rest)
        /\ w \in NoneEmpty => plain(s)[<<j, "list">>] = Ok(k, rest)
    <3> HIDE DEF j, rest
    <3> QED
      BY <2>3, <2>4 DEF FoundWithin
  <2>7. list = <<h>> \o rest
    BY <1>3
  <2> HIDE DEF a, j, k, rest
  <2>8. nom(s)[<<i, "list">>] = Ok(k, list)
    <3>1. nom(s)[<<i, "list">>] = Ok(k, <<h>> \o rest)
      BY <2>4, <2>5, <2>6, NomListReads
    <3> QED
      BY ONLY <2>7, <3>1, Zenon
  <2>9. ASSUME v \in NoneEmpty PROVE plain(s)[<<i, "list">>] = Ok(k, list)
    <3>1. h \in NoneEmpty /\ (rest # <<>> => w \in NoneEmpty)
      BY <1>1, <1>3, <2>9, NoneEmptyAssumption DEF rest
    <3>2. plain(s)[<<i, "value">>] = Ok(j, h)
      BY <2>5, <3>1
    <3>3. CASE rest # <<>>
      <4>1. plain(s)[<<j, "list">>] = Ok(k, rest)
        BY <2>6, <3>1, <3>3
      <4>2. plain(s)[<<i, "list">>] = Ok(k, <<h>> \o rest)
        BY ONLY s \in Inputs, <2>4, <3>2, <4>1, PlainListGoes
      <4> QED
        BY ONLY <2>7, <4>2, Zenon
    <3>4. CASE rest = <<>>
      <4>0. ListOf(w, Encoding[w], w[2])
        BY <2>3, ListIs
      <4>1. b = <<"e">>
        BY <2>3, <3>4, <4>0 DEF ListOf
      <4>2. Occurs(s, j, <<"e">>)
        BY <2>4, <4>1
      <4>3. At(s, j, "e")
        BY <2>4, <4>2, EndFound
      <4>4. plain(s)[<<i, "list">>] = Ok(j + 1, <<h>>)
        BY ONLY s \in Inputs, <2>4, <3>2, <4>3, PlainListEnds
      <4>5. Len(b) = 1
        <5>1. Len(<<"e">>) = 1
          OBVIOUS
        <5> QED
          BY ONLY <4>1, <5>1, Zenon
      <4>6. k = j + 1
        BY <4>5 DEF k
      <4>7. list = <<h>>
        BY <2>7, <3>4
      <4> QED
        BY ONLY <4>4, <4>6, <4>7, Zenon
    <3> QED
      BY <3>3, <3>4
  <2> QED
    BY <2>4, <2>8, <2>9
<1> QED
  <2> HIDE DEF e, list
  <2> QED
    BY ONLY <1>0, <1>2, <1>3, Zenon DEF ListOf

\* A pair put back into the dictionary that it was taken from.
LEMMA UnderWithout ==
  ASSUME NEW map, map = [l \in DOMAIN map |-> map[l]], NEW k \in DOMAIN map
  PROVE  Under(Without(map, k), k, map[k]) = map
<1> DEFINE D == DOMAIN map
           w == Without(map, k)
           u == Under(w, k, map[k])
<1>1. w = [l \in D \ {k} |-> map[l]]
  BY DEF Without
<1>2. DOMAIN w = D \ {k} /\ \A l \in D \ {k} : w[l] = map[l]
  BY <1>1
<1> HIDE DEF w
<1>3. u = [l \in DOMAIN w \cup {k} |-> IF l \in DOMAIN w THEN w[l] ELSE map[k]]
  BY DEF Under
<1>4. DOMAIN w \cup {k} = D
  BY <1>2
<1>5. u = [l \in D |-> IF l \in DOMAIN w THEN w[l] ELSE map[k]]
  BY <1>3, <1>4
<1>6. \A l \in D : (IF l \in DOMAIN w THEN w[l] ELSE map[k]) = map[l]
  BY <1>2
<1>7. u = [l \in D |-> map[l]]
  BY <1>5, <1>6
<1> QED
  BY <1>7 DEF w

\* The key and the value a dictionary begins with and the dictionary of the other pairs.
LEMMA MapFound ==
  ASSUME NEW v \in DOMAIN Encoding, v[1] = "Map",
         \A w \in DOMAIN Encoding : Len(Encoding[w]) < Len(Encoding[v]) =>
            Found(w) /\ (w[1] = "Map" => FoundWithin(w, "dict"))
  PROVE  FoundWithin(v, "dict")
<1> DEFINE e == Encoding[v]
           map == v[2]
<1> SUFFICES ASSUME NEW s \in Inputs, NEW i \in Nat \ {0}, Occurs(s, i, Tail(e))
             PROVE  /\ nom(s)[<<i, "dict">>] = Ok(i + Len(Tail(e)), map)
                    /\ v \in NoneEmpty => plain(s)[<<i, "dict">>] = Ok(i + Len(Tail(e)), map)
  BY DEF FoundWithin
<1>0. MapOf(v, e, map)
  BY MapIs
<1>1. v = <<"Map", map>>
  BY <1>0 DEF MapOf
<1>2. CASE map = <<>> /\ Tail(e) = <<"e">>
  <2>1. v \notin NoneEmpty
    BY <1>2, NoneEmptyAssumption
  <2>2. Len(<<"e">>) = 1
    OBVIOUS
  <2>3. Occurs(s, i, <<"e">>)
    BY <1>2
  <2>4. nom(s)[<<i, "dict">>] = Ok(i + 1, <<>>)
    BY <2>3, EndFound
  <2> QED
    BY <1>2, <2>1, <2>2, <2>4
<1>3. ASSUME NEW key \in DOMAIN map, NEW q \in Inputs, NEW w \in DOMAIN Encoding,
             map = [l \in DOMAIN map |-> map[l]], map[key] \in DOMAIN Encoding,
             IsString(q, key),
             w = <<"Map", Without(map, key)>>,
             Tail(e) = (q \o Encoding[map[key]]) \o Tail(Encoding[w]),
             Len(e) = Len(q) + Len(Encoding[map[key]]) + Len(Encoding[w])
      PROVE  /\ nom(s)[<<i, "dict">>] = Ok(i + Len(Tail(e)), map)
             /\ v \in NoneEmpty => plain(s)[<<i, "dict">>] = Ok(i + Len(Tail(e)), map)
  <2> DEFINE h == map[key]
             a == Encoding[h]
             b == Tail(Encoding[w])
             j == i + Len(q)
             k == j + Len(a)
             m == k + Len(b)
             rest == Without(map, key)
  <2>1. /\ a \in Inputs /\ Len(a) \in Nat \ {0}
        /\ b \in Inputs /\ Len(Encoding[w]) \in Nat \ {0}
    BY <1>3, EncodingIs
  <2>2. /\ i \in 1..(Len(s) + 1) /\ j \in Nat \ {0} /\ j \in 1..(Len(s) + 1)
        /\ k \in Nat \ {0} /\ k \in 1..(Len(s) + 1)
        /\ Occurs(s, i, q) /\ Occurs(s, j, a) /\ Occurs(s, k, b) /\ m = i + Len(Tail(e))
    <3> DEFINE c == q \o a
    <3> HIDE DEF a, b
    <3>1. c \in Inputs
      BY <2>1, ConcatProperties DEF Inputs
    <3>2. Tail(e) = c \o b
      BY <1>3 DEF a, b
    <3>3. Occurs(s, i, c \o b)
      BY ONLY <3>2, Occurs(s, i, Tail(e)), Zenon
    <3> HIDE DEF c, e
    <3>4. /\ Occurs(s, i, c) /\ i + Len(c) \in Nat \ {0} /\ i + Len(c) \in 1..(Len(s) + 1)
          /\ Occurs(s, i + Len(c), b) /\ i + Len(c) + Len(b) = i + Len(c \o b)
      BY <2>1, <3>1, <3>3, OccursBehind
    <3>5. Occurs(s, i, q \o a)
      BY <3>4 DEF c
    <3>6. /\ i \in 1..(Len(s) + 1) /\ i + Len(q) \in Nat \ {0} /\ i + Len(q) \in 1..(Len(s) + 1)
          /\ Occurs(s, i, q) /\ Occurs(s, i + Len(q), a)
          /\ i + Len(q) + Len(a) = i + Len(q \o a)
      BY <2>1, <3>5, OccursBehind
    <3>7. k = i + Len(c)
      BY ONLY <3>6, Zenon DEF c, j, k
    <3>8. m = i + Len(Tail(e))
      BY ONLY <3>2, <3>4, <3>7, Zenon DEF m
    <3> QED
      BY ONLY <3>4, <3>6, <3>7, <3>8, Zenon DEF j
  <2>3. Len(a) < Len(Encoding[v]) /\ Len(Encoding[w]) < Len(Encoding[v])
    <3>1. Len(q) \in Nat \ {0}
      BY <1>3, <2>2, StringReads
    <3> QED
      BY <1>3, <2>1, <3>1
  <2>4. Found(h) /\ FoundWithin(w, "dict") /\ w[1] = "Map" /\ w[2] = rest
    BY <1>3, <2>3
  <2>5. /\ plain_string(s, i) = Ok(j, <<"String", key>>)
        /\ nom_string(s, i) = Ok(j, <<"String", key>>)
        /\ plain(s)[<<i, "value">>] = Ok(j, <<"String", key>>)
    <3>1. /\ i \in 1..Len(s) /\ IsDigit(s[i])
          /\ plain_string(s, i) = Ok(j, <<"String", key>>)
          /\ nom_string(s, i) = Ok(j, <<"String", key>>)
      BY <1>3, <2>2, StringReads
    <3>2. ~(i > Len(s))
      <4>1. Len(s) \in Nat
        BY DEF Inputs
      <4> QED
        BY <3>1, <4>1
    <3>3. plain_value(s, plain(s), i) = plain_string(s, i)
      BY <3>1, <3>2, PlainValueIs
    <3>4. plain(s)[<<i, "value">>] = plain_value(s, plain(s), i)
      BY <2>2, DecodersStep
    <3> QED
      BY <3>1, <3>3, <3>4
  <2>6. nom(s)[<<j, "value">>] = Ok(k, h) /\ (h \in NoneEmpty => plain(s)[<<j, "value">>] = Ok(k, h))
    <3> HIDE DEF h, j
    <3> QED
      BY <2>2, <2>4 DEF Found
  <2>7. /\ nom(s)[<<k, "dict">>] = Ok(m, rest)
        /\ w \in NoneEmpty => plain(s)[<<k, "dict">>] = Ok(m, rest)
    <3> HIDE DEF k, rest
    <3> QED
      BY <2>2, <2>4 DEF FoundWithin
  <2>8. Under(rest, key, h) = map
    BY <1>3, UnderWithout
  <2> HIDE DEF a, h, j, k, m, rest
  <2>9. nom(s)[<<i, "dict">>] = Ok(m, map)
    <3>1. nom(s)[<<i, "dict">>] = Ok(m, Under(rest, key, h))
      BY ONLY s \in Inputs, <2>2, <2>5, <2>6, <2>7, NomDictReads
    <3> QED
      BY ONLY <2>8, <3>1, Zenon
  <2>10. ASSUME v \in NoneEmpty PROVE plain(s)[<<i, "dict">>] = Ok(m, map)
    <3>1. h \in NoneEmpty /\ (rest # <<>> => w \in NoneEmpty)
      BY <1>1, <1>3, <2>10, NoneEmptyAssumption DEF rest, h
    <3>2. PairRead(plain(s), i, j, key, k, h)
      BY <2>5, <2>6, <3>1 DEF PairRead
    <3>3. CASE rest # <<>>
      <4>1. plain(s)[<<k, "dict">>] = Ok(m, rest)
        BY <2>7, <3>1, <3>3
      <4>2. plain(s)[<<i, "dict">>] = Ok(m, Under(rest, key, h))
        BY ONLY s \in Inputs, <2>2, <3>2, <4>1, PlainDictGoes
      <4> QED
        BY ONLY <2>8, <4>2, Zenon
    <3>4. CASE rest = <<>>
      <4>0. MapOf(w, Encoding[w], w[2])
        BY <2>4, MapIs
      <4>1. b = <<"e">>
        BY <2>4, <3>4, <4>0 DEF MapOf
      <4>2. Occurs(s, k, <<"e">>)
        BY <2>2, <4>1
      <4>3. At(s, k, "e")
        BY <2>2, <4>2, EndFound
      <4>4. plain(s)[<<i, "dict">>] = Ok(k + 1, Under(<<>>, key, h))
        BY ONLY s \in Inputs, <2>2, <3>2, <4>3, PlainDictEnds
      <4>5. Len(b) = 1
        <5>1. Len(<<"e">>) = 1
          OBVIOUS
        <5> QED
          BY ONLY <4>1, <5>1, Zenon
      <4>6. m = k + 1
        BY <4>5 DEF m
      <4> QED
        BY ONLY <2>8, <3>4, <4>4, <4>6, Zenon
    <3> QED
      BY <3>3, <3>4
  <2> QED
    BY <2>2, <2>9, <2>10
<1> QED
  <2> HIDE DEF e, map
  <2> QED
    BY ONLY <1>0, <1>2, <1>3, Zenon DEF MapOf

AllFound(v) ==
    /\ Found(v)
    /\ v[1] = "List" => FoundWithin(v, "list")
    /\ v[1] = "Map" => FoundWithin(v, "dict")

\* Every value is found, those with the shorter encodings first.
LEMMA ValuesFound ==
  ASSUME NEW v \in DOMAIN Encoding
  PROVE  AllFound(v)
<1> DEFINE B == {n \in Nat : \E w \in DOMAIN Encoding : Len(Encoding[w]) = n /\ ~AllFound(w)}
<1>1. SUFFICES ASSUME B # {} PROVE FALSE
  BY EncodingIs
<1>2. PICK n \in B : \A k \in Nat : k < n => k \notin B
  <2>1. B \in SUBSET Nat
    OBVIOUS
  <2> HIDE DEF B
  <2> QED
    BY <1>1, <2>1, Least
<1>3. PICK w \in DOMAIN Encoding : Len(Encoding[w]) = n /\ ~AllFound(w)
  BY <1>2
<1>4. \A u \in DOMAIN Encoding : Len(Encoding[u]) < Len(Encoding[w]) => AllFound(u)
  <2> TAKE u \in DOMAIN Encoding
  <2>1. Len(Encoding[u]) \in Nat
    BY EncodingIs
  <2> QED
    BY <1>2, <1>3, <2>1
<1> HIDE DEF B
<1>5. \A u \in DOMAIN Encoding : Len(Encoding[u]) < Len(Encoding[w]) =>
         /\ Found(u)
         /\ u[1] = "List" => FoundWithin(u, "list")
         /\ u[1] = "Map" => FoundWithin(u, "dict")
  BY ONLY <1>4 DEF AllFound
<1>6. w[1] \in {"Int", "String", "List", "Map"}
  BY EncodingAssumption
<1>7. CASE w[1] \in {"Int", "String"}
  <2>1. Found(w)
    BY <1>7, ScalarFound
  <2> QED
    BY <1>3, <1>7, <2>1 DEF AllFound
<1>8. CASE w[1] = "List"
  <2>1. ListOf(w, Encoding[w], w[2])
    BY <1>8, ListIs
  <2>2. FoundWithin(w, "list")
    BY <1>5, <1>8, ListFound
  <2>3. Found(w)
    BY <2>1, <2>2, ContainerFound DEF ListOf
  <2> QED
    BY <1>3, <1>8, <2>2, <2>3 DEF AllFound
<1>9. CASE w[1] = "Map"
  <2>1. MapOf(w, Encoding[w], w[2])
    BY <1>9, MapIs
  <2>2. FoundWithin(w, "dict")
    BY <1>5, <1>9, MapFound
  <2>3. Found(w)
    BY <2>1, <2>2, ContainerFound DEF MapOf
  <2> QED
    BY <1>3, <1>9, <2>2, <2>3 DEF AllFound
<1> QED
  BY <1>6, <1>7, <1>8, <1>9

\* An encoded value at the beginning of an input is decoded to itself, and the rest of
\* the input begins behind it, by the nom decoder whatever the value and by the plain
\* one unless it holds an empty list or dictionary (plain.rs:11-66, nom.rs:18-60).
THEOREM EncodedDecoded ==
  ASSUME NEW v \in DOMAIN Encoding, NEW s \in Inputs, Begins(Encoding[v], s)
  PROVE  /\ nom_decode(s) = Ok(Len(Encoding[v]) + 1, v)
         /\ v \in NoneEmpty => plain_decode(s) = nom_decode(s)
<1>1. Len(Encoding[v]) \in Nat /\ Len(s) \in Nat /\ 1 \in Nat \ {0}
  BY EncodingIs DEF Inputs
<1>2. Occurs(s, 1, Encoding[v])
  <2>1. \A k \in 1..Len(Encoding[v]) : 1 + k - 1 = k
    BY <1>1
  <2> QED
    BY <1>1, <2>1 DEF Begins, Occurs
<1>3. Found(v)
  BY ValuesFound DEF AllFound
<1>4. /\ nom(s)[<<1, "value">>] = Ok(1 + Len(Encoding[v]), v)
      /\ v \in NoneEmpty => plain(s)[<<1, "value">>] = Ok(1 + Len(Encoding[v]), v)
  BY <1>1, <1>2, <1>3 DEF Found
<1>5. 1 + Len(Encoding[v]) = Len(Encoding[v]) + 1
  BY <1>1
<1> QED
  BY <1>4, <1>5 DEF nom_decode, plain_decode

\* The input begins with the value's encoding, whatever was typed behind it.
ValueInv ==
    /\ input \in Inputs
    /\ value \in DOMAIN Encoding \cup {NoValue}
    /\ value # NoValue => Begins(Encoding[value], input)

LEMMA ValueIs == Spec => []ValueInv
<1>1. ASSUME Init PROVE ValueInv
  <2>1. CASE value = NoValue
    BY <1>1, <2>1 DEF Init, ValueInv, Inputs
  <2>2. CASE value # NoValue
    <3>1. value \in DOMAIN Encoding /\ input = Encoding[value] /\ input \in Inputs
      BY <1>1, <2>2, TextAssumption DEF Init
    <3>2. Begins(input, input)
      BY <3>1 DEF Begins, Inputs
    <3> QED
      BY <3>1, <3>2 DEF ValueInv
  <2> QED
    BY <2>1, <2>2
<1>2. ValueInv /\ [Next]_vars => ValueInv'
  <2> SUFFICES ASSUME ValueInv, [Next]_vars PROVE ValueInv'
    OBVIOUS
  <2>1. CASE Next
    <3>1. PICK t \in Tokens : input' = input \o t
      BY <2>1 DEF Next, Type
    <3>2. t \in Inputs /\ input \in Inputs /\ value' = value
      BY <2>1, TextAssumption DEF ValueInv, Next, Type
    <3>3. input' \in Inputs /\ Begins(input, input')
      BY <3>1, <3>2, ConcatBegins
    <3>4. ASSUME value # NoValue PROVE Begins(Encoding[value], input')
      <4>1. Begins(Encoding[value], input) /\ value \in DOMAIN Encoding
        BY <3>4 DEF ValueInv
      <4>2. Len(Encoding[value]) \in Nat
        BY <4>1, EncodingIs
      <4>3. Len(input) \in Nat /\ Len(input') \in Nat
        BY <3>2, <3>3 DEF Inputs
      <4> QED
        BY <3>3, <4>1, <4>2, <4>3 DEF Begins
    <3> QED
      BY <3>2, <3>3, <3>4 DEF ValueInv
  <2>2. CASE UNCHANGED vars
    BY <2>2 DEF vars, ValueInv
  <2> QED
    BY <2>1, <2>2
<1> QED
  BY <1>1, <1>2, PTL DEF Spec

\* No value is decoded to another one, and none takes from what follows it
\* (plain.rs:30-63, nom.rs:36-60).
THEOREM ValuesAlwaysDecoded == Spec => []ValuesDecoded
<1>1. ValueInv => ValuesDecoded
  BY EncodedDecoded DEF ValueInv, ValuesDecoded
<1> QED
  BY <1>1, ValueIs, PTL
=============================================================================
