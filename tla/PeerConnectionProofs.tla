------------------------ MODULE PeerConnectionProofs ------------------------
(***************************************************************************)
(* A connection for any peers: the codecs give back what was encoded, for  *)
(* every message and whatever follows it; and however the bytes are cut,   *)
(* what the task reads is what was sent.                                   *)
(***************************************************************************)
EXTENDS PeerConnection, FiniteSetTheorems, SequenceTheorems, TLAPS

Bytes == Seq(Byte)

-----------------------------------------------------------------------------
(* Sequences of bytes. *)

\* What follows a sequence.
LEMMA FromBehind ==
  ASSUME NEW a \in Bytes, NEW t \in Bytes, NEW n \in Nat, n = Len(a) + 1
  PROVE  From(a \o t, n) = t
<1> DEFINE s == a \o t
           u == SubSeq(s, n, Len(s))
<1>1. /\ s \in Bytes /\ Len(s) = Len(a) + Len(t)
      /\ \A i \in 1..(Len(a) + Len(t)) : s[i] = IF i <= Len(a) THEN a[i] ELSE t[i - Len(a)]
  BY ConcatProperties DEF Bytes
<1>2. Len(a) \in Nat /\ Len(t) \in Nat
  BY DEF Bytes
<1> HIDE DEF s
<1>3. \A i \in n..Len(s) : s[i] \in Byte
  BY <1>1, <1>2 DEF Bytes
<1>4. /\ u \in Bytes /\ Len(u) = IF n <= Len(s) THEN Len(s) - n + 1 ELSE 0
      /\ \A i \in 1..(Len(s) - n + 1) : u[i] = s[n + i - 1]
  BY <1>1, <1>2, <1>3, SubSeqProperties DEF Bytes
<1> HIDE DEF u
<1>5. Len(u) = Len(t)
  BY <1>1, <1>2, <1>4
<1>6. ASSUME NEW i \in 1..Len(t) PROVE u[i] = t[i]
  <2> DEFINE j == n + i - 1
  <2>1. u[i] = s[j] /\ j \in 1..(Len(a) + Len(t)) /\ ~(j <= Len(a)) /\ j - Len(a) = i
    BY <1>1, <1>2, <1>4
  <2> HIDE DEF j
  <2>2. s[j] = IF j <= Len(a) THEN a[j] ELSE t[j - Len(a)]
    BY ONLY <1>1, <2>1
  <2> QED
    BY ONLY <2>1, <2>2
<1>7. u = t
  BY <1>4, <1>5, <1>6, SeqEqual DEF Bytes
<1> QED
  BY <1>7 DEF s, u, From

\* What comes first.
LEMMA FirstPart ==
  ASSUME NEW a \in Bytes, NEW t \in Bytes, NEW n \in Nat, n = Len(a)
  PROVE  SubSeq(a \o t, 1, n) = a
<1> DEFINE s == a \o t
           u == SubSeq(s, 1, n)
<1>1. /\ s \in Bytes /\ Len(s) = Len(a) + Len(t)
      /\ \A i \in 1..(Len(a) + Len(t)) : s[i] = IF i <= Len(a) THEN a[i] ELSE t[i - Len(a)]
  BY ConcatProperties DEF Bytes
<1>2. Len(a) \in Nat /\ Len(t) \in Nat
  BY DEF Bytes
<1> HIDE DEF s
<1>3. \A i \in 1..n : s[i] \in Byte
  BY <1>1, <1>2 DEF Bytes
<1>4. /\ u \in Bytes /\ Len(u) = IF 1 <= n THEN n - 1 + 1 ELSE 0
      /\ \A i \in 1..(n - 1 + 1) : u[i] = s[1 + i - 1]
  BY <1>2, <1>3, SubSeqProperties DEF Bytes
<1> HIDE DEF u
<1>5. Len(u) = Len(a)
  BY <1>2, <1>4
<1>6. ASSUME NEW i \in 1..Len(a) PROVE u[i] = a[i]
  <2>1. u[i] = s[1 + i - 1] /\ 1 + i - 1 = i /\ i \in 1..(Len(a) + Len(t)) /\ i <= Len(a)
    BY <1>2, <1>4
  <2> QED
    BY <1>1, <2>1
<1>7. u = a
  BY <1>4, <1>5, <1>6, SeqEqual DEF Bytes
<1> QED
  BY <1>7 DEF s, u

LEMMA ConcatBytes ==
  ASSUME NEW a \in Bytes, NEW t \in Bytes
  PROVE  /\ a \o t \in Bytes /\ Len(a \o t) = Len(a) + Len(t)
         /\ Len(a) \in Nat /\ Len(t) \in Nat
         /\ \A i \in 1..Len(a) : (a \o t)[i] = a[i]
<1>1. /\ a \o t \in Bytes /\ Len(a \o t) = Len(a) + Len(t)
      /\ \A i \in 1..(Len(a) + Len(t)) : (a \o t)[i] = IF i <= Len(a) THEN a[i] ELSE t[i - Len(a)]
  BY ConcatProperties DEF Bytes
<1>2. Len(a) \in Nat /\ Len(t) \in Nat
  BY DEF Bytes
<1> QED
  BY <1>1, <1>2

LEMMA Joined ==
  ASSUME NEW a \in Bytes, NEW t \in Bytes
  PROVE  a \o t \in Bytes /\ Len(a \o t) = Len(a) + Len(t)
  BY ConcatBytes

LEMMA FirstBehind ==
  ASSUME NEW a \in Bytes, NEW t \in Bytes, Len(t) >= 1, NEW n \in Nat, n = Len(a) + 1
  PROVE  (a \o t)[n] = t[1]
<1>1. /\ Len(a) \in Nat /\ Len(t) \in Nat
      /\ \A i \in 1..(Len(a) + Len(t)) : (a \o t)[i] = IF i <= Len(a) THEN a[i] ELSE t[i - Len(a)]
  BY ConcatProperties, ConcatBytes DEF Bytes
<1> QED
  BY <1>1

LEMMA KeptAt ==
  ASSUME NEW a \in Bytes, NEW t \in Bytes, NEW i \in 1..Len(a)
  PROVE  (a \o t)[i] = a[i]
  BY ConcatBytes

\* Three sequences, joined from the left or from the right.
Regroups(a, b, c) == (a \o b) \o c = a \o (b \o c)

LEMMA JoinedThrice ==
  ASSUME NEW a \in Bytes, NEW b \in Bytes, NEW c \in Bytes
  PROVE  Regroups(a, b, c)
<1>1. (a \o b) \o c = a \o (b \o c)
  BY ConcatAssociative DEF Bytes
<1> QED
  BY ONLY <1>1, Zenon DEF Regroups

\* Two ways to cut the same bytes: a shorter cut is a part of the longer.
CutTwice(a, t, b, u) == a \o t = b \o u /\ Len(a) <= Len(b)
PartOf(a, t, b, u, r) == b = a \o r /\ t = r \o u

LEMMA CutLonger ==
  ASSUME NEW a \in Bytes, NEW t \in Bytes, NEW b \in Bytes, NEW u \in Bytes,
         CutTwice(a, t, b, u)
  PROVE  \E r \in Bytes : PartOf(a, t, b, u, r)
<1>0. a \o t = b \o u /\ Len(a) <= Len(b)
  BY DEF CutTwice
<1> DEFINE r == SubSeq(b, Len(a) + 1, Len(b))
<1>1. Len(a) \in Nat /\ Len(b) \in Nat /\ \A i \in 1..Len(b) : b[i] \in Byte
  BY DEF Bytes
<1>2. /\ r \in Bytes /\ Len(r) = Len(b) - Len(a)
      /\ \A i \in 1..(Len(b) - (Len(a) + 1) + 1) : r[i] = b[(Len(a) + 1) + i - 1]
  BY <1>0, <1>1, SubSeqProperties DEF Bytes
<1> HIDE DEF r
<1>3. \A i \in 1..Len(a) : a[i] = b[i]
  <2>1. \A i \in 1..Len(a) : (a \o t)[i] = a[i]
    BY ConcatBytes
  <2>2. \A i \in 1..Len(b) : (b \o u)[i] = b[i]
    BY ConcatBytes
  <2> QED
    BY <1>0, <1>1, <2>1, <2>2
<1>4. b = a \o r
  <2>1. /\ a \o r \in Bytes /\ Len(a \o r) = Len(a) + Len(r)
        /\ \A i \in 1..(Len(a) + Len(r)) :
              (a \o r)[i] = IF i <= Len(a) THEN a[i] ELSE r[i - Len(a)]
    BY <1>2, ConcatProperties DEF Bytes
  <2>2. ASSUME NEW i \in 1..Len(b) PROVE b[i] = (a \o r)[i]
    <3>1. CASE i <= Len(a)
      BY <1>1, <1>2, <1>3, <2>1, <3>1
    <3>2. CASE ~(i <= Len(a))
      <4>1. i - Len(a) \in 1..(Len(b) - (Len(a) + 1) + 1) /\ (Len(a) + 1) + (i - Len(a)) - 1 = i
            /\ i \in 1..(Len(a) + Len(r))
        BY <1>1, <1>2, <3>2
      <4> QED
        BY <1>2, <2>1, <3>2, <4>1
    <3> QED
      BY <3>1, <3>2
  <2>3. Len(b) = Len(a \o r)
    BY <1>1, <1>2, <2>1
  <2> QED
    BY <2>1, <2>2, <2>3, SeqEqual DEF Bytes
<1>5. a \o t = a \o (r \o u)
  <2>1. r \in Bytes
    BY ONLY <1>2
  <2>2. Regroups(a, r, u)
    BY <2>1, JoinedThrice
  <2> QED
    BY ONLY <1>0, <1>4, <2>2, Zenon DEF Regroups
<1>6. t = r \o u
  <2>1. r \o u \in Bytes
    BY <1>2, Joined
  <2>2. t \in Seq(Byte) /\ a \in Seq(Byte) /\ r \o u \in Seq(Byte)
    BY ONLY <2>1, t \in Bytes, a \in Bytes DEF Bytes
  <2> QED
    BY ONLY <1>5, <2>2, ConcatSimplifications
<1> QED
  BY <1>2, <1>4, <1>6 DEF PartOf

-----------------------------------------------------------------------------
(* Numbers. *)

LEMMA PutBytes ==
  ASSUME NEW n \in U32
  PROVE  /\ put_u32(n) \in Bytes /\ Len(put_u32(n)) = 4
         /\ get_u32(put_u32(n)) = n
<1>1. n \in Nat /\ n \div 16777216 \in 0..255
  BY SMT DEF U32, Byte
<1> DEFINE a == n \div 256
           b == n \div 65536
           c == n \div 16777216
<1>2. n = 256 * a + (n % 256) /\ n % 256 \in 0..255 /\ a \in Nat
  BY <1>1, SMT
<1>3. a = 256 * b + (a % 256) /\ a % 256 \in 0..255 /\ b \in Nat
  BY <1>1, SMT
<1>4. b = 256 * c + (b % 256) /\ b % 256 \in 0..255 /\ c \in 0..255
  BY <1>1, SMT
<1> DEFINE s == <<c, b % 256, a % 256, n % 256>>
<1>5. put_u32(n) = s
  BY SMT DEF put_u32
<1>6. s \in Seq(0..255) /\ Len(s) = 4
  BY <1>2, <1>3, <1>4, SMT
<1>7. get_u32(s) = 256 * (256 * (256 * c + (b % 256)) + (a % 256)) + (n % 256)
  BY SMT DEF get_u32
<1> HIDE DEF a, b, c, s
<1>8. get_u32(s) = n
  BY <1>1, <1>2, <1>3, <1>4, <1>7
<1> QED
  BY <1>5, <1>6, <1>8 DEF Bytes, Byte

\* A number is read from the first four bytes.
LEMMA GetFirst ==
  ASSUME NEW s \in Bytes, NEW t \in Bytes, Len(s) >= 4
  PROVE  get_u32(s \o t) = get_u32(s)
<1>1. Len(s) \in Nat /\ \A i \in 1..Len(s) : (s \o t)[i] = s[i]
  BY ConcatBytes
<1>2. (s \o t)[1] = s[1] /\ (s \o t)[2] = s[2] /\ (s \o t)[3] = s[3] /\ (s \o t)[4] = s[4]
  BY <1>1
<1> QED
  BY <1>2 DEF get_u32

LEMMA GetPut ==
  ASSUME NEW n \in U32, NEW t \in Bytes
  PROVE  get_u32(put_u32(n) \o t) = n
<1>1. put_u32(n) \in Bytes /\ Len(put_u32(n)) >= 4 /\ get_u32(put_u32(n)) = n
  BY PutBytes
<1> QED
  BY <1>1, GetFirst

LEMMA BehindPut ==
  ASSUME NEW n \in U32, NEW t \in Bytes
  PROVE  /\ put_u32(n) \o t \in Bytes /\ Len(put_u32(n) \o t) = 4 + Len(t)
         /\ From(put_u32(n) \o t, 5) = t
<1> DEFINE p == put_u32(n)
<1>1. p \in Bytes /\ Len(p) = 4
  BY PutBytes
<1> HIDE DEF p
<1>2. 5 \in Nat /\ 5 = Len(p) + 1
  BY ONLY <1>1
<1>3. From(p \o t, 5) = t
  BY <1>1, <1>2, FromBehind
<1>4. p \o t \in Bytes /\ Len(p \o t) = Len(p) + Len(t)
  BY <1>1, Joined
<1>5. p \o t \in Bytes /\ Len(p \o t) = 4 + Len(t)
  BY ONLY <1>1, <1>4
<1> QED
  BY <1>3, <1>5 DEF p

-----------------------------------------------------------------------------
(* The types and their bytes. *)

Plain == {"Choke", "Unchoke", "Interested", "NotInterested"}
Types == Plain \cup {"Have", "Bitfield", "Request", "Piece", "Cancel"}

\* The byte of a type is its number, from which try_from makes the type again.
LEMMA TypesHaveBytes ==
  ASSUME NEW type \in Types
  PROVE  /\ TypeByte(type) \in Byte
         /\ KnownType(TypeByte(type))
         /\ MessageTypes[TypeByte(type) + 1] = type
<1> DEFINE Is(i) == i \in DOMAIN MessageTypes /\ MessageTypes[i] = type
           n == CHOOSE i \in DOMAIN MessageTypes : MessageTypes[i] = type
<1>1. /\ DOMAIN MessageTypes = 1..9
      /\ MessageTypes[1] = "Choke" /\ MessageTypes[2] = "Unchoke"
      /\ MessageTypes[3] = "Interested" /\ MessageTypes[4] = "NotInterested"
      /\ MessageTypes[5] = "Have" /\ MessageTypes[6] = "Bitfield"
      /\ MessageTypes[7] = "Request" /\ MessageTypes[8] = "Piece"
      /\ MessageTypes[9] = "Cancel"
  BY DEF MessageTypes
<1>2. \E i \in DOMAIN MessageTypes : MessageTypes[i] = type
  BY <1>1 DEF Types, Plain
<1>3. n \in DOMAIN MessageTypes /\ MessageTypes[n] = type
  BY <1>2
<1>4. TypeByte(type) = n - 1
  BY DEF TypeByte
<1> HIDE DEF n
<1>5. n \in 1..9
  BY <1>1, <1>3
<1>6. n - 1 \in 0..255 /\ (n - 1) + 1 = n
  BY <1>5
<1> QED
  BY <1>1, <1>3, <1>4, <1>6 DEF KnownType, Byte

\* Messages of each shape.
LEMMA MessageIs ==
  ASSUME NEW m \in Message
  PROVE  /\ encoded_len(m) \in U32
         /\ \/ m = KeepAlive
            \/ m.type \in Plain /\ m = [type |-> m.type]
            \/ m.type = "Have" /\ m.piece_index \in U32
                  /\ m = [type |-> m.type, piece_index |-> m.piece_index]
            \/ m.type = "Bitfield" /\ m.bytes \in Bytes
                  /\ m = [type |-> m.type, bytes |-> m.bytes]
            \/ m.type \in {"Request", "Cancel"}
                  /\ m.index \in U32 /\ m.begin \in U32 /\ m.length \in U32
                  /\ m = [type |-> m.type, index |-> m.index, begin |-> m.begin,
                          length |-> m.length]
            \/ m.type = "Piece" /\ m.index \in U32 /\ m.begin \in U32 /\ m.block \in Bytes
                  /\ m = [type |-> m.type, index |-> m.index, begin |-> m.begin,
                          block |-> m.block]
<1>1. encoded_len(m) \in U32
  BY DEF Message
<1>2. CASE m \in [type : {"KeepAlive", "Choke", "Unchoke", "Interested", "NotInterested"}]
  BY <1>1, <1>2 DEF KeepAlive, Plain
<1>3. CASE m \in [type : {"Have"}, piece_index : U32]
  BY <1>1, <1>3
<1>4. CASE m \in [type : {"Bitfield"}, bytes : Seq(Byte)]
  BY <1>1, <1>4 DEF Bytes
<1>5. CASE m \in [type : {"Request", "Cancel"}, index : U32, begin : U32, length : U32]
  BY <1>1, <1>5
<1>6. CASE m \in [type : {"Piece"}, index : U32, begin : U32, block : Seq(Byte)]
  BY <1>1, <1>6 DEF Bytes
<1> QED
  BY <1>2, <1>3, <1>4, <1>5, <1>6 DEF Message

LEMMA U32Nat == \A n \in U32 : n \in Nat
  BY DEF U32

\* Three numbers in a row, as in a Request.
Three(a, b, c) == put_u32(a) \o put_u32(b) \o put_u32(c)

LEMMA ThreeNumbers ==
  ASSUME NEW a \in U32, NEW b \in U32, NEW c \in U32, NEW t \in Bytes
  PROVE  LET p == Three(a, b, c) IN
         /\ p \in Bytes /\ Len(p) = 12
         /\ get_u32(p \o t) = a /\ get_u32(From(p \o t, 5)) = b
         /\ get_u32(From(p \o t, 9)) = c
<1> DEFINE p == Three(a, b, c)
           pa == put_u32(a)
           pb == put_u32(b)
           pc == put_u32(c)
           ct == pc \o t
           bct == pb \o ct
<1>1. pa \in Bytes /\ pb \in Bytes /\ pc \in Bytes /\ Len(pa) = 4 /\ Len(pb) = 4 /\ Len(pc) = 4
  BY PutBytes
<1>2. ct \in Bytes /\ bct \in Bytes
  BY <1>1, ConcatBytes
<1>3. get_u32(pa \o bct) = a /\ get_u32(bct) = b /\ get_u32(ct) = c
  BY <1>2, GetPut
<1>4. From(pa \o bct, 5) = bct /\ From(bct, 5) = ct
  BY <1>2, BehindPut
<1> DEFINE ab == pa \o pb
<1>0. p = ab \o pc
  BY DEF Three
<1> HIDE DEF p
<1>5. ab \in Bytes /\ Len(ab) = 8 /\ p \in Bytes /\ Len(p) = 12
  <2> HIDE DEF pa, pb, pc
  <2>0. pa \in Bytes /\ pb \in Bytes
    BY ONLY <1>1
  <2>1. ab \in Bytes /\ Len(ab) = 4 + 4
    <3>1. pa \o pb \in Bytes /\ Len(pa \o pb) = Len(pa) + Len(pb)
      BY ONLY <2>0, Joined
    <3> HIDE DEF ab
    <3>2. ab \in Bytes /\ Len(ab) = Len(pa) + Len(pb)
      BY ONLY <3>1 DEF ab
    <3> QED
      BY ONLY <1>1, <3>2
  <2> HIDE DEF ab
  <2>2. p \in Bytes /\ Len(p) = Len(ab) + 4
    BY <1>0, <1>1, <2>1, Joined
  <2> QED
    BY <2>1, <2>2
<1> HIDE DEF pa, pb, pc, ct, bct
<1>6. p \o t = ab \o ct
  <2> HIDE DEF ab
  <2>1. ab \in Bytes /\ pc \in Bytes
    BY ONLY <1>1, <1>5
  <2>2. Regroups(ab, pc, t)
    BY <2>1, JoinedThrice
  <2> QED
    BY ONLY <1>0, <2>2, Zenon DEF ct, Regroups
<1>7. p \o t = pa \o bct
  <2>1. pa \in Bytes /\ pb \in Bytes /\ ct \in Bytes
    BY ONLY <1>1, <1>2
  <2>2. Regroups(pa, pb, ct)
    BY ONLY <2>1, JoinedThrice
  <2> QED
    BY ONLY <1>6, <2>2, Zenon DEF bct, Regroups
<1>8. From(p \o t, 9) = ct
  <2> HIDE DEF ab
  <2>1. 9 \in Nat /\ 9 = Len(ab) + 1
    BY <1>5
  <2>2. From(ab \o ct, 9) = ct
    BY <1>2, <1>5, <2>1, FromBehind
  <2> QED
    BY <1>6, <2>2
<1> QED
  BY <1>3, <1>4, <1>5, <1>7, <1>8 DEF p

\* Two numbers and bytes, as in a Piece.
TwoAnd(a, b, block) == put_u32(a) \o put_u32(b) \o block
FromNinth(s, n) == SubSeq(s, 9, n)

LEMMA NumbersAndBlock ==
  ASSUME NEW a \in U32, NEW b \in U32, NEW block \in Bytes, NEW t \in Bytes
  PROVE  LET p == TwoAnd(a, b, block) IN
         /\ p \in Bytes /\ Len(p) = 8 + Len(block)
         /\ get_u32(p \o t) = a /\ get_u32(From(p \o t, 5)) = b
         /\ FromNinth(p \o t, 8 + Len(block)) = block
<1> DEFINE p == TwoAnd(a, b, block)
           pa == put_u32(a)
           pb == put_u32(b)
           bt == block \o t
           rest == pb \o bt
           ab == pa \o pb
<1>1. pa \in Bytes /\ pb \in Bytes /\ Len(pa) = 4 /\ Len(pb) = 4
  BY PutBytes
<1>2. bt \in Bytes /\ rest \in Bytes /\ Len(block) \in Nat
  BY <1>1, ConcatBytes
<1>3. get_u32(pa \o rest) = a /\ get_u32(rest) = b
  BY <1>2, GetPut
<1>4. From(pa \o rest, 5) = rest
  BY <1>2, BehindPut
<1>0. p = ab \o block
  BY DEF TwoAnd
<1> HIDE DEF p
<1>5. ab \in Bytes /\ Len(ab) = 8 /\ p \in Bytes /\ Len(p) = 8 + Len(block)
  <2> HIDE DEF pa, pb
  <2>0. pa \in Bytes /\ pb \in Bytes
    BY ONLY <1>1
  <2>1. ab \in Bytes /\ Len(ab) = 4 + 4
    <3>1. pa \o pb \in Bytes /\ Len(pa \o pb) = Len(pa) + Len(pb)
      BY ONLY <2>0, Joined
    <3> HIDE DEF ab
    <3>2. ab \in Bytes /\ Len(ab) = Len(pa) + Len(pb)
      BY ONLY <3>1 DEF ab
    <3> QED
      BY ONLY <1>1, <3>2
  <2> HIDE DEF ab
  <2>2. p \in Bytes /\ Len(p) = Len(ab) + Len(block)
    BY <1>0, <2>1, Joined
  <2> QED
    BY <2>1, <2>2
<1> HIDE DEF pa, pb, bt, rest
<1>6. p \o t = ab \o bt
  <2> HIDE DEF ab
  <2>1. ab \in Bytes
    BY ONLY <1>5
  <2>2. Regroups(ab, block, t)
    BY <2>1, JoinedThrice
  <2> QED
    BY ONLY <1>0, <2>2, Zenon DEF bt, Regroups
<1>7. p \o t = pa \o rest
  <2>1. pa \in Bytes /\ pb \in Bytes /\ bt \in Bytes
    BY ONLY <1>1, <1>2
  <2>2. Regroups(pa, pb, bt)
    BY ONLY <2>1, JoinedThrice
  <2> QED
    BY ONLY <1>6, <2>2, Zenon DEF rest, Regroups
<1>8. SubSeq(p \o t, 9, 8 + Len(block)) = block
  <2> DEFINE s == p \o t
             u == SubSeq(s, 9, 8 + Len(block))
  <2>1. /\ s \in Bytes /\ Len(s) = Len(p) + Len(t) /\ Len(t) \in Nat
    BY <1>5, ConcatBytes
  <2>2. \A i \in 1..(Len(p) + Len(t)) : s[i] = IF i <= Len(p) THEN p[i] ELSE t[i - Len(p)]
    BY <1>5, ConcatProperties DEF Bytes
  <2> HIDE DEF s, ab
  <2>3. \A i \in 1..(Len(ab) + Len(block)) : p[i] = IF i <= Len(ab) THEN ab[i] ELSE block[i - Len(ab)]
    BY <1>0, <1>5, ConcatProperties DEF Bytes
  <2>4. \A i \in 9..(8 + Len(block)) : s[i] = block[i - 8] /\ s[i] \in Byte
    <3> SUFFICES ASSUME NEW i \in 9..(8 + Len(block)) PROVE s[i] = block[i - 8] /\ s[i] \in Byte
      OBVIOUS
    <3>1. i <= Len(p) /\ ~(i <= Len(ab)) /\ i - Len(ab) = i - 8 /\ i - 8 \in 1..Len(block)
          /\ i \in 1..(Len(p) + Len(t)) /\ i \in 1..(Len(ab) + Len(block))
      BY <1>2, <1>5, <2>1
    <3>2. s[i] = block[i - 8]
      BY <2>2, <2>3, <3>1
    <3>3. block[i - 8] \in Byte
      BY <3>1 DEF Bytes
    <3> QED
      BY <3>2, <3>3
  <2>5. /\ u \in Bytes /\ Len(u) = IF 9 <= 8 + Len(block) THEN 8 + Len(block) - 9 + 1 ELSE 0
        /\ \A i \in 1..(8 + Len(block) - 9 + 1) : u[i] = s[9 + i - 1]
    BY <1>2, <2>4, SubSeqProperties DEF Bytes
  <2> HIDE DEF u
  <2>6. Len(u) = Len(block)
    BY <1>2, <2>5
  <2>7. ASSUME NEW i \in 1..Len(block) PROVE u[i] = block[i]
    <3>1. i \in 1..(8 + Len(block) - 9 + 1) /\ 9 + i - 1 \in 9..(8 + Len(block))
          /\ 9 + i - 1 - 8 = i
      BY <1>2
    <3> QED
      BY <2>4, <2>5, <3>1
  <2>8. u = block
    BY <2>5, <2>6, <2>7, SeqEqual DEF Bytes
  <2> QED
    BY <2>8 DEF u, s
<1> QED
  BY <1>3, <1>4, <1>5, <1>7, <1>8 DEF p, FromNinth

\* What the decoder makes of a message's payload is the message.
LEMMA PayloadParsed ==
  ASSUME NEW m \in Message, m # KeepAlive, NEW t \in Bytes
  PROVE  LET n == encoded_len(m)
             p == payload(m)
         IN  /\ m.type \in Types
             /\ n \in U32 /\ p \in Bytes /\ n = 1 + Len(p)
             /\ Taken(m.type, n) = Len(p) /\ ~(m.type = "Piece" /\ n < 9)
             /\ parse(m.type, p \o t, n) = m
<1> DEFINE n == encoded_len(m)
           p == payload(m)
<1>1. n \in U32 /\ n \in Nat
  BY MessageIs, U32Nat
<1>2. CASE m.type \in Plain /\ m = [type |-> m.type]
  <2>1. n = 1 /\ p = <<>> /\ Taken(m.type, n) = 0 /\ m.type # "Piece" /\ m.type \in Types
    BY <1>2 DEF Plain, Types, encoded_len, payload, Taken
  <2>2. parse(m.type, p \o t, n) = [type |-> m.type]
    BY <1>2 DEF Plain, parse
  <2> QED
    BY <1>1, <1>2, <2>1, <2>2 DEF Bytes
<1>3. CASE /\ m.type = "Have" /\ m.piece_index \in U32
           /\ m = [type |-> m.type, piece_index |-> m.piece_index]
  <2>1. n = 5 /\ p = put_u32(m.piece_index) /\ Taken(m.type, n) = 4 /\ m.type \in Types
    BY <1>3 DEF Types, encoded_len, payload, Taken
  <2>2. parse(m.type, p \o t, n) = [type |-> m.type, piece_index |-> get_u32(p \o t)]
    BY <1>3 DEF parse
  <2>3. get_u32(p \o t) = m.piece_index /\ p \in Bytes /\ Len(p) = 4
    BY <1>3, <2>1, GetPut, PutBytes
  <2>4. 5 = 1 + Len(p) /\ m.type # "Piece"
    BY <1>3, <2>3
  <2> QED
    BY <1>1, <1>3, <2>1, <2>2, <2>3, <2>4
<1>4. CASE /\ m.type = "Bitfield" /\ m.bytes \in Bytes
           /\ m = [type |-> m.type, bytes |-> m.bytes]
  <2>1. n = Len(m.bytes) + 1 /\ p = m.bytes /\ Taken(m.type, n) = n - 1 /\ m.type \in Types
    BY <1>4 DEF Types, encoded_len, payload, Taken
  <2>2. parse(m.type, p \o t, n) = [type |-> m.type, bytes |-> SubSeq(p \o t, 1, n - 1)]
    BY <1>4 DEF parse
  <2>3. Len(p) \in Nat /\ n - 1 = Len(p) /\ n = 1 + Len(p) /\ p \in Bytes
    BY <1>4, <2>1, ConcatBytes
  <2>4. SubSeq(p \o t, 1, n - 1) = m.bytes
    BY <2>1, <2>3, FirstPart
  <2> QED
    BY <1>1, <1>4, <2>1, <2>2, <2>3, <2>4
<1>5. CASE /\ m.type \in {"Request", "Cancel"}
           /\ m.index \in U32 /\ m.begin \in U32 /\ m.length \in U32
           /\ m = [type |-> m.type, index |-> m.index, begin |-> m.begin, length |-> m.length]
  <2>1. /\ n = 13 /\ p = Three(m.index, m.begin, m.length)
        /\ Taken(m.type, n) = 12 /\ m.type \in Types /\ m.type # "Piece"
    BY <1>5 DEF Types, encoded_len, payload, Taken, Three
  <2>2. parse(m.type, p \o t, n) =
           [type |-> m.type, index |-> get_u32(p \o t), begin |-> get_u32(From(p \o t, 5)),
            length |-> get_u32(From(p \o t, 9))]
    BY <1>5 DEF parse
  <2>3. /\ p \in Bytes /\ Len(p) = 12
        /\ get_u32(p \o t) = m.index /\ get_u32(From(p \o t, 5)) = m.begin
        /\ get_u32(From(p \o t, 9)) = m.length
    <3> HIDE DEF p
    <3> QED
      BY <1>5, <2>1, ThreeNumbers
  <2>4. 13 = 1 + Len(p)
    BY <2>3
  <2> QED
    BY <1>1, <1>5, <2>1, <2>2, <2>3, <2>4
<1>6. CASE /\ m.type = "Piece" /\ m.index \in U32 /\ m.begin \in U32 /\ m.block \in Bytes
           /\ m = [type |-> m.type, index |-> m.index, begin |-> m.begin, block |-> m.block]
  <2>1. /\ n = 9 + Len(m.block) /\ p = TwoAnd(m.index, m.begin, m.block)
        /\ Taken(m.type, n) = n - 1 /\ m.type \in Types
    BY <1>6 DEF Types, encoded_len, payload, Taken, TwoAnd
  <2>2. parse(m.type, p \o t, n) =
           [type |-> m.type, index |-> get_u32(p \o t), begin |-> get_u32(From(p \o t, 5)),
            block |-> SubSeq(p \o t, 9, n - 1)]
    BY <1>6 DEF parse
  <2>3. /\ p \in Bytes /\ Len(p) = 8 + Len(m.block)
        /\ get_u32(p \o t) = m.index /\ get_u32(From(p \o t, 5)) = m.begin
        /\ SubSeq(p \o t, 9, 8 + Len(m.block)) = m.block
    <3> HIDE DEF p
    <3> DEFINE q == TwoAnd(m.index, m.begin, m.block)
    <3>1. /\ q \in Bytes /\ Len(q) = 8 + Len(m.block)
          /\ get_u32(q \o t) = m.index /\ get_u32(From(q \o t, 5)) = m.begin
          /\ FromNinth(q \o t, 8 + Len(m.block)) = m.block
      BY <1>6, NumbersAndBlock
    <3> QED
      BY <2>1, <3>1 DEF FromNinth
  <2>4. Len(m.block) \in Nat
    BY <1>6 DEF Bytes
  <2>5. n = 1 + Len(p) /\ n - 1 = 8 + Len(m.block) /\ n - 1 = Len(p) /\ ~(n < 9)
    BY <2>1, <2>3, <2>4
  <2> QED
    BY <1>1, <1>6, <2>1, <2>2, <2>3, <2>5
<1> QED
  BY <1>2, <1>3, <1>4, <1>5, <1>6, MessageIs

-----------------------------------------------------------------------------
(* Encoding and decoding. *)

LEMMA EncodeShape ==
  ASSUME NEW m \in Message, m # KeepAlive
  PROVE  /\ m.type \in Types
         /\ encode(m) = put_u32(encoded_len(m)) \o (<<TypeByte(m.type)>> \o payload(m))
<1>1. m.type \in Types
  BY PayloadParsed, EmptySeq DEF Bytes
<1>2. m.type # "KeepAlive"
  BY <1>1 DEF Types, Plain
<1> QED
  BY <1>1, <1>2 DEF encode

LEMMA KeepAliveIs ==
  /\ encoded_len(KeepAlive) = 0 /\ 0 \in U32
  /\ encode(KeepAlive) = put_u32(0) /\ encode(KeepAlive) \in Bytes
  /\ Len(encode(KeepAlive)) = 4
<1>1. 0 \in U32
  BY SMT DEF U32, Byte
<1>2. encoded_len(KeepAlive) = 0
  BY DEF encoded_len, KeepAlive
<1>3. put_u32(0) \in Bytes /\ Len(put_u32(0)) = 4
  BY <1>1, PutBytes
<1>4. encode(KeepAlive) = put_u32(0) \o <<>>
  BY <1>2 DEF encode, KeepAlive
<1>5. encode(KeepAlive) = put_u32(0)
  BY <1>3, <1>4, ConcatEmptySeq DEF Bytes
<1> QED
  BY <1>1, <1>2, <1>3, <1>5

\* What is encoded is as long as its head says.
LEMMA EncodeBytes ==
  ASSUME NEW m \in Message
  PROVE  /\ encode(m) \in Bytes /\ Len(encode(m)) = 4 + encoded_len(m)
         /\ encoded_len(m) \in U32 /\ encoded_len(m) \in Nat
         /\ get_u32(encode(m)) = encoded_len(m)
<1>1. encoded_len(m) \in U32 /\ encoded_len(m) \in Nat
  BY MessageIs, U32Nat
<1>2. CASE m = KeepAlive
  <2>1. get_u32(put_u32(0)) = 0
    BY KeepAliveIs, PutBytes
  <2> QED
    BY <1>2, <2>1, KeepAliveIs
<1>3. CASE m # KeepAlive
  <2> DEFINE n == encoded_len(m)
             p == payload(m)
             c == <<TypeByte(m.type)>>
             b == c \o p
  <2>1. p \in Bytes /\ n = 1 + Len(p) /\ m.type \in Types
    BY <1>3, PayloadParsed, EmptySeq DEF Bytes
  <2>2. c \in Bytes /\ Len(c) = 1
    BY <2>1, TypesHaveBytes DEF Bytes
  <2>3. encode(m) = put_u32(n) \o b
    BY <1>3, EncodeShape
  <2> HIDE DEF p, c
  <2>4. b \in Bytes /\ Len(b) = n
    BY <2>1, <2>2, Joined
  <2> HIDE DEF b, n
  <2>5. put_u32(n) \o b \in Bytes /\ Len(put_u32(n) \o b) = 4 + Len(b)
    BY <1>1, <2>4, BehindPut DEF n
  <2>6. get_u32(put_u32(n) \o b) = n
    BY <1>1, <2>4, GetPut DEF n
  <2> QED
    BY <1>1, <2>3, <2>4, <2>5, <2>6 DEF n
<1> QED
  BY <1>2, <1>3

\* Whatever message is encoded, and whatever bytes follow it in the buffer, decoding
\* gives back the message and leaves those bytes (peer_msg.rs:76-156, 161-246).
THEOREM MessageRoundTrip ==
  ASSUME NEW m \in Message, NEW t \in Bytes
  PROVE  decode(encode(m) \o t) = Item(m, t)
<1> DEFINE s == encode(m) \o t
           n == encoded_len(m)
<1>1. /\ encode(m) \in Bytes /\ Len(encode(m)) = 4 + n /\ n \in U32 /\ n \in Nat
      /\ get_u32(encode(m)) = n
  BY EncodeBytes
<1>2. s \in Bytes /\ Len(s) = 4 + n + Len(t) /\ Len(t) \in Nat
  BY <1>1, ConcatBytes
<1>3. get_u32(s) = n
  BY <1>1, GetFirst
<1>4. ~(Len(s) < 4) /\ ~(Len(s) < 4 + n)
  BY <1>1, <1>2
<1>5. CASE m = KeepAlive
  <2>1. n = 0 /\ From(s, 5) = t
    BY <1>5, KeepAliveIs, BehindPut
  <2> HIDE DEF s, n
  <2> QED
    BY <1>3, <1>4, <1>5, <2>1 DEF decode, s
<1>6. CASE m # KeepAlive
  <2> DEFINE p == payload(m)
             pt == p \o t
             c == <<TypeByte(m.type)>>
             b == c \o p
             src == c \o pt
  <2>1. /\ m.type \in Types /\ p \in Bytes /\ n = 1 + Len(p)
        /\ Taken(m.type, n) = Len(p) /\ ~(m.type = "Piece" /\ n < 9)
        /\ parse(m.type, pt, n) = m
    BY <1>6, PayloadParsed
  <2>2. c \in Bytes /\ Len(c) = 1 /\ c[1] = TypeByte(m.type)
    BY <2>1, TypesHaveBytes DEF Bytes
  <2>3. encode(m) = put_u32(n) \o b
    BY <1>6, EncodeShape
  <2>4. /\ KnownType(TypeByte(m.type)) /\ MessageTypes[TypeByte(m.type) + 1] = m.type
    BY <2>1, TypesHaveBytes
  <2> HIDE DEF p, c
  <2>5. b \in Bytes /\ pt \in Bytes /\ src \in Bytes /\ Len(pt) = Len(p) + Len(t)
        /\ Len(src) = 1 + Len(pt) /\ Len(p) \in Nat
    <3>1. c \in Bytes /\ p \in Bytes /\ Len(c) = 1
      BY ONLY <2>1, <2>2
    <3>2. b \in Bytes
      BY ONLY <3>1, Joined
    <3>3. pt \in Bytes /\ Len(pt) = Len(p) + Len(t) /\ Len(p) \in Nat
      BY <3>1, ConcatBytes
    <3> HIDE DEF pt
    <3>4. src \in Bytes /\ Len(src) = Len(c) + Len(pt)
      BY ONLY <3>1, <3>3, Joined
    <3> HIDE DEF b, src
    <3> QED
      BY ONLY <3>1, <3>2, <3>3, <3>4
  <2>6. b \o t = src
    <3>1. c \in Bytes /\ p \in Bytes
      BY ONLY <2>1, <2>2
    <3>2. Regroups(c, p, t)
      BY <3>1, JoinedThrice
    <3> QED
      BY ONLY <3>2, Zenon DEF Regroups
  <2>7. s = put_u32(n) \o src
    <3>1. put_u32(n) \in Bytes
      BY <1>1, PutBytes
    <3> DEFINE pn == put_u32(n)
    <3> HIDE DEF pn, b
    <3>2. Regroups(pn, b, t)
      BY <2>5, <3>1, JoinedThrice DEF pn
    <3> QED
      BY ONLY <2>3, <2>6, <3>2, Zenon DEF pn, Regroups
  <2>8. From(s, 5) = src
    <3> HIDE DEF src, n
    <3>1. From(put_u32(n) \o src, 5) = src
      BY <1>1, <2>5, BehindPut
    <3> QED
      BY <2>7, <3>1
  <2>9. src[1] = TypeByte(m.type) /\ Tail(src) = pt
    <3>1. src[1] = TypeByte(m.type)
      BY <2>2, <2>5, ConcatBytes
    <3>2. src # <<>>
      BY <2>5
    <3>3. Tail(src) = SubSeq(src, 2, Len(src))
      BY <2>5, <3>2, TailIsSubSeq DEF Bytes
    <3>4. 2 \in Nat /\ 2 = Len(c) + 1
      BY <2>2
    <3>5. From(src, 2) = pt
      BY <2>2, <2>5, <3>4, FromBehind
    <3> QED
      BY <3>1, <3>3, <3>5 DEF From
  <2>10. From(pt, Taken(m.type, n) + 1) = t
    BY <2>1, <2>5, FromBehind
  <2>11. ~(Len(pt) < Taken(m.type, n))
    BY <1>2, <2>1, <2>5
  <2> HIDE DEF src, pt, b, s
  <2>12. decode_body(src, n) = Item(m, t)
    <3> HIDE DEF n
    <3> QED
      BY <2>1, <2>4, <2>9, <2>10, <2>11 DEF decode_body
  <2>13. n # 0
    BY <2>1, <2>5
  <2>14. decode(s) = decode_body(From(s, 5), n)
    <3> HIDE DEF n
    <3> QED
      BY <1>3, <1>4, <2>13 DEF decode
  <2> QED
    BY <2>8, <2>12, <2>14 DEF s
<1> QED
  BY <1>5, <1>6

LEMMA MessageNotPort == Port \notin Message
<1> SUFFICES ASSUME Port \in Message PROVE FALSE
  OBVIOUS
<1>1. Port.type = "Port"
  BY DEF Port
<1>2. Port # KeepAlive => Port.type \in Types
  BY PayloadParsed, EmptySeq DEF Bytes
<1>3. KeepAlive.type = "KeepAlive"
  BY DEF KeepAlive
<1> QED
  BY <1>1, <1>2, <1>3 DEF Types, Plain

LEMMA MessageWire ==
  ASSUME NEW m \in Message
  PROVE  wire(m) = encode(m) /\ m # Port
  BY MessageNotPort DEF wire

LEMMA PortWire ==
  /\ wire(Port) = put_u32(3) \o <<9, 26, 225>>
  /\ 3 \in U32 /\ <<9, 26, 225>> \in Bytes
  /\ wire(Port) \in Bytes /\ Len(wire(Port)) = 7
  /\ get_u32(wire(Port)) = 3
<1>1. wire(Port) = put_u32(3) \o <<9, 26, 225>>
  BY DEF wire
<1>2. 3 \in U32
  BY SMT DEF U32, Byte
<1> DEFINE b == <<9, 26, 225>>
<1>3. b \in Bytes /\ Len(b) = 3
  BY DEF Bytes, Byte
<1> HIDE DEF b
<1>4. put_u32(3) \o b \in Bytes /\ Len(put_u32(3) \o b) = 4 + Len(b)
  BY <1>2, <1>3, BehindPut
<1>5. get_u32(put_u32(3) \o b) = 3
  BY <1>2, <1>3, GetPut
<1> QED
  BY <1>1, <1>2, <1>3, <1>4, <1>5 DEF b

\* Everything a peer sends after its handshake has its length in front.
LEMMA WireBytes ==
  ASSUME NEW m \in Message \cup {Port}
  PROVE  /\ wire(m) \in Bytes /\ Len(wire(m)) \in Nat /\ get_u32(wire(m)) \in Nat
         /\ Len(wire(m)) = 4 + get_u32(wire(m))
         /\ Len(wire(m)) = (IF m = Port THEN 7 ELSE 4 + encoded_len(m))
<1>1. CASE m = Port
  <2> DEFINE g == get_u32(wire(Port))
  <2>1. wire(Port) \in Bytes /\ Len(wire(Port)) = 7 /\ g = 3
    BY PortWire
  <2> HIDE DEF g
  <2>2. Len(wire(Port)) = 4 + g /\ g \in Nat
    BY <2>1
  <2> QED
    BY <1>1, <2>1, <2>2 DEF g
<1>2. CASE m \in Message
  <2> DEFINE g == get_u32(wire(m))
  <2>1. /\ wire(m) \in Bytes /\ Len(wire(m)) = 4 + encoded_len(m) /\ encoded_len(m) \in Nat
        /\ g = encoded_len(m) /\ m # Port
    BY <1>2, MessageWire, EncodeBytes
  <2> HIDE DEF g
  <2> QED
    BY <2>1 DEF g
<1> QED
  BY <1>1, <1>2

\* Of a message that has not arrived whole nothing is decoded and nothing is taken
\* from the buffer, of whatever type it is (peer_msg.rs:77-86).
THEOREM IncompleteWaits ==
  ASSUME NEW m \in Message \cup {Port}, NEW t \in Bytes, NEW b \in Bytes, NEW x \in Bytes,
         b \o x = wire(m) \o t, Len(b) < Len(wire(m))
  PROVE  decode(b) = More(b)
<1> DEFINE n == get_u32(wire(m))
<1>1. wire(m) \in Bytes /\ Len(wire(m)) = 4 + n /\ n \in Nat
  BY WireBytes
<1>2. Len(b) \in Nat
  BY DEF Bytes
<1>3. CASE Len(b) < 4
  BY <1>3 DEF decode
<1>4. CASE Len(b) >= 4
  <2>1. get_u32(b \o x) = get_u32(b)
    BY <1>4, GetFirst
  <2>2. get_u32(wire(m) \o t) = n
    <3> HIDE DEF n
    <3>1. Len(wire(m)) >= 4
      BY <1>1
    <3> QED
      BY <1>1, <3>1, GetFirst DEF n
  <2> HIDE DEF n
  <2>3. get_u32(b) = n /\ Len(b) < 4 + n
    BY <1>1, <2>1, <2>2
  <2> QED
    BY <2>3 DEF decode
<1> QED
  BY <1>2, <1>3, <1>4

\* The message of an unknown type is an error, and its bytes stay but for the first
\* five (peer_msg.rs:100).
LEMMA PortFails ==
  ASSUME NEW t \in Bytes
  PROVE  /\ decode(wire(Port) \o t).out = "error"
         /\ decode(wire(Port) \o t).rest \in Bytes
<1> DEFINE c == <<9, 26, 225>>
           src == c \o t
           s == wire(Port) \o t
<1>1. wire(Port) \in Bytes /\ put_u32(3) \in Bytes /\ c \in Bytes /\ 3 \in U32
  BY PortWire, PutBytes
<1>2. wire(Port) = put_u32(3) \o c
  BY PortWire
<1>3. Len(c) = 3 /\ c[1] = 9
  OBVIOUS
<1> HIDE DEF c
<1>4. src \in Bytes /\ Len(src) = 3 + Len(t) /\ src[1] = 9 /\ Len(t) \in Nat
  <2>1. src \in Bytes /\ Len(src) = Len(c) + Len(t)
    BY <1>1, Joined
  <2>2. 1 \in 1..Len(c) /\ Len(t) \in Nat
    BY <1>3 DEF Bytes
  <2>3. src[1] = c[1]
    BY <1>1, <2>2, KeptAt
  <2> QED
    BY <1>3, <2>1, <2>2, <2>3
<1>5. s = put_u32(3) \o src
  <2>1. Regroups(put_u32(3), c, t)
    BY <1>1, JoinedThrice
  <2> QED
    BY ONLY <1>2, <2>1, Zenon DEF Regroups
<1> HIDE DEF src
<1>6. s \in Bytes /\ Len(s) = 4 + Len(src) /\ From(s, 5) = src /\ get_u32(s) = 3
  <2> HIDE DEF s
  <2>1. /\ put_u32(3) \o src \in Bytes /\ Len(put_u32(3) \o src) = 4 + Len(src)
        /\ From(put_u32(3) \o src, 5) = src
    BY <1>1, <1>4, BehindPut
  <2>2. get_u32(put_u32(3) \o src) = 3
    BY <1>1, <1>4, GetPut
  <2> QED
    BY <1>5, <2>1, <2>2
<1>7. ~KnownType(9)
  BY DEF KnownType, MessageTypes
<1> HIDE DEF s
<1>8. decode(s) = decode_body(src, 3)
  <2>1. ~(Len(s) < 4) /\ ~(Len(s) < 4 + 3)
    BY <1>4, <1>6
  <2> QED
    BY <1>6, <2>1 DEF decode
<1>9. decode_body(src, 3) = Invalid(Tail(src))
  BY <1>4, <1>7 DEF decode_body
<1>10. Tail(src) \in Bytes
  <2>1. src # <<>>
    BY <1>4
  <2> QED
    BY <1>4, <2>1, HeadTailProperties DEF Bytes
<1>11. decode(s).out = "error" /\ decode(s).rest = Tail(src)
  BY <1>8, <1>9 DEF Invalid
<1> QED
  BY <1>10, <1>11 DEF s

-----------------------------------------------------------------------------
(* The handshake. *)

Handshakes == [length : Byte, protocol : Byte, info_hash : Byte, peer_id : Byte]

\* A field of n bytes, all of them b.
Filled(s, b, n) == s \in Bytes /\ Len(s) = n /\ s[1] = b

LEMMA FillIs ==
  ASSUME NEW b \in Byte, NEW n \in Nat \ {0}
  PROVE  Filled(Fill(b, n), b, n)
  BY DEF Fill, Bytes, Filled

LEMMA HandshakeBytes ==
  ASSUME NEW h \in Handshakes
  PROVE  LET e == handshake_encode(h)
         IN  /\ e \in Bytes /\ Len(e) = HANDSHAKE_SIZE
             /\ e[1] = h.length /\ e[2] = h.protocol /\ e[29] = h.info_hash /\ e[49] = h.peer_id
<1>1. h.length \in Byte /\ h.protocol \in Byte /\ h.info_hash \in Byte /\ h.peer_id \in Byte
      /\ 0 \in Byte
  BY DEF Handshakes, Byte
<1> DEFINE l == <<h.length>>
           fp == Fill(h.protocol, 19)
           fz == Fill(0, 8)
           fi == Fill(h.info_hash, 20)
           fd == Fill(h.peer_id, 20)
           a == l \o fp
           b == a \o fz
           c == b \o fi
           e == c \o fd
<1>2. l \in Bytes /\ Len(l) = 1 /\ l[1] = h.length
  BY <1>1 DEF Bytes
<1>0. 8 \in Nat \ {0} /\ 19 \in Nat \ {0} /\ 20 \in Nat \ {0}
  OBVIOUS
<1>3. /\ fp \in Bytes /\ Len(fp) = 19 /\ fp[1] = h.protocol
      /\ fz \in Bytes /\ Len(fz) = 8
  <2>1. Filled(fp, h.protocol, 19) /\ Filled(fz, 0, 8)
    BY ONLY <1>0, <1>1, FillIs
  <2> HIDE DEF fp, fz
  <2> QED
    BY ONLY <2>1 DEF Filled
<1>4. /\ fi \in Bytes /\ Len(fi) = 20 /\ fi[1] = h.info_hash
      /\ fd \in Bytes /\ Len(fd) = 20 /\ fd[1] = h.peer_id
  <2>1. Filled(fi, h.info_hash, 20) /\ Filled(fd, h.peer_id, 20)
    BY ONLY <1>0, <1>1, FillIs
  <2> HIDE DEF fi, fd
  <2> QED
    BY ONLY <2>1 DEF Filled
<1>5. handshake_encode(h) = e
  BY DEF handshake_encode
<1> HIDE DEF l, fp, fz, fi, fd
<1>6. a \in Bytes /\ Len(a) = 20 /\ a[1] = h.length /\ a[2] = h.protocol
  <2>1. a \in Bytes /\ Len(a) = Len(l) + Len(fp)
    BY <1>2, <1>3, Joined
  <2>2. 1 \in 1..Len(l)
    BY <1>2
  <2>3. a[1] = l[1]
    BY <1>2, <1>3, <2>2, KeptAt
  <2>4. 2 \in Nat /\ 2 = Len(l) + 1 /\ Len(fp) >= 1
    BY <1>2, <1>3
  <2>5. a[2] = fp[1]
    BY <1>2, <1>3, <2>4, FirstBehind
  <2> HIDE DEF a
  <2> QED
    BY <1>2, <1>3, <2>1, <2>3, <2>4, <2>5
<1> HIDE DEF a
<1>7. b \in Bytes /\ Len(b) = 28 /\ b[1] = h.length /\ b[2] = h.protocol
  <2>1. b \in Bytes /\ Len(b) = Len(a) + Len(fz)
    BY <1>6, <1>3, Joined
  <2>2. 1 \in 1..Len(a) /\ 2 \in 1..Len(a)
    BY <1>6
  <2>3. b[1] = a[1] /\ b[2] = a[2]
    BY <1>6, <1>3, <2>2, KeptAt
  <2> HIDE DEF b
  <2> QED
    BY <1>6, <1>3, <2>1, <2>3
<1> HIDE DEF b
<1>8. c \in Bytes /\ Len(c) = 48 /\ c[1] = h.length /\ c[2] = h.protocol /\ c[29] = h.info_hash
  <2>1. c \in Bytes /\ Len(c) = Len(b) + Len(fi)
    BY <1>7, <1>4, Joined
  <2>2. 1 \in 1..Len(b) /\ 2 \in 1..Len(b)
    BY <1>7
  <2>3. c[1] = b[1] /\ c[2] = b[2]
    BY <1>7, <1>4, <2>2, KeptAt
  <2>4. 29 \in Nat /\ 29 = Len(b) + 1 /\ Len(fi) >= 1
    BY <1>7, <1>4
  <2>5. c[29] = fi[1]
    BY <1>7, <1>4, <2>4, FirstBehind
  <2> HIDE DEF c
  <2> QED
    BY <1>7, <1>4, <2>1, <2>3, <2>4, <2>5
<1> HIDE DEF c
<1>9. /\ e \in Bytes /\ Len(e) = 68 /\ e[1] = h.length /\ e[2] = h.protocol
      /\ e[29] = h.info_hash /\ e[49] = h.peer_id
  <2>1. e \in Bytes /\ Len(e) = Len(c) + Len(fd)
    BY <1>8, <1>4, Joined
  <2>2. 1 \in 1..Len(c) /\ 2 \in 1..Len(c) /\ 29 \in 1..Len(c)
    BY <1>8
  <2>3. e[1] = c[1] /\ e[2] = c[2] /\ e[29] = c[29]
    <3>1. c \in Bytes /\ fd \in Bytes
      BY ONLY <1>4, <1>8
    <3>2. \A i \in 1..Len(c) : e[i] = c[i]
      BY ONLY <3>1, KeptAt
    <3> HIDE DEF e
    <3> QED
      BY ONLY <2>2, <3>2
  <2>4. 49 \in Nat /\ 49 = Len(c) + 1 /\ Len(fd) >= 1
    BY <1>8, <1>4
  <2>5. e[49] = fd[1]
    BY <1>8, <1>4, <2>4, FirstBehind
  <2> HIDE DEF e
  <2> QED
    BY <1>8, <1>4, <2>1, <2>3, <2>4, <2>5
<1> QED
  BY <1>5, <1>9 DEF HANDSHAKE_SIZE

\* The handshake is read from the first 68 bytes, and those that came with it stay in
\* the buffer for the next codec (handshake.rs:45-63, mod.rs:156).
THEOREM HandshakeRoundTrip ==
  ASSUME NEW h \in Handshakes, NEW t \in Bytes
  PROVE  handshake_decode(handshake_encode(h) \o t) = Item(h, t)
<1> DEFINE e == handshake_encode(h)
           s == e \o t
<1>1. /\ e \in Bytes /\ Len(e) = 68
      /\ e[1] = h.length /\ e[2] = h.protocol /\ e[29] = h.info_hash /\ e[49] = h.peer_id
  BY HandshakeBytes DEF HANDSHAKE_SIZE
<1> HIDE DEF e
<1>2. s \in Bytes /\ Len(s) = 68 + Len(t) /\ Len(t) \in Nat
  <2>1. s \in Bytes /\ Len(s) = Len(e) + Len(t) /\ Len(t) \in Nat
    BY <1>1, ConcatBytes
  <2> QED
    BY <1>1, <2>1
<1>3. 69 \in Nat /\ 69 = Len(e) + 1
  BY <1>1
<1>4. From(s, 69) = t
  <2>1. e \in Bytes
    BY ONLY <1>1
  <2> QED
    BY <1>3, <2>1, FromBehind, Zenon
<1>5. s[1] = h.length /\ s[2] = h.protocol /\ s[29] = h.info_hash /\ s[49] = h.peer_id
  <2>1. 1 \in 1..Len(e) /\ 2 \in 1..Len(e) /\ 29 \in 1..Len(e) /\ 49 \in 1..Len(e)
    BY <1>1
  <2>2. \A i \in 1..Len(e) : s[i] = e[i]
    BY <1>1, ConcatBytes
  <2> HIDE DEF s
  <2>3. s[1] = e[1] /\ s[2] = e[2] /\ s[29] = e[29] /\ s[49] = e[49]
    BY ONLY <2>1, <2>2
  <2>5. s[1] = h.length /\ s[2] = h.protocol
    BY ONLY <1>1, <2>3
  <2>6. s[29] = h.info_hash
    BY ONLY <1>1, <2>3
  <2>7. s[49] = h.peer_id
    BY ONLY <1>1, <2>3
  <2> QED
    BY ONLY <2>5, <2>6, <2>7
<1> HIDE DEF s
<1>6. h = [length |-> s[1], protocol |-> s[2], info_hash |-> s[29], peer_id |-> s[49]]
  BY <1>5 DEF Handshakes
<1>7. ~(Len(s) < HANDSHAKE_SIZE) /\ HANDSHAKE_SIZE + 1 = 69
  BY <1>2 DEF HANDSHAKE_SIZE
<1>8. handshake_decode(s) = Item(h, From(s, HANDSHAKE_SIZE + 1))
  BY <1>6, <1>7 DEF handshake_decode
<1>9. handshake_decode(s) = Item(h, t)
  BY <1>4, <1>7, <1>8
<1> QED
  BY <1>9 DEF s, e

-----------------------------------------------------------------------------
(* The stream of a peer: a recursive function of its messages. *)

Sends == Message \cup {Port}

LEMMA Least ==
  ASSUME NEW B \in SUBSET Nat, B # {}
  PROVE  \E n \in B : \A k \in Nat : k < n => k \notin B
<1>1. PICK n \in B : \A y \in B : ~(<<y, n>> \in OpToRel(<, Nat))
  BY NatLessThanWellFounded, WFMin
<1> QED
  BY <1>1 DEF OpToRel

\* `f' obeys the recursion of Stream for the last k messages of ms.
Obeys(f, ms, k) ==
    \A n \in (Len(ms) + 1 - k)..(Len(ms) + 1) :
        f[n] = IF n > Len(ms) THEN <<>> ELSE wire(ms[n]) \o f[n + 1]

LEMMA SentExists ==
  ASSUME NEW ms \in Seq(Sends), NEW k \in 0..Len(ms)
  PROVE  \E f \in [(Len(ms) + 1 - k)..(Len(ms) + 1) -> Bytes] : Obeys(f, ms, k)
<1> DEFINE L == Len(ms)
           Has(j) == \E f \in [(L + 1 - j)..(L + 1) -> Bytes] : Obeys(f, ms, j)
           Bad == {j \in 0..L : ~Has(j)}
<1>0. L \in Nat
  OBVIOUS
<1>1. ASSUME Bad # {} PROVE FALSE
  <2>1. Bad \in SUBSET Nat
    OBVIOUS
  <2>2. PICK j \in Bad : \A i \in Nat : i < j => i \notin Bad
    <3> HIDE DEF Bad
    <3> QED
      BY <1>1, <2>1, Least
  <2>3. j \in Nat /\ j <= L /\ ~Has(j)
    BY <1>0
  <2>4. CASE j = 0
    <3> DEFINE f == [n \in (L + 1)..(L + 1) |-> <<>>]
    <3>1. f \in [(L + 1)..(L + 1) -> Bytes]
      BY EmptySeq DEF Bytes
    <3>2. \A n \in (L + 1)..(L + 1) : n > L /\ f[n] = <<>>
      BY <1>0
    <3> HIDE DEF f
    <3>3. Obeys(f, ms, 0) /\ L + 1 - 0 = L + 1
      BY <1>0, <3>2 DEF Obeys
    <3>4. Has(0)
      BY <3>1, <3>3
    <3> QED
      BY <2>3, <2>4, <3>4
  <2>5. CASE j # 0
    <3>1. j - 1 \in Nat /\ j - 1 < j /\ j - 1 \in 0..L
      BY <1>0, <2>3, <2>5
    <3>2. j - 1 \notin Bad
      <4> HIDE DEF Bad
      <4> QED
        BY <2>2, <3>1
    <3>3. Has(j - 1)
      BY <3>1, <3>2
    <3> DEFINE b == L + 1 - j
    <3>4. b \in 1..L /\ L + 1 - (j - 1) = b + 1
      BY <1>0, <2>3, <2>5
    <3>5. PICK f \in [(b + 1)..(L + 1) -> Bytes] : Obeys(f, ms, j - 1)
      BY <3>3, <3>4
    <3> DEFINE g == [n \in b..(L + 1) |-> IF n = b THEN wire(ms[b]) \o f[b + 1] ELSE f[n]]
    <3> HIDE DEF b
    <3>6. \A n \in (b + 1)..(L + 1) :
             f[n] = IF n > L THEN <<>> ELSE wire(ms[n]) \o f[n + 1]
      BY <3>4, <3>5 DEF Obeys
    <3>7. g \in [b..(L + 1) -> Bytes]
      <4>1. ms[b] \in Sends
        BY <3>4
      <4>2. wire(ms[b]) \in Bytes
        BY <4>1, WireBytes DEF Sends
      <4>3. b + 1 \in (b + 1)..(L + 1)
        BY <1>0, <3>4
      <4>4. wire(ms[b]) \o f[b + 1] \in Bytes
        BY <3>5, <4>2, <4>3, Joined
      <4>5. \A n \in b..(L + 1) : n # b => n \in (b + 1)..(L + 1)
        BY <1>0, <3>4
      <4> QED
        BY <3>5, <4>4, <4>5
    <3>8. ASSUME NEW n \in b..(L + 1)
          PROVE  g[n] = IF n > L THEN <<>> ELSE wire(ms[n]) \o g[n + 1]
      <4>1. CASE n = b
        <5>1. ~(n > L) /\ n + 1 \in b..(L + 1) /\ n + 1 # b
          BY <1>0, <3>4, <4>1
        <5> QED
          BY <4>1, <5>1
      <4>2. CASE n # b
        <5>1. n \in (b + 1)..(L + 1) /\ g[n] = f[n]
          BY <1>0, <3>4, <4>2
        <5>2. CASE n > L
          BY <3>6, <5>1, <5>2
        <5>3. CASE ~(n > L)
          <6>1. n + 1 \in b..(L + 1) /\ n + 1 # b
            BY <1>0, <3>4, <5>1, <5>3
          <6>2. g[n + 1] = f[n + 1]
            BY <6>1
          <6> QED
            BY <3>6, <5>1, <5>3, <6>2
        <5> QED
          BY <5>2, <5>3
      <4> QED
        BY <4>1, <4>2
    <3> HIDE DEF g
    <3>9. Obeys(g, ms, j)
      BY <3>8 DEF Obeys, b
    <3>10. Has(j)
      BY <3>7, <3>9 DEF b
    <3> QED
      BY <2>3, <3>10
  <2> QED
    BY <2>4, <2>5
<1>2. k \notin Bad
  BY <1>1
<1> QED
  BY <1>2

\* What is sent from the n-th message on.
SentFrom(ms) ==
    LET from[n \in 1..(Len(ms) + 1)] ==
            IF n > Len(ms) THEN <<>> ELSE wire(ms[n]) \o from[n + 1]
    IN  from

LEMMA SentObeys ==
  ASSUME NEW ms \in Seq(Sends)
  PROVE  Obeys(SentFrom(ms), ms, Len(ms))
<1> DEFINE L == Len(ms)
           Is(f) == f = [n \in 1..(L + 1) |-> IF n > L THEN <<>> ELSE wire(ms[n]) \o f[n + 1]]
           t == CHOOSE f : Is(f)
<1>1. L \in 0..L /\ L + 1 - L = 1
  OBVIOUS
<1>2. PICK s \in [1..(L + 1) -> Bytes] : Obeys(s, ms, L)
  BY <1>1, SentExists
<1>3. Is(s)
  BY <1>1, <1>2 DEF Obeys
<1>4. Is(t)
  <2> HIDE DEF Is
  <2> QED
    BY <1>3
<1>5. SentFrom(ms) = t
  BY DEF SentFrom
<1>6. Obeys(t, ms, L)
  <2> HIDE DEF t
  <2> QED
    BY <1>1, <1>4 DEF Obeys
<1> QED
  BY <1>5, <1>6

\* In steps: nothing behind the last message, and each before the ones behind it.
LEMMA SentSteps ==
  ASSUME NEW ms \in Seq(Sends)
  PROVE  /\ SentFrom(ms)[Len(ms) + 1] = <<>>
         /\ \A n \in 1..Len(ms) :
               /\ SentFrom(ms)[n] = wire(ms[n]) \o SentFrom(ms)[n + 1]
               /\ SentFrom(ms)[n + 1] \in Bytes
         /\ SentFrom(ms)[1] \in Bytes
<1> DEFINE L == Len(ms)
           t == SentFrom(ms)
           Bad == {j \in 0..L : t[L + 1 - j] \notin Bytes}
<1>0. L \in Nat /\ L + 1 - L = 1
  OBVIOUS
<1>1. Obeys(t, ms, L)
  BY SentObeys
<1> HIDE DEF t
<1>2. \A n \in 1..(L + 1) : t[n] = IF n > L THEN <<>> ELSE wire(ms[n]) \o t[n + 1]
  BY <1>0, <1>1 DEF Obeys
<1>3. t[L + 1] = <<>>
  BY <1>0, <1>2
<1>4. ASSUME NEW n \in 1..L PROVE t[n] = wire(ms[n]) \o t[n + 1]
  <2>1. n \in 1..(L + 1) /\ ~(n > L)
    BY <1>0
  <2> QED
    BY <1>2, <2>1
<1>5. ASSUME Bad # {} PROVE FALSE
  <2>1. Bad \in SUBSET Nat
    OBVIOUS
  <2>2. PICK j \in Bad : \A i \in Nat : i < j => i \notin Bad
    <3> HIDE DEF Bad
    <3> QED
      BY <1>5, <2>1, Least
  <2>3. j \in Nat /\ j <= L /\ t[L + 1 - j] \notin Bytes
    BY <1>0
  <2>4. j # 0
    <3>1. L + 1 - 0 = L + 1
      BY <1>0
    <3> QED
      BY <1>3, <2>3, <3>1, EmptySeq DEF Bytes
  <2>5. j - 1 \in Nat /\ j - 1 < j /\ j - 1 \in 0..L
    BY <1>0, <2>3, <2>4
  <2>6. j - 1 \notin Bad
    <3> HIDE DEF Bad
    <3> QED
      BY <2>2, <2>5
  <2>7. t[L + 1 - (j - 1)] \in Bytes
    BY <2>5, <2>6
  <2> DEFINE n == L + 1 - j
  <2>8. n \in 1..L /\ L + 1 - (j - 1) = n + 1
    BY <1>0, <2>3, <2>4
  <2> HIDE DEF n
  <2>9. ms[n] \in Sends
    BY <2>8
  <2>10. wire(ms[n]) \in Bytes
    BY <2>9, WireBytes DEF Sends
  <2>11. wire(ms[n]) \o t[n + 1] \in Bytes
    BY <2>7, <2>8, <2>10, Joined
  <2> QED
    BY <1>4, <2>3, <2>8, <2>11 DEF n
<1>6. ASSUME NEW n \in 1..(L + 1) PROVE t[n] \in Bytes
  <2>1. L + 1 - n \in 0..L /\ L + 1 - (L + 1 - n) = n
    BY <1>0
  <2>2. L + 1 - n \notin Bad
    BY <1>5
  <2> QED
    BY <2>1, <2>2
<1>7. \A n \in 1..L : n + 1 \in 1..(L + 1)
  BY <1>0
<1>8. 1 \in 1..(L + 1)
  BY <1>0
<1> QED
  BY <1>3, <1>4, <1>6, <1>7, <1>8 DEF t

\* Its length, the way LenTo adds it up.
LenUpTo(ms, n) ==
    LET s[i \in 0..n] ==
            IF i = 0 THEN HANDSHAKE_SIZE
                     ELSE s[i - 1] + (IF ms[i] = Port THEN 7 ELSE 4 + encoded_len(ms[i]))
    IN  s[n]

WireLen(m) == Len(wire(m))

Sums(s, ms, n) ==
    \A i \in 0..n : s[i] = IF i = 0 THEN HANDSHAKE_SIZE
                                    ELSE s[i - 1] + (IF ms[i] = Port THEN 7 ELSE 4 + encoded_len(ms[i]))

LEMMA WireLenIs ==
  ASSUME NEW m \in Sends
  PROVE  WireLen(m) = (IF m = Port THEN 7 ELSE 4 + encoded_len(m)) /\ WireLen(m) \in Nat
  BY WireBytes DEF Sends, WireLen

LEMMA SumExists ==
  ASSUME NEW ms \in Seq(Sends), NEW n \in 0..Len(ms)
  PROVE  \E s \in [0..n -> Nat] : Sums(s, ms, n)
<1> DEFINE L == Len(ms)
           Has(j) == \E s \in [0..j -> Nat] : Sums(s, ms, j)
           Bad == {j \in 0..L : ~Has(j)}
<1>0. L \in Nat /\ HANDSHAKE_SIZE \in Nat
  BY DEF HANDSHAKE_SIZE
<1>1. ASSUME Bad # {} PROVE FALSE
  <2>1. Bad \in SUBSET Nat
    OBVIOUS
  <2>2. PICK j \in Bad : \A i \in Nat : i < j => i \notin Bad
    <3> HIDE DEF Bad
    <3> QED
      BY <1>1, <2>1, Least
  <2>3. j \in Nat /\ j <= L /\ ~Has(j)
    BY <1>0
  <2>4. CASE j = 0
    <3> DEFINE s == [i \in 0..0 |-> HANDSHAKE_SIZE]
    <3>1. s \in [0..0 -> Nat] /\ \A i \in 0..0 : i = 0 /\ s[i] = HANDSHAKE_SIZE
      BY <1>0
    <3> HIDE DEF s
    <3>2. Sums(s, ms, 0)
      BY <3>1 DEF Sums
    <3>3. Has(0)
      BY <3>1, <3>2
    <3> QED
      BY <2>3, <2>4, <3>3
  <2>5. CASE j # 0
    <3>1. j - 1 \in Nat /\ j - 1 < j /\ j - 1 \in 0..L /\ j \in 1..L
      BY <1>0, <2>3, <2>5
    <3>2. j - 1 \notin Bad
      <4> HIDE DEF Bad
      <4> QED
        BY <2>2, <3>1
    <3>3. PICK s \in [0..(j - 1) -> Nat] : Sums(s, ms, j - 1)
      BY <3>1, <3>2
    <3> DEFINE w(i) == IF ms[i] = Port THEN 7 ELSE 4 + encoded_len(ms[i])
               t == [i \in 0..j |-> IF i = j THEN s[j - 1] + w(j) ELSE s[i]]
    <3>4. w(j) \in Nat
      <4>1. ms[j] \in Sends
        BY <3>1
      <4> QED
        BY <4>1, WireLenIs
    <3>5. \A i \in 0..(j - 1) : s[i] = IF i = 0 THEN HANDSHAKE_SIZE ELSE s[i - 1] + w(i)
      BY <3>3 DEF Sums
    <3> HIDE DEF w
    <3>6. t \in [0..j -> Nat]
      BY <2>3, <3>1, <3>3, <3>4
    <3>7. ASSUME NEW i \in 0..j
          PROVE  t[i] = IF i = 0 THEN HANDSHAKE_SIZE ELSE t[i - 1] + w(i)
      <4>1. CASE i = j
        <5>1. t[i] = s[j - 1] + w(j) /\ t[i - 1] = s[j - 1]
          BY <2>3, <2>5, <3>1, <4>1
        <5> QED
          BY <2>5, <4>1, <5>1
      <4>2. CASE i # j
        <5>1. i \in 0..(j - 1) /\ t[i] = s[i] /\ (i # 0 => t[i - 1] = s[i - 1])
          BY <2>3, <3>1, <4>2
        <5> QED
          BY <3>5, <5>1
      <4> QED
        BY <4>1, <4>2
    <3> HIDE DEF t
    <3>8. Sums(t, ms, j)
      BY <3>7 DEF Sums, w
    <3>9. Has(j)
      BY <3>6, <3>8
    <3> QED
      BY <2>3, <3>9
  <2> QED
    BY <2>4, <2>5
<1>2. n \notin Bad
  BY <1>1
<1> QED
  BY <1>2

\* Two that obey the recursion agree as far as both go.
Agree(s, t, k) == t[k] = s[k]

LEMMA SumsAgree ==
  ASSUME NEW ms \in Seq(Sends), NEW n \in 0..Len(ms), NEW s \in [0..n -> Nat], Sums(s, ms, n),
         NEW m \in 0..Len(ms), NEW t, Sums(t, ms, m), NEW k \in Nat, k <= n, k <= m
  PROVE  Agree(s, t, k)
<1> DEFINE Bad == {i \in Nat : i <= n /\ i <= m /\ t[i] # s[i]}
<1>1. ASSUME Bad # {} PROVE FALSE
  <2>1. Bad \in SUBSET Nat
    OBVIOUS
  <2>2. PICK i \in Bad : \A y \in Nat : y < i => y \notin Bad
    <3> HIDE DEF Bad
    <3> QED
      BY <1>1, <2>1, Least
  <2>3. i \in Nat /\ i <= n /\ i <= m /\ t[i] # s[i]
    OBVIOUS
  <2> DEFINE w(q) == IF ms[q] = Port THEN 7 ELSE 4 + encoded_len(ms[q])
  <2>4. /\ s[i] = IF i = 0 THEN HANDSHAKE_SIZE ELSE s[i - 1] + w(i)
        /\ t[i] = IF i = 0 THEN HANDSHAKE_SIZE ELSE t[i - 1] + w(i)
    <3>1. i \in 0..n /\ i \in 0..m
      BY <2>3
    <3> QED
      BY <3>1 DEF Sums
  <2> HIDE DEF w
  <2>5. i # 0
    BY <2>3, <2>4
  <2>6. i - 1 \in Nat /\ i - 1 < i /\ i - 1 <= n /\ i - 1 <= m
    BY <2>3, <2>5
  <2>7. i - 1 \notin Bad
    <3> HIDE DEF Bad
    <3> QED
      BY <2>2, <2>6
  <2>8. t[i - 1] = s[i - 1]
    BY <2>6, <2>7
  <2> QED
    BY <2>3, <2>4, <2>5, <2>8
<1> QED
  BY <1>1 DEF Agree

LEMMA LenUpToIs ==
  ASSUME NEW ms \in Seq(Sends), NEW n \in 0..Len(ms), NEW s \in [0..n -> Nat], Sums(s, ms, n)
  PROVE  LenUpTo(ms, n) = s[n]
<1> DEFINE w(i) == IF ms[i] = Port THEN 7 ELSE 4 + encoded_len(ms[i])
           Is(t) == t = [i \in 0..n |-> IF i = 0 THEN HANDSHAKE_SIZE ELSE t[i - 1] + w(i)]
           t == CHOOSE t : Is(t)
<1>1. Is(s)
  BY DEF Sums
<1>2. Is(t)
  <2> HIDE DEF Is
  <2> QED
    BY <1>1
<1>3. LenUpTo(ms, n) = t[n]
  BY DEF LenUpTo
<1>4. Sums(t, ms, n)
  <2> HIDE DEF t
  <2> QED
    BY <1>2 DEF Sums
<1> HIDE DEF t
<1>5. n \in Nat /\ n <= n
  OBVIOUS
<1>6. t[n] = s[n]
  BY <1>4, <1>5, SumsAgree DEF Agree
<1> QED
  BY <1>3, <1>6

LEMMA LenUpToSteps ==
  ASSUME NEW ms \in Seq(Sends)
  PROVE  /\ LenUpTo(ms, 0) = HANDSHAKE_SIZE
         /\ \A n \in 0..Len(ms) : LenUpTo(ms, n) \in Nat
         /\ \A n \in 1..Len(ms) : LenUpTo(ms, n) = LenUpTo(ms, n - 1) + WireLen(ms[n])
<1>1. ASSUME NEW n \in 0..Len(ms) PROVE LenUpTo(ms, n) \in Nat
  <2>1. PICK s \in [0..n -> Nat] : Sums(s, ms, n)
    BY SumExists
  <2>2. LenUpTo(ms, n) = s[n] /\ n \in 0..n
    BY <2>1, LenUpToIs
  <2> QED
    BY <2>1, <2>2
<1>2. LenUpTo(ms, 0) = HANDSHAKE_SIZE
  <2>1. 0 \in 0..Len(ms) /\ 0 \in 0..0
    OBVIOUS
  <2>2. PICK s \in [0..0 -> Nat] : Sums(s, ms, 0)
    BY <2>1, SumExists
  <2>3. LenUpTo(ms, 0) = s[0]
    BY <2>1, <2>2, LenUpToIs
  <2> QED
    BY <2>1, <2>2, <2>3 DEF Sums
<1>3. ASSUME NEW n \in 1..Len(ms)
      PROVE  LenUpTo(ms, n) = LenUpTo(ms, n - 1) + WireLen(ms[n])
  <2>1. n \in 0..Len(ms) /\ n - 1 \in 0..Len(ms) /\ n \in 0..n /\ n # 0
        /\ n - 1 \in Nat /\ n - 1 <= n /\ n - 1 <= n - 1
    OBVIOUS
  <2>2. PICK s \in [0..n -> Nat] : Sums(s, ms, n)
    BY <2>1, SumExists
  <2>3. PICK t \in [0..(n - 1) -> Nat] : Sums(t, ms, n - 1)
    BY <2>1, SumExists
  <2>4. LenUpTo(ms, n) = s[n] /\ LenUpTo(ms, n - 1) = t[n - 1]
    BY <2>1, <2>2, <2>3, LenUpToIs
  <2>5. t[n - 1] = s[n - 1]
    <3> DEFINE k == n - 1
    <3>1. k \in 0..Len(ms) /\ k \in Nat /\ k <= n /\ k <= k /\ Sums(t, ms, k)
      BY <2>1, <2>3
    <3> HIDE DEF k
    <3>2. Agree(s, t, k)
      BY <2>1, <2>2, <3>1, SumsAgree
    <3> QED
      BY <3>2 DEF k, Agree
  <2>6. ms[n] \in Sends
    OBVIOUS
  <2>7. WireLen(ms[n]) = (IF ms[n] = Port THEN 7 ELSE 4 + encoded_len(ms[n]))
    BY <2>6, WireLenIs
  <2>8. s[n] = s[n - 1] + (IF ms[n] = Port THEN 7 ELSE 4 + encoded_len(ms[n]))
    BY <2>1, <2>2 DEF Sums
  <2> QED
    BY <2>4, <2>5, <2>7, <2>8
<1> QED
  BY <1>1, <1>2, <1>3

LEMMA LenUpToGrows ==
  ASSUME NEW ms \in Seq(Sends), NEW i \in 0..Len(ms), NEW j \in 0..Len(ms), i <= j
  PROVE  LenUpTo(ms, i) <= LenUpTo(ms, j)
<1> DEFINE L == Len(ms)
           Bad == {k \in Nat : i <= k /\ k <= L /\ ~(LenUpTo(ms, i) <= LenUpTo(ms, k))}
<1>0. L \in Nat /\ i \in Nat /\ i <= L
  OBVIOUS
<1>1. \A n \in 0..L : LenUpTo(ms, n) \in Nat
  BY LenUpToSteps
<1>2. ASSUME Bad # {} PROVE FALSE
  <2>1. Bad \in SUBSET Nat
    OBVIOUS
  <2>2. PICK k \in Bad : \A y \in Nat : y < k => y \notin Bad
    <3> HIDE DEF Bad
    <3> QED
      BY <1>2, <2>1, Least
  <2>3. k \in Nat /\ i <= k /\ k <= L /\ ~(LenUpTo(ms, i) <= LenUpTo(ms, k))
    OBVIOUS
  <2>4. i # k
    BY <1>0, <1>1, <2>3
  <2>5. k - 1 \in Nat /\ k - 1 < k /\ i <= k - 1 /\ k - 1 <= L /\ k \in 1..L /\ k - 1 \in 0..L
        /\ k \in 0..L
    BY <1>0, <2>3, <2>4
  <2>6. k - 1 \notin Bad
    <3> HIDE DEF Bad
    <3> QED
      BY <2>2, <2>5
  <2>7. LenUpTo(ms, i) <= LenUpTo(ms, k - 1)
    BY <2>5, <2>6
  <2>8. LenUpTo(ms, k) = LenUpTo(ms, k - 1) + WireLen(ms[k])
    BY <2>5, LenUpToSteps
  <2>9. ms[k] \in Sends
    BY <2>5
  <2>10. WireLen(ms[k]) \in Nat
    BY <2>9, WireLenIs
  <2>11. LenUpTo(ms, i) \in Nat /\ LenUpTo(ms, k - 1) \in Nat
    BY <1>0, <1>1, <2>5
  <2> QED
    BY <2>3, <2>7, <2>8, <2>10, <2>11
<1>3. j \notin Bad
  BY <1>2
<1> QED
  BY <1>0, <1>3

\* What comes behind the n-th message has the length that is left.
LEMMA SentLength ==
  ASSUME NEW ms \in Seq(Sends), NEW n \in 0..Len(ms)
  PROVE  LenUpTo(ms, n) + Len(SentFrom(ms)[n + 1]) = LenUpTo(ms, Len(ms))
<1> DEFINE L == Len(ms)
           f == SentFrom(ms)
           total == LenUpTo(ms, L)
           Right(k) == LenUpTo(ms, k) + Len(f[k + 1]) = total
           Bad == {j \in Nat : j <= L /\ ~Right(L - j)}
<1>0. L \in Nat /\ total \in Nat
  BY LenUpToSteps
<1>1. ASSUME Bad # {} PROVE FALSE
  <2>1. Bad \in SUBSET Nat
    OBVIOUS
  <2>2. PICK j \in Bad : \A i \in Nat : i < j => i \notin Bad
    <3> HIDE DEF Bad
    <3> QED
      BY <1>1, <2>1, Least
  <2>3. j \in Nat /\ j <= L /\ ~Right(L - j)
    OBVIOUS
  <2>4. CASE j = 0
    <3>1. L - 0 = L
      BY <1>0
    <3>2. f[L + 1] = <<>>
      BY SentSteps
    <3>3. Len(<<>>) = 0
      OBVIOUS
    <3> HIDE DEF f, total
    <3>4. Right(L)
      BY <1>0, <3>2, <3>3 DEF total
    <3> HIDE DEF Right
    <3> QED
      BY <2>3, <2>4, <3>1, <3>4
  <2>5. CASE j # 0
    <3> DEFINE k == L - j
    <3>1. j - 1 \in Nat /\ j - 1 < j /\ j - 1 <= L /\ L - (j - 1) = k + 1 /\ k \in 0..L
          /\ k + 1 \in 1..L /\ k + 1 \in 0..L /\ (k + 1) - 1 = k
      BY <1>0, <2>3, <2>5
    <3>2. j - 1 \notin Bad
      <4> HIDE DEF Bad
      <4> QED
        BY <2>2, <3>1
    <3>3. Right(L - (j - 1))
      <4> HIDE DEF Right
      <4> QED
        BY <3>1, <3>2
    <3> HIDE DEF k
    <3>4. LenUpTo(ms, k + 1) + Len(f[(k + 1) + 1]) = total
      BY <3>1, <3>3
    <3>5. LenUpTo(ms, k + 1) = LenUpTo(ms, k) + WireLen(ms[k + 1])
      BY <3>1, LenUpToSteps
    <3>6. f[k + 1] = wire(ms[k + 1]) \o f[(k + 1) + 1] /\ f[(k + 1) + 1] \in Bytes
      BY <3>1, SentSteps
    <3>7. ms[k + 1] \in Sends
      BY <3>1
    <3>8. wire(ms[k + 1]) \in Bytes
      BY <3>7, WireBytes DEF Sends
    <3> HIDE DEF f, total
    <3>9. Len(f[k + 1]) = WireLen(ms[k + 1]) + Len(f[(k + 1) + 1])
      BY <3>6, <3>8, Joined DEF WireLen
    <3>10. LenUpTo(ms, k) \in Nat /\ WireLen(ms[k + 1]) \in Nat /\ Len(f[(k + 1) + 1]) \in Nat
      BY <3>1, <3>6, <3>7, LenUpToSteps, WireLenIs, ConcatBytes
    <3>11. Right(k)
      BY <3>4, <3>5, <3>9, <3>10
    <3> HIDE DEF Right
    <3> QED
      BY <2>3, <3>11 DEF k
  <2> QED
    BY <2>4, <2>5
<1>2. L - n \in Nat /\ L - n <= L /\ L - (L - n) = n
  BY <1>0
<1>3. L - n \notin Bad
  <2> HIDE DEF Bad
  <2> QED
    BY <1>1
<1>4. Right(L - (L - n))
  <2> HIDE DEF Right
  <2> QED
    BY <1>2, <1>3
<1>5. Right(n)
  <2> HIDE DEF Right
  <2> QED
    BY <1>2, <1>4
<1> QED
  BY <1>5

-----------------------------------------------------------------------------
(* The messages before the first one that the codec does not know. *)

KnownOf(ms) == Cardinality({i \in DOMAIN ms : \A j \in 1..i : ms[j] # Port})

LEMMA KnownIs ==
  ASSUME NEW ms \in Seq(Sends)
  PROVE  /\ KnownOf(ms) \in 0..Len(ms)
         /\ \A i \in 1..KnownOf(ms) : ms[i] \in Message
         /\ KnownOf(ms) < Len(ms) => ms[KnownOf(ms) + 1] = Port
<1> DEFINE L == Len(ms)
           A == {i \in DOMAIN ms : \A j \in 1..i : ms[j] # Port}
           P == {i \in 1..L : ms[i] = Port}
<1>0. L \in Nat /\ DOMAIN ms = 1..L /\ \A i \in 1..L : ms[i] \in Sends
  OBVIOUS
<1>1. CASE P = {}
  <2>1. A = 1..L
    BY <1>0, <1>1
  <2>2. Cardinality(1..L) = L
    <3>1. L \in Nat /\ (1 > L => L = 0) /\ L - 1 + 1 = L
      BY <1>0
    <3> HIDE DEF L
    <3> QED
      BY <3>1, FS_Interval
  <2>3. KnownOf(ms) = L
    BY <2>1, <2>2 DEF KnownOf
  <2>4. \A i \in 1..L : ms[i] \in Message
    BY <1>0, <1>1 DEF Sends
  <2> QED
    BY <1>0, <2>3, <2>4
<1>2. CASE P # {}
  <2>1. P \in SUBSET Nat
    OBVIOUS
  <2>2. PICK p \in P : \A i \in Nat : i < p => i \notin P
    <3> HIDE DEF P
    <3> QED
      BY <1>2, <2>1, Least
  <2>3. p \in 1..L /\ ms[p] = Port
    OBVIOUS
  <2>4. \A i \in 1..(p - 1) : i \in 1..L /\ ms[i] # Port
    BY <1>0, <2>2, <2>3
  <2>5. A = 1..(p - 1)
    <3>1. ASSUME NEW i \in A PROVE i \in 1..(p - 1)
      <4>1. i \in 1..L /\ \A j \in 1..i : ms[j] # Port
        BY <1>0
      <4>2. ~(p \in 1..i)
        BY <2>3, <4>1
      <4> QED
        BY <1>0, <2>3, <4>1, <4>2
    <3>2. ASSUME NEW i \in 1..(p - 1) PROVE i \in A
      <4>1. i \in DOMAIN ms
        BY <1>0, <2>4
      <4>2. \A j \in 1..i : j \in 1..(p - 1)
        BY <1>0, <2>3
      <4> QED
        BY <2>4, <4>1, <4>2
    <3> HIDE DEF A
    <3> QED
      BY <3>1, <3>2
  <2>6. p - 1 \in Nat /\ p - 1 \in 0..L /\ (p - 1) + 1 = p
    BY <1>0, <2>3
  <2>7. Cardinality(1..(p - 1)) = p - 1
    BY <2>6, FS_Interval
  <2>8. KnownOf(ms) = p - 1
    BY <2>5, <2>7 DEF KnownOf
  <2>9. \A i \in 1..(p - 1) : ms[i] \in Message
    BY <1>0, <2>4 DEF Sends
  <2> QED
    BY <2>3, <2>6, <2>8, <2>9
<1> QED
  BY <1>1, <1>2

-----------------------------------------------------------------------------
(* What the decoders make of a part of what was sent. *)

\* The messages ms from the (k + 1)-st on, cut anywhere: the decoder waits if that one
\* is not whole in the first part, takes exactly that one if it is, and fails at a Port.
LEMMA DecodeNext ==
  ASSUME NEW ms \in Seq(Sends), NEW k \in 0..Len(ms), NEW b \in Bytes, NEW x \in Bytes,
         b \o x = SentFrom(ms)[k + 1]
  PROVE  LET d == decode(b)
         IN  \/ d.out = "more" /\ (k < Len(ms) => Len(b) < WireLen(ms[k + 1]))
             \/ /\ d.out = "item" /\ k < Len(ms) /\ ms[k + 1] \in Message
                /\ d.item = ms[k + 1] /\ d.rest \in Bytes
                /\ d.rest \o x = SentFrom(ms)[k + 2]
                /\ Len(b) = WireLen(ms[k + 1]) + Len(d.rest)
             \/ d.out = "error" /\ k < Len(ms) /\ ms[k + 1] = Port /\ d.rest \in Bytes
<1> DEFINE L == Len(ms)
           f == SentFrom(ms)
<1>0. L \in Nat /\ k \in Nat /\ k <= L /\ Len(b) \in Nat /\ Len(x) \in Nat
  BY ConcatBytes
<1>1. CASE k = L
  <2>1. b \o x = <<>>
    BY <1>1, SentSteps
  <2>2. Len(b \o x) = 0 /\ Len(b \o x) = Len(b) + Len(x)
    BY <2>1, Joined
  <2>3. Len(b) < 4
    BY <1>0, <2>2
  <2>4. decode(b) = More(b)
    BY <2>3 DEF decode
  <2>5. decode(b).out = "more"
    BY <2>4 DEF More
  <2> QED
    BY <1>1, <2>5
<1>2. CASE k < L
  <2> DEFINE m == ms[k + 1]
             t == f[(k + 1) + 1]
  <2>1. k + 1 \in 1..L /\ m \in Sends /\ (k + 1) + 1 = k + 2
    BY <1>0, <1>2
  <2>2. f[k + 1] = wire(m) \o t /\ t \in Bytes
    BY <2>1, SentSteps
  <2>3. wire(m) \in Bytes /\ Len(wire(m)) \in Nat /\ WireLen(m) = Len(wire(m))
    BY <2>1, WireBytes DEF Sends, WireLen
  <2> HIDE DEF t
  <2>4. b \o x = wire(m) \o t
    BY <2>2
  <2> HIDE DEF m
  <2>5. CASE Len(b) < Len(wire(m))
    <3>1. decode(b) = More(b)
      BY <2>1, <2>2, <2>4, <2>5, IncompleteWaits DEF Sends
    <3>2. decode(b).out = "more"
      BY <3>1 DEF More
    <3> QED
      BY <2>3, <2>5, <3>2 DEF m
  <2>6. CASE Len(wire(m)) <= Len(b)
    <3>0. PICK r \in Bytes : PartOf(wire(m), t, b, x, r)
      <4>1. CutTwice(wire(m), t, b, x)
        BY <2>3, <2>4, <2>6 DEF CutTwice
      <4> QED
        BY <2>2, <2>3, <4>1, CutLonger
    <3>1. b = wire(m) \o r /\ r \in Bytes /\ t = r \o x
      BY <3>0 DEF PartOf
    <3>2. Len(b) = Len(wire(m)) + Len(r)
      BY <2>3, <3>1, Joined
    <3>3. CASE m \in Message
      <4>1. decode(b) = Item(m, r)
        BY <3>1, <3>3, MessageWire, MessageRoundTrip
      <4>2. decode(b).out = "item" /\ decode(b).item = m /\ decode(b).rest = r
        BY <4>1 DEF Item
      <4>3. r \o x = f[k + 2]
        BY <2>1, <3>1 DEF t
      <4> QED
        BY <1>2, <2>3, <3>1, <3>2, <3>3, <4>2, <4>3 DEF m
    <3>4. CASE m = Port
      <4>1. decode(b).out = "error" /\ decode(b).rest \in Bytes
        BY <3>1, <3>4, PortFails
      <4> QED
        BY <1>2, <3>4, <4>1 DEF m
    <3> QED
      BY <2>1, <3>3, <3>4 DEF Sends
  <2> QED
    BY <1>0, <2>3, <2>5, <2>6
<1> QED
  BY <1>0, <1>1, <1>2

\* A part of the handshake and what follows it: the decoder waits if the handshake is
\* not whole in it, and takes exactly the handshake if it is.
HelloAnd(h, t) == handshake_encode(h) \o t
HelloOrMore(d, h, t, b, x) ==
    \/ d.out = "more" /\ Len(b) < HANDSHAKE_SIZE
    \/ /\ d.out = "item" /\ d.item = h /\ d.rest \in Bytes
       /\ d.rest \o x = t /\ Len(b) = HANDSHAKE_SIZE + Len(d.rest)

LEMMA GreetNext ==
  ASSUME NEW h \in Handshakes, NEW t \in Bytes, NEW b \in Bytes, NEW x \in Bytes,
         b \o x = HelloAnd(h, t)
  PROVE  HelloOrMore(handshake_decode(b), h, t, b, x)
<1> DEFINE e == handshake_encode(h)
<1>1. e \in Bytes /\ Len(e) = HANDSHAKE_SIZE /\ HANDSHAKE_SIZE \in Nat /\ Len(b) \in Nat
  BY HandshakeBytes, ConcatBytes DEF HANDSHAKE_SIZE
<1>2. CASE Len(b) < HANDSHAKE_SIZE
  BY <1>2 DEF handshake_decode, More, HelloOrMore
<1>3. CASE HANDSHAKE_SIZE <= Len(b)
  <2> HIDE DEF e
  <2>1. b \o x = e \o t
    BY DEF e, HelloAnd
  <2>0. PICK r \in Bytes : PartOf(e, t, b, x, r)
    <3>1. CutTwice(e, t, b, x)
      BY <1>1, <1>3, <2>1 DEF CutTwice
    <3> QED
      BY <1>1, <3>1, CutLonger
  <2>2. b = e \o r /\ r \in Bytes /\ t = r \o x
    BY <2>0 DEF PartOf
  <2>3. Len(b) = Len(e) + Len(r)
    BY <1>1, <2>2, Joined
  <2>4. handshake_decode(b) = Item(h, r)
    BY <2>2, HandshakeRoundTrip DEF e
  <2>5. handshake_decode(b).out = "item" /\ handshake_decode(b).item = h
        /\ handshake_decode(b).rest = r
    BY <2>4 DEF Item
  <2> QED
    BY <1>1, <2>2, <2>3, <2>5 DEF HelloOrMore
<1> QED
  BY <1>1, <1>2, <1>3

-----------------------------------------------------------------------------
(* The inductive invariant.  The buffer is what the peer sent and the codec has not *)
(* decoded, as far as it was read; it holds no whole message while the task waits.  *)

Hello == Peers[peer].handshake
Greeting == {"connect", "handshake"}
Reading == {"bitfield", "loop", "download"}
Downloads == {"loop", "download", "errored", "ended", "left"}

Typed ==
    /\ peer \in DOMAIN Peers
    /\ closed \in BOOLEAN /\ readable \in BOOLEAN /\ eof \in BOOLEAN
    /\ phase \in Phases
    /\ buf \in Bytes /\ socket \in Bytes /\ coming \in Bytes
    /\ taken \in Nat
    /\ got \in Seq(Message)

\* What was decoded, and when.
Decodes ==
    /\ Len(got) <= KnownOf(msgs) /\ got = SubSeq(msgs, 1, Len(got))
    /\ phase \in Greeting => greeting = <<>> /\ got = <<>>
    /\ phase = "connect" => buf = <<>> /\ ~readable
    /\ phase = "bitfield" => got = <<>>
    /\ phase \in {"bitfield"} \cup Downloads => greeting = Hello
    /\ greeting # <<>> => greeting = Hello

\* What is in the buffer, and where the rest is.
Buffered ==
    /\ phase \in Greeting =>
        /\ buf \o (socket \o coming) = handshake_encode(Hello) \o SentFrom(msgs)[1]
        /\ taken = Len(buf)
    /\ phase \in Reading =>
        /\ buf \o (socket \o coming) = SentFrom(msgs)[Len(got) + 1]
        /\ taken = LenUpTo(msgs, Len(got)) + Len(buf)
    /\ phase # "timeout" => taken + Len(socket) + Len(coming) = LenUpTo(msgs, Len(msgs))

\* No message that is whole is left in the buffer while the task waits, or at the end.
NoneLeft ==
    (phase \in Greeting \cup Reading /\ ~readable) \/ phase \in {"errored", "ended"} =>
        \A n \in 0..KnownOf(msgs) :
            LenUpTo(msgs, n) <= taken => greeting # <<>> /\ n <= Len(got)

Accepted ==
    phase \in Downloads =>
        /\ Len(got) >= 1
        /\ got[1].type = "Bitfield"
        /\ is_seed(total_pieces, got[1].bytes) = "yes"

IInv == Typed /\ Decodes /\ Buffered /\ NoneLeft /\ Accepted

\* The constants of the peer, in the terms of the lemmas above.
LEMMA PeerIs ==
  ASSUME peer \in DOMAIN Peers
  PROVE  /\ msgs \in Seq(Sends) /\ Hello \in Handshakes /\ total_pieces \in Nat
         /\ Stream(Peers[peer]) = handshake_encode(Hello) \o SentFrom(msgs)[1]
         /\ Known = KnownOf(msgs)
         /\ \A n : LenTo(n) = LenUpTo(msgs, n)
<1>1. Peers[peer] \in [ total : Nat,
                        handshake : [length : Byte, protocol : Byte, info_hash : Byte, peer_id : Byte],
                        msgs : Seq(Message \cup {Port}) ]
  <2> DEFINE R == [ total : Nat,
                    handshake : [length : Byte, protocol : Byte, info_hash : Byte, peer_id : Byte],
                    msgs : Seq(Message \cup {Port}) ]
  <2>1. Peers \in Seq(R)
    BY PeersAssumption
  <2> HIDE DEF R
  <2>2. Peers[peer] \in R
    BY <2>1
  <2> QED
    BY <2>2 DEF R
<1>2. msgs \in Seq(Sends) /\ Hello \in Handshakes /\ total_pieces \in Nat
  BY <1>1 DEF msgs, Hello, total_pieces, Sends, Handshakes
<1>3. Stream(Peers[peer]) = handshake_encode(Hello) \o SentFrom(msgs)[1]
  BY DEF Stream, SentFrom, Hello, msgs
<1>4. Known = KnownOf(msgs)
  BY DEF Known, KnownOf
<1>5. ASSUME NEW n PROVE LenTo(n) = LenUpTo(msgs, n)
  BY DEF LenTo, LenUpTo
<1> QED
  BY <1>2, <1>3, <1>4, <1>5

LEMMA HelloSaysSomething ==
  ASSUME NEW h \in Handshakes
  PROVE  h # <<>>
<1>1. DOMAIN h = {"length", "protocol", "info_hash", "peer_id"}
  BY DEF Handshakes
<1> QED
  BY <1>1

\* One byte of what is coming arrives.
LEMMA ByteArrives ==
  ASSUME NEW s \in Bytes, NEW c \in Bytes, c # <<>>
  PROVE  /\ Append(s, Head(c)) \in Bytes /\ Tail(c) \in Bytes
         /\ Append(s, Head(c)) \o Tail(c) = s \o c
         /\ Len(Append(s, Head(c))) = Len(s) + 1 /\ Len(Tail(c)) = Len(c) - 1
<1> DEFINE h == <<Head(c)>>
<1>1. Head(c) \in Byte /\ Tail(c) \in Bytes /\ Len(Tail(c)) = Len(c) - 1
  BY DEF Bytes
<1>2. h \in Bytes /\ Append(s, Head(c)) = s \o h
  BY <1>1 DEF Bytes
<1>3. h \o Tail(c) = c
  BY <1>1 DEF Bytes
<1>4. (s \o h) \o Tail(c) = s \o (h \o Tail(c))
  <2>1. Regroups(s, h, Tail(c))
    BY <1>1, <1>2, JoinedThrice
  <2> QED
    BY ONLY <2>1, Zenon DEF Regroups
<1>5. Append(s, Head(c)) \in Bytes /\ Len(Append(s, Head(c))) = Len(s) + 1
  BY <1>1 DEF Bytes
<1> QED
  BY <1>1, <1>2, <1>3, <1>4, <1>5

\* The next message makes the part that was read one longer.
LEMMA OneMore ==
  ASSUME NEW ms \in Seq(Sends), NEW k \in Nat, k < Len(ms)
  PROVE  /\ Append(SubSeq(ms, 1, k), ms[k + 1]) = SubSeq(ms, 1, k + 1)
         /\ Len(SubSeq(ms, 1, k)) = k
<1> DEFINE a == SubSeq(ms, 1, k)
           b == SubSeq(ms, 1, k + 1)
<1>1. a \in Seq(Sends) /\ Len(a) = k /\ \A i \in 1..k : a[i] = ms[i]
  BY SubSeqProperties
<1>2. b \in Seq(Sends) /\ Len(b) = k + 1 /\ \A i \in 1..(k + 1) : b[i] = ms[i]
  BY SubSeqProperties
<1>3. ms[k + 1] \in Sends
  OBVIOUS
<1> HIDE DEF a, b
<1>4. Append(a, ms[k + 1]) \in Seq(Sends) /\ Len(Append(a, ms[k + 1])) = k + 1
  BY <1>1, <1>3
<1>5. \A i \in 1..(k + 1) : Append(a, ms[k + 1])[i] = b[i]
  BY <1>1, <1>2, <1>3
<1>6. Append(a, ms[k + 1]) = b
  BY <1>2, <1>4, <1>5, SeqEqual
<1> QED
  BY <1>1, <1>6 DEF a, b

\* It holds at first: the bytes of the peer are as many as LenTo counts.
LEMMA InvAtFirst == Init => IInv
<1> SUFFICES ASSUME Init PROVE IInv
  OBVIOUS
<1>1. /\ peer \in DOMAIN Peers /\ coming = Stream(Peers[peer]) /\ socket = <<>> /\ closed = FALSE
      /\ phase = "connect" /\ buf = <<>> /\ taken = 0 /\ readable = FALSE /\ eof = FALSE
      /\ greeting = <<>> /\ got = <<>>
  BY DEF Init
<1>2. /\ msgs \in Seq(Sends) /\ Hello \in Handshakes
      /\ coming = handshake_encode(Hello) \o SentFrom(msgs)[1]
  BY <1>1, PeerIs
<1>3. SentFrom(msgs)[1] \in Bytes /\ 0 \in 0..Len(msgs) /\ Len(msgs) \in Nat
  <2>1. SentFrom(msgs)[1] \in Bytes
    BY <1>2, SentSteps
  <2>2. Len(msgs) \in Nat
    BY <1>2
  <2> QED
    BY <2>1, <2>2
<1>4. handshake_encode(Hello) \in Bytes /\ Len(handshake_encode(Hello)) = HANDSHAKE_SIZE
  BY <1>2, HandshakeBytes
<1>5. coming \in Bytes /\ Len(coming) = HANDSHAKE_SIZE + Len(SentFrom(msgs)[1])
  BY <1>2, <1>3, <1>4, Joined
<1>6. LenUpTo(msgs, 0) = HANDSHAKE_SIZE
      /\ LenUpTo(msgs, 0) + Len(SentFrom(msgs)[0 + 1]) = LenUpTo(msgs, Len(msgs))
  BY <1>2, <1>3, SentLength, LenUpToSteps
<1>7. <<>> \in Bytes /\ Len(<<>>) = 0 /\ <<>> \in Seq(Message)
  BY DEF Bytes
<1>8. Typed
  BY <1>1, <1>5, <1>7 DEF Typed, Phases
<1>9. KnownOf(msgs) \in 0..Len(msgs)
  BY <1>2, KnownIs
<1>10. Decodes
  <2>1. <<>> = SubSeq(msgs, 1, 0) /\ 0 <= KnownOf(msgs)
    BY <1>2, <1>3, <1>9
  <2> QED
    BY <1>1, <1>7, <2>1 DEF Decodes, Greeting, Downloads
<1>11. Buffered
  <2>1. <<>> \o (<<>> \o coming) = coming
    BY <1>5 DEF Bytes
  <2>2. 0 + 0 + Len(coming) = LenUpTo(msgs, Len(msgs))
    BY <1>3, <1>5, <1>6, ConcatBytes DEF HANDSHAKE_SIZE
  <2> QED
    BY <1>1, <1>2, <1>7, <2>1, <2>2 DEF Buffered, Greeting, Reading
<1>12. NoneLeft
  <2>1. ASSUME NEW n \in 0..KnownOf(msgs) PROVE ~(LenUpTo(msgs, n) <= 0)
    <3>1. n \in 0..Len(msgs) /\ 0 <= n
      BY <1>3, <1>9
    <3>2. LenUpTo(msgs, 0) <= LenUpTo(msgs, n) /\ LenUpTo(msgs, n) \in Nat
      BY <1>2, <1>3, <3>1, LenUpToGrows, LenUpToSteps
    <3> QED
      BY <1>6, <3>2 DEF HANDSHAKE_SIZE
  <2> QED
    BY <1>1, <2>1 DEF NoneLeft
<1>13. Accepted
  BY <1>1 DEF Accepted, Downloads
<1> QED
  BY <1>8, <1>10, <1>11, <1>12, <1>13 DEF IInv

-----------------------------------------------------------------------------
(* What the codec makes of the buffer. *)

\* The handshake is taken as it was sent, or waited for.
LEMMA HelloDecoded ==
  ASSUME IInv, phase = "handshake"
  PROVE  \/ decoded.out = "more" /\ Len(buf) < HANDSHAKE_SIZE
         \/ /\ decoded.out = "item" /\ decoded.item = Hello /\ decoded.rest \in Bytes
            /\ decoded.rest \o (socket \o coming) = SentFrom(msgs)[1]
            /\ Len(buf) = HANDSHAKE_SIZE + Len(decoded.rest)
<1> DEFINE x == socket \o coming
<1>1. peer \in DOMAIN Peers /\ buf \in Bytes /\ socket \in Bytes /\ coming \in Bytes
      /\ buf \o x = handshake_encode(Hello) \o SentFrom(msgs)[1]
  BY DEF IInv, Typed, Buffered, Greeting
<1>2. x \in Bytes
  BY <1>1, Joined
<1>3. Hello \in Handshakes /\ SentFrom(msgs)[1] \in Bytes
  BY <1>1, PeerIs, SentSteps
<1>4. decoded = handshake_decode(buf)
  BY DEF decoded
<1> HIDE DEF x
<1>5. HelloOrMore(handshake_decode(buf), Hello, SentFrom(msgs)[1], buf, x)
  <2>1. buf \o x = HelloAnd(Hello, SentFrom(msgs)[1])
    BY <1>1 DEF HelloAnd
  <2> QED
    BY <1>1, <1>2, <1>3, <2>1, GreetNext
<1> QED
  BY <1>4, <1>5 DEF x, HelloOrMore

\* The next message is taken as it was sent, or waited for; a Port is an error.
LEMMA MessageDecoded ==
  ASSUME IInv, phase \in Reading
  PROVE  /\ Len(got) \in 0..Len(msgs)
         /\ \/ /\ decoded.out = "more"
               /\ Len(got) < Len(msgs) => Len(buf) < WireLen(msgs[Len(got) + 1])
            \/ /\ decoded.out = "item" /\ Len(got) < Len(msgs) /\ Len(got) < KnownOf(msgs)
               /\ msgs[Len(got) + 1] \in Message
               /\ decoded.item = msgs[Len(got) + 1] /\ decoded.rest \in Bytes
               /\ decoded.rest \o (socket \o coming) = SentFrom(msgs)[Len(got) + 2]
               /\ Len(buf) = WireLen(msgs[Len(got) + 1]) + Len(decoded.rest)
            \/ /\ decoded.out = "error" /\ Len(got) < Len(msgs)
               /\ Len(got) = KnownOf(msgs) /\ decoded.rest \in Bytes
<1> DEFINE x == socket \o coming
           k == Len(got)
<1>1. /\ peer \in DOMAIN Peers /\ buf \in Bytes /\ socket \in Bytes /\ coming \in Bytes
      /\ got \in Seq(Message)
      /\ buf \o x = SentFrom(msgs)[k + 1]
      /\ k <= KnownOf(msgs)
  BY DEF IInv, Typed, Decodes, Buffered, Reading
<1>2. x \in Bytes
  BY <1>1, Joined
<1>3. msgs \in Seq(Sends)
  BY <1>1, PeerIs
<1>4. /\ KnownOf(msgs) \in 0..Len(msgs)
      /\ \A i \in 1..KnownOf(msgs) : msgs[i] \in Message
      /\ KnownOf(msgs) < Len(msgs) => msgs[KnownOf(msgs) + 1] = Port
  BY <1>3, KnownIs
<1>5. k \in Nat /\ Len(msgs) \in Nat
  BY <1>1, <1>3
<1>6. k \in 0..Len(msgs)
  BY <1>1, <1>4, <1>5
<1>7. decoded = decode(buf)
  BY DEF decoded, Reading
<1> HIDE DEF x, k
<1>8. LET d == decode(buf)
      IN  \/ d.out = "more" /\ (k < Len(msgs) => Len(buf) < WireLen(msgs[k + 1]))
          \/ /\ d.out = "item" /\ k < Len(msgs) /\ msgs[k + 1] \in Message
             /\ d.item = msgs[k + 1] /\ d.rest \in Bytes
             /\ d.rest \o x = SentFrom(msgs)[k + 2]
             /\ Len(buf) = WireLen(msgs[k + 1]) + Len(d.rest)
          \/ d.out = "error" /\ k < Len(msgs) /\ msgs[k + 1] = Port /\ d.rest \in Bytes
  BY <1>1, <1>2, <1>3, <1>6, DecodeNext
<1>9. ASSUME k < Len(msgs), msgs[k + 1] \in Message PROVE k < KnownOf(msgs)
  BY <1>1, <1>4, <1>5, <1>9, MessageNotPort
<1>10. ASSUME k < Len(msgs), msgs[k + 1] = Port PROVE k = KnownOf(msgs)
  <2>1. CASE k < KnownOf(msgs)
    <3>1. k + 1 \in 1..KnownOf(msgs)
      BY <1>4, <1>5, <2>1
    <3> QED
      BY <1>4, <1>10, <3>1, MessageNotPort
  <2> QED
    BY <1>1, <1>4, <1>5, <2>1
<1> QED
  BY <1>6, <1>7, <1>8, <1>9, <1>10 DEF x, k

\* The decoder waits only with every whole message taken.
LEMMA WaitsWithNone ==
  ASSUME IInv, phase \in Waiting, decoded.out = "more"
  PROVE  \A n \in 0..KnownOf(msgs) :
            LenUpTo(msgs, n) <= taken => greeting # <<>> /\ n <= Len(got)
<1>1. /\ peer \in DOMAIN Peers /\ buf \in Bytes /\ got \in Seq(Message)
  BY DEF IInv, Typed
<1>2. msgs \in Seq(Sends) /\ Hello \in Handshakes
  BY <1>1, PeerIs
<1>3. KnownOf(msgs) \in 0..Len(msgs)
  BY <1>2, KnownIs
<1>4. Len(msgs) \in Nat /\ Len(got) \in Nat /\ Len(buf) \in Nat
  BY <1>1, <1>2 DEF Bytes
<1>5. TAKE n \in 0..KnownOf(msgs)
<1>6. n \in 0..Len(msgs) /\ n \in Nat
  BY <1>3, <1>4
<1>7. LenUpTo(msgs, n) \in Nat /\ LenUpTo(msgs, 0) = HANDSHAKE_SIZE
  BY <1>2, <1>6, LenUpToSteps
<1>8. CASE phase = "handshake"
  <2>1. Len(buf) < HANDSHAKE_SIZE
    BY <1>8, HelloDecoded
  <2>2. taken = Len(buf)
    BY <1>8 DEF IInv, Buffered, Greeting
  <2>3. 0 \in 0..Len(msgs) /\ 0 <= n
    BY <1>4, <1>6
  <2>4. HANDSHAKE_SIZE <= LenUpTo(msgs, n)
    BY <1>2, <1>6, <1>7, <2>3, LenUpToGrows
  <2> QED
    BY <1>4, <1>7, <2>1, <2>2, <2>4 DEF HANDSHAKE_SIZE
<1>9. CASE phase \in Reading
  <2> DEFINE k == Len(got)
  <2>1. k \in 0..Len(msgs) /\ (k < Len(msgs) => Len(buf) < WireLen(msgs[k + 1]))
    BY <1>9, MessageDecoded
  <2>2. taken = LenUpTo(msgs, k) + Len(buf)
    BY <1>9 DEF IInv, Buffered
  <2>3. greeting = Hello /\ greeting # <<>>
    BY <1>2, <1>9, HelloSaysSomething DEF IInv, Decodes, Reading, Downloads
  <2>4. ASSUME ~(n <= k) PROVE ~(LenUpTo(msgs, n) <= taken)
    <3> HIDE DEF k
    <3>1. k + 1 \in 1..Len(msgs) /\ k + 1 \in 0..Len(msgs) /\ k + 1 <= n /\ (k + 1) - 1 = k
      BY <1>4, <1>6, <2>1, <2>4
    <3>2. LenUpTo(msgs, k + 1) = LenUpTo(msgs, (k + 1) - 1) + WireLen(msgs[k + 1])
      BY <1>2, <3>1, LenUpToSteps
    <3>3. LenUpTo(msgs, k + 1) = LenUpTo(msgs, k) + WireLen(msgs[k + 1])
      BY <3>1, <3>2
    <3>4. LenUpTo(msgs, k + 1) <= LenUpTo(msgs, n)
      BY <1>2, <1>6, <3>1, LenUpToGrows
    <3>5. LenUpTo(msgs, k) \in Nat /\ LenUpTo(msgs, k + 1) \in Nat
      BY <1>2, <2>1, <3>1, LenUpToSteps
    <3>6. WireLen(msgs[k + 1]) \in Nat
      BY <1>2, <3>1, WireLenIs
    <3>7. Len(buf) < WireLen(msgs[k + 1])
      BY <1>4, <2>1, <3>1
    <3> QED
      BY <1>4, <1>7, <2>2, <3>3, <3>4, <3>5, <3>6, <3>7
  <2> QED
    BY <2>3, <2>4
<1> QED
  BY <1>8, <1>9 DEF Waiting, Reading

-----------------------------------------------------------------------------
(* Every action keeps it. *)

LEMMA ArriveKeeps == IInv /\ Arrive => IInv'
<1> SUFFICES ASSUME IInv, Arrive PROVE IInv'
  OBVIOUS
<1>1. /\ coming # <<>> /\ socket' = Append(socket, Head(coming)) /\ coming' = Tail(coming)
      /\ UNCHANGED <<peer, closed, phase, buf, taken, readable, eof, greeting, got>>
  BY DEF Arrive
<1>2. buf \in Bytes /\ socket \in Bytes /\ coming \in Bytes /\ taken \in Nat
  BY DEF IInv, Typed
<1>3. /\ socket' \in Bytes /\ coming' \in Bytes
      /\ socket' \o coming' = socket \o coming
      /\ Len(socket') = Len(socket) + 1 /\ Len(coming') = Len(coming) - 1
  BY <1>1, <1>2, ByteArrives
<1>4. msgs' = msgs /\ Hello' = Hello /\ total_pieces' = total_pieces
  BY <1>1 DEF msgs, Hello, total_pieces
<1>5. Typed'
  BY <1>1, <1>3 DEF IInv, Typed
<1>6. Decodes'
  BY <1>1, <1>4 DEF IInv, Decodes
<1>7. Buffered'
  <2>1. buf' \o (socket' \o coming') = buf \o (socket \o coming)
    BY <1>1, <1>3
  <2>2. taken + Len(socket') + Len(coming') = taken + Len(socket) + Len(coming)
    BY <1>2, <1>3, ConcatBytes
  <2> QED
    BY <1>1, <1>4, <2>1, <2>2 DEF IInv, Buffered
<1>8. NoneLeft'
  BY <1>1, <1>4 DEF IInv, NoneLeft
<1>9. Accepted'
  BY <1>1, <1>4 DEF IInv, Accepted
<1> QED
  BY <1>5, <1>6, <1>7, <1>8, <1>9 DEF IInv

LEMMA CloseKeeps == IInv /\ Close => IInv'
<1> SUFFICES ASSUME IInv, Close PROVE IInv'
  OBVIOUS
<1>1. /\ closed' = TRUE
      /\ UNCHANGED <<peer, coming, socket, phase, buf, taken, readable, eof, greeting, got>>
  BY DEF Close
<1>2. msgs' = msgs /\ Hello' = Hello /\ total_pieces' = total_pieces
  BY <1>1 DEF msgs, Hello, total_pieces
<1>3. Typed'
  BY <1>1 DEF IInv, Typed
<1>4. Decodes' /\ Buffered' /\ NoneLeft' /\ Accepted'
  BY <1>1, <1>2 DEF IInv, Decodes, Buffered, NoneLeft, Accepted
<1> QED
  BY <1>3, <1>4 DEF IInv

LEMMA ConnectKeeps == IInv /\ Connect => IInv'
<1> SUFFICES ASSUME IInv, Connect PROVE IInv'
  OBVIOUS
<1>1. /\ phase = "connect" /\ phase' \in {"handshake", "rejected"}
      /\ UNCHANGED <<peer, coming, socket, closed, buf, taken, readable, eof, greeting, got>>
  BY DEF Connect
<1>2. msgs' = msgs /\ Hello' = Hello /\ total_pieces' = total_pieces
  BY <1>1 DEF msgs, Hello, total_pieces
<1>3. Typed'
  BY <1>1 DEF IInv, Typed, Phases
<1>4. Decodes'
  BY <1>1, <1>2 DEF IInv, Decodes, Greeting, Downloads
<1>5. Buffered'
  BY <1>1, <1>2 DEF IInv, Buffered, Greeting, Reading
<1>6. NoneLeft'
  BY <1>1, <1>2 DEF IInv, NoneLeft, Decodes, Greeting, Reading
<1>7. Accepted'
  BY <1>1 DEF Accepted, Downloads
<1> QED
  BY <1>3, <1>4, <1>5, <1>6, <1>7 DEF IInv

LEMMA TimeoutKeeps == IInv /\ Timeout => IInv'
<1> SUFFICES ASSUME IInv, Timeout PROVE IInv'
  OBVIOUS
<1>1. /\ phase \in {"connect", "handshake", "bitfield"} /\ phase' = "timeout"
      /\ coming' = <<>> /\ socket' = <<>> /\ buf' = <<>> /\ taken' = 0
      /\ readable' = FALSE /\ eof' = FALSE /\ greeting' = <<>>
      /\ UNCHANGED <<peer, closed, got>>
  BY DEF Timeout
<1>2. msgs' = msgs /\ Hello' = Hello
  BY <1>1 DEF msgs, Hello
<1>3. Typed'
  <2>1. <<>> \in Bytes
    BY DEF Bytes
  <2>2. buf' \in Bytes /\ socket' \in Bytes /\ coming' \in Bytes /\ taken' \in Nat
    BY <1>1, <2>1
  <2>3. readable' \in BOOLEAN /\ eof' \in BOOLEAN /\ phase' \in Phases
    BY <1>1 DEF Phases
  <2> QED
    BY <1>1, <2>2, <2>3 DEF IInv, Typed
<1>4. Decodes'
  BY <1>1, <1>2 DEF IInv, Decodes, Greeting, Downloads
<1>5. Buffered' /\ NoneLeft' /\ Accepted'
  BY <1>1 DEF Buffered, NoneLeft, Accepted, Greeting, Reading, Downloads
<1> QED
  BY <1>3, <1>4, <1>5 DEF IInv

LEMMA ReadKeeps == IInv /\ Read => IInv'
<1> SUFFICES ASSUME IInv, Read PROVE IInv'
  OBVIOUS
<1>1. /\ phase \in Waiting /\ readable' = TRUE
      /\ buf' = buf \o socket /\ taken' = taken + Len(socket) /\ socket' = <<>>
      /\ eof' = (socket = <<>>)
      /\ UNCHANGED <<peer, coming, closed, phase, greeting, got>>
  BY DEF Read
<1>2. buf \in Bytes /\ socket \in Bytes /\ coming \in Bytes /\ taken \in Nat
  BY DEF IInv, Typed
<1>3. /\ buf' \in Bytes /\ Len(buf') = Len(buf) + Len(socket)
      /\ Len(buf) \in Nat /\ Len(socket) \in Nat /\ Len(coming) \in Nat
  BY <1>1, <1>2, ConcatBytes
<1>4. <<>> \in Bytes /\ Len(<<>>) = 0 /\ <<>> \o coming = coming
  BY <1>2 DEF Bytes
<1>5. msgs' = msgs /\ Hello' = Hello /\ total_pieces' = total_pieces
  BY <1>1 DEF msgs, Hello, total_pieces
<1>6. Typed'
  <2>1. eof' \in BOOLEAN /\ readable' \in BOOLEAN /\ taken' \in Nat
    BY <1>1, <1>2, <1>3
  <2> QED
    BY <1>1, <1>3, <1>4, <2>1 DEF IInv, Typed
<1>7. Decodes'
  BY <1>1, <1>5 DEF IInv, Decodes, Waiting
<1>8. Buffered'
  <2>1. (buf \o socket) \o coming = buf \o (socket \o coming)
    <3>1. Regroups(buf, socket, coming)
      BY ONLY <1>2, JoinedThrice
    <3> QED
      BY ONLY <3>1, Zenon DEF Regroups
  <2>2. buf' \o (socket' \o coming') = buf \o (socket \o coming)
    BY <1>1, <1>4, <2>1
  <2>3. /\ phase \in Greeting => taken' = Len(buf')
    BY <1>1, <1>2, <1>3 DEF IInv, Buffered
  <2>4. phase \in Reading => taken' = LenUpTo(msgs, Len(got)) + Len(buf')
    <3>1. ASSUME phase \in Reading PROVE taken' = LenUpTo(msgs, Len(got)) + Len(buf')
      <4>1. taken = LenUpTo(msgs, Len(got)) + Len(buf)
        BY <3>1 DEF IInv, Buffered
      <4>2. LenUpTo(msgs, Len(got)) \in Nat
        <5>1. msgs \in Seq(Sends) /\ Len(got) \in 0..Len(msgs)
          BY <3>1, MessageDecoded, PeerIs DEF IInv, Typed
        <5> QED
          BY <5>1, LenUpToSteps
      <4> QED
        BY <1>1, <1>2, <1>3, <4>1, <4>2
    <3> QED
      BY <3>1
  <2>5. taken' + Len(socket') + Len(coming') = taken + Len(socket) + Len(coming)
    BY <1>1, <1>2, <1>3, <1>4
  <2> QED
    BY <1>1, <1>5, <2>2, <2>3, <2>4, <2>5 DEF IInv, Buffered
<1>9. NoneLeft'
  BY <1>1 DEF NoneLeft, Waiting
<1>10. Accepted'
  BY <1>1, <1>5 DEF IInv, Accepted
<1> QED
  BY <1>6, <1>7, <1>8, <1>9, <1>10 DEF IInv

LEMMA IncompleteKeeps == IInv /\ Incomplete => IInv'
<1> SUFFICES ASSUME IInv, Incomplete PROVE IInv'
  OBVIOUS
<1>1. /\ phase \in Waiting /\ decoded.out = "more" /\ readable' = FALSE
      /\ phase' = IF ~eof THEN phase
                  ELSE IF phase # "download" THEN "rejected"
                  ELSE IF buf = <<>> THEN "ended" ELSE "errored"
      /\ UNCHANGED <<peer, coming, socket, closed, buf, taken, eof, greeting, got>>
  BY DEF Incomplete
<1>2. \/ phase' = phase
      \/ phase' = "rejected"
      \/ phase = "download" /\ phase' \in {"ended", "errored"}
  BY <1>1
<1>3. msgs' = msgs /\ Hello' = Hello /\ total_pieces' = total_pieces
  BY <1>1 DEF msgs, Hello, total_pieces
<1>4. Typed'
  <2>1. phase' \in Phases
    BY <1>1, <1>2 DEF Phases, Waiting
  <2> QED
    BY <1>1, <2>1 DEF IInv, Typed
<1>5. Decodes'
  <2>1. phase' # "connect" /\ (phase' \in Greeting => phase \in Greeting)
        /\ (phase' = "bitfield" => phase = "bitfield")
        /\ (phase' \in Downloads => phase \in Downloads)
    BY <1>1, <1>2 DEF Waiting, Greeting, Downloads
  <2> QED
    BY <1>1, <1>3, <2>1 DEF IInv, Decodes
<1>6. Buffered'
  <2>1. (phase' \in Greeting => phase \in Greeting) /\ (phase' \in Reading => phase \in Reading)
        /\ (phase' # "timeout" => phase # "timeout")
    BY <1>1, <1>2 DEF Waiting, Greeting, Reading
  <2> QED
    BY <1>1, <1>3, <2>1 DEF IInv, Buffered
<1>7. NoneLeft'
  <2>1. \A n \in 0..KnownOf(msgs) :
            LenUpTo(msgs, n) <= taken => greeting # <<>> /\ n <= Len(got)
    BY <1>1, WaitsWithNone
  <2> QED
    BY <1>1, <1>3, <2>1 DEF NoneLeft
<1>8. Accepted'
  <2>1. phase' \in Downloads => phase \in Downloads
    BY <1>1, <1>2 DEF Waiting, Downloads
  <2> QED
    BY <1>1, <1>3, <2>1 DEF IInv, Accepted
<1> QED
  BY <1>4, <1>5, <1>6, <1>7, <1>8 DEF IInv

LEMMA HandshakeDoneKeeps == IInv /\ HandshakeDone => IInv'
<1> SUFFICES ASSUME IInv, HandshakeDone PROVE IInv'
  OBVIOUS
<1>1. /\ phase = "handshake" /\ decoded.out = "item"
      /\ greeting' = decoded.item /\ buf' = decoded.rest /\ phase' = "bitfield"
      /\ readable' = TRUE /\ eof' = FALSE
      /\ UNCHANGED <<peer, coming, socket, closed, taken, got>>
  BY DEF HandshakeDone
<1>2. /\ decoded.item = Hello /\ decoded.rest \in Bytes
      /\ decoded.rest \o (socket \o coming) = SentFrom(msgs)[1]
      /\ Len(buf) = HANDSHAKE_SIZE + Len(decoded.rest)
  BY <1>1, HelloDecoded
<1>3. peer \in DOMAIN Peers /\ got = <<>> /\ taken = Len(buf)
      /\ Len(got) <= KnownOf(msgs) /\ got = SubSeq(msgs, 1, Len(got))
  BY <1>1 DEF IInv, Typed, Decodes, Buffered, Greeting
<1>4. Len(got) = 0 /\ msgs \in Seq(Sends)
  BY <1>3, PeerIs
<1>5. LenUpTo(msgs, 0) = HANDSHAKE_SIZE
  BY <1>4, LenUpToSteps
<1>6. msgs' = msgs /\ Hello' = Hello
  BY <1>1 DEF msgs, Hello
<1>7. Typed'
  <2>1. buf' \in Bytes /\ phase' \in Phases /\ readable' \in BOOLEAN /\ eof' \in BOOLEAN
    BY <1>1, <1>2 DEF Phases
  <2> QED
    BY <1>1, <2>1 DEF IInv, Typed
<1>8. Decodes'
  BY <1>1, <1>2, <1>3, <1>6 DEF Decodes, Greeting, Downloads
<1>9. Buffered'
  <2>1. taken + Len(socket) + Len(coming) = LenUpTo(msgs, Len(msgs))
    BY <1>1 DEF IInv, Buffered
  <2>2. buf' \o (socket' \o coming') = SentFrom(msgs)[Len(got) + 1]
    BY <1>1, <1>2, <1>4
  <2>3. taken' = LenUpTo(msgs, Len(got)) + Len(buf')
    BY <1>1, <1>2, <1>3, <1>4, <1>5
  <2> QED
    BY <1>1, <1>6, <2>1, <2>2, <2>3 DEF Buffered, Greeting, Reading
<1>10. NoneLeft'
  BY <1>1 DEF NoneLeft
<1>11. Accepted'
  BY <1>1 DEF Accepted, Downloads
<1> QED
  BY <1>7, <1>8, <1>9, <1>10, <1>11 DEF IInv

\* A message is taken from the buffer, and nothing else.
LEMMA MessageTaken ==
  ASSUME IInv, phase \in Reading, decoded.out = "item",
         buf' = decoded.rest, got' = Append(got, decoded.item),
         UNCHANGED <<peer, coming, socket, closed, taken, readable, eof, greeting>>
  PROVE  /\ buf' \in Bytes /\ got' \in Seq(Message)
         /\ Len(got) < KnownOf(msgs)
         /\ Len(got') <= KnownOf(msgs') /\ got' = SubSeq(msgs', 1, Len(got'))
         /\ Len(got') = Len(got) + 1 /\ got'[Len(got) + 1] = decoded.item
         /\ (Len(got) >= 1 => got'[1] = got[1])
         /\ decoded.item \in Message /\ decoded.item = msgs[Len(got) + 1]
         /\ buf' \o (socket' \o coming') = SentFrom(msgs')[Len(got') + 1]
         /\ taken' = LenUpTo(msgs', Len(got')) + Len(buf')
<1> DEFINE k == Len(got)
<1>1. /\ peer \in DOMAIN Peers /\ got \in Seq(Message) /\ taken \in Nat /\ buf \in Bytes
      /\ got = SubSeq(msgs, 1, k)
      /\ taken = LenUpTo(msgs, k) + Len(buf)
  BY DEF IInv, Typed, Decodes, Buffered
<1>2. msgs \in Seq(Sends)
  BY <1>1, PeerIs
<1>3. /\ k \in 0..Len(msgs) /\ k < Len(msgs) /\ k < KnownOf(msgs)
      /\ msgs[k + 1] \in Message
      /\ decoded.item = msgs[k + 1] /\ decoded.rest \in Bytes
      /\ decoded.rest \o (socket \o coming) = SentFrom(msgs)[k + 2]
      /\ Len(buf) = WireLen(msgs[k + 1]) + Len(decoded.rest)
  BY MessageDecoded
<1>4. msgs' = msgs
  BY DEF msgs
<1>5. k \in Nat /\ Len(msgs) \in Nat /\ KnownOf(msgs) \in 0..Len(msgs)
  BY <1>1, <1>2, KnownIs
<1>6. got' \in Seq(Message) /\ Len(got') = k + 1 /\ got'[k + 1] = decoded.item
      /\ (k >= 1 => got'[1] = got[1])
  BY <1>1, <1>3, <1>5
<1>7. Append(SubSeq(msgs, 1, k), msgs[k + 1]) = SubSeq(msgs, 1, k + 1)
  BY <1>2, <1>3, <1>5, OneMore
<1>8. got' = SubSeq(msgs, 1, k + 1)
  BY <1>1, <1>3, <1>7
<1>9. LenUpTo(msgs, k + 1) = LenUpTo(msgs, k) + WireLen(msgs[k + 1])
  <2>1. k + 1 \in 1..Len(msgs) /\ (k + 1) - 1 = k
    BY <1>3, <1>5
  <2> HIDE DEF k
  <2>2. LenUpTo(msgs, k + 1) = LenUpTo(msgs, (k + 1) - 1) + WireLen(msgs[k + 1])
    BY <1>2, <2>1, LenUpToSteps
  <2> QED
    BY <2>1, <2>2
<1>10. LenUpTo(msgs, k) \in Nat /\ WireLen(msgs[k + 1]) \in Nat /\ Len(decoded.rest) \in Nat
  BY <1>2, <1>3, <1>5, LenUpToSteps, WireLenIs, ConcatBytes DEF Sends
<1>11. taken' = LenUpTo(msgs', Len(got')) + Len(buf')
  BY <1>1, <1>3, <1>4, <1>6, <1>9, <1>10
<1>12. buf' \o (socket' \o coming') = SentFrom(msgs')[Len(got') + 1]
  <2>1. (k + 1) + 1 = k + 2
    BY <1>5
  <2> QED
    BY <1>3, <1>4, <1>6, <2>1
<1>13. Len(got') <= KnownOf(msgs')
  BY <1>3, <1>4, <1>5, <1>6
<1> QED
  BY <1>3, <1>4, <1>6, <1>8, <1>11, <1>12, <1>13

\* What becomes of the first message.
LEMMA FirstMessageDoes ==
  ASSUME FirstMessage
  PROVE  /\ phase = "bitfield" /\ phase \in Reading /\ readable /\ decoded.out = "item"
         /\ buf' = decoded.rest /\ got' = Append(got, decoded.item)
         /\ UNCHANGED <<peer, coming, socket, closed, taken, readable, eof, greeting>>
         /\ phase' \in {"loop", "rejected", "panicked"}
         /\ phase' = "loop" =>
                decoded.item.type = "Bitfield" /\ is_seed(total_pieces, decoded.item.bytes) = "yes"
<1>1. phase' \in Outcomes(decoded.item)
  BY DEF FirstMessage
<1>2. CASE decoded.item.type # "Bitfield"
  BY <1>1, <1>2 DEF FirstMessage, Outcomes, Reading
<1>3. CASE decoded.item.type = "Bitfield"
  <2> DEFINE says == is_seed(total_pieces, decoded.item.bytes)
  <2>1. phase' \in (CASE says = "yes" -> IF closed THEN {"loop", "panicked"} ELSE {"loop"}
                      [] says = "no" -> {"rejected"}
                      [] OTHER -> {"panicked"})
    BY <1>1, <1>3 DEF Outcomes
  <2> HIDE DEF says
  <2>2. phase' \in {"loop", "rejected", "panicked"} /\ (phase' = "loop" => says = "yes")
    BY <2>1
  <2> QED
    BY <1>3, <2>2 DEF FirstMessage, Reading, says
<1> QED
  BY <1>2, <1>3

LEMMA FirstMessageKeeps == IInv /\ FirstMessage => IInv'
<1> SUFFICES ASSUME IInv, FirstMessage PROVE IInv'
  OBVIOUS
<1>1. /\ phase = "bitfield" /\ phase \in Reading /\ readable /\ decoded.out = "item"
      /\ buf' = decoded.rest /\ got' = Append(got, decoded.item)
      /\ UNCHANGED <<peer, coming, socket, closed, taken, readable, eof, greeting>>
      /\ phase' \in {"loop", "rejected", "panicked"}
      /\ phase' = "loop" =>
             decoded.item.type = "Bitfield" /\ is_seed(total_pieces, decoded.item.bytes) = "yes"
  BY FirstMessageDoes
<1>2. /\ buf' \in Bytes /\ got' \in Seq(Message)
      /\ Len(got') <= KnownOf(msgs') /\ got' = SubSeq(msgs', 1, Len(got'))
      /\ Len(got') = Len(got) + 1 /\ got'[Len(got) + 1] = decoded.item
      /\ buf' \o (socket' \o coming') = SentFrom(msgs')[Len(got') + 1]
      /\ taken' = LenUpTo(msgs', Len(got')) + Len(buf')
  BY <1>1, MessageTaken
<1>3. got = <<>> /\ greeting = Hello
  BY <1>1 DEF IInv, Decodes
<1>4. msgs' = msgs /\ Hello' = Hello /\ total_pieces' = total_pieces
  BY <1>1 DEF msgs, Hello, total_pieces
<1>5. Typed'
  <2>1. phase' \in Phases
    BY <1>1 DEF Phases
  <2> QED
    BY <1>1, <1>2, <2>1 DEF IInv, Typed
<1>6. Decodes'
  <2>1. phase' # "bitfield" /\ phase' # "connect" /\ phase' \notin Greeting
    BY <1>1 DEF Greeting
  <2>2. greeting' = Hello'
    BY <1>1, <1>3, <1>4
  <2> QED
    BY <1>2, <2>1, <2>2 DEF Decodes
<1>7. Buffered'
  <2>1. taken' + Len(socket') + Len(coming') = LenUpTo(msgs', Len(msgs'))
    BY <1>1, <1>4 DEF IInv, Buffered
  <2> QED
    BY <1>1, <1>2, <2>1 DEF Buffered, Greeting
<1>8. NoneLeft'
  <2>1. readable' /\ phase' \notin {"errored", "ended"}
    BY <1>1
  <2> QED
    BY <2>1 DEF NoneLeft
<1>9. Accepted'
  <2>1. Len(got) = 0
    BY <1>3
  <2>2. Len(got') >= 1 /\ got'[1] = decoded.item
    BY <1>2, <2>1
  <2>3. phase' \in Downloads => phase' = "loop"
    BY <1>1 DEF Downloads
  <2> QED
    BY <1>1, <1>4, <2>2, <2>3 DEF Accepted
<1> QED
  BY <1>5, <1>6, <1>7, <1>8, <1>9 DEF IInv

LEMMA NextMessageKeeps == IInv /\ NextMessage => IInv'
<1> SUFFICES ASSUME IInv, NextMessage PROVE IInv'
  OBVIOUS
<1>1. /\ phase = "download" /\ phase \in Reading /\ readable /\ decoded.out = "item"
      /\ buf' = decoded.rest /\ got' = Append(got, decoded.item)
      /\ phase' \in {"panicked", "loop"}
      /\ UNCHANGED <<peer, coming, socket, closed, taken, readable, eof, greeting>>
  BY DEF NextMessage, Reading
<1>2. /\ buf' \in Bytes /\ got' \in Seq(Message)
      /\ Len(got') <= KnownOf(msgs') /\ got' = SubSeq(msgs', 1, Len(got'))
      /\ Len(got') = Len(got) + 1 /\ (Len(got) >= 1 => got'[1] = got[1])
      /\ buf' \o (socket' \o coming') = SentFrom(msgs')[Len(got') + 1]
      /\ taken' = LenUpTo(msgs', Len(got')) + Len(buf')
  BY <1>1, MessageTaken
<1>3. msgs' = msgs /\ Hello' = Hello /\ total_pieces' = total_pieces
  BY <1>1 DEF msgs, Hello, total_pieces
<1>4. Typed'
  <2>1. phase' \in Phases
    BY <1>1 DEF Phases
  <2> QED
    BY <1>1, <1>2, <2>1 DEF IInv, Typed
<1>5. greeting = Hello /\ Len(got) >= 1 /\ got[1].type = "Bitfield"
      /\ is_seed(total_pieces, got[1].bytes) = "yes"
  BY <1>1 DEF IInv, Decodes, Accepted, Downloads
<1>6. Decodes'
  <2>1. phase' # "bitfield" /\ phase' # "connect" /\ phase' \notin Greeting
    BY <1>1 DEF Greeting
  <2>2. greeting' = Hello'
    BY <1>1, <1>3, <1>5
  <2> QED
    BY <1>2, <2>1, <2>2 DEF Decodes
<1>7. Buffered'
  <2>1. taken' + Len(socket') + Len(coming') = LenUpTo(msgs', Len(msgs'))
    BY <1>1, <1>3 DEF IInv, Buffered
  <2> QED
    BY <1>1, <1>2, <2>1 DEF Buffered, Greeting
<1>8. NoneLeft'
  <2>1. readable' /\ phase' \notin {"errored", "ended"}
    BY <1>1
  <2> QED
    BY <2>1 DEF NoneLeft
<1>9. Accepted'
  <2>1. Len(got) \in Nat /\ Len(got') \in Nat
    BY <1>2 DEF IInv, Typed
  <2>2. Len(got') >= 1
    BY <1>2, <1>5, <2>1
  <2> QED
    BY <1>2, <1>3, <1>5, <2>2 DEF Accepted
<1> QED
  BY <1>4, <1>6, <1>7, <1>8, <1>9 DEF IInv

\* The decoder fails only at a message of an unknown type, and never panics.
LEMMA DecodeFailsDoes ==
  ASSUME IInv, DecodeFails
  PROVE  /\ phase \in {"bitfield", "download"} /\ decoded.out = "error" /\ buf' = decoded.rest
         /\ decoded.rest \in Bytes /\ Len(got) = KnownOf(msgs)
         /\ phase' = IF phase = "bitfield" THEN "rejected" ELSE "errored"
         /\ UNCHANGED <<peer, coming, socket, closed, taken, readable, eof, greeting, got>>
<1>1. /\ phase \in {"bitfield", "download"} /\ decoded.out \in {"error", "panic"} /\ buf' = decoded.rest
      /\ phase' = IF decoded.out = "panic" THEN "panicked"
                  ELSE IF phase = "bitfield" THEN "rejected" ELSE "errored"
      /\ UNCHANGED <<peer, coming, socket, closed, taken, readable, eof, greeting, got>>
  BY DEF DecodeFails
<1>2. decoded.out = "error" /\ Len(got) = KnownOf(msgs) /\ decoded.rest \in Bytes
  BY <1>1, MessageDecoded DEF Reading
<1> QED
  BY <1>1, <1>2

LEMMA DecodeFailsKeeps == IInv /\ DecodeFails => IInv'
<1> SUFFICES ASSUME IInv, DecodeFails PROVE IInv'
  OBVIOUS
<1>1. /\ phase \in Reading /\ buf' \in Bytes /\ Len(got) = KnownOf(msgs)
      /\ \/ phase' = "rejected"
         \/ phase = "download" /\ phase' = "errored"
      /\ UNCHANGED <<peer, coming, socket, closed, taken, readable, eof, greeting, got>>
  BY DecodeFailsDoes DEF Reading
<1>2. msgs' = msgs /\ Hello' = Hello /\ total_pieces' = total_pieces
  BY <1>1 DEF msgs, Hello, total_pieces
<1>3. Typed'
  <2>1. phase' \in Phases
    BY <1>1 DEF Phases
  <2> QED
    BY <1>1, <2>1 DEF IInv, Typed
<1>4. Decodes'
  BY <1>1, <1>2 DEF IInv, Decodes, Greeting, Downloads
<1>5. Buffered'
  <2>1. taken' + Len(socket') + Len(coming') = LenUpTo(msgs', Len(msgs'))
    BY <1>1, <1>2 DEF IInv, Buffered, Reading
  <2> QED
    BY <1>1, <2>1 DEF Buffered, Greeting, Reading
<1>6. NoneLeft'
  <2>1. CASE phase' = "rejected"
    BY <2>1 DEF NoneLeft, Greeting, Reading
  <2>2. CASE phase = "download" /\ phase' = "errored"
    <3>1. peer \in DOMAIN Peers /\ got \in Seq(Message) /\ greeting = Hello
      BY <2>2 DEF IInv, Typed, Decodes, Downloads
    <3>2. greeting # <<>> /\ msgs \in Seq(Sends)
      BY <3>1, PeerIs, HelloSaysSomething
    <3>3. \A n \in 0..KnownOf(msgs) : n <= Len(got)
      BY <1>1, <3>2, KnownIs
    <3> QED
      BY <1>1, <1>2, <3>2, <3>3 DEF NoneLeft
  <2> QED
    BY <1>1, <2>1, <2>2
<1>7. Accepted'
  BY <1>1, <1>2 DEF IInv, Accepted, Downloads
<1> QED
  BY <1>3, <1>4, <1>5, <1>6, <1>7 DEF IInv

LEMMA NoneAfterErrorKeeps == IInv /\ NoneAfterError => IInv'
<1> SUFFICES ASSUME IInv, NoneAfterError PROVE IInv'
  OBVIOUS
<1>1. /\ phase = "errored" /\ phase' = "ended"
      /\ UNCHANGED <<peer, coming, socket, closed, buf, taken, readable, eof, greeting, got>>
  BY DEF NoneAfterError
<1>2. msgs' = msgs /\ Hello' = Hello /\ total_pieces' = total_pieces
  BY <1>1 DEF msgs, Hello, total_pieces
<1>3. Typed'
  BY <1>1 DEF IInv, Typed, Phases
<1>4. Decodes'
  BY <1>1, <1>2 DEF IInv, Decodes, Greeting, Downloads
<1>5. Buffered'
  BY <1>1, <1>2 DEF IInv, Buffered, Greeting, Reading
<1>6. NoneLeft'
  BY <1>1, <1>2 DEF IInv, NoneLeft
<1>7. Accepted'
  BY <1>1, <1>2 DEF IInv, Accepted, Downloads
<1> QED
  BY <1>3, <1>4, <1>5, <1>6, <1>7 DEF IInv

\* The downloader's loop looks at none of this.
LEMMA LoopKeeps == IInv /\ (AskNext \/ KeepAliveDue \/ Leave) => IInv'
<1> SUFFICES ASSUME IInv, AskNext \/ KeepAliveDue \/ Leave PROVE IInv'
  OBVIOUS
<1>1. /\ \/ phase \in {"loop", "download"} /\ phase' \in {"loop", "download"}
         \/ phase \in {"loop", "errored"} /\ phase' = "left"
      /\ UNCHANGED <<peer, coming, socket, closed, buf, taken, readable, eof, greeting, got>>
  BY DEF AskNext, KeepAliveDue, Leave
<1>2. msgs' = msgs /\ Hello' = Hello /\ total_pieces' = total_pieces
  BY <1>1 DEF msgs, Hello, total_pieces
<1>3. Typed'
  BY <1>1 DEF IInv, Typed, Phases
<1>4. Decodes'
  BY <1>1, <1>2 DEF IInv, Decodes, Greeting, Downloads
<1>5. Buffered'
  BY <1>1, <1>2 DEF IInv, Buffered, Greeting, Reading
<1>6. NoneLeft'
  BY <1>1, <1>2 DEF IInv, NoneLeft, Greeting, Reading
<1>7. Accepted'
  BY <1>1, <1>2 DEF IInv, Accepted, Downloads
<1> QED
  BY <1>3, <1>4, <1>5, <1>6, <1>7 DEF IInv

LEMMA StutterKeeps == IInv /\ UNCHANGED vars => IInv'
<1> SUFFICES ASSUME IInv, UNCHANGED vars PROVE IInv'
  OBVIOUS
<1>1. UNCHANGED <<peer, coming, socket, closed, phase, buf, taken, readable, eof, greeting, got>>
  BY DEF vars
<1>2. msgs' = msgs /\ Hello' = Hello /\ total_pieces' = total_pieces
  BY <1>1 DEF msgs, Hello, total_pieces
<1>3. Typed'
  BY <1>1 DEF IInv, Typed
<1>4. Decodes' /\ Buffered' /\ NoneLeft' /\ Accepted'
  BY <1>1, <1>2 DEF IInv, Decodes, Buffered, NoneLeft, Accepted
<1> QED
  BY <1>3, <1>4 DEF IInv

\* The invariant holds always.
LEMMA ConnectionInvariant == Spec => []IInv
<1>1. Init => IInv
  BY InvAtFirst
<1>2. IInv /\ [Next]_vars => IInv'
  BY ArriveKeeps, CloseKeeps, ConnectKeeps, TimeoutKeeps, ReadKeeps, IncompleteKeeps,
     HandshakeDoneKeeps, FirstMessageKeeps, NextMessageKeeps, DecodeFailsKeeps,
     NoneAfterErrorKeeps, LoopKeeps, StutterKeeps
     DEF Next, Poll, Over
<1> QED
  BY <1>1, <1>2, PTL DEF Spec

-----------------------------------------------------------------------------
(* What is_seed tells. *)

LEMMA BitIs ==
  ASSUME NEW bytes \in Bytes, NEW i \in Nat, i \div 8 < Len(bytes)
  PROVE  LET b == bytes[(i \div 8) + 1]
         IN  /\ (i \div 8) + 1 \in 1..Len(bytes) /\ b \in Byte
             /\ Bit(bytes, i) \in {0, 1}
             /\ b = 255 => Bit(bytes, i) = 1
<1> DEFINE q == i \div 8
           r == i % 8
           b == bytes[q + 1]
           z == Place[r + 1]
<1>1. q \in Nat /\ r \in 0..7
  BY SMT
<1>2. Len(bytes) \in Nat /\ \A j \in 1..Len(bytes) : bytes[j] \in Byte
  BY DEF Bytes
<1>3. q + 1 \in 1..Len(bytes) /\ b \in Byte
  BY <1>1, <1>2
<1>4. z \in {128, 64, 32, 16, 8, 4, 2, 1}
  BY <1>1 DEF Place
<1>5. Bit(bytes, i) = (b \div z) % 2
  BY DEF Bit
<1> HIDE DEF b, z
<1>6. b \in 0..255
  BY <1>3 DEF Byte
<1>7. (b \div z) % 2 \in {0, 1} /\ (b = 255 => (b \div z) % 2 = 1)
  <2>1. CASE z = 128
    BY <1>6, <2>1, SMT
  <2>2. CASE z = 64
    BY <1>6, <2>2, SMT
  <2>3. CASE z = 32
    BY <1>6, <2>3, SMT
  <2>4. CASE z = 16
    BY <1>6, <2>4, SMT
  <2>5. CASE z = 8
    BY <1>6, <2>5, SMT
  <2>6. CASE z = 4
    BY <1>6, <2>6, SMT
  <2>7. CASE z = 2
    BY <1>6, <2>7, SMT
  <2>8. CASE z = 1
    BY <1>6, <2>8, SMT
  <2> QED
    BY <1>4, <2>1, <2>2, <2>3, <2>4, <2>5, <2>6, <2>7, <2>8
<1> QED
  BY <1>3, <1>5, <1>7 DEF b

\* A bitfield that passes has every piece, whatever its length.
LEMMA SeedHasAll ==
  ASSUME NEW total \in Nat, NEW bytes \in Bytes, is_seed(total, bytes) = "yes"
  PROVE  \A i \in 0..(total - 1) : i \div 8 < Len(bytes) /\ Bit(bytes, i) = 1
<1> DEFINE L == Len(bytes)
<1>1. L \in Nat
  BY DEF Bytes
<1>2. /\ ~(\E i \in 1..(L - 1) : bytes[i] # 255)
      /\ ~(\E i \in (8 * (L - 1))..(total - 1) : i < 8 * L /\ Bit(bytes, i) = 0)
      /\ ~(total > 8 * L)
  BY DEF is_seed
<1> HIDE DEF L
<1>3. TAKE i \in 0..(total - 1)
<1>4. i \in Nat /\ i \in Int /\ i < 8 * L
  BY <1>1, <1>2
<1>5. i \div 8 < L /\ i \div 8 \in Nat
  BY <1>1, <1>4, SMT
<1>6. /\ (i \div 8) + 1 \in 1..L
      /\ Bit(bytes, i) \in {0, 1}
      /\ bytes[(i \div 8) + 1] = 255 => Bit(bytes, i) = 1
  BY <1>4, <1>5, BitIs DEF L
<1>7. CASE i < 8 * (L - 1)
  <2>1. (i \div 8) + 1 \in 1..(L - 1)
    BY <1>1, <1>4, <1>7, SMT
  <2> QED
    BY <1>2, <1>5, <1>6, <2>1 DEF L
<1>8. CASE ~(i < 8 * (L - 1))
  <2>1. i \in (8 * (L - 1))..(total - 1)
    BY <1>1, <1>4, <1>8
  <2> QED
    BY <1>2, <1>4, <1>5, <1>6, <2>1 DEF L
<1> QED
  BY <1>5, <1>7, <1>8 DEF L

\* Of a bitfield of the right length, is_seed says yes exactly if all its pieces are
\* there, whatever its padding: the loop over the last byte stops where the pieces do
\* (bitfield.rs:3-21).
THEOREM IsSeedExact ==
  ASSUME NEW total \in Nat \ {0}, NEW bytes \in Bytes, Len(bytes) = (total + 7) \div 8
  PROVE  is_seed(total, bytes) = "yes" <=> \A i \in 0..(total - 1) : Bit(bytes, i) = 1
<1> DEFINE L == Len(bytes)
<1>1. L \in Nat /\ L >= 1 /\ 8 * (L - 1) <= total - 1 /\ total <= 8 * L
  BY SMT
<1>2. ASSUME is_seed(total, bytes) = "yes"
      PROVE  \A i \in 0..(total - 1) : Bit(bytes, i) = 1
  BY <1>2, SeedHasAll
<1>3. ASSUME \A i \in 0..(total - 1) : Bit(bytes, i) = 1
      PROVE  is_seed(total, bytes) = "yes"
  <2>1. bytes # <<>>
    BY <1>1 DEF Bytes
  <2>2. ASSUME NEW j \in 1..(L - 1) PROVE bytes[j] = 255
    <3> DEFINE b == bytes[j]
               at(p) == 8 * (j - 1) + p
    <3>1. b \in 0..255
      <4>1. j \in 1..L
        BY <1>1
      <4>2. \A n \in 1..L : bytes[n] \in Byte
        BY DEF Bytes
      <4> QED
        BY <4>1, <4>2 DEF Byte
    <3>2. ASSUME NEW p \in 0..7 PROVE (b \div Place[p + 1]) % 2 = 1
      <4>1. at(p) \in 0..(total - 1) /\ (at(p) \div 8) + 1 = j /\ (at(p) % 8) + 1 = p + 1
        BY <1>1, SMT
      <4>2. Bit(bytes, at(p)) = 1
        BY <1>3, <4>1
      <4> QED
        BY <4>1, <4>2 DEF Bit
    <3> HIDE DEF b
    <3>3. /\ (b \div Place[0 + 1]) % 2 = 1 /\ (b \div Place[1 + 1]) % 2 = 1
          /\ (b \div Place[2 + 1]) % 2 = 1 /\ (b \div Place[3 + 1]) % 2 = 1
          /\ (b \div Place[4 + 1]) % 2 = 1 /\ (b \div Place[5 + 1]) % 2 = 1
          /\ (b \div Place[6 + 1]) % 2 = 1 /\ (b \div Place[7 + 1]) % 2 = 1
      BY <3>2
    <3>4. /\ Place[0 + 1] = 128 /\ Place[1 + 1] = 64 /\ Place[2 + 1] = 32 /\ Place[3 + 1] = 16
          /\ Place[4 + 1] = 8 /\ Place[5 + 1] = 4 /\ Place[6 + 1] = 2 /\ Place[7 + 1] = 1
      BY DEF Place
    <3>5. /\ (b \div 128) % 2 = 1 /\ (b \div 64) % 2 = 1 /\ (b \div 32) % 2 = 1
          /\ (b \div 16) % 2 = 1 /\ (b \div 8) % 2 = 1 /\ (b \div 4) % 2 = 1
          /\ (b \div 2) % 2 = 1 /\ (b \div 1) % 2 = 1
      BY <3>3, <3>4
    <3>6. b = 255
      BY ONLY <3>1, <3>5, SMT
    <3> QED
      BY <3>6 DEF b
  <2>3. \A i \in (8 * (L - 1))..(total - 1) : Bit(bytes, i) # 0
    <3>1. \A i \in (8 * (L - 1))..(total - 1) : i \in 0..(total - 1)
      BY <1>1
    <3> QED
      BY <1>3, <3>1
  <2> QED
    BY <1>1, <2>1, <2>2, <2>3 DEF is_seed
<1> QED
  BY <1>2, <1>3

-----------------------------------------------------------------------------
(* Theorems about every run of a connection. *)

\* The variables keep their types, and no byte is lost between the peer and the
\* read buffer (mod.rs:151-158).
THEOREM ConnectionTyped == Spec => []TypeOK
<1>1. IInv => TypeOK
  <2> SUFFICES ASSUME IInv PROVE TypeOK
    OBVIOUS
  <2>1. peer \in DOMAIN Peers /\ phase \in Phases /\ buf \in Seq(Byte)
        /\ closed \in BOOLEAN /\ readable \in BOOLEAN /\ eof \in BOOLEAN
    BY DEF IInv, Typed, Bytes
  <2>2. phase # "timeout" => taken + Len(socket) + Len(coming) = LenUpTo(msgs, Len(msgs))
    BY DEF IInv, Buffered
  <2>3. LenTo(Len(msgs)) = LenUpTo(msgs, Len(msgs))
    BY <2>1, PeerIs
  <2> QED
    BY <2>1, <2>2, <2>3 DEF TypeOK
<1> QED
  BY <1>1, ConnectionInvariant, PTL

\* However the bytes were cut, and across the change of codecs, the messages decoded
\* are the first ones that were sent (handshake.rs:49-63, peer_msg.rs:76-156).
THEOREM ConnectionDecodedAsSent == Spec => []DecodedAsSent
<1>1. IInv => DecodedAsSent
  <2> SUFFICES ASSUME IInv PROVE DecodedAsSent
    OBVIOUS
  <2>1. Known = KnownOf(msgs)
    BY PeerIs DEF IInv, Typed
  <2> QED
    BY <2>1 DEF IInv, Decodes, DecodedAsSent, Hello
<1> QED
  BY <1>1, ConnectionInvariant, PTL

\* A task waits for bytes, or has seen the end, only with every whole message decoded,
\* those that came together with the handshake included (peer_msg.rs:77-98,
\* mod.rs:156-158).
THEOREM ConnectionHoldsNothingBack == Spec => []NothingHeldBack
<1>1. IInv => NothingHeldBack
  <2> SUFFICES ASSUME IInv PROVE NothingHeldBack
    OBVIOUS
  <2>1. Known = KnownOf(msgs) /\ \A n : LenTo(n) = LenUpTo(msgs, n)
    BY PeerIs DEF IInv, Typed
  <2>2. Waiting \subseteq Greeting \cup Reading
    BY DEF Waiting, Greeting, Reading
  <2>3. ASSUME (phase \in Waiting /\ ~readable) \/ phase = "ended", NEW n \in 0..Known,
               LenTo(n) <= taken
        PROVE  greeting # <<>> /\ n <= Len(got)
    BY <2>1, <2>2, <2>3 DEF IInv, NoneLeft
  <2> QED
    BY <2>3 DEF NothingHeldBack
<1> QED
  BY <1>1, ConnectionInvariant, PTL

\* A peer that the download reads from has every piece (bitfield.rs:3-21,
\* mod.rs:162-167).
THEOREM ConnectionAcceptsSeeds == Spec => []AcceptedIsSeed
<1>1. IInv => AcceptedIsSeed
  <2> SUFFICES ASSUME IInv, phase \in Downloads
               PROVE  \A i \in 0..(total_pieces - 1) :
                          i \div 8 < Len(got[1].bytes) /\ Bit(got[1].bytes, i) = 1
    BY DEF AcceptedIsSeed, Downloads
  <2>1. Len(got) >= 1 /\ got[1].type = "Bitfield"
        /\ is_seed(total_pieces, got[1].bytes) = "yes"
    BY DEF IInv, Accepted
  <2>2. got \in Seq(Message) /\ total_pieces \in Nat
    BY PeerIs DEF IInv, Typed
  <2>3. got[1] \in Message
    BY <2>1, <2>2
  <2>4. got[1].bytes \in Bytes
    BY <2>1, <2>3, MessageIs DEF KeepAlive, Plain
  <2> QED
    BY <2>1, <2>2, <2>4, SeedHasAll
<1> QED
  BY <1>1, ConnectionInvariant, PTL

\* What is known to be sent, and what of it was returned: one message more.
LEMMA NextOfStream ==
  ASSUME IInv, phase \in Reading, decoded.out = "item",
         buf' = decoded.rest, got' = Append(got, decoded.item),
         UNCHANGED <<peer, coming, socket, closed, taken, readable, eof, greeting>>
  PROVE  LET messages == SubSeq(msgs, 1, Known)
         IN  Len(got) < Len(messages) /\ got' = Append(got, messages[Len(got) + 1])
<1>1. peer \in DOMAIN Peers /\ got \in Seq(Message)
  BY DEF IInv, Typed
<1>2. msgs \in Seq(Sends) /\ Known = KnownOf(msgs) /\ Known \in 0..Len(msgs)
  BY <1>1, PeerIs, KnownIs
<1>3. Len(got) < Known /\ decoded.item = msgs[Len(got) + 1]
  BY <1>2, MessageTaken
<1>4. Len(got) \in Nat /\ Len(msgs) \in Nat /\ Known \in Nat
  BY <1>1, <1>2
<1>5. Len(got) + 1 \in 1..Known
  BY <1>3, <1>4
<1>6. Len(SubSeq(msgs, 1, Known)) = Known
      /\ SubSeq(msgs, 1, Known)[Len(got) + 1] = msgs[Len(got) + 1]
  BY <1>2, <1>4, <1>5
<1> QED
  BY <1>3, <1>6

\* The connection to a peer that sends well-formed messages, any of them and with unknown
\* ones among them, implements the stream of messages that the download relies on, however
\* the bytes come (mod.rs:141-171, 252-298).
THEOREM ConnectionImplementsStream == Spec => ImplementsStream
<1> DEFINE told == SubSeq(msgs, 1, Known)
           is == CASE phase \in {"connect", "handshake", "bitfield"} -> "checked"
                   [] phase \in {"loop", "download"} -> "open"
                   [] phase \in {"left", "rejected", "timeout", "panicked"} -> "dropped"
                   [] OTHER -> phase
<1>1. Init => Promise!Init
  BY DEF Init, Promise!Init
<1>2. ASSUME IInv, [Next]_vars PROVE [Promise!Next]_Promise!vars
<2> USE DEF Promise!Next, Promise!Accept, Promise!Drop, Promise!Deliver, Promise!Error,
            Promise!None, Promise!Abandon, Promise!Advance
  <2>1. peer' = peer
    BY <1>2 DEF Next, Poll, vars, Arrive, Close, Connect, Timeout, Read, Incomplete,
                HandshakeDone, FirstMessage, NextMessage, DecodeFails, NoneAfterError, AskNext, KeepAliveDue,
                Leave, Over
  <2>2. told' = told
    BY <2>1 DEF msgs, Known
  <2> DEFINE next == Len(got) < Len(told) /\ got' = Append(got, told[Len(got) + 1])
  <2>3. \/ is' = is /\ got' = got
        \/ is = "checked" /\ is' = "dropped" /\ (got' = got \/ next)
        \/ is = "checked" /\ is' = "open" /\ next
        \/ is = "open" /\ is' = "open" /\ next
        \/ is = "open" /\ is' = "errored" /\ got' = got
        \/ is \in {"open", "errored"} /\ is' = "ended" /\ got' = got
        \/ is \in {"open", "errored"} /\ is' = "dropped" /\ got' = got
        \/ is = "open" /\ is' = "dropped" /\ next
    <3> HIDE DEF next
    <3>1. CASE UNCHANGED vars
      BY <3>1 DEF vars
    <3>2. CASE Arrive
      BY <3>2 DEF Arrive
    <3>3. CASE Close
      BY <3>3 DEF Close
    <3>4. CASE Connect
      BY <3>4 DEF Connect
    <3>5. CASE Timeout
      BY <3>5 DEF Timeout
    <3>6. CASE Read
      BY <3>6 DEF Read
    <3>7. CASE Incomplete
      <4>1. got' = got /\ phase \in Waiting
            /\ \/ phase' = phase
               \/ phase # "download" /\ phase' = "rejected"
               \/ phase = "download" /\ phase' \in {"ended", "errored"}
        BY <3>7 DEF Incomplete
      <4> QED
        BY <4>1 DEF Waiting
    <3>8. CASE HandshakeDone
      BY <3>8 DEF HandshakeDone
    <3>9. CASE FirstMessage
      <4>1. phase = "bitfield" /\ phase' \in {"loop", "rejected", "panicked"}
        BY <3>9, FirstMessageDoes
      <4>2. next
        BY <1>2, <3>9, FirstMessageDoes, NextOfStream DEF next
      <4> QED
        BY <4>1, <4>2
    <3>10. CASE NextMessage
      <4>1. phase = "download" /\ phase' \in {"loop", "panicked"}
        BY <3>10 DEF NextMessage
      <4>2. next
        BY <1>2, <3>10, NextOfStream DEF next, NextMessage, Reading
      <4> QED
        BY <4>1, <4>2
    <3>11. CASE DecodeFails
      <4>1. got' = got /\ phase \in {"bitfield", "download"}
            /\ phase' = IF phase = "bitfield" THEN "rejected" ELSE "errored"
        BY <1>2, <3>11, DecodeFailsDoes
      <4> QED
        BY <4>1
    <3>12. CASE NoneAfterError
      BY <3>12 DEF NoneAfterError
    <3>13. CASE AskNext \/ KeepAliveDue
      BY <3>13 DEF AskNext, KeepAliveDue
    <3>14. CASE Leave
      BY <3>14 DEF Leave
    <3> QED
      BY <1>2, <3>1, <3>2, <3>3, <3>4, <3>5, <3>6, <3>7, <3>8, <3>9, <3>10, <3>11, <3>12,
         <3>13, <3>14
         DEF Next, Poll, Over
  <2> QED
    BY <2>2, <2>3 DEF Promise!vars
<1>3. Spec => Init /\ [][Next]_vars
  BY PTL DEF Spec
<1> QED
  BY <1>1, <1>2, <1>3, ConnectionInvariant, PTL DEF ImplementsStream, Promise!Spec
=============================================================================
