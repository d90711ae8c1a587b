------------------------------ MODULE Bencode ------------------------------
(***************************************************************************)
(* The two decoders of bencoded values, src/src/bencode/plain.rs and       *)
(* src/src/bencode/nom.rs.  An input is a sequence of bytes, written as    *)
(* characters, and a slice of it is the position where it begins.  A value *)
(* is <<"Int", n>>, <<"String", text>>, <<"List", values>> or              *)
(* <<"Map", f>>.  A decoder returns where the rest of the input begins and *)
(* the value, or an error; the plain one may panic instead.                *)
(***************************************************************************)
EXTENDS Integers, Sequences

CONSTANTS
    MaxUsize,   \* the largest usize and u64
    MaxI64,     \* the largest i64
    Text(_)     \* the string that from_utf8_lossy makes of some bytes

ASSUME WidthAssumption == MaxUsize \in Nat /\ MaxI64 \in Nat

\* The inputs.
Inputs == Seq(STRING)

Digits == <<"0", "1", "2", "3", "4", "5", "6", "7", "8", "9">>
IsDigit(c) == \E d \in DOMAIN Digits : Digits[d] = c
DigitOf(c) == (CHOOSE d \in DOMAIN Digits : Digits[d] = c) - 1

Ok(rest, value) == [out |-> "ok", rest |-> rest, value |-> value]
Err == [out |-> "err"]
Panic == [out |-> "panic"]

\* An error ends the decoder that met it (`?'); what was read goes into `value'.
Then(r, value) == IF r.out = "ok" THEN Ok(r.rest, value) ELSE r

At(s, i, c) == i \in DOMAIN s /\ s[i] = c

\* Where c is first, from i on; 0 if it is nowhere.
Position(s, i, c) ==
    LET at == {k \in i..Len(s) : s[k] = c}
    IN  IF at = {} THEN 0 ELSE CHOOSE k \in at : \A j \in at : k <= j

\* The characters from i up to j: are they a number, and which.
AllDigits(s, i, j) == i < j /\ \A k \in i..(j - 1) : IsDigit(s[k])
Number(digits) ==
    LET value[n \in 0..Len(digits)] ==
            IF n = 0 THEN 0 ELSE 10 * value[n - 1] + DigitOf(digits[n])
    IN  value[Len(digits)]
ToUsize(s, i, j) == Number(SubSeq(s, i, j - 1))

\* The same with a sign of either kind, or without one.
SignEnd(s, i) == IF At(s, i, "-") \/ At(s, i, "+") THEN i + 1 ELSE i
ToInt(s, i, j) ==
    LET n == ToUsize(s, SignEnd(s, i), j) IN IF At(s, i, "-") THEN -n ELSE n
FitsI64(n) == -MaxI64 - 1 <= n /\ n <= MaxI64

\* What a decoder is at: a value, or the elements or pairs that are left of a list or
\* dictionary.
Spots(s) == (1..(Len(s) + 1)) \X {"value", "list", "dict"}

-----------------------------------------------------------------------------
(* plain.rs *)

plain_string(s, i) ==
    LET colon_pos == Position(s, i, ":")
        len == ToUsize(s, i, colon_pos)
    IN  IF colon_pos = 0 \/ ~AllDigits(s, i, colon_pos) \/ len > MaxUsize THEN Err
        ELSE IF colon_pos + len > Len(s) THEN Panic
        ELSE Ok(colon_pos + len + 1, <<"String", Text(SubSeq(s, colon_pos + 1, colon_pos + len))>>)

\* Mutant: the 'e' stays in the input.
PlainIntKeepsEnd(s, i) ==
    LET end_pos == Position(s, i, "e")
        num == ToInt(s, i + 1, end_pos)
    IN  IF end_pos = 0 \/ ~AllDigits(s, SignEnd(s, i + 1), end_pos) \/ ~FitsI64(num) THEN Err
        ELSE Ok(end_pos, <<"Int", num>>)

plain_int(s, i) ==
    LET end_pos == Position(s, i, "e")
        num == ToInt(s, i + 1, end_pos)
    IN  IF end_pos = 0 \/ ~AllDigits(s, SignEnd(s, i + 1), end_pos) \/ ~FitsI64(num) THEN Err
        ELSE Ok(end_pos + 1, <<"Int", num>>)

\* The loop of a list: an element, then the end or another element.
plain_list(s, decode, i) ==
    LET elem == decode[<<i, "value">>]
        more == decode[<<elem.rest, "list">>]
    IN  IF elem.out # "ok" THEN elem
        ELSE IF At(s, elem.rest, "e") THEN Ok(elem.rest + 1, <<elem.value>>)
        ELSE Then(more, <<elem.value>> \o more.value)

\* A pair that is inserted before those of `map': of two with the same key the one
\* that comes last stays.
Under(map, key, val) ==
    [k \in DOMAIN map \cup {key} |-> IF k \in DOMAIN map THEN map[k] ELSE val]

plain_dict(s, decode, i) ==
    LET key == decode[<<i, "value">>]
        val == decode[<<key.rest, "value">>]
        more == decode[<<val.rest, "dict">>]
    IN  IF key.out # "ok" THEN key
        ELSE IF key.value[1] # "String" THEN Panic
        ELSE IF val.out # "ok" THEN val
        ELSE IF At(s, val.rest, "e") THEN Ok(val.rest + 1, Under(<<>>, key.value[2], val.value))
        ELSE Then(more, Under(more.value, key.value[2], val.value))

\* The last arm is `todo!()': a list or dictionary without elements comes to it, for
\* its 'e' is taken for the first one.
plain_value(s, decode, i) ==
    LET list == decode[<<i + 1, "list">>]
        dict == decode[<<i + 1, "dict">>]
    IN  IF i > Len(s) THEN Err
        ELSE CASE IsDigit(s[i]) -> plain_string(s, i)
               [] s[i] = "i" -> plain_int(s, i)
               [] s[i] = "l" -> Then(list, <<"List", list.value>>)
               [] s[i] = "d" -> Then(dict, <<"Map", dict.value>>)
               [] OTHER -> Panic

plain_at(s, decode, p) ==
    CASE p[2] = "value" -> plain_value(s, decode, p[1])
      [] p[2] = "list" -> plain_list(s, decode, p[1])
      [] p[2] = "dict" -> plain_dict(s, decode, p[1])

plain(s) == LET decode[p \in Spots(s)] == plain_at(s, decode, p) IN decode
plain_decode(s) == plain(s)[<<1, "value">>]

-----------------------------------------------------------------------------
(* nom.rs.  No parser uses `cut', so an error is always one that `alt', `many0' *)
(* and `fold_many0' recover from.                                              *)

\* digit1: where the digits that begin at i end.
DigitsEnd(s, i) ==
    LET ends == {k \in i..Len(s) : ~IsDigit(s[k])}
    IN  IF ends = {} THEN Len(s) + 1 ELSE CHOOSE k \in ends : \A j \in ends : k <= j

\* Mutant: a string that is not all there yet is taken as far as it goes.
NomStringShort(s, i) ==
    LET colon == DigitsEnd(s, i)
        len == ToUsize(s, i, colon)
        end == IF colon + len > Len(s) THEN Len(s) ELSE colon + len
    IN  IF colon = i \/ ~At(s, colon, ":") \/ len > MaxUsize THEN Err
        ELSE Ok(end + 1, <<"String", Text(SubSeq(s, colon + 1, end))>>)

nom_string(s, i) ==
    LET colon == DigitsEnd(s, i)
        len == ToUsize(s, i, colon)
    IN  IF colon = i \/ ~At(s, colon, ":") \/ len > MaxUsize \/ colon + len > Len(s) THEN Err
        ELSE Ok(colon + len + 1, <<"String", Text(SubSeq(s, colon + 1, colon + len))>>)

nom_integer(s, i) ==
    LET first == SignEnd(s, i + 1)
        end == DigitsEnd(s, first)
        num == ToInt(s, i + 1, end)
    IN  IF ~At(s, i, "i") \/ end = first \/ ~FitsI64(num) \/ ~At(s, end, "e") THEN Err
        ELSE Ok(end + 1, <<"Int", num>>)

\* Mutant: at least one more element, as with many1.
NomListSome(s, decode, i) ==
    LET elem == decode[<<i, "value">>]
        more == decode[<<elem.rest, "list">>]
    IN  IF elem.out = "ok"
        THEN IF At(s, elem.rest, "e") THEN Ok(elem.rest + 1, <<elem.value>>)
             ELSE Then(more, <<elem.value>> \o more.value)
        ELSE Err

\* many0 takes elements as long as there are any; then the list must end.
nom_list(s, decode, i) ==
    LET elem == decode[<<i, "value">>]
        more == decode[<<elem.rest, "list">>]
    IN  IF elem.out = "ok" THEN Then(more, <<elem.value>> \o more.value)
        ELSE IF At(s, i, "e") THEN Ok(i + 1, <<>>) ELSE Err

nom_dict(s, decode, i) ==
    LET key == nom_string(s, i)
        val == decode[<<key.rest, "value">>]
        more == decode[<<val.rest, "dict">>]
    IN  IF key.out = "ok" /\ val.out = "ok"
        THEN Then(more, Under(more.value, key.value[2], val.value))
        ELSE IF At(s, i, "e") THEN Ok(i + 1, <<>>) ELSE Err

\* alt: the four parsers begin with different characters.
nom_value(s, decode, i) ==
    LET list == decode[<<i + 1, "list">>]
        dict == decode[<<i + 1, "dict">>]
    IN  IF i > Len(s) THEN Err
        ELSE CASE s[i] = "i" -> nom_integer(s, i)
               [] IsDigit(s[i]) -> nom_string(s, i)
               [] s[i] = "l" -> Then(list, <<"List", list.value>>)
               [] s[i] = "d" -> Then(dict, <<"Map", dict.value>>)
               [] OTHER -> Err

nom_at(s, decode, p) ==
    CASE p[2] = "value" -> nom_value(s, decode, p[1])
      [] p[2] = "list" -> nom_list(s, decode, p[1])
      [] p[2] = "dict" -> nom_dict(s, decode, p[1])

nom(s) == LET decode[p \in Spots(s)] == nom_at(s, decode, p) IN decode
nom_decode(s) == nom(s)[<<1, "value">>]
=============================================================================
