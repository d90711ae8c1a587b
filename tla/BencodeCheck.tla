---------------------------- MODULE BencodeCheck ----------------------------
(***************************************************************************)
(* The two decoders of bencoded values on the same inputs: on anything     *)
(* that is typed token by token, and on encoded values with more behind    *)
(* them.  The decode command chooses between the decoders                  *)
(* (src/src/bencode/mod.rs:35-44), so that they should not differ.         *)
(***************************************************************************)
EXTENDS Bencode

CONSTANTS
    Tokens,     \* what is typed: short sequences of characters
    Encoding,   \* values that an input may begin with, and their encodings
    NoneEmpty,  \* those of them without an empty list or dictionary in them
    MaxTokens,  \* bound on the tokens typed
    MaxTyped    \* the same behind an encoded value

ASSUME TextAssumption ==
    /\ Tokens \subseteq Inputs
    /\ \A v \in DOMAIN Encoding : Encoding[v] \in Inputs /\ Encoding[v] # <<>>

-----------------------------------------------------------------------------
(* The format: e encodes an integer, a string, a list of values or a dictionary.  Of *)
(* a list or dictionary the rest without its first element is a value as well.       *)

IsInt(e, n) ==
    /\ At(e, 1, "i") /\ At(e, Len(e), "e")
    /\ AllDigits(e, SignEnd(e, 2), Len(e))
    /\ n = ToInt(e, 2, Len(e)) /\ FitsI64(n)

IsString(e, text) ==
    \E c \in DOMAIN e :
        /\ e[c] = ":" /\ AllDigits(e, 1, c)
        /\ ToUsize(e, 1, c) = Len(e) - c /\ Len(e) - c <= MaxUsize
        /\ text = Text(SubSeq(e, c + 1, Len(e)))

IsList(e, list) ==
    /\ list \in Seq(DOMAIN Encoding)
    /\ \/ list = <<>> /\ e = <<"l", "e">>
       \/ /\ list # <<>> /\ <<"List", Tail(list)>> \in DOMAIN Encoding
          /\ e = <<"l">> \o Encoding[Head(list)] \o Tail(Encoding[<<"List", Tail(list)>>])

Without(map, k) == [l \in DOMAIN map \ {k} |-> map[l]]

IsMap(e, map) ==
    /\ map = [k \in DOMAIN map |-> map[k]]
    /\ \A k \in DOMAIN map : map[k] \in DOMAIN Encoding
    /\ \/ map = <<>> /\ e = <<"d", "e">>
       \/ \E k \in DOMAIN map, c \in DOMAIN e :
             /\ IsString(SubSeq(e, 2, c), k)
             /\ <<"Map", Without(map, k)>> \in DOMAIN Encoding
             /\ e = <<"d">> \o SubSeq(e, 2, c) \o Encoding[map[k]]
                        \o Tail(Encoding[<<"Map", Without(map, k)>>])

ASSUME EncodingAssumption ==
    \A v \in DOMAIN Encoding :
        \/ v = <<"Int", v[2]>> /\ IsInt(Encoding[v], v[2])
        \/ v = <<"String", v[2]>> /\ IsString(Encoding[v], v[2])
        \/ v = <<"List", v[2]>> /\ IsList(Encoding[v], v[2])
        \/ v = <<"Map", v[2]>> /\ IsMap(Encoding[v], v[2])

\* What remains of a list or dictionary is empty or one of them.
ASSUME NoneEmptyAssumption ==
    \A v \in NoneEmpty \cap DOMAIN Encoding :
        /\ v[1] = "List" =>
              /\ v[2] # <<>> /\ v[2][1] \in NoneEmpty
              /\ Tail(v[2]) # <<>> => <<"List", Tail(v[2])>> \in NoneEmpty
        /\ v[1] = "Map" =>
              /\ v[2] # <<>>
              /\ \A k \in DOMAIN v[2] :
                    /\ v[2][k] \in NoneEmpty
                    /\ Without(v[2], k) # <<>> /\ <<"Map", Without(v[2], k)>> \in DOMAIN Encoding
                          => <<"Map", Without(v[2], k)>> \in NoneEmpty

VARIABLES
    input,
    value,      \* the value that the input begins with, or NoValue
    typed       \* how many tokens were typed behind it

vars == <<input, value, typed>>

NoValue == <<"None">>

Init ==
    /\ value \in DOMAIN Encoding \cup {NoValue}
    /\ input = IF value = NoValue THEN <<>> ELSE Encoding[value]
    /\ typed = 0

Type ==
    /\ typed < IF value = NoValue THEN MaxTokens ELSE MaxTyped
    /\ \E t \in Tokens : input' = input \o t
    /\ typed' = typed + 1
    /\ UNCHANGED value

Next == Type
Spec == Init /\ [][Next]_vars

-----------------------------------------------------------------------------

\* An empty list or dictionary among the characters from i up to j.
EmptyWithin(s, i, j) == \E k \in i..(j - 2) : s[k] \in {"l", "d"} /\ s[k + 1] = "e"

\* What two results for the part of s that begins at i have to do with each other.
Agree(s, i, plain_result, nom_result) ==
    CASE plain_result.out = "ok" -> nom_result = plain_result
      [] plain_result.out = "err" -> nom_result.out = "err"
      [] plain_result.out = "panic" ->
            nom_result.out = "ok" => EmptyWithin(s, i, nom_result.rest)

\* The decoders never return different things: what the plain one returns Ok the
\* other does too, with the same value and the same rest; what the other returns Ok
\* the plain one does, unless it read an empty list or dictionary, where the plain one
\* panics; and where the plain one returns an error the other does (plain.rs:11-66,
\* nom.rs:18-60; mod.rs:36-43).
DecodersAgree == Agree(input, 1, plain_decode(input), nom_decode(input))

\* An encoded value is decoded to itself, and what follows it is left alone, by both
\* (the tests' `unparsed'): no list ends early, no key is lost and no element taken
\* from what follows (plain.rs:30-63, nom.rs:36-60).
ValuesDecoded ==
    value # NoValue =>
        /\ nom_decode(input) = Ok(Len(Encoding[value]) + 1, value)
        /\ value \in NoneEmpty => plain_decode(input) = nom_decode(input)

\* What was decoded does not change when more input comes behind it, and all of that
\* is left (the tests' `unparsed'): a decoder never looks past the value it returns
\* (plain.rs:18-21, 28, nom.rs:36-37).
RestIgnored ==
    [][/\ plain_decode(input).out = "ok" => plain_decode(input') = plain_decode(input)
       /\ nom_decode(input).out = "ok" => nom_decode(input') = nom_decode(input)]_vars
=============================================================================
