--------------------------- MODULE BencodeValues ---------------------------
(***************************************************************************)
(* Bencoded values and their encodings, for which src/ has serde_bencode.  *)
(***************************************************************************)
EXTENDS Bencode

RECURSIVE Encode(_)
RECURSIVE EncodeAll(_)
RECURSIVE EncodeMap(_, _)
EncodeAll(list) == IF list = <<>> THEN <<>> ELSE Encode(Head(list)) \o EncodeAll(Tail(list))
EncodeMap(f, keys) ==
    IF keys = {} THEN <<>>
    ELSE LET k == CHOOSE k \in keys : TRUE
         IN  Encode(<<"String", k>>) \o Encode(f[k]) \o EncodeMap(f, keys \ {k})
Encode(v) ==
    CASE v[1] = "Int" ->
            <<"i">> \o (IF v[2] < 0 THEN <<"-", Digits[1 - v[2]]>> ELSE <<Digits[v[2] + 1]>>) \o <<"e">>
      [] v[1] = "String" -> <<Digits[Len(v[2]) + 1], ":">> \o v[2]
      [] v[1] = "List" -> <<"l">> \o EncodeAll(v[2]) \o <<"e">>
      [] v[1] = "Map" -> <<"d">> \o EncodeMap(v[2], DOMAIN v[2]) \o <<"e">>

\* Is there neither an empty list nor an empty dictionary in v?
RECURSIVE HasNoEmpty(_)
HasNoEmpty(v) ==
    CASE v[1] = "List" -> v[2] # <<>> /\ \A i \in DOMAIN v[2] : HasNoEmpty(v[2][i])
      [] v[1] = "Map" -> DOMAIN v[2] # {} /\ \A k \in DOMAIN v[2] : HasNoEmpty(v[2][k])
      [] OTHER -> TRUE
=============================================================================
