----------------------------- MODULE MCBencode -----------------------------
(***************************************************************************)
(* Inputs for TLC: up to six tokens, complete values among them so that    *)
(* lists and dictionaries get elements, and values nested three deep.  The *)
(* integers are narrow, so that numbers of three digits can be too large.  *)
(***************************************************************************)
EXTENDS BencodeCheck, BencodeValues, TLC

MCTokens ==
    { <<"i">>, <<"e">>, <<"l">>, <<"d">>, <<":">>, <<"1">>, <<"-">>, <<"+">>,
      <<"0", ":">>, <<"1", ":", "e">>, <<"i", "2", "e">>,
      <<"1", ":", "xFF">> }

\* Of the bytes that occur, one is no UTF-8.
MCText(bytes) == [i \in DOMAIN bytes |-> IF bytes[i] = "xFF" THEN "xFFFD" ELSE bytes[i]]

Leaves == {<<"Int", 7>>, <<"Int", -3>>, <<"String", <<>>>>, <<"String", <<"e", "i">>>>}
Over(S) ==
    {<<"List", <<>>>>, <<"Map", <<>>>>}
        \cup {<<"List", <<a>>>> : a \in S} \cup {<<"List", <<a, b>>>> : a, b \in S}
        \cup {<<"Map", <<"l">> :> a>> : a \in S}
        \cup {<<"Map", (<<"l">> :> a) @@ (<<>> :> b)>> : a, b \in S}

\* All of the first two levels, and one of each kind of container around some of them.
Values ==
    Leaves \cup Over(Leaves)
        \cup Over({<<"List", <<>>>>, <<"Map", <<"l">> :> <<"Int", -3>>>>, <<"Int", 7>>})
MCEncoding == [v \in Values |-> Encode(v)]
MCNoneEmpty == {v \in Values : HasNoEmpty(v)}
=============================================================================
