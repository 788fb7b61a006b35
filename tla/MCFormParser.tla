----------------------------- MODULE MCFormParser -----------------------------
(* The bodies for TLC: all short ones over the characters the parser and the *)
(* two conversions tell apart, and forms of two fields.                      *)
EXTENDS FormParser

MCChars == {"&", "=", "%", "+", "0", "2", QUOTE}
Plain   == MCChars \ {"&", "="}
Keys    == {<<"0">>, <<"2">>}

MCBodies ==
  BoundedSeq(MCChars, 4)
    \union {k \o <<"=">> \o v \o <<"&">> \o l \o <<"=">> \o w :
              k \in Keys, l \in Keys,
              v \in BoundedSeq(Plain, 4), w \in BoundedSeq(Plain, 1)}
    \union {k \o <<"=">> \o v : k \in Keys, v \in BoundedSeq({"%", "2", QUOTE}, 5)}

\* Nothing, a value that goes on, and a pair that is closed after all and one more.
MCSurplus == {<<>>, <<"0">>, <<"&", "0", "=", "0">>}

MCKey == <<"0">>
MCBad == <<"2">>
==============================================================================
