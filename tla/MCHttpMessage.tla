---------------------------- MODULE MCHttpMessage ---------------------------
(* Messages for HttpMessage: every combination of a few first lines and of *)
(* up to three lines after it, an empty one among them; and every address  *)
(* of up to two components of up to three characters.                      *)
EXTENDS HttpMessage

MCKeys == {"Accept", "Host"}
MCValues == {<<"*/*">>, <<" ", "image/png">>}

Short(S, n) == UNION {[1..k -> S] : k \in 0..n}

Header(k, v) == [colon |-> "middle", key |-> k, value |-> v]
Bare(colon) == [colon |-> colon, key |-> "Host", value |-> <<>>]
Empty == Bare("empty")
Lines == {Header(k, v) : k \in MCKeys, v \in MCValues \cup {<<>>}}
           \cup {Bare("none"), Bare("first"), Empty}

Page == << <<"w", ".", "w">> >>

Message(s, m, u, v, l) ==
  [spaces |-> s, method |-> m, uri |-> u, version |-> v, lines |-> l]

ParseMessages ==
  {Message(s, m, Page, v, Append(l, Empty)) :
     s \in {1, 2, 3}, m \in {"GET", "HEAD", "PUT"}, v \in {"HTTP/1.1", "HTTP/1.0"},
     l \in Short(Lines, 2)}

PathMessages ==
  {Message(2, "GET", u, "HTTP/1.1", Append(l, Empty)) :
     u \in Short(Short(Chars, 3), 2),
     l \in {<<>>} \cup {<<Header("Accept", v)>> : v \in MCValues}}

MCMessages == ParseMessages \cup PathMessages

FewMessages ==
  {Message(2, "GET", << <<"w">> \o ext >>, "HTTP/1.1", <<Header("Accept", v), Empty>>) :
     ext \in {<<".", "w">>, <<".", ".">>, <<".", "w", "?", "w">>, <<>>, <<"?", "w", ".", "w">>},
     v \in MCValues}
=============================================================================
