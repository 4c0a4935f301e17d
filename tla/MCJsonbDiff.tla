----------------------------- MODULE MCJsonbDiff -----------------------------
EXTENDS JsonbDiff

\* Documents by what they have under their keys.
Leaf(v) == LeafAt(<<>>, v)
Container(kind, of) ==
    LET under == UNION {{<<k>> \o q : q \in DOMAIN of[k]} : k \in DOMAIN of}
    IN  [p \in {<<>>} \cup under |-> IF p = <<>> THEN kind ELSE of[Head(p)][Tail(p)]]
Object(of) == Container("object", of)
Array(s)   == Container("array", [k \in Indices(Len(s)) |-> s[CHOOSE n \in DOMAIN s : PathIndices[n] = k]])

\* Documents that differ by a leaf, a key, a kind, a length and a depth.
MCDocs ==
    LET x == Leaf("1") y == Leaf("2^53") big == Leaf("2^53 + 1") huge == Leaf("2^64 + 1")
        A(d) == Object([k \in {"a"} |-> d])
        B(d) == Object([k \in {"b"} |-> d])
        AB(d, e) == Object([k \in {"a", "b"} |-> IF k = "a" THEN d ELSE e])
        none == Object([k \in {} |-> 0])
    IN  {x, none, Array(<<>>), Array(<<x>>), Array(<<x, y>>), Array(<<y, A(x)>>),
         A(x), A(y), AB(x, huge), AB(y, big), A(B(x)), AB(B(y), x), AB(AB(x, huge), y),
         A(Array(<<x>>)), A(Array(<<y>>)), AB(Array(<<x, y>>), huge), A(none), A(Leaf("1e400"))}

\* JavaScript has no 2^53 + 1; nobody but PostgreSQL has 2^64 + 1 or 1e400.
MCLeafValues == {"1", "2^53", "2^53 + 1", "1.8e19", "2^64 + 1", "1e400", "null"}
MCTooLarge   == {"1e400"}
MCAsSerde    == [v \in MCLeafValues |-> IF v = "2^64 + 1" THEN "1.8e19" ELSE v]
MCAsNumber   == [v \in MCLeafValues |-> CASE v = "2^53 + 1" -> "2^53" [] v = "1e400" -> "null"
                                          [] OTHER -> MCAsSerde[v]]

MCPathIndices == <<"0", "1", "2">>
==============================================================================
