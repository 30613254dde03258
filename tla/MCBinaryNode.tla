---------------------------- MODULE MCBinaryNode -----------------------------
(* Binary nodes on small instances: bytes of four values, strings and lists  *)
(* on both sides of every length class.                                      *)
EXTENDS BinaryNode

a == 97
Repeat(n) == [i \in 1..n |-> a]

Tags == {<<>>, Repeat(1), Repeat(3), Repeat(4)}

\* JIDs, what looks like one and is none, and plain strings.
Values == {<<>>, Repeat(4), <<AT>>, <<a, AT>>, <<AT, a>>, <<a, AT, a>>, <<a, AT, a, AT, a>>,
           <<a, SPACE, AT>>, Repeat(4) \o <<AT>> \o Repeat(31)}

Attrs == {<<>>} \cup [{<<a>>} -> Values] \cup [{<<>>, <<a, a>>, Repeat(4)} -> {<<>>, <<a, AT, a>>}]

Contents == {NoContent} \cup {Bytes(Repeat(n)) : n \in {0, 1, 4}}
                        \cup {Text(Repeat(n)) : n \in {0, 3, 31, 32, 33}}

Leaves == {Element(t, as, c) : t \in Tags, as \in Attrs, c \in Contents}

\* Up to six children, children of children, and one node as a content.
Small == {Element(<<a>>, <<>>, NoContent),
          Element(<<>>, [k \in {<<a>>} |-> <<a, AT>>], Text(<<a>>))}
Lists == UNION {[1..n -> Small] : n \in 0..4} \cup {[i \in 1..n |-> NoNode] : n \in 4..6}
Parents == {Element(<<a>>, as, Children(l)) : as \in {<<>>, [k \in {<<a>>} |-> <<a>>]}, l \in Lists}
Grandparents == {Element(<<a>>, <<>>, Children(<<p, p>>)) : p \in Parents}

Singles == {Element(<<a>>, <<>>, Single(n)) : n \in Small}

SomeNodes == Leaves \cup Parents \cup Grandparents \cup Singles

\* Tokens of the dictionaries, packed digits (with and without a filler), a name
\* that is repeated, JIDs without a user and as a content, empty lists.
Written(n, w) == [node |-> n, wire |-> w]
SomeForeign ==
    {Written(NoNode, <<LIST_EMPTY>>),
     Written(Element(Decimal(5), <<>>, NoContent), <<LIST_8, 1, 5>>),
     Written(Element(Decimal(120), <<>>, Text(<<49, 48, 49>>)),
             <<LIST_8, 2, 120, NIBBLE_8, 4, 2, 3>>),
     Written(Element(Decimal(15), <<>>, Text(<<49, 48, 49>>)), <<LIST_8, 2, 15, HEX_8, 3, 2, 3>>),
     Written(Element(Decimal(235), [k \in {DICT \o Decimal(236) \o <<58, 49>>} |-> Decimal(5)],
                     NoContent),
             <<LIST_8, 3, 235, 236, 1, JID_PAIR, LIST_EMPTY, 5>>),
     Written(Element(Decimal(5), [k \in {Decimal(6)} |-> Decimal(8)], NoContent),
             <<LIST_16, 1, 1, 5, 6, 7, 6, 8>>),
     Written(Element(Decimal(5), <<>>, Text(<<a, AT>> \o Decimal(6))),
             <<LIST_8, 2, 5, JID_PAIR, BINARY_8, 1, a, 6>>),
     Written(Element(Decimal(5), <<>>, Children(<<>>)), <<LIST_8, 2, 5, LIST_EMPTY>>),
     Written(Element(Decimal(5), <<>>, Children(<<NoNode>>)), <<LIST_8, 2, 5, LIST_8, 1, LIST_EMPTY>>)}
=============================================================================
