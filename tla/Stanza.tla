------------------------------- MODULE Stanza --------------------------------
(***************************************************************************)
(* Stanzas as trees (src/WABinary/types.ts) and how the handlers look into *)
(* them (src/WABinary/index.ts).  A node has a tag, attributes (a function *)
(* from names to values) and a content.  What JavaScript calls undefined   *)
(* is the empty string here: no reader of an attribute tells them apart.   *)
(***************************************************************************)
EXTENDS Naturals, Sequences

NoContent == [kind |-> "none"]
Text(s) == [kind |-> "text", bytes |-> s]
Bytes(s) == [kind |-> "bytes", bytes |-> s]
Children(nodes) == [kind |-> "list", nodes |-> nodes]
Single(node) == [kind |-> "node", node |-> node]

Element(tag, attrs, content) == [tag |-> tag, attrs |-> attrs, content |-> content]

getBinaryNodeAttr(node, name) == IF name \in DOMAIN node.attrs THEN node.attrs[name] ELSE ""

\* getBinaryNodeChildren without a tag; a text or a single node has none.
ChildrenOf(node) == IF node.content.kind = "list" THEN node.content.nodes ELSE <<>>

getBinaryNodeChildren(node, childTag) ==
    SelectSeq(ChildrenOf(node), LAMBDA child : child.tag = childTag)

\* The first child with the tag.  No node has no attributes.
getBinaryNodeChild(node, childTag) ==
    LET found == getBinaryNodeChildren(node, childTag)
    IN IF found = <<>> THEN Element("", <<>>, NoContent) ELSE Head(found)

HasChild(node, childTag) == getBinaryNodeChildren(node, childTag) # <<>>

\* Bound: the nodes of a stanza.
MaxNodes == 40

\* The walk of a tree in the order of the document: the nodes it went past in at
\* most MaxNodes steps, and those it has still to look at.
Walk(node) ==
    LET after[steps \in Nat] ==
          IF steps = 0 THEN [done |-> <<>>, todo |-> <<node>>]
          ELSE LET w == after[steps - 1]
               IN IF w.todo = <<>> THEN w
                  ELSE [done |-> Append(w.done, Head(w.todo)),
                        todo |-> ChildrenOf(Head(w.todo)) \o Tail(w.todo)]
    IN after[MaxNodes]

\* A node and all nodes below it.
Descendants(node) == Walk(node).done

------------------------------------------------------------------------------
(* Strings.                                                                  *)

\* The operator || on strings.
Or(a, b) == IF a # "" THEN a ELSE b

Chars(s) == [i \in 1..Len(s) |-> SubSeq(s, i, i)]

Includes(s, part) == \E i \in 1..(Len(s) - Len(part) + 1) : SubSeq(s, i, i + Len(part) - 1) = part
=============================================================================
