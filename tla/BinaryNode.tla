----------------------------- MODULE BinaryNode ------------------------------
(***************************************************************************)
(* The binary XML of the stanzas (src/WABinary/encode.ts and decode.ts):   *)
(* the encoder, the reader of the decoder, and a peer that encodes a node, *)
(* a connection that may deliver only the beginning of it, and a client    *)
(* that decodes what it was given.                                         *)
(*                                                                         *)
(* A stanza is a sequence of bytes, and so is a string.  So that the       *)
(* limits of the length classes are within reach, a byte has Half * Half   *)
(* values (256 in the code) and half a byte Half values (16): tags and     *)
(* letters keep their numbers, lengths and counts use the small bytes.     *)
(*                                                                         *)
(* A text is written as bytes are, and comes back as bytes.  A content     *)
(* that is one node and no list of them, which the type allows and the     *)
(* builders of src/Protocol/iq.ts use, is not written as a node.           *)
(***************************************************************************)
EXTENDS Integers, Sequences, SequencesExt, FiniteSets, Stanza

CONSTANTS Half,     \* values of half a byte, 16
          Nodes,    \* what the peer may send with this encoder
          Foreign   \* nodes and how a peer with another encoder writes them

ASSUME BinaryAssumption == Half \in Nat \ {0, 1}

VARIABLES node,     \* what the stanza says
          full,     \* the stanza as the peer wrote it
          wire,     \* the bytes the client was given
          decoded   \* what decodeBinaryNode returned or threw

vars == <<node, full, wire, decoded>>

Byte == Half * Half

LIST_EMPTY == 0
DICTIONARIES == 236..239
LIST_8 == 248
LIST_16 == 249
JID_PAIR == 250
HEX_8 == 251
BINARY_8 == 252
BINARY_20 == 253
BINARY_32 == 254
NIBBLE_8 == 255
BINARIES == {BINARY_8, BINARY_20, BINARY_32}
LISTS == {LIST_EMPTY, LIST_8, LIST_16}

AT == 64      \* the character "@"
SPACE == 32

\* Strings are sequences of bytes here.
NoNode == Element(<<>>, <<>>, NoContent)

\* "[object Object]", what String() makes of an object.
OBJECT == <<91, 111, 98, 106, 101, 99, 116, 32, 79, 98, 106, 101, 99, 116, 93>>

------------------------------------------------------------------------------
(* encode.ts                                                                 *)

Int16(n) == <<(n \div Byte) % Byte, n % Byte>>
Int20(n) == <<(n \div (Byte * Byte)) % Half>> \o Int16(n)
Int32(n) == Int16(n \div (Byte * Byte)) \o Int16(n)

\* Mutant: a string of the largest short length and one more.
WriteStringOff(s) ==
    LET n == Len(s)
    IN (CASE n <= Byte -> <<BINARY_8, n % Byte>>
          [] n > Byte /\ n < Half * Byte * Byte -> <<BINARY_20>> \o Int20(n)
          [] OTHER -> <<BINARY_32>> \o Int32(n)) \o s

\* writeString and writeBinary.
WriteString(s) ==
    LET n == Len(s)
    IN (CASE n < Byte -> <<BINARY_8, n>>
          [] n >= Byte /\ n < Half * Byte * Byte -> <<BINARY_20>> \o Int20(n)
          [] OTHER -> <<BINARY_32>> \o Int32(n)) \o s

\* A value that looks like a JID is split at its first "@", if a user is before it.
WriteJid(s) ==
    LET at == SelectInSeq(s, LAMBDA c : c = AT)
    IN IF at > 1 THEN <<JID_PAIR>> \o WriteString(SubSeq(s, 1, at - 1))
                                   \o WriteString(SubSeq(s, at + 1, Len(s)))
                 ELSE WriteString(s)

IsJidLike(s) == Contains(s, AT) /\ ~Contains(s, SPACE)

WriteValue(s) == IF IsJidLike(s) THEN WriteJid(s) ELSE WriteString(s)

WriteListStart(n) == CASE n = 0 -> <<LIST_EMPTY>>
                       [] n > 0 /\ n < Byte -> <<LIST_8, n>>
                       [] OTHER -> <<LIST_16>> \o Int16(n)

ListSize(n) == 1 + 2 * Cardinality(DOMAIN n.attrs) + (IF n.content = NoContent THEN 0 ELSE 1)

RECURSIVE EncodeBinaryNode(_)

WriteContent(c) ==
    CASE c.kind = "none" -> <<>>
      [] c.kind = "list" -> WriteListStart(Len(c.nodes))
                              \o FlattenSeq([i \in DOMAIN c.nodes |-> EncodeBinaryNode(c.nodes[i])])
      [] c.kind = "node" -> WriteString(OBJECT)
      [] OTHER -> WriteString(c.bytes)

\* writeNode.  Object.keys has an order of its own; any will do.
EncodeBinaryNode(n) ==
    LET keys == SetToSeq(DOMAIN n.attrs)
    IN WriteListStart(ListSize(n)) \o WriteString(n.tag)
         \o FlattenSeq([i \in DOMAIN keys |-> WriteString(keys[i]) \o WriteValue(n.attrs[keys[i]])])
         \o WriteContent(n.content)

------------------------------------------------------------------------------
(* decode.ts.  A reader is what is left of the bytes; reading returns a      *)
(* value and the rest, or throws.                                            *)

Throws == [ok |-> FALSE]
Read(value, rest) == [ok |-> TRUE, value |-> value, rest |-> rest]

\* The statements that follow a read.
Then(read, Continue(_, _)) == IF read.ok THEN Continue(read.value, read.rest) ELSE Throws

\* Mutant: readBytes without its check returns what there is.
ReadBytesUnchecked(n, in) ==
    LET m == IF n > Len(in) THEN Len(in) ELSE n
    IN Read(SubSeq(in, 1, m), SubSeq(in, m + 1, Len(in)))

ReadBytes(n, in) ==
    IF n > Len(in) THEN Throws ELSE Read(SubSeq(in, 1, n), SubSeq(in, n + 1, Len(in)))

ReadByte(in) == IF in = <<>> THEN Throws ELSE Read(Head(in), Tail(in))

\* readInt16, readInt20 and readInt32, for the number of bytes.
ReadInt(n, in) ==
    LET first(b) == IF n = 3 THEN b % Half ELSE b
    IN IF n > Len(in) THEN Throws
       ELSE Read(FoldLeft(LAMBDA value, b : value * Byte + b, first(in[1]), SubSeq(in, 2, n)),
                 SubSeq(in, n + 1, Len(in)))

ReadListSize(tag, in) == CASE tag = LIST_EMPTY -> Read(0, in)
                           [] tag = LIST_8 -> ReadByte(in)
                           [] tag = LIST_16 -> ReadInt(2, in)
                           [] OTHER -> Throws

\* readBinary.
ReadBinary(tag, in) ==
    Then(CASE tag = BINARY_8 -> ReadByte(in)
           [] tag = BINARY_20 -> ReadInt(3, in)
           [] tag = BINARY_32 -> ReadInt(4, in)
           [] OTHER -> Throws,
         LAMBDA n, rest : ReadBytes(n, rest))

\* The characters of a number, and of a half byte.
Decimal(n) == IF n < 10 THEN <<48 + n>>
              ELSE IF n < 100 THEN <<48 + (n \div 10), 48 + (n % 10)>>
              ELSE <<48 + (n \div 100), 48 + ((n \div 10) % 10), 48 + (n % 10)>>
HexChar(h) == IF h < 10 THEN 48 + h ELSE 55 + h

\* Packed digits: two in a byte, the filler after an odd number of them.
ReadPacked(in) ==
    Then(ReadByte(in), LAMBDA size, rest :
      Then(ReadBytes((size + 1) \div 2, rest), LAMBDA raw, after :
        Read(FlattenSeq([i \in DOMAIN raw |->
               <<HexChar((raw[i] \div Half) % Half)>> \o
               (IF 2 * i <= size /\ raw[i] % Half # Half - 1
                THEN <<HexChar(raw[i] % Half)>> ELSE <<>>)]), after)))

DICT == <<100, 105, 99, 116, 58>>    \* "dict:"

RECURSIVE ReadStringFromToken(_, _)

ReadString(in) == Then(ReadByte(in), LAMBDA tag, rest : ReadStringFromToken(tag, rest))

\* Dictionaries are not known: a token stands for its number.
ReadStringFromToken(tag, in) ==
    CASE tag = LIST_EMPTY -> Read(<<>>, in)
      [] tag \in BINARIES -> ReadBinary(tag, in)
      [] tag = JID_PAIR ->
           Then(ReadString(in), LAMBDA user, rest :
             Then(ReadString(rest), LAMBDA server, after :
               Read(IF user = <<>> THEN server ELSE user \o <<AT>> \o server, after)))
      [] tag \in {NIBBLE_8, HEX_8} -> ReadPacked(in)
      [] tag \in 3..235 -> Read(Decimal(tag), in)
      [] tag \in DICTIONARIES ->
           Then(ReadByte(in), LAMBDA index, rest :
             Read(DICT \o Decimal(tag) \o <<58>> \o Decimal(index), rest))
      [] OTHER -> Throws

\* A name that comes again replaces the value it had.
RECURSIVE ReadAttrs(_, _, _)
ReadAttrs(count, attrs, in) ==
    IF count = 0 THEN Read(attrs, in)
    ELSE Then(ReadString(in), LAMBDA key, rest :
           Then(ReadString(rest), LAMBDA value, after :
             ReadAttrs(count - 1, [k \in DOMAIN attrs \cup {key} |->
                                     IF k = key THEN value ELSE attrs[k]], after)))

RECURSIVE ReadNode(_), ReadNodes(_, _, _)

ReadNodes(count, nodes, in) ==
    IF count = 0 THEN Read(nodes, in)
    ELSE Then(ReadNode(in), LAMBDA n, rest : ReadNodes(count - 1, Append(nodes, n), rest))

\* Tag, pairs of attributes, and then a content if the number is even.
HasContent(size) == size % 2 = 0

ReadContent(size, in) ==
    IF ~HasContent(size) THEN Read(NoContent, in)
    ELSE Then(ReadByte(in), LAMBDA tag, rest :
           CASE tag \in LISTS ->
                  Then(ReadListSize(tag, rest), LAMBDA count, after :
                    Then(ReadNodes(count, <<>>, after), LAMBDA nodes, end :
                      Read(Children(nodes), end)))
             [] tag \in BINARIES ->
                  Then(ReadBinary(tag, rest), LAMBDA s, after : Read(Bytes(s), after))
             [] OTHER ->
                  Then(ReadStringFromToken(tag, rest), LAMBDA s, after : Read(Text(s), after)))

ReadNode(in) ==
    Then(ReadByte(in), LAMBDA listTag, r1 :
      Then(ReadListSize(listTag, r1), LAMBDA size, r2 :
        IF size = 0 THEN Read(NoNode, r2)
        ELSE Then(ReadString(r2), LAMBDA tag, r3 :
               Then(ReadAttrs((size - 1) \div 2, <<>>, r3), LAMBDA attrs, r4 :
                 Then(ReadContent(size, r4), LAMBDA content, r5 :
                   Read(Element(tag, attrs, content), r5))))))

\* What follows the node is ignored.
DecodeBinaryNode(in) == Then(ReadNode(in), LAMBDA n, rest : Read(n, <<>>))

------------------------------------------------------------------------------
(* A stanza on its way.                                                      *)

\* What a reader is to find: a text that was written comes back as bytes.
RECURSIVE AsRead(_)
AsRead(n) ==
    [n EXCEPT !.content =
        CASE @.kind = "text" -> Bytes(@.bytes)
          [] @.kind = "list" -> Children([i \in DOMAIN @.nodes |-> AsRead(@.nodes[i])])
          [] OTHER -> @]

Init == /\ \/ \E n \in Nodes : node = AsRead(n) /\ full = EncodeBinaryNode(n)
           \/ \E f \in Foreign : node = f.node /\ full = f.wire
        /\ wire = <<>> /\ decoded = Throws

\* The client is given the stanza, or the beginning of it.
Receive(n) ==
    /\ wire = <<>> /\ wire' = SubSeq(full, 1, n)
    /\ decoded' = DecodeBinaryNode(SubSeq(full, 1, n))
    /\ UNCHANGED <<node, full>>

Next == \E n \in 1..Len(full) : Receive(n)

Spec == Init /\ [][Next]_vars

------------------------------------------------------------------------------
(* Properties.                                                               *)

\* No content in the tree is one node instead of a list.
OnlyLists(n) == \A i \in DOMAIN Descendants(n) : Descendants(n)[i].content.kind # "node"

\* decode.ts:3, "Compatible with the KaguneX encoder and typical WA list/string/binary
\* tokens": a stanza is decoded to the node it was made of, at every limit of the
\* length classes, for every value that looks like a JID or nearly so, at every depth.
\* Excepted is a content that is one node: the encoder does not write it.
RoundTrip == wire = full /\ OnlyLists(node) => decoded = Read(node, <<>>)

\* A stanza that is cut off, wherever, is refused and never taken for a shorter
\* one: readBytes and readByte throw at the end of the bytes.
CutOffIsRefused == Len(wire) < Len(full) => ~decoded.ok
=============================================================================
