---------------------------- MODULE MCConnection ----------------------------
(* The connection on small instances: the stanzas a server sends.           *)
EXTENDS Connection

Attr(name, value) == [n \in {name} |-> value]
Iq(type, children) == Element("iq", Attr("type", type), Children(children))
Leaf(tag, attrs) == Element(tag, attrs, NoContent)
Reg(children) == Element("link_code_companion_reg", Attr("stage", "companion_hello"), Children(children))

Success     == Leaf("success", <<>>)
StreamError == Leaf("stream:error", Attr("code", "515"))
Failure     == Leaf("failure", Attr("reason", "401"))
LogoutError == Leaf("error", Attr("text", "stream errored (logged_out)"))
PlainAnswer == Iq("result", <<>>)
ErrorAnswer == Iq("error", <<Leaf("error", Attr("code", "400"))>>)
PairDevice  == Iq("set", <<Element("pair-success", <<>>,
                             Children(<<Leaf("device", Attr("jid", "628@s.whatsapp.net"))>>))>>)
PairBare    == Iq("set", <<Leaf("pair-success", Attr("jid", "@"))>>)
QrRef       == Iq("set", <<Leaf("pair-device", Attr("ref", "2@abcdefgh"))>>)
Message     == Element("message", Attr("from", "628@s.whatsapp.net"), Bytes("hello, world"))

\* A code as the content of a node or as an attribute; a text that is too long for one.
CodeAnswer == Iq("result", <<Reg(<<Element("link_code_pairing_ref", <<>>, Bytes("a longer text")),
                                   Element("link_code_pairing_code", <<>>, Bytes("abcd-1234"))>>)>>)
CodeAttr   == Iq("result", <<Leaf("link_code_companion_reg", Attr("link_code", "ABCD 1234"))>>)

\* A session that lives, is disturbed and is logged out.
LifePayloads == {Success, StreamError, Failure, ErrorAnswer, CodeAnswer, Message}
\* A device being paired, by QR code or by pairing code.
PairPayloads == {CodeAnswer, CodeAttr, PlainAnswer, ErrorAnswer, PairDevice, PairBare, QrRef,
                 LogoutError}
=============================================================================
