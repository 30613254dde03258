--------------------------- MODULE LoginLifecycle ---------------------------
(***************************************************************************)
(* What the connection learns from a decrypted stanza: walkPairing         *)
(* (src/Protocol/pairing.ts), parseProtocolPayload (src/Protocol/          *)
(* handler.ts), detectDisconnectFromPayload and applyPairSuccess           *)
(* (src/Socket/login-lifecycle.ts).  The first looks at the whole tree,    *)
(* the second at the root and its children (for QR refs at the tree).      *)
(*                                                                         *)
(* The texts in stanzas are in lower case, and numbers are decimal.        *)
(***************************************************************************)
EXTENDS Stanza, FiniteSets
LOCAL INSTANCE SequencesExt

CONSTANT NoId

-----------------------------------------------------------------------------
(* src/Protocol/pairing.ts                                                   *)

Alphanumeric == ToSet(Chars("ABCDEFGHIJKLMNOPQRSTUVWXYZabcdefghijklmnopqrstuvwxyz0123456789"))

\* normalizePairingCode: eight letters or digits, whatever spaces and dashes.
IsPairingCode(raw) ==
    LET clean == SelectSeq(Chars(raw), LAMBDA c : c \notin {" ", "-"})
    IN Len(clean) = 8 /\ ToSet(clean) \subseteq Alphanumeric

CodeAttrs == {"link_code", "code", "pairing_code", "link_code_pairing_code", "pairingCode"}

\* Where a node may carry a code: any of the attributes, or its whole content.
Candidates(node) ==
    {getBinaryNodeAttr(node, a) : a \in CodeAttrs} \cup
    (IF node.content.kind \in {"text", "bytes"} THEN {node.content.bytes} ELSE {})

CarriesCode(nodes) == \E i \in DOMAIN nodes : \E raw \in Candidates(nodes[i]) : IsPairingCode(raw)

IsIqError(node) == node.tag = "iq" /\ getBinaryNodeAttr(node, "type") = "error"

CarriesError(nodes) == \E i \in DOMAIN nodes : nodes[i].tag = "error" \/ IsIqError(nodes[i])

\* The innermost or last iq of the tree gives the id.
IqId(nodes) ==
    LET ids == SelectSeq(nodes, LAMBDA n : n.tag = "iq" /\ "id" \in DOMAIN n.attrs)
    IN IF ids = <<>> THEN NoId ELSE Last(ids).attrs["id"]

\* me.id: the device's JID or the one beside it, of the last pair-success that has one.
DeviceJid(node) ==
    Or(getBinaryNodeAttr(getBinaryNodeChild(node, "device"), "jid"), getBinaryNodeAttr(node, "jid"))
MeId(nodes) ==
    LET named == SelectSeq(nodes, LAMBDA n : n.tag = "pair-success" /\ DeviceJid(n) # "")
    IN IF named = <<>> THEN "" ELSE DeviceJid(Last(named))

-----------------------------------------------------------------------------
(* src/Protocol/handler.ts                                                   *)

\* collectQrRefs: an attribute of any node that is long enough, and whatever
\* the three tags carry; composeQrPayload refuses the short ones.
RefsOf(node) ==
    {r \in {getBinaryNodeAttr(node, "ref")} : Len(r) > 8} \cup
    {r \in {Or(getBinaryNodeAttr(node, "ref"), getBinaryNodeAttr(node, "code"))} :
        node.tag \in {"pair-device", "qr", "scan"} /\ Len(r) >= 8}
QrRefs(nodes) == UNION {RefsOf(nodes[i]) : i \in DOMAIN nodes}

\* Every iq of type result counts as a protocol success.
ProtocolSuccess(node) ==
    node.tag = "success" \/ (node.tag = "iq" /\ getBinaryNodeAttr(node, "type") = "result")

ProtocolPairSuccess(node) == node.tag = "pair-success" \/ HasChild(node, "pair-success")

-----------------------------------------------------------------------------
(* src/Socket/login-lifecycle.ts                                             *)

\* Whether the code or the text of an error stands for a status.
Means(status, code, text) ==
    CASE status = 401 -> \/ code \in {"401", "logout", "logged_out"}
                         \/ Includes(text, "logged out") \/ Includes(text, "logged_out")
      [] status = 440 -> code \in {"440", "connection_replaced"} \/ Includes(text, "replaced")
      [] status = 403 -> code = "403"
      [] status = 408 -> code = "408" \/ Includes(text, "timeout")
      [] status = 515 -> code = "515" \/ Includes(text, "restart")

\* The first status that is meant; 0 is none of these.
classifyStreamError(code, text) ==
    LET meant == SelectSeq(<<401, 440, 403, 408, 515>>, LAMBDA status : Means(status, code, text))
    IN IF meant = <<>> THEN 0 ELSE Head(meant)

\* The statuses of the disconnects a stanza is taken for: none or one.  Every iq
\* of type error is taken for a disconnect, whatever request it answers.
DisconnectOf(node) ==
    LET attr(name) == getBinaryNodeAttr(node, name)
        error(name) == getBinaryNodeAttr(getBinaryNodeChild(node, "error"), name)
        reason == Or(attr("reason"), attr("code"))
    IN CASE node.tag \in {"stream:error", "error"} ->
              {classifyStreamError(attr("code"), Or(attr("text"), attr("title")))}
         [] IsIqError(node) -> {classifyStreamError(Or(error("code"), attr("code")), error("text"))}
         [] node.tag = "failure" -> {classifyStreamError(reason, reason)}
         [] OTHER -> {}

\* applyPairSuccess: a device identity is required.  The local key material is there.
AppliesPairSuccess(nodes) == Len(MeId(nodes)) >= 5 /\ Includes(MeId(nodes), "@")

-----------------------------------------------------------------------------
(* All that handleDecrypted and the pairing controller use of a stanza.      *)

Parsed(node) ==
    LET nodes == Descendants(node)
    IN [ iqId        |-> IqId(nodes),
         pairing     |-> CASE CarriesCode(nodes) -> "code"
                           [] ~CarriesCode(nodes) /\ CarriesError(nodes) -> "error"
                           [] OTHER -> "empty",
         registers   |-> AppliesPairSuccess(nodes),
         disconnects |-> DisconnectOf(node) # {},
         logsOut     |-> 401 \in DisconnectOf(node),
         qrRefs      |-> Cardinality(QrRefs(nodes)),
         success     |-> ProtocolSuccess(node) \/ ProtocolPairSuccess(node),
         announced   |-> node.tag \in {"message", "ack", "receipt"} ]
=============================================================================
