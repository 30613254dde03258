---------------------------- MODULE NoiseSession ----------------------------
(***************************************************************************)
(* The Noise XX handshake of one WebSocket (src/Noise/handshake.ts and     *)
(* wa-noise.ts, driven by onOpen and onHandshakeBytes of connection.ts)    *)
(* and the two transport sessions it makes (src/Noise/session.ts).  The    *)
(* server is the responder of handshake.ts.                                *)
(*                                                                         *)
(* Cryptography is symbolic.  A key pair is its name, DH is the set of the *)
(* two names, a chaining key is the sequence of what was mixed into it, a  *)
(* hash the sequence of what was hashed.  Decryption succeeds with the     *)
(* key, the nonce and the hash of the encryption, and throws otherwise.    *)
(*                                                                         *)
(* The WebSocket delivers the server's bytes in order and in pieces of any *)
(* size.  A frame is two units, so that a piece may end inside it; a unit  *)
(* is the number of its frame.                                             *)
(***************************************************************************)
EXTENDS Naturals, Sequences, FiniteSets

CONSTANTS MaxFrames,  \* bound: frames each side sends after the handshake
          Strict      \* isStrictCertEnabled()

ASSUME NoiseAssumption == MaxFrames \in Nat /\ Strict \in BOOLEAN

VARIABLES client, server,              \* NoiseHandshakeState
          phase,                       \* of the connection controller
          clientSession, serverSession,
          rxBuf,                       \* of the connection: handshake bytes
          rxBuffer,                    \* of the client's session
          certificate, trustedKeys,    \* what the server sends, and who may have signed it
          known,                       \* what the server knows of the client
          ws,                          \* "lost" to the network, "closed" by the client
          toServer,                    \* frames under way
          frames, toClient,            \* frames of the server, units under way
          opened,                      \* what the client's open() returned
          made                         \* ciphertexts made

handshake == <<client, server>>
sessions  == <<clientSession, serverSession>>
buffers   == <<rxBuf, rxBuffer>>
network   == <<ws, toServer, frames, toClient>>
given     == <<certificate, trustedKeys, known>>
vars == <<handshake, phase, sessions, buffers, given, network, opened, made>>

KeyNames == {"client e", "client s", "server e", "server s"}
\* use: 0 for the handshake, 1 and 2 for what noiseSplit derives
Key(ck, use) == [ck |-> ck, use |-> use]
NoKey == Key(<<>>, 0)

\* A ciphertext; of is the party whose part-th plaintext it holds.
Cipher(key, nonce, aad, of, part) ==
    [key |-> key, nonce |-> nonce, aad |-> aad, of |-> of, part |-> part]

\* The payload of the server's hello, a parsed certificate among them.
Certificates == [payload : {"none", "garbled"}] \cup
                [payload : {"details"}, expired : BOOLEAN, signer : {"ca", "other"}]

NoSession == [sendKey |-> NoKey, recvKey |-> NoKey, writeNonce |-> 0, readNonce |-> 0]

\* The domains of the variables.
TypeOK ==
    /\ \A s \in {client, server} :
         /\ s.step \in 0..3 /\ s.n \in 0..2
         /\ s.h \in Seq(STRING) /\ s.ck \in Seq(SUBSET KeyNames) /\ s.k.use = 0
    /\ phase \in {"idle", "sent_e", "noise_done", "failed"}
    /\ \A s \in {clientSession, serverSession} :
         s.writeNonce \in 0..MaxFrames /\ s.readNonce \in 0..MaxFrames
    /\ rxBuf \in Seq(Nat) /\ rxBuffer \in Seq(Nat) /\ toClient \in Seq(Nat)
    /\ certificate \in Certificates /\ trustedKeys \subseteq {"ca"} /\ known \in {"client s", "stale"}
    /\ ws \in {"open", "lost", "closed"} /\ opened \in Seq(Nat)

------------------------------------------------------------------------------
(* The symmetric state.                                                      *)

MixHash(s, item) == [s EXCEPT !.h = Append(@, item)]

\* Mutant: the first key stays in use.
MixKeyKeepsKey(s, a, b) ==
    LET ck == Append(s.ck, {a, b})
    IN [s EXCEPT !.ck = ck, !.k = IF s.k = NoKey THEN Key(ck, 0) ELSE @, !.n = 0]

MixKey(s, a, b) ==
    LET ck == Append(s.ck, {a, b}) IN [s EXCEPT !.ck = ck, !.k = Key(ck, 0), !.n = 0]

\* encryptAndHash and decryptAndHash leave the same state: the ciphertext is
\* hashed (here by the name of its plaintext) and the nonce is used.
Crypted(s, item) == [MixHash(s, item) EXCEPT !.n = @ + 1]

Encrypted(s, of, part) == Cipher(s.k, s.n, s.h, of, part)

Decrypts(s, c) == c.key = s.k /\ c.nonce = s.n /\ c.aad = s.h

\* initializeHash with the prologue, and WhatsApp's extra mix of the client's
\* static key.
Start(static) == [step |-> 0, h |-> <<"NOISE_WA_HEADER", static>>, ck |-> <<>>,
                  k |-> NoKey, n |-> 0]

Init ==
    /\ certificate \in Certificates /\ trustedKeys \in SUBSET {"ca"}
    /\ known \in {"client s", "stale"}
    /\ client = Start("client s") /\ server = Start(known)
    /\ phase = "idle" /\ ws = "open"
    /\ clientSession = NoSession /\ serverSession = NoSession
    /\ rxBuf = <<>> /\ rxBuffer = <<>>
    /\ toServer = <<>> /\ frames = <<>> /\ toClient = <<>>
    /\ opened = <<>> /\ made = {}

------------------------------------------------------------------------------
(* The messages of the handshake.                                            *)

\* noiseWriteMessage1, noiseResponderReadMessage1: -> e
Message1(s) == [MixHash(s, "client e") EXCEPT !.step = 1]

\* <- e, ee, s, es: the states before the encrypted static key, after it, and
\* at the end.
AfterEe(s) == MixKey(MixHash(s, "server e"), "client e", "server e")
AfterEs(s) == MixKey(Crypted(AfterEe(s), "server s"), "client e", "server s")
MessageA(s) == [Crypted(AfterEs(s), "certificate") EXCEPT !.step = 2]

\* -> s, se
AfterSe(s) == MixKey(Crypted(s, "client s"), "client s", "server e")
MessageB(s) == [Crypted(AfterSe(s), "payload") EXCEPT !.step = 3]

CiphersA(s) == <<Encrypted(AfterEe(s), "server", 1), Encrypted(AfterEs(s), "server", 2)>>
CiphersB(s) == <<Encrypted(s, "client", 1), Encrypted(AfterSe(s), "client", 2)>>

\* validateNoiseCertificate: the first reason that is found.
ValidateNoiseCertificate(c) ==
    CASE c.payload = "none" -> "no certificate payload"
      [] c.payload = "garbled" -> "unable to parse"
      [] c.payload = "details" /\ c.expired -> "certificate expired"
      [] OTHER -> IF trustedKeys = {} THEN "no trusted keys"
                  ELSE IF c.signer \in trustedKeys THEN "ok" ELSE "signature not valid"

\* Of the reasons only a signature that is not valid rejects.
CertificateRejected(c) == Strict /\ ValidateNoiseCertificate(c) = "signature not valid"

\* Mutant: the static key is decrypted before its chaining key is mixed in.
ReadsAEarly(s, c) == Decrypts(MixHash(s, "server e"), c[1]) /\ Decrypts(AfterEs(s), c[2])

ReadsA(s, c) == Decrypts(AfterEe(s), c[1]) /\ Decrypts(AfterEs(s), c[2])
ReadsB(s, c) == Decrypts(s, c[1]) /\ Decrypts(AfterSe(s), c[2])

\* Mutant: the responder's keys are not swapped.
SplitUnswapped(s, initiator) ==
    [sendKey |-> Key(s.ck, 1), recvKey |-> Key(s.ck, 2), writeNonce |-> 0, readNonce |-> 0]

Split(s, initiator) ==
    [sendKey |-> Key(s.ck, IF initiator THEN 1 ELSE 2),
     recvKey |-> Key(s.ck, IF initiator THEN 2 ELSE 1), writeNonce |-> 0, readNonce |-> 0]

\* onOpen: startWaNoiseHandshake and the first frame.
SendHello ==
    /\ phase = "idle" /\ ws = "open"
    /\ phase' = "sent_e" /\ client' = Message1(client)
    /\ toServer' = Append(toServer, <<>>)
    /\ UNCHANGED <<server, sessions, buffers, given, ws, frames, toClient,
                   opened, made>>

\* The server reads the hello and answers it.
ServerHello ==
    /\ server.step = 0 /\ toServer # <<>> /\ ws = "open"
    /\ LET s == Message1(server)
       IN /\ server' = MessageA(s)
          /\ frames' = <<CiphersA(s)>> /\ made' = made \cup {CiphersA(s)[1], CiphersA(s)[2]}
    /\ toClient' = <<1, 1>> /\ toServer' = Tail(toServer)
    /\ UNCHANGED <<client, phase, sessions, buffers, given, ws, opened>>

\* The client closes the WebSocket; nothing looks at its handshake state again.
Reject == phase' = "failed" /\ ws' = IF ws = "open" THEN "closed" ELSE ws

\* The connection keeps the session once the finish frame is sent.
SendFinish(s, finish) ==
    \/ /\ ws = "open" /\ phase' = "noise_done"
       /\ toServer' = Append(toServer, finish) /\ clientSession' = Split(s, TRUE)
       /\ UNCHANGED ws
    \/ ws # "open" /\ Reject /\ UNCHANGED <<toServer, clientSession>>

\* continueWaNoiseHandshake with the frame of the server's hello.
Continue(hello) ==
    LET s == MessageA(client)
        accepted == ReadsA(client, hello) /\ ~CertificateRejected(certificate)
    IN \/ /\ ~accepted /\ Reject
          /\ UNCHANGED <<client, clientSession, toServer, made>>
       \/ /\ accepted
          /\ client' = MessageB(s) /\ made' = made \cup {CiphersB(s)[1], CiphersB(s)[2]}
          /\ SendFinish(MessageB(s), CiphersB(s))

\* onHandshakeBytes: what follows the hello's frame stays in rxBuf.
OnHandshakeBytes(chunk) ==
    LET buf == rxBuf \o chunk
    IN /\ phase = "sent_e"
       /\ \/ Len(buf) < 2 /\ rxBuf' = buf
             /\ UNCHANGED <<client, clientSession, phase, ws, toServer, made>>
          \/ Len(buf) >= 2 /\ rxBuf' = SubSeq(buf, 3, Len(buf)) /\ Continue(frames[buf[1]])
       /\ UNCHANGED <<rxBuffer, opened>>

\* The server reads the finish frame.
ServerFinish ==
    /\ server.step = 2 /\ toServer # <<>> /\ ReadsB(server, Head(toServer))
    /\ server' = MessageB(server) /\ serverSession' = Split(MessageB(server), FALSE)
    /\ toServer' = Tail(toServer)
    /\ UNCHANGED <<client, phase, clientSession, buffers, given, ws, frames,
                   toClient, opened, made>>

------------------------------------------------------------------------------
(* The sessions.                                                             *)

\* Mutant: the nonce is not advanced.
SealedSame(session) == session

\* What seal() leaves of a session.
Sealed(session) == [session EXCEPT !.writeNonce = @ + 1]

\* The plaintext is the next one of that party, whatever the nonce.
Frame(session, of) ==
    Cipher(session.sendKey, session.writeNonce, <<>>, of,
           Cardinality({c \in made : c.of = of}) + 1)

\* transport.send(session.seal(...)): the nonce is used also if the send throws.
ClientSends ==
    /\ phase = "noise_done" /\ clientSession.writeNonce < MaxFrames
    /\ LET f == Frame(clientSession, "client")
       IN made' = made \cup {f} /\
          toServer' = IF ws = "open" THEN Append(toServer, <<f>>) ELSE toServer
    /\ clientSession' = Sealed(clientSession)
    /\ UNCHANGED <<handshake, phase, serverSession, buffers, given, ws,
                   frames, toClient, opened>>

ServerSends ==
    /\ server.step = 3 /\ ws = "open" /\ serverSession.writeNonce < MaxFrames
    /\ LET f == Frame(serverSession, "server")
       IN made' = made \cup {f} /\ frames' = Append(frames, <<f>>)
    /\ toClient' = toClient \o <<Len(frames) + 1, Len(frames) + 1>>
    /\ serverSession' = Sealed(serverSession)
    /\ UNCHANGED <<handshake, phase, clientSession, buffers, given, ws,
                   toServer, opened>>

Opens(session, nonce, frame) == frame.key = session.recvKey /\ frame.nonce = nonce

ServerOpens ==
    /\ server.step = 3 /\ toServer # <<>>
    /\ Opens(serverSession, serverSession.readNonce, Head(toServer)[1])
    /\ serverSession' = [serverSession EXCEPT !.readNonce = @ + 1]
    /\ toServer' = Tail(toServer)
    /\ UNCHANGED <<handshake, phase, clientSession, buffers, given, ws, frames,
                   toClient, opened, made>>

\* Mutant: one frame per chunk.
CompleteOne(buf) == IF Len(buf) >= 2 THEN 1 ELSE 0

\* How many frames decodeFrame takes from the buffer.
Complete(buf) == Len(buf) \div 2

\* open(chunk): every complete frame, or an exception at the first that cannot
\* be decrypted, which loses it and the payloads before it.
Open(chunk) ==
    LET buf == rxBuffer \o chunk
        frame(i) == frames[buf[2 * i - 1]][1]
        opens(i) == Opens(clientSession, clientSession.readNonce + i - 1, frame(i))
        count == Complete(buf)
        good == CHOOSE i \in 0..count : /\ \A j \in 1..i : opens(j)
                                        /\ i = count \/ ~opens(i + 1)
        taken == IF good = count THEN count ELSE good + 1
    IN /\ phase = "noise_done"
       /\ rxBuffer' = SubSeq(buf, 2 * taken + 1, Len(buf))
       /\ clientSession' = [clientSession EXCEPT !.readNonce = @ + good]
       /\ opened' = IF good = count THEN opened \o [i \in 1..count |-> frame(i).part - 2]
                                    ELSE opened
       /\ UNCHANGED <<client, phase, ws, rxBuf, toServer, made>>

------------------------------------------------------------------------------

\* onMessage: the WebSocket delivers the next piece of any size, also what it had
\* received when it was lost.
Deliver ==
    \E n \in 1..Len(toClient) :
        /\ ws # "closed" /\ toClient' = SubSeq(toClient, n + 1, Len(toClient))
        /\ OnHandshakeBytes(SubSeq(toClient, 1, n)) \/ Open(SubSeq(toClient, 1, n))
        /\ UNCHANGED <<server, serverSession, given, frames>>

Lost == /\ ws = "open" /\ ws' = "lost"
        /\ UNCHANGED <<handshake, phase, sessions, buffers, given, toServer,
                       frames, toClient, opened, made>>

Next == \/ SendHello \/ ServerHello \/ ServerFinish
        \/ ClientSends \/ ServerSends \/ ServerOpens
        \/ Deliver \/ Lost

Spec == Init /\ [][Next]_vars

------------------------------------------------------------------------------
(* Properties.                                                               *)

\* Nothing is encrypted under a key and a nonce that were used before, by
\* either party, in the handshake or after it, whether or not sends fail.
NonceUsedOnce ==
    \A c, d \in made : (c.key = d.key /\ c.nonce = d.nonce) => c = d

\* The handshake is rejected only for a reason: the server knows another key of
\* the client, the WebSocket was lost, or a certificate that is still good is signed
\* by none of the trusted keys there are.
RejectedForCause ==
    phase = "failed" => \/ known = "stale" \/ ws = "lost"
                        \/ /\ Strict /\ trustedKeys # {}
                           /\ certificate \in [payload : {"details"}, expired : {FALSE},
                                               signer : {"other"}]

\* Once both have finished, they hold the same hash and mirrored keys.
SessionsAgree ==
    server.step = 3 => /\ client = server
                       /\ clientSession.sendKey = serverSession.recvKey
                       /\ clientSession.recvKey = serverSession.sendKey

\* The frames on their way to the server are those it can open, one after the
\* other: a nonce used for a frame that could not be sent leaves no gap.
NoGapToServer ==
    LET first == IF server.step = 3 THEN 1 ELSE 2
    IN phase = "noise_done" =>
          \A i \in first..Len(toServer) :
              toServer[i][1].nonce = serverSession.readNonce + i - first

\* The client has opened everything it was given, in the order it was sent, but
\* for the beginning of a frame: no complete frame waits for bytes that may never
\* come, and none is lost between the handshake's buffer and the session's.
NothingLeftBehind ==
    phase = "noise_done" =>
        /\ opened = [i \in 1..Len(opened) |-> i]
        /\ Len(rxBuffer) < 2
        /\ 2 * Len(frames) = 2 + 2 * Len(opened) + Len(rxBuffer) + Len(toClient)
=============================================================================
