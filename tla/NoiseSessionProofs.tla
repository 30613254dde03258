------------------------- MODULE NoiseSessionProofs -------------------------
(***************************************************************************)
(* The safety properties of NoiseSession, for any number of frames, pieces *)
(* of any size, any certificate and a WebSocket lost at any moment.        *)
(*                                                                         *)
(* Both handshakes are functions of what each party knows, so every        *)
(* reachable state is at one of six points of the way from a new           *)
(* connection to two sessions.  The invariant says, at each of them, what  *)
(* was encrypted, what is under way and what each party will accept.       *)
(***************************************************************************)
EXTENDS NoiseSession, FiniteSetTheorems, SequenceTheorems, TLAPS

\* The states the client and the server go through.
C0 == Start("client s")
C1 == Message1(C0)
C2 == MessageA(C1)
C3 == MessageB(C2)
S0 == Start(known)
S1 == Message1(S0)
S2 == MessageA(S1)
S3 == MessageB(S2)

\* What the sessions encrypt: the n-th frame of each party.
ClientFrame(n) == Cipher(Key(C3.ck, 1), n, <<>>, "client", n + 3)
ServerFrame(n) == Cipher(Key(C3.ck, 2), n, <<>>, "server", n + 3)

\* What is sent in one piece.
ClientPackets == {CiphersB(C2)} \cup {<<ClientFrame(n)>> : n \in Nat}
ServerPackets == {CiphersA(S1)} \cup {<<ServerFrame(n)>> : n \in Nat}

Of(all, party) == {x \in all : x.of = party}

\* The ciphertexts of the hello, if hello, of the finish, if finish, and of c and d
\* frames of the client and of the server; server1 is the state that made the hello.
Made(all, server1, hello, finish, c, d) ==
    /\ \A x \in all : \/ x \in {CiphersA(server1)[1], CiphersA(server1)[2]}
                      \/ x \in {CiphersB(C2)[1], CiphersB(C2)[2]}
                      \/ \E n \in 0..(c - 1) : x = ClientFrame(n)
                      \/ \E n \in 0..(d - 1) : x = ServerFrame(n)
    /\ IsFiniteSet(Of(all, "client")) /\ IsFiniteSet(Of(all, "server"))
    /\ Cardinality(Of(all, "client")) = c + finish
    /\ Cardinality(Of(all, "server")) = d + hello

\* The unit at a place of all that the server sends.
UnitAt(p) == (p + 1) \div 2

Given == /\ certificate \in Certificates /\ trustedKeys \in SUBSET {"ca"}
         /\ known \in {"client s", "stale"} /\ ws \in {"open", "lost", "closed"}

\* Nobody has a session.
NoSessions == /\ clientSession = NoSession /\ serverSession = NoSession
              /\ rxBuffer = <<>> /\ opened = <<>>

\* 1. A new connection.
New == /\ phase = "idle" /\ client = C0 /\ server = S0 /\ NoSessions /\ rxBuf = <<>>
       /\ toServer = <<>> /\ frames = <<>> /\ toClient = <<>>
       /\ made = {}

\* 2. The client's hello is under way.
Greeted == /\ phase = "sent_e" /\ client = C1 /\ server = S0 /\ NoSessions /\ rxBuf = <<>>
           /\ toServer = << <<>> >> /\ frames = <<>> /\ toClient = <<>>
           /\ made = {}

\* 3. The server's hello is under way, or in part received.
Answered == /\ phase = "sent_e" /\ client = C1 /\ server = S2 /\ NoSessions
            /\ toServer = <<>> /\ frames = <<CiphersA(S1)>>
            /\ rxBuf \in Seq({1}) /\ toClient \in Seq({1})
            /\ Len(rxBuf) < 2 /\ Len(rxBuf) + Len(toClient) = 2
            /\ Made(made, S1, 2, 0, 0, 0)

\* 4. The client gave up.
GaveUp == /\ phase = "failed" /\ server = S2 /\ toServer = <<>>
          /\ \E finish \in {0, 2} : Made(made, S1, 2, finish, 0, 0)

\* The client has its session.
ClientUp ==
    /\ phase = "noise_done" /\ known = "client s" /\ client = C3 /\ rxBuf = <<>>
    /\ clientSession \in [ sendKey : {Key(C3.ck, 1)}, recvKey : {Key(C3.ck, 2)},
                           writeNonce : Nat, readNonce : Nat ]
    /\ clientSession.readNonce = Len(opened)
    /\ toServer \in Seq(ClientPackets) /\ frames \in Seq(ServerPackets)
    /\ opened \in Seq(Nat) /\ rxBuffer \in Seq(Nat) /\ toClient \in Seq(Nat)

\* 5. The finish frame is under way.
Finishing ==
    /\ ClientUp /\ server = S2 /\ serverSession = NoSession
    /\ frames = <<CiphersA(S1)>> /\ toClient = <<>> /\ rxBuffer = <<>> /\ opened = <<>>
    /\ Len(toServer) >= 1 /\ toServer[1] = CiphersB(C2)
    /\ \A i \in 2..Len(toServer) : toServer[i] = <<ClientFrame(i - 2)>>
    /\ ws = "open" => Len(toServer) - 1 = clientSession.writeNonce
    /\ Made(made, S1, 2, 2, clientSession.writeNonce, 0)

\* What was opened, what the client keeps and what is under way: the server's units.
Stream ==
    /\ \A i \in 1..Len(opened) : opened[i] = i
    /\ Len(rxBuffer) < 2
    /\ \A i \in 1..Len(rxBuffer) : rxBuffer[i] = UnitAt(2 + 2 * Len(opened) + i)
    /\ \A i \in 1..Len(toClient) :
          toClient[i] = UnitAt(2 + 2 * Len(opened) + Len(rxBuffer) + i)
    /\ 2 * Len(frames) = 2 + 2 * Len(opened) + Len(rxBuffer) + Len(toClient)

\* 6. Both have their sessions.
Up ==
    /\ ClientUp /\ server = C3
    /\ serverSession \in [ sendKey : {Key(C3.ck, 2)}, recvKey : {Key(C3.ck, 1)},
                           writeNonce : Nat, readNonce : Nat ]
    /\ \A i \in 1..Len(toServer) :
          toServer[i] = <<ClientFrame(serverSession.readNonce + i - 1)>>
    /\ ws = "open" => serverSession.readNonce + Len(toServer) = clientSession.writeNonce
    /\ Len(frames) = 1 + serverSession.writeNonce
    /\ \A i \in 2..Len(frames) : frames[i] = <<ServerFrame(i - 2)>>
    /\ Stream
    /\ Made(made, S1, 2, 2, clientSession.writeNonce, serverSession.writeNonce)

IInv == /\ Given /\ RejectedForCause
        /\ New \/ Greeted \/ Answered \/ GaveUp \/ Finishing \/ Up

------------------------------------------------------------------------------
(* The states of the handshake.                                              *)

Items == KeyNames \cup {"NOISE_WA_HEADER", "stale", "certificate", "payload"}

\* The hashes, the chaining keys, the keys and the states of the handshake.
Hashes == Seq(Items)
Chains == Seq(SUBSET KeyNames)
Keys   == [ck : Chains, use : Nat]
States == [step : Nat, h : Hashes, ck : Chains, k : Keys, n : Nat]

\* The names that are used.
LEMMA Named ==
    /\ \A x \in {"client e", "client s", "server e", "server s"} : x \in KeyNames /\ x \in Items
    /\ "certificate" \in Items /\ "payload" \in Items /\ "stale" \in Items
BY DEF KeyNames, Items

LEMMA MixHashState ==
    ASSUME NEW s \in States, NEW item \in Items
    PROVE  /\ MixHash(s, item) \in States
           /\ MixHash(s, item).h = Append(s.h, item) /\ MixHash(s, item).ck = s.ck
           /\ MixHash(s, item).k = s.k /\ MixHash(s, item).n = s.n
BY AppendProperties DEF States, MixHash, Hashes

LEMMA MixKeyState ==
    ASSUME NEW s \in States, NEW a \in KeyNames, NEW b \in KeyNames
    PROVE  /\ MixKey(s, a, b) \in States
           /\ MixKey(s, a, b).h = s.h
           /\ MixKey(s, a, b).k = Key(MixKey(s, a, b).ck, 0) /\ MixKey(s, a, b).n = 0
           /\ Len(MixKey(s, a, b).ck) = Len(s.ck) + 1
<1>1. Append(s.ck, {a, b}) \in Chains /\ Len(Append(s.ck, {a, b})) = Len(s.ck) + 1
  BY AppendProperties DEF States, Chains
<1>2. Key(Append(s.ck, {a, b}), 0) \in Keys
  BY <1>1 DEF Key, Keys
<1> QED BY <1>1, <1>2 DEF States, MixKey

LEMMA CryptedState ==
    ASSUME NEW s \in States, NEW item \in Items
    PROVE  /\ Crypted(s, item) \in States
           /\ Crypted(s, item).h = Append(s.h, item) /\ Crypted(s, item).ck = s.ck
           /\ Crypted(s, item).k = s.k /\ Crypted(s, item).n = s.n + 1
<1> DEFINE t == MixHash(s, item)
<1>1. /\ t \in States /\ t.h = Append(s.h, item) /\ t.ck = s.ck /\ t.k = s.k /\ t.n = s.n
  BY MixHashState
<1>2. Crypted(s, item) = [t EXCEPT !.n = @ + 1]
  BY DEF Crypted
<1> HIDE DEF t
<1>3. Crypted(s, item) \in States
  BY <1>1, <1>2 DEF States
<1> QED BY <1>1, <1>2, <1>3 DEF States

LEMMA Pair ==
    ASSUME NEW a \in Items, NEW b \in Items
    PROVE  <<a, b>> \in Seq(Items) /\ Len(<<a, b>>) \in Nat /\ Len(<<a, b>>) >= 2 /\ <<a, b>>[2] = b
OBVIOUS

LEMMA StateRecord ==
    ASSUME NEW h \in Hashes, NEW ck \in Chains, NEW k \in Keys, NEW s,
           s = [step |-> 0, h |-> h, ck |-> ck, k |-> k, n |-> 0]
    PROVE  s \in States /\ s.step = 0 /\ s.h = h /\ s.ck = ck
BY DEF States

LEMMA StartState ==
    ASSUME NEW static \in {"client s", "stale"}
    PROVE  /\ Start(static) \in States /\ Start(static).step = 0
           /\ Start(static).ck = <<>>
           /\ Len(Start(static).h) \in Nat /\ Len(Start(static).h) >= 2
           /\ Start(static).h[2] = static
<1> DEFINE h == <<"NOISE_WA_HEADER", static>>
<1>1. h \in Hashes /\ Len(h) \in Nat /\ Len(h) >= 2 /\ h[2] = static
  <2>1. "NOISE_WA_HEADER" \in Items /\ static \in Items
    BY DEF Items, KeyNames
  <2> QED BY <2>1, Pair, Zenon DEF Hashes
<1>2. <<>> \in Chains /\ NoKey \in Keys
  BY EmptySeq DEF Chains, NoKey, Key, Keys
<1>3. Start(static) = [step |-> 0, h |-> h, ck |-> <<>>, k |-> NoKey, n |-> 0]
  BY DEF Start
<1> HIDE DEF h
<1>4. /\ Start(static) \in States /\ Start(static).step = 0 /\ Start(static).h = h
      /\ Start(static).ck = <<>>
  <2> DEFINE s == [step |-> 0, h |-> h, ck |-> <<>>, k |-> NoKey, n |-> 0]
  <2>0. h \in Hashes
    BY <1>1
  <2>1. s \in States /\ s.step = 0 /\ s.h = h /\ s.ck = <<>>
    BY <1>2, <2>0, StateRecord
  <2>2. Start(static) = s
    BY <1>3
  <2> HIDE DEF s
  <2> QED BY <2>1, <2>2
<1> QED BY <1>1, <1>4

\* The first message.
LEMMA Message1State ==
    ASSUME NEW s \in States
    PROVE  /\ Message1(s) \in States /\ Message1(s).step = 1 /\ Message1(s).ck = s.ck
           /\ Message1(s).h = Append(s.h, "client e")
BY MixHashState, Named DEF States, Message1

\* The second: two keys, each used from 0.
LEMMA MessageAState ==
    ASSUME NEW s \in States
    PROVE  /\ AfterEe(s) \in States /\ AfterEs(s) \in States /\ MessageA(s) \in States
           /\ MessageA(s).step = 2
           /\ AfterEe(s).n = 0 /\ AfterEs(s).n = 0 /\ MessageA(s).n = 1
           /\ AfterEe(s).k = Key(AfterEe(s).ck, 0) /\ Len(AfterEe(s).ck) = Len(s.ck) + 1
           /\ AfterEs(s).k = Key(AfterEs(s).ck, 0) /\ Len(AfterEs(s).ck) = Len(s.ck) + 2
           /\ MessageA(s).k = AfterEs(s).k /\ MessageA(s).ck = AfterEs(s).ck
<1>2. /\ AfterEe(s) \in States /\ AfterEe(s).n = 0
      /\ AfterEe(s).k = Key(AfterEe(s).ck, 0) /\ Len(AfterEe(s).ck) = Len(s.ck) + 1
  <2> DEFINE t == MixHash(s, "server e")
  <2>1. t \in States /\ t.ck = s.ck
    BY MixHashState, Named
  <2>2. AfterEe(s) = MixKey(t, "client e", "server e")
    BY DEF AfterEe
  <2>3. "client e" \in KeyNames /\ "server e" \in KeyNames
    BY DEF KeyNames
  <2> HIDE DEF t
  <2> DEFINE r == MixKey(t, "client e", "server e")
  <2>4. r \in States /\ r.n = 0 /\ r.k = Key(r.ck, 0) /\ Len(r.ck) = Len(t.ck) + 1
    BY <2>1, <2>3, MixKeyState
  <2>5. AfterEe(s) = r
    BY <2>2
  <2> HIDE DEF r
  <2> QED BY <2>1, <2>4, <2>5
<1>4. /\ AfterEs(s) \in States /\ AfterEs(s).n = 0 /\ AfterEs(s).k = Key(AfterEs(s).ck, 0)
      /\ Len(AfterEs(s).ck) = Len(AfterEe(s).ck) + 1
  <2> DEFINE t == Crypted(AfterEe(s), "server s")
  <2>1. t \in States /\ t.ck = AfterEe(s).ck
    BY <1>2, CryptedState, Named
  <2>2. AfterEs(s) = MixKey(t, "client e", "server s")
    BY DEF AfterEs
  <2>3. "client e" \in KeyNames /\ "server s" \in KeyNames
    BY DEF KeyNames
  <2> HIDE DEF t
  <2> DEFINE r == MixKey(t, "client e", "server s")
  <2>4. r \in States /\ r.n = 0 /\ r.k = Key(r.ck, 0) /\ Len(r.ck) = Len(t.ck) + 1
    BY <2>1, <2>3, MixKeyState
  <2>5. AfterEs(s) = r
    BY <2>2
  <2> HIDE DEF r
  <2> QED BY <2>1, <2>4, <2>5
<1>6. /\ MessageA(s) \in States /\ MessageA(s).step = 2 /\ MessageA(s).n = 1
      /\ MessageA(s).k = AfterEs(s).k /\ MessageA(s).ck = AfterEs(s).ck
  <2> DEFINE t == Crypted(AfterEs(s), "certificate")
  <2>1. t \in States /\ t.ck = AfterEs(s).ck /\ t.k = AfterEs(s).k /\ t.n = 0 + 1
    BY <1>4, CryptedState, Named
  <2>2. MessageA(s) = [t EXCEPT !.step = 2]
    BY DEF MessageA
  <2> HIDE DEF t
  <2> QED BY <2>1, <2>2 DEF States
<1>7. Len(AfterEs(s).ck) = Len(s.ck) + 2
  <2>1. Len(s.ck) \in Nat
    BY LenProperties DEF States, Chains
  <2> QED BY <1>2, <1>4, <2>1
<1> QED BY <1>2, <1>4, <1>6, <1>7

\* The third: the key in use once more and a new one.
LEMMA MessageBState ==
    ASSUME NEW s \in States
    PROVE  /\ AfterSe(s) \in States /\ MessageB(s) \in States /\ MessageB(s).step = 3
           /\ AfterSe(s).n = 0 /\ AfterSe(s).k = Key(AfterSe(s).ck, 0)
           /\ Len(AfterSe(s).ck) = Len(s.ck) + 1
<1>2. /\ AfterSe(s) \in States /\ AfterSe(s).n = 0 /\ AfterSe(s).k = Key(AfterSe(s).ck, 0)
      /\ Len(AfterSe(s).ck) = Len(s.ck) + 1
  <2> DEFINE t == Crypted(s, "client s")
  <2>1. t \in States /\ t.ck = s.ck
    BY CryptedState, Named
  <2>2. AfterSe(s) = MixKey(t, "client s", "server e")
    BY DEF AfterSe
  <2>3. "client s" \in KeyNames /\ "server e" \in KeyNames
    BY DEF KeyNames
  <2> HIDE DEF t
  <2> DEFINE r == MixKey(t, "client s", "server e")
  <2>4. r \in States /\ r.n = 0 /\ r.k = Key(r.ck, 0) /\ Len(r.ck) = Len(t.ck) + 1
    BY <2>1, <2>3, MixKeyState
  <2>5. AfterSe(s) = r
    BY <2>2
  <2> HIDE DEF r
  <2> QED BY <2>1, <2>4, <2>5
<1>4. MessageB(s) \in States /\ MessageB(s).step = 3
  <2> DEFINE t == Crypted(AfterSe(s), "payload")
  <2>1. t \in States
    BY <1>2, CryptedState, Named
  <2>2. MessageB(s) = [t EXCEPT !.step = 3]
    BY DEF MessageB
  <2> HIDE DEF t
  <2> QED BY <2>1, <2>2 DEF States
<1> QED BY <1>2, <1>4

\* The hash tells the client's keys apart.
LEMMA HashKept ==
    ASSUME NEW s \in States, Len(s.h) \in Nat, Len(s.h) >= 2
    PROVE  /\ Len(Message1(s).h) >= 2 /\ Message1(s).h[2] = s.h[2]
           /\ AfterEe(s).h[2] = s.h[2]
<1>1. ASSUME NEW item \in Items
      PROVE  Len(Append(s.h, item)) >= 2 /\ Append(s.h, item)[2] = s.h[2]
  BY AppendProperties DEF States, Hashes
<1>2. Message1(s).h = MixHash(s, "client e").h
  <2> DEFINE t == MixHash(s, "client e")
  <2>1. t \in States /\ Message1(s) = [t EXCEPT !.step = 1]
    BY MixHashState, Named DEF Message1
  <2> HIDE DEF t
  <2>2. Message1(s).h = t.h
    BY <2>1 DEF States
  <2> QED BY <2>2 DEF t
<1>3. AfterEe(s).h = MixHash(s, "server e").h
  <2> DEFINE t == MixHash(s, "server e")
  <2>1. t \in States /\ "client e" \in KeyNames /\ "server e" \in KeyNames
    BY MixHashState, Named
  <2>2. AfterEe(s) = MixKey(t, "client e", "server e")
    BY DEF AfterEe
  <2> HIDE DEF t
  <2>3. MixKey(t, "client e", "server e").h = t.h
    BY <2>1, MixKeyState
  <2>4. AfterEe(s).h = t.h
    BY <2>2, <2>3, Zenon
  <2> QED BY <2>4 DEF t
<1>4. \A item \in Items : MixHash(s, item).h = Append(s.h, item)
  BY MixHashState
<1>5. "client e" \in Items /\ "server e" \in Items
  BY Named
<1>6. \A item \in Items : Len(MixHash(s, item).h) >= 2 /\ MixHash(s, item).h[2] = s.h[2]
  BY <1>1, <1>4
<1> DEFINE ch == MixHash(s, "client e").h
           sh == MixHash(s, "server e").h
<1>7. Len(ch) >= 2 /\ ch[2] = s.h[2] /\ sh[2] = s.h[2]
  BY <1>5, <1>6, Zenon
<1>8. Message1(s).h = ch /\ AfterEe(s).h = sh
  BY <1>2, <1>3, Zenon
<1> HIDE DEF ch, sh
<1> QED BY <1>7, <1>8

\* The states of both parties.
LEMMA ClientStates ==
    /\ C0 \in States /\ C1 \in States /\ C2 \in States /\ C3 \in States
    /\ C0.step = 0 /\ C1.step = 1 /\ C3.step = 3
    /\ C1.ck = <<>> /\ Len(C1.h) >= 2 /\ C1.h[2] = "client s"
<1>1. C0 \in States /\ C0.step = 0 /\ C0.ck = <<>>
      /\ Len(C0.h) \in Nat /\ Len(C0.h) >= 2 /\ C0.h[2] = "client s"
  BY StartState DEF C0
<1>2. C1 \in States /\ C1.step = 1 /\ C1.ck = <<>>
  BY <1>1, Message1State DEF C1
<1>3. C2 \in States /\ C3 \in States /\ C3.step = 3
  BY <1>2, MessageAState, MessageBState DEF C2, C3
<1>5. Len(C1.h) >= 2 /\ C1.h[2] = "client s"
  BY <1>1, HashKept, Zenon DEF C1
<1> QED BY <1>1, <1>2, <1>3, <1>5

LEMMA ServerStates ==
    ASSUME Given
    PROVE  /\ S0 \in States /\ S1 \in States /\ S2 \in States
           /\ S0.step = 0 /\ S2.step = 2
           /\ S1.ck = <<>> /\ Len(S1.h) >= 2 /\ S1.h[2] = known
<1>0. known \in {"client s", "stale"}
  BY DEF Given
<1>1. S0 \in States /\ S0.step = 0 /\ S0.ck = <<>>
      /\ Len(S0.h) \in Nat /\ Len(S0.h) >= 2 /\ S0.h[2] = known
  BY <1>0, StartState DEF S0
<1>2. S1 \in States /\ S1.step = 1 /\ S1.ck = <<>>
  BY <1>1, Message1State DEF S1
<1>3. S2 \in States /\ S2.step = 2
  BY <1>2, MessageAState DEF S2
<1>5. Len(S1.h) >= 2 /\ S1.h[2] = known
  BY <1>1, HashKept, Zenon DEF S1
<1> QED BY <1>1, <1>2, <1>3, <1>5

LEMMA SameStates == known = "client s" => S1 = C1 /\ S2 = C2 /\ S3 = C3
BY DEF S0, S1, S2, S3, C0, C1, C2, C3

\* The client can read the server's hello exactly if the server knows its key.
LEMMA HelloRead ==
    ASSUME Given
    PROVE  ReadsA(C1, CiphersA(S1)) <=> known = "client s"
<1>1. CASE known = "client s"
  BY <1>1, SameStates DEF ReadsA, CiphersA, Decrypts, Encrypted, Cipher
<1>2. CASE known # "client s"
  <2>1. Len(C1.h) \in Nat /\ Len(S1.h) \in Nat
    BY ClientStates, ServerStates, LenProperties DEF States, Hashes
  <2>2. AfterEe(C1).h[2] = "client s" /\ AfterEe(S1).h[2] = known
    BY <2>1, ClientStates, ServerStates, HashKept
  <2>3. ~Decrypts(AfterEe(C1), CiphersA(S1)[1])
    BY <1>2, <2>2 DEF Decrypts, CiphersA, Encrypted, Cipher
  <2> QED BY <1>2, <2>3 DEF ReadsA
<1> QED BY <1>1, <1>2

------------------------------------------------------------------------------
(* The ciphertexts.                                                          *)

\* The messages of the handshake: three keys, of which one is used twice.
LEMMA HandshakeCiphers ==
    ASSUME Given
    PROVE  \E k1, k2, k3, k4 \in Chains :
             /\ Len(k1) = 1 /\ Len(k2) = 2 /\ Len(k3) = 2 /\ Len(k4) = 3
             /\ CiphersA(S1)[1].key = Key(k1, 0) /\ CiphersA(S1)[1].nonce = 0
             /\ CiphersA(S1)[2].key = Key(k2, 0) /\ CiphersA(S1)[2].nonce = 0
             /\ CiphersB(C2)[1].key = Key(k3, 0) /\ CiphersB(C2)[1].nonce = 1
             /\ CiphersB(C2)[2].key = Key(k4, 0) /\ CiphersB(C2)[2].nonce = 0
<1> DEFINE k1 == AfterEe(S1).ck
           k2 == AfterEs(S1).ck
           k3 == C2.ck
           k4 == AfterSe(C2).ck
<1>1. Len(S1.ck) = 0 /\ Len(C1.ck) = 0
  BY ClientStates, ServerStates
<1>2. /\ AfterEe(S1) \in States /\ AfterEe(S1).k = Key(k1, 0) /\ AfterEe(S1).n = 0
      /\ AfterEs(S1) \in States /\ AfterEs(S1).k = Key(k2, 0) /\ AfterEs(S1).n = 0
      /\ Len(k1) = 1 /\ Len(k2) = 2
  <2>1. S1 \in States
    BY ServerStates
  <2>2. /\ AfterEe(S1) \in States /\ AfterEe(S1).k = Key(k1, 0) /\ AfterEe(S1).n = 0
        /\ AfterEs(S1) \in States /\ AfterEs(S1).k = Key(k2, 0) /\ AfterEs(S1).n = 0
        /\ Len(k1) = Len(S1.ck) + 1 /\ Len(k2) = Len(S1.ck) + 2
    BY <2>1, MessageAState, Zenon
  <2> HIDE DEF k1, k2
  <2> QED BY <1>1, <2>2
<1>3. C2 \in States /\ C2.k = Key(k3, 0) /\ C2.n = 1 /\ Len(k3) = 2
  <2>1. C1 \in States
    BY ClientStates
  <2>2. /\ C2 \in States /\ C2.k = AfterEs(C1).k /\ C2.n = 1 /\ k3 = AfterEs(C1).ck
        /\ AfterEs(C1).k = Key(AfterEs(C1).ck, 0) /\ Len(AfterEs(C1).ck) = Len(C1.ck) + 2
    BY <2>1, MessageAState, Zenon DEF C2
  <2>3. C2.k = Key(k3, 0) /\ Len(k3) = Len(C1.ck) + 2
    BY <2>2, Zenon
  <2> HIDE DEF k3
  <2> QED BY <1>1, <2>2, <2>3
<1>4. AfterSe(C2) \in States /\ AfterSe(C2).k = Key(k4, 0) /\ AfterSe(C2).n = 0 /\ Len(k4) = 3
  <2>1. /\ AfterSe(C2) \in States /\ AfterSe(C2).k = Key(k4, 0) /\ AfterSe(C2).n = 0
        /\ Len(k4) = Len(k3) + 1
    BY <1>3, MessageBState, Zenon
  <2> HIDE DEF k3, k4
  <2> QED BY <1>3, <2>1
<1>5. k1 \in Chains /\ k2 \in Chains /\ k3 \in Chains /\ k4 \in Chains
  BY <1>2, <1>3, <1>4 DEF States
<1>6. /\ CiphersA(S1)[1].key = Key(k1, 0) /\ CiphersA(S1)[1].nonce = 0
      /\ CiphersA(S1)[2].key = Key(k2, 0) /\ CiphersA(S1)[2].nonce = 0
  BY <1>2 DEF CiphersA, Encrypted, Cipher
<1>7. /\ CiphersB(C2)[1].key = Key(k3, 0) /\ CiphersB(C2)[1].nonce = 1
      /\ CiphersB(C2)[2].key = Key(k4, 0) /\ CiphersB(C2)[2].nonce = 0
  BY <1>3, <1>4 DEF CiphersB, Encrypted, Cipher
<1> HIDE DEF k1, k2, k3, k4
<1> QED BY <1>2, <1>3, <1>4, <1>5, <1>6, <1>7

\* Of what is ever encrypted the key and the nonce determine the rest.
LEMMA Determined ==
    ASSUME Given, NEW c \in Nat, NEW d \in Nat, NEW a, NEW b, Made(made, S1, a, b, c, d)
    PROVE  NonceUsedOnce
<1> SUFFICES ASSUME NEW x \in made, NEW y \in made, x.key = y.key, x.nonce = y.nonce
             PROVE  x = y
  BY DEF NonceUsedOnce
<1> DEFINE Kind(z) == \/ z \in {CiphersA(S1)[1], CiphersA(S1)[2]}
                      \/ z \in {CiphersB(C2)[1], CiphersB(C2)[2]}
<1>1. PICK k1, k2, k3, k4 \in Chains :
             /\ Len(k1) = 1 /\ Len(k2) = 2 /\ Len(k3) = 2 /\ Len(k4) = 3
             /\ CiphersA(S1)[1].key = Key(k1, 0) /\ CiphersA(S1)[1].nonce = 0
             /\ CiphersA(S1)[2].key = Key(k2, 0) /\ CiphersA(S1)[2].nonce = 0
             /\ CiphersB(C2)[1].key = Key(k3, 0) /\ CiphersB(C2)[1].nonce = 1
             /\ CiphersB(C2)[2].key = Key(k4, 0) /\ CiphersB(C2)[2].nonce = 0
  BY HandshakeCiphers
<1>2. \A u, v, p, q : Key(u, p) = Key(v, q) => u = v /\ p = q
  BY DEF Key
<1>3. \A n \in Nat : /\ ClientFrame(n).key = Key(C3.ck, 1) /\ ClientFrame(n).nonce = n
                     /\ ServerFrame(n).key = Key(C3.ck, 2) /\ ServerFrame(n).nonce = n
  BY DEF ClientFrame, ServerFrame, Cipher
<1>4. ASSUME NEW z \in made
      PROVE  \/ Kind(z) \/ (\E n \in Nat : z = ClientFrame(n)) \/ (\E n \in Nat : z = ServerFrame(n))
  BY DEF Made
<1>5. CASE Kind(x) /\ Kind(y)
  <2> DEFINE a1 == CiphersA(S1)[1]
             a2 == CiphersA(S1)[2]
             b1 == CiphersB(C2)[1]
             b2 == CiphersB(C2)[2]
  <2>1. x \in {a1, a2, b1, b2} /\ y \in {a1, a2, b1, b2}
    BY <1>5
  <2> HIDE DEF a1, a2, b1, b2
  <2>2. /\ a1.key = Key(k1, 0) /\ a1.nonce = 0 /\ a2.key = Key(k2, 0) /\ a2.nonce = 0
        /\ b1.key = Key(k3, 0) /\ b1.nonce = 1 /\ b2.key = Key(k4, 0) /\ b2.nonce = 0
    BY <1>1 DEF a1, a2, b1, b2
  <2>3. k1 # k2 /\ k1 # k3 /\ k1 # k4 /\ k2 # k4 /\ k3 # k4
    BY <1>1
  <2> QED BY <1>2, <2>1, <2>2, <2>3
<1>6. ASSUME NEW z, Kind(z) PROVE \E k : z.key = Key(k, 0)
  BY <1>1, <1>6
<1> HIDE DEF Kind
<1>7. CASE \E n \in Nat : x = ClientFrame(n)
  BY <1>2, <1>3, <1>4, <1>6, <1>7
<1>8. CASE \E n \in Nat : x = ServerFrame(n)
  BY <1>2, <1>3, <1>4, <1>6, <1>8
<1>9. CASE Kind(x) /\ ~Kind(y)
  BY <1>2, <1>3, <1>4, <1>6, <1>9
<1> QED BY <1>4, <1>5, <1>7, <1>8, <1>9

\* The hello and the finish add two ciphertexts, each frame adds one.
LEMMA Parts ==
    /\ \A s : /\ CiphersA(s)[1].of = "server" /\ CiphersA(s)[1].part = 1
              /\ CiphersA(s)[2].of = "server" /\ CiphersA(s)[2].part = 2
    /\ CiphersB(C2)[1].of = "client" /\ CiphersB(C2)[1].part = 1
    /\ CiphersB(C2)[2].of = "client" /\ CiphersB(C2)[2].part = 2
    /\ \A n : /\ ClientFrame(n).of = "client" /\ ClientFrame(n).part = n + 3
              /\ ServerFrame(n).of = "server" /\ ServerFrame(n).part = n + 3
BY DEF CiphersA, CiphersB, Encrypted, Cipher, ClientFrame, ServerFrame

LEMMA TwoElements ==
    ASSUME NEW x, NEW y, x # y
    PROVE  IsFiniteSet({x, y}) /\ Cardinality({x, y}) = 2
<1>1. IsFiniteSet({x}) /\ Cardinality({x}) = 1
  BY FS_Singleton
<1>2. {x, y} = {x} \cup {y} /\ y \notin {x}
  OBVIOUS
<1>3. IsFiniteSet({x} \cup {y}) /\ Cardinality({x} \cup {y}) = 1 + 1
  BY <1>1, <1>2, FS_AddElement
<1> QED BY <1>2, <1>3

LEMMA HelloMade ==
    ASSUME NEW s
    PROVE  Made({CiphersA(s)[1], CiphersA(s)[2]}, s, 2, 0, 0, 0)
<1> DEFINE x == CiphersA(s)[1]
           y == CiphersA(s)[2]
<1>1. x.of = "server" /\ y.of = "server" /\ x # y
  BY Parts
<1> HIDE DEF x, y
<1>2. Of({x, y}, "client") = {} /\ Of({x, y}, "server") = {x, y}
  BY <1>1 DEF Of
<1>3. /\ IsFiniteSet({}) /\ Cardinality({}) = 0
      /\ IsFiniteSet({x, y}) /\ Cardinality({x, y}) = 2
  BY <1>1, FS_EmptySet, TwoElements
<1>4. \A z \in {x, y} : z \in {CiphersA(s)[1], CiphersA(s)[2]}
  BY DEF x, y
<1>5. Made({x, y}, s, 2, 0, 0, 0)
  BY <1>2, <1>3, <1>4 DEF Made
<1> QED BY <1>5 DEF x, y

LEMMA FinishMade ==
    ASSUME NEW all, NEW s, Made(all, s, 2, 0, 0, 0)
    PROVE  Made(all \cup {CiphersB(C2)[1], CiphersB(C2)[2]}, s, 2, 2, 0, 0)
<1> DEFINE x == CiphersB(C2)[1]
           y == CiphersB(C2)[2]
           more == all \cup {x, y}
<1>1. x.of = "client" /\ y.of = "client" /\ x # y
  BY Parts
<1>2. /\ IsFiniteSet(Of(all, "client")) /\ Cardinality(Of(all, "client")) = 0
      /\ IsFiniteSet(Of(all, "server")) /\ Cardinality(Of(all, "server")) = 2
  BY DEF Made
<1>3. Of(all, "client") = {}
  BY <1>2, FS_EmptySet
<1>4. \A z \in more : \/ z \in {CiphersA(s)[1], CiphersA(s)[2]}
                      \/ z \in {CiphersB(C2)[1], CiphersB(C2)[2]}
  BY DEF Made
<1> HIDE DEF x, y
<1>5. Of(more, "client") = {x, y} /\ Of(more, "server") = Of(all, "server")
  BY <1>1, <1>3 DEF Of
<1>6. IsFiniteSet({x, y}) /\ Cardinality({x, y}) = 2
  BY <1>1, TwoElements
<1> HIDE DEF more
<1>7. Made(more, s, 2, 2, 0, 0)
  BY <1>2, <1>4, <1>5, <1>6 DEF Made
<1> QED BY <1>7 DEF more, x, y

\* A frame of the client is a new ciphertext.
LEMMA ClientFrameMade ==
    ASSUME NEW all, NEW s, NEW c \in Nat, NEW d \in Nat, Made(all, s, 2, 2, c, d)
    PROVE  Made(all \cup {ClientFrame(c)}, s, 2, 2, c + 1, d)
<1> DEFINE f == ClientFrame(c)
           more == all \cup {f}
<1>1. f.of = "client" /\ f \notin Of(all, "client")
  <2> SUFFICES ASSUME f \in all PROVE FALSE
    BY Parts DEF Of
  <2>1. f.of = "client" /\ f.part = c + 3
    BY Parts
  <2>2. f \notin {CiphersA(s)[1], CiphersA(s)[2]} /\ f \notin {CiphersB(C2)[1], CiphersB(C2)[2]}
    <3> HIDE DEF f
    <3> QED BY <2>1, Parts
  <2>3. \A n \in 0..(c - 1) : f # ClientFrame(n)
    <3> HIDE DEF f
    <3> QED BY <2>1, Parts
  <2>4. \A n \in 0..(d - 1) : f # ServerFrame(n)
    <3> HIDE DEF f
    <3> QED BY <2>1, Parts
  <2> QED BY <2>2, <2>3, <2>4 DEF Made
<1>2. /\ IsFiniteSet(Of(all, "client")) /\ Cardinality(Of(all, "client")) = c + 2
      /\ IsFiniteSet(Of(all, "server")) /\ Cardinality(Of(all, "server")) = d + 2
  BY DEF Made
<1>3. \A z \in more : \/ z \in {CiphersA(s)[1], CiphersA(s)[2]}
                      \/ z \in {CiphersB(C2)[1], CiphersB(C2)[2]}
                      \/ \E n \in 0..((c + 1) - 1) : z = ClientFrame(n)
                      \/ \E n \in 0..(d - 1) : z = ServerFrame(n)
  <2>1. c \in 0..((c + 1) - 1) /\ \A n \in 0..(c - 1) : n \in 0..((c + 1) - 1)
    OBVIOUS
  <2> QED BY <2>1 DEF Made
<1> HIDE DEF f
<1>4. Of(more, "client") = Of(all, "client") \cup {f} /\ Of(more, "server") = Of(all, "server")
  BY <1>1 DEF Of
<1>5. IsFiniteSet(Of(more, "client")) /\ Cardinality(Of(more, "client")) = (c + 1) + 2
  <2> DEFINE old == Of(all, "client")
  <2> HIDE DEF old
  <2>1. /\ IsFiniteSet(old \cup {f})
        /\ Cardinality(old \cup {f}) = Cardinality(old) + 1
    BY <1>1, <1>2, FS_AddElement DEF old
  <2>2. Cardinality(old) = c + 2
    BY <1>2 DEF old
  <2>3. Of(more, "client") = old \cup {f}
    BY <1>4 DEF old
  <2> HIDE DEF more
  <2> QED BY <2>1, <2>2, <2>3
<1> HIDE DEF more
<1>6. Made(more, s, 2, 2, c + 1, d)
  BY <1>2, <1>3, <1>4, <1>5 DEF Made
<1> QED BY <1>6 DEF more, f

\* So is a frame of the server.
LEMMA ServerFrameMade ==
    ASSUME NEW all, NEW s, NEW c \in Nat, NEW d \in Nat, Made(all, s, 2, 2, c, d)
    PROVE  Made(all \cup {ServerFrame(d)}, s, 2, 2, c, d + 1)
<1> DEFINE f == ServerFrame(d)
           more == all \cup {f}
<1>1. f.of = "server" /\ f \notin Of(all, "server")
  <2> SUFFICES ASSUME f \in all PROVE FALSE
    BY Parts DEF Of
  <2>1. f.of = "server" /\ f.part = d + 3
    BY Parts
  <2>2. f \notin {CiphersA(s)[1], CiphersA(s)[2]} /\ f \notin {CiphersB(C2)[1], CiphersB(C2)[2]}
    <3> HIDE DEF f
    <3> QED BY <2>1, Parts
  <2>3. \A n \in 0..(c - 1) : f # ClientFrame(n)
    <3> HIDE DEF f
    <3> QED BY <2>1, Parts
  <2>4. \A n \in 0..(d - 1) : f # ServerFrame(n)
    <3> HIDE DEF f
    <3> QED BY <2>1, Parts
  <2> QED BY <2>2, <2>3, <2>4 DEF Made
<1>2. /\ IsFiniteSet(Of(all, "client")) /\ Cardinality(Of(all, "client")) = c + 2
      /\ IsFiniteSet(Of(all, "server")) /\ Cardinality(Of(all, "server")) = d + 2
  BY DEF Made
<1>3. \A z \in more : \/ z \in {CiphersA(s)[1], CiphersA(s)[2]}
                      \/ z \in {CiphersB(C2)[1], CiphersB(C2)[2]}
                      \/ \E n \in 0..(c - 1) : z = ClientFrame(n)
                      \/ \E n \in 0..((d + 1) - 1) : z = ServerFrame(n)
  <2>1. d \in 0..((d + 1) - 1) /\ \A n \in 0..(d - 1) : n \in 0..((d + 1) - 1)
    OBVIOUS
  <2> QED BY <2>1 DEF Made
<1> HIDE DEF f
<1>4. Of(more, "server") = Of(all, "server") \cup {f} /\ Of(more, "client") = Of(all, "client")
  BY <1>1 DEF Of
<1>5. IsFiniteSet(Of(more, "server")) /\ Cardinality(Of(more, "server")) = (d + 1) + 2
  <2> DEFINE old == Of(all, "server")
  <2> HIDE DEF old
  <2>1. /\ IsFiniteSet(old \cup {f})
        /\ Cardinality(old \cup {f}) = Cardinality(old) + 1
    BY <1>1, <1>2, FS_AddElement DEF old
  <2>2. Cardinality(old) = d + 2
    BY <1>2 DEF old
  <2>3. Of(more, "server") = old \cup {f}
    BY <1>4 DEF old
  <2> HIDE DEF more
  <2> QED BY <2>1, <2>2, <2>3
<1> HIDE DEF more
<1>6. Made(more, s, 2, 2, c, d + 1)
  BY <1>2, <1>3, <1>4, <1>5 DEF Made
<1> QED BY <1>6 DEF more, f

------------------------------------------------------------------------------
(* The handshake, one lemma per action.                                      *)

Points == New \/ Greeted \/ Answered \/ GaveUp \/ Finishing \/ Up

\* What is given stays given, and the server's states with it.
LEMMA Kept ==
    UNCHANGED given => /\ S0' = S0 /\ S1' = S1 /\ S2' = S2
                       /\ known' = known /\ certificate' = certificate
                       /\ trustedKeys' = trustedKeys
BY DEF given, S0, S1, S2

\* Where the server is tells the points apart.
LEMMA ServerStep ==
    ASSUME Given
    PROVE  /\ New \/ Greeted => server.step = 0
           /\ Answered \/ GaveUp \/ Finishing => server.step = 2
           /\ Up => server.step = 3
BY ServerStates, ClientStates DEF New, Greeted, Answered, GaveUp, Finishing, Up

\* A new connection.
LEMMA InitInv == Init => IInv
<1> SUFFICES ASSUME Init PROVE IInv
  OBVIOUS
<1>1. Given /\ RejectedForCause
  BY DEF Init, Given, RejectedForCause
<1>2. New
  BY DEF Init, New, NoSessions, C0, S0
<1> QED BY <1>1, <1>2 DEF IInv

\* The client's hello.
LEMMA SendHelloInv ==
    ASSUME IInv, SendHello
    PROVE  IInv'
<1>1. New
  BY DEF IInv, SendHello, New, Greeted, Answered, GaveUp, Finishing, Up, ClientUp
<1>2. /\ phase' = "sent_e" /\ client' = Message1(client) /\ toServer' = Append(toServer, <<>>)
      /\ UNCHANGED <<server, sessions, buffers, given, ws, frames, toClient, opened, made>>
  BY DEF SendHello
<1>3. toServer' = << <<>> >>
  BY <1>1, <1>2 DEF New
<1>4. Greeted'
  BY <1>1, <1>2, <1>3, Kept
     DEF New, Greeted, NoSessions, sessions, buffers, C1
<1>5. Given' /\ RejectedForCause'
  BY <1>2, Kept DEF IInv, Given, RejectedForCause
<1> QED BY <1>4, <1>5 DEF IInv

\* The server's hello.
LEMMA ServerHelloInv ==
    ASSUME IInv, ServerHello
    PROVE  IInv'
<1>1. Greeted
  BY ServerStep DEF IInv, ServerHello, New
<1>2. /\ UNCHANGED <<client, phase, sessions, buffers, given, ws, opened>>
      /\ server' = S2 /\ frames' = <<CiphersA(S1)>>
      /\ made' = made \cup {CiphersA(S1)[1], CiphersA(S1)[2]}
      /\ toClient' = <<1, 1>> /\ toServer' = Tail(toServer)
  BY <1>1 DEF ServerHello, Greeted, S1, S2
<1>3. toServer' = <<>> /\ made' = {CiphersA(S1)[1], CiphersA(S1)[2]}
  BY <1>1, <1>2 DEF Greeted
<1>4. Made(made', S1', 2, 0, 0, 0)
  BY <1>2, <1>3, HelloMade, Kept
<1>5. Answered'
  <2>1. /\ toClient' \in Seq({1}) /\ Len(toClient') = 2
        /\ rxBuf' = <<>> /\ rxBuf' \in Seq({1}) /\ Len(rxBuf') = 0
    BY <1>1, <1>2, EmptySeq DEF Greeted, buffers
  <2>2. Len(rxBuf') < 2 /\ Len(rxBuf') + Len(toClient') = 2
    BY <2>1
  <2> QED BY <1>1, <1>2, <1>3, <1>4, <2>1, <2>2, Kept
          DEF Greeted, Answered, NoSessions, sessions, buffers
<1>6. Given' /\ RejectedForCause'
  BY <1>2, Kept DEF IInv, Given, RejectedForCause
<1> QED BY <1>5, <1>6 DEF IInv

\* The reasons to reject a certificate.
LEMMA RejectedCertificate ==
    ASSUME Given, CertificateRejected(certificate)
    PROVE  /\ Strict /\ trustedKeys # {}
           /\ certificate \in [payload : {"details"}, expired : {FALSE}, signer : {"other"}]
<1>1. Strict /\ ValidateNoiseCertificate(certificate) = "signature not valid"
  BY Zenon DEF CertificateRejected
<1>2. certificate.payload \notin {"none", "garbled"}
  BY <1>1 DEF ValidateNoiseCertificate
<1>3. certificate \in [payload : {"details"}, expired : BOOLEAN, signer : {"ca", "other"}]
  BY <1>2 DEF Given, Certificates
<1>4. certificate.payload = "details" /\ certificate.expired \in BOOLEAN
  BY <1>3
<1>5. ~certificate.expired
  BY <1>1, <1>2, <1>4 DEF ValidateNoiseCertificate
<1>6. trustedKeys # {} /\ certificate.signer \notin trustedKeys
  BY <1>1, <1>2, <1>4, <1>5 DEF ValidateNoiseCertificate
<1>7. trustedKeys = {"ca"}
  BY <1>6 DEF Given
<1>8. certificate.signer = "other" /\ certificate.expired = FALSE
  BY <1>3, <1>5, <1>6, <1>7
<1> QED BY <1>1, <1>3, <1>6, <1>8

\* The first n of b are appended to a; the rest of b is left.
IsCut(S, a, b, n, buf, rest) ==
    /\ buf \in Seq(S) /\ Len(buf) = Len(a) + n
    /\ \A i \in 1..Len(a) : buf[i] = a[i]
    /\ \A i \in 1..n : buf[Len(a) + i] = b[i]
    /\ rest \in Seq(S) /\ Len(rest) = Len(b) - n
    /\ \A i \in 1..(Len(b) - n) : rest[i] = b[n + i]

LEMMA Cut ==
    ASSUME NEW S, NEW a \in Seq(S), NEW b \in Seq(S), NEW n \in 1..Len(b)
    PROVE  IsCut(S, a, b, n, a \o SubSeq(b, 1, n), SubSeq(b, n + 1, Len(b)))
<1> DEFINE c == SubSeq(b, 1, n)
           rest == SubSeq(b, n + 1, Len(b))
<1>1. Len(a) \in Nat /\ Len(b) \in Nat
  BY LenProperties
<1>2. c \in Seq(S) /\ Len(c) = n /\ \A i \in 1..n : c[i] = b[i]
  <2>1. 1 \in 1..(Len(b) + 1) /\ n \in (1 - 1)..Len(b)
    BY <1>1
  <2>2. /\ c \in Seq(S) /\ Len(c) = IF 1 <= n THEN n - 1 + 1 ELSE 0
        /\ \A i \in 1..(n - 1 + 1) : c[i] = b[1 + i - 1]
    BY <2>1, SubSeqProperties
  <2> HIDE DEF c
  <2> QED BY <1>1, <2>2
<1>3. rest \in Seq(S) /\ Len(rest) = Len(b) - n /\ \A i \in 1..(Len(b) - n) : rest[i] = b[n + i]
  <2>1. n + 1 \in 1..(Len(b) + 1) /\ Len(b) \in ((n + 1) - 1)..Len(b)
    BY <1>1
  <2>2. /\ rest \in Seq(S) /\ Len(rest) = IF n + 1 <= Len(b) THEN Len(b) - (n + 1) + 1 ELSE 0
        /\ \A i \in 1..(Len(b) - (n + 1) + 1) : rest[i] = b[(n + 1) + i - 1]
    BY <2>1, SubSeqProperties
  <2> HIDE DEF rest
  <2> QED BY <1>1, <2>2
<1> HIDE DEF c, rest
<1>4. /\ a \o c \in Seq(S) /\ Len(a \o c) = Len(a) + Len(c)
      /\ \A i \in 1..(Len(a) + Len(c)) : (a \o c)[i] = IF i <= Len(a) THEN a[i] ELSE c[i - Len(a)]
  BY <1>2, ConcatProperties
<1>5. \A i \in 1..Len(a) : (a \o c)[i] = a[i]
  BY <1>1, <1>2, <1>4
<1>6. \A i \in 1..n : (a \o c)[Len(a) + i] = b[i]
  <2> TAKE i \in 1..n
  <2>1. Len(a) + i \in 1..(Len(a) + Len(c)) /\ ~(Len(a) + i <= Len(a)) /\ (Len(a) + i) - Len(a) = i
    BY <1>1, <1>2
  <2> QED BY <1>2, <1>4, <2>1
<1>7. IsCut(S, a, b, n, a \o c, rest)
  BY <1>2, <1>3, <1>4, <1>5, <1>6 DEF IsCut
<1> QED BY <1>7 DEF c, rest

\* What is left of a buffer.
LEMMA Left ==
    ASSUME NEW S, NEW s \in Seq(S), NEW k \in 0..Len(s)
    PROVE  LET rest == SubSeq(s, k + 1, Len(s))
           IN /\ rest \in Seq(S) /\ Len(rest) = Len(s) - k
              /\ \A i \in 1..(Len(s) - k) : rest[i] = s[k + i]
<1> DEFINE rest == SubSeq(s, k + 1, Len(s))
<1>1. Len(s) \in Nat
  BY LenProperties
<1>2. k + 1 \in 1..(Len(s) + 1) /\ Len(s) \in ((k + 1) - 1)..Len(s)
  BY <1>1
<1>3. /\ rest \in Seq(S) /\ Len(rest) = IF k + 1 <= Len(s) THEN Len(s) - (k + 1) + 1 ELSE 0
      /\ \A i \in 1..(Len(s) - (k + 1) + 1) : rest[i] = s[(k + 1) + i - 1]
  BY <1>2, SubSeqProperties
<1> HIDE DEF rest
<1>4. /\ rest \in Seq(S) /\ Len(rest) = Len(s) - k
      /\ \A i \in 1..(Len(s) - k) : rest[i] = s[k + i]
  BY <1>1, <1>3
<1> QED BY <1>4 DEF rest

\* onHandshakeBytes.
LEMMA HandshakeBytesInv ==
    ASSUME IInv, NEW n \in 1..Len(toClient), OnHandshakeBytes(SubSeq(toClient, 1, n)),
           ws # "closed", toClient' = SubSeq(toClient, n + 1, Len(toClient)),
           UNCHANGED <<server, serverSession, given, frames>>
    PROVE  IInv'
<1> DEFINE buf == rxBuf \o SubSeq(toClient, 1, n)
<1>1. phase = "sent_e" /\ UNCHANGED <<rxBuffer, opened>>
  BY DEF OnHandshakeBytes
<1>2. Answered
  <2>1. ~New /\ ~GaveUp /\ ~Finishing /\ ~Up
    BY <1>1 DEF New, GaveUp, Finishing, Up, ClientUp
  <2>2. ~Greeted
    BY DEF Greeted
  <2> QED BY <2>1, <2>2 DEF IInv
<1> DEFINE rest == SubSeq(toClient, n + 1, Len(toClient))
<1>3. /\ buf \in Seq({1}) /\ Len(buf) = Len(rxBuf) + n
      /\ rest \in Seq({1}) /\ Len(rest) = Len(toClient) - n
  <2>1. IsCut({1}, rxBuf, toClient, n, buf, rest)
    BY <1>2, Cut DEF Answered
  <2> QED BY <2>1 DEF IsCut
<1>6. Len(rxBuf) \in Nat /\ Len(toClient) \in Nat /\ toClient' = rest
  BY <1>2, LenProperties DEF Answered
<1>4. CASE Len(buf) < 2
  <2>2. rxBuf' = buf /\ UNCHANGED <<client, clientSession, phase, ws, toServer, made>>
    <3>1. ~(Len(buf) >= 2)
      BY <1>2, <1>3, <1>6, <1>4
    <3> QED BY <3>1 DEF OnHandshakeBytes
  <2>3. Len(rxBuf') < 2 /\ Len(rxBuf') + Len(toClient') = 2
    <3> HIDE DEF buf, rest
    <3> QED BY <1>2, <1>3, <1>6, <1>4, <2>2 DEF Answered
  <2>4. Answered'
    <3> HIDE DEF buf, rest
    <3> QED BY <1>1, <1>2, <1>3, <1>6, <2>2, <2>3, Kept DEF Answered, NoSessions
  <2>5. Given' /\ RejectedForCause'
    BY <1>1, <2>2, Kept DEF IInv, Given, RejectedForCause
  <2> QED BY <2>4, <2>5 DEF IInv
<1>5. CASE ~(Len(buf) < 2)
  <2> DEFINE hello == CiphersA(S1)
             accepted == ReadsA(client, hello) /\ ~CertificateRejected(certificate)
  <2>0. Len(buf) = 2 /\ Len(rest) = 0
    <3> HIDE DEF buf, rest
    <3> QED BY <1>2, <1>3, <1>6, <1>5 DEF Answered
  <2>1. buf[1] = 1 /\ SubSeq(buf, 3, Len(buf)) = <<>> /\ toClient' = <<>>
    <3>1. buf[1] \in {1}
      <4> HIDE DEF buf
      <4> QED BY <1>3, <2>0, ElementOfSeq
    <3>2. toClient' = <<>>
      <4> HIDE DEF rest
      <4> QED BY <1>3, <1>6, <2>0, EmptySeq
    <3>3. SubSeq(buf, 3, Len(buf)) = <<>>
      <4>1. SubSeq(buf, 3, 2) = <<>>
        BY SubSeqEmpty
      <4> QED BY <2>0, <4>1
    <3> QED BY <3>1, <3>2, <3>3
  <2>2. frames[1] = hello /\ client = C1 /\ toServer = <<>>
    BY <1>2 DEF Answered
  <2>3. rxBuf' = <<>> /\ Continue(hello)
    <3>1. Len(buf) >= 2
      BY <2>0
    <3> HIDE DEF hello
    <3> QED BY <1>5, <2>1, <2>2, <3>1 DEF OnHandshakeBytes
  <2>4. ReadsA(client, hello) <=> known = "client s"
    BY <2>2, HelloRead DEF IInv
  <2>5. Given'
    <3>1. ws' \in {"open", "lost", "closed"}
      BY <2>3 DEF Continue, Reject, SendFinish, IInv, Given
    <3> QED BY <3>1, Kept DEF IInv, Given
  <2>6. CASE ~accepted
    <3>1. Reject /\ UNCHANGED <<client, clientSession, toServer, made>>
      BY <2>3, <2>6 DEF Continue
    <3>2. known = "stale" \/ CertificateRejected(certificate)
      BY <2>4, <2>6 DEF IInv, Given
    <3>3. RejectedForCause'
      BY <3>2, RejectedCertificate, Kept DEF RejectedForCause, IInv
    <3>4. GaveUp'
      BY <1>2, <3>1, Kept DEF Reject, Answered, GaveUp
    <3> QED BY <2>5, <3>3, <3>4 DEF IInv
  <2>7. CASE accepted
    <3>1. /\ client' = C3
          /\ made' = made \cup {CiphersB(C2)[1], CiphersB(C2)[2]}
          /\ SendFinish(C3, CiphersB(C2))
      BY <2>2, <2>3, <2>7 DEF Continue, C2, C3
    <3>2. Made(made', S1', 2, 2, 0, 0)
      BY <1>2, <3>1, FinishMade, Kept DEF Answered
    <3>3. CASE ws # "open"
      <4>1. Reject /\ UNCHANGED <<toServer, clientSession>> /\ ws = "lost"
        BY <3>1, <3>3 DEF SendFinish, IInv, Given
      <4>2. RejectedForCause'
        BY <4>1 DEF Reject, RejectedForCause
      <4>3. GaveUp'
        BY <1>2, <3>2, <4>1, Kept DEF Reject, Answered, GaveUp
      <4> QED BY <2>5, <4>2, <4>3 DEF IInv
    <3>4. CASE ws = "open"
      <4>1. /\ phase' = "noise_done" /\ ws' = ws
            /\ toServer' = Append(<<>>, CiphersB(C2)) /\ clientSession' = Split(C3, TRUE)
        BY <2>2, <3>1, <3>4 DEF SendFinish
      <4>2. toServer' = <<CiphersB(C2)>> /\ Len(toServer') = 1 /\ toServer'[1] = CiphersB(C2)
        BY <4>1
      <4>3. known = "client s"
        BY <2>4, <2>7
      <4>4. clientSession' = [ sendKey |-> Key(C3.ck, 1), recvKey |-> Key(C3.ck, 2),
                               writeNonce |-> 0, readNonce |-> 0 ]
        BY <4>1 DEF Split
      <4>5. /\ opened' = <<>> /\ rxBuffer' = <<>> /\ serverSession' = NoSession
            /\ server' = S2 /\ frames' = <<CiphersA(S1)>>
        BY <1>1, <1>2 DEF Answered, NoSessions
      <4>6. /\ toServer' \in Seq(ClientPackets) /\ frames' \in Seq(ServerPackets)
        BY <4>2, <4>5 DEF ClientPackets, ServerPackets
      <4>7. ClientUp'
        <5>1. toServer' \in Seq(ClientPackets) /\ frames' \in Seq(ServerPackets)'
          BY <4>6, Kept DEF ServerPackets
        <5>2. /\ clientSession' \in [ sendKey : {Key(C3.ck, 1)}, recvKey : {Key(C3.ck, 2)},
                                      writeNonce : Nat, readNonce : Nat ]
              /\ clientSession'.readNonce = 0
          <6> DEFINE k1 == Key(C3.ck, 1)
                     k2 == Key(C3.ck, 2)
          <6>1. clientSession' = [ sendKey |-> k1, recvKey |-> k2,
                                   writeNonce |-> 0, readNonce |-> 0 ]
            BY <4>4
          <6> HIDE DEF k1, k2
          <6>2. /\ clientSession' \in [ sendKey : {k1}, recvKey : {k2},
                                        writeNonce : Nat, readNonce : Nat ]
                /\ clientSession'.readNonce = 0
            BY <6>1
          <6> QED BY <6>2 DEF k1, k2
        <5>3. Len(opened') = 0 /\ opened' \in Seq(Nat) /\ rxBuffer' \in Seq(Nat)
              /\ toClient' \in Seq(Nat)
          BY <2>1, <4>5, EmptySeq
        <5>4. phase' = "noise_done" /\ known' = "client s" /\ client' = C3 /\ rxBuf' = <<>>
          BY <2>3, <3>1, <4>1, <4>3, Kept
        <5> HIDE DEF hello, accepted, buf, rest
        <5> QED BY <5>1, <5>2, <5>3, <5>4, Zenon DEF ClientUp
      <4>8. Made(made', S1', 2, 2, clientSession'.writeNonce, 0)
        BY <3>2, <4>4
      <4>9. Finishing'
        <5>1. clientSession'.writeNonce = 0 /\ Len(toServer') - 1 = 0 /\ Len(toServer') >= 1
              /\ \A i \in 2..Len(toServer') : toServer'[i] = <<ClientFrame(i - 2)>>
          BY <4>2, <4>4
        <5>2. server' = S2' /\ frames' = <<CiphersA(S1')>>
          BY <4>5, Kept
        <5> QED BY <2>1, <4>2, <4>5, <4>7, <4>8, <5>1, <5>2 DEF Finishing
      <4>10. RejectedForCause'
        BY <4>1 DEF RejectedForCause
      <4> QED BY <2>5, <4>9, <4>10 DEF IInv
    <3> QED BY <3>3, <3>4
  <2> QED BY <2>6, <2>7
<1> QED BY <1>4, <1>5

\* The client's finish.
LEMMA ServerFinishInv ==
    ASSUME IInv, ServerFinish
    PROVE  IInv'
<1>1. Finishing
  <2>1. server.step = 2 /\ toServer # <<>>
    BY DEF ServerFinish
  <2>2. ~Answered /\ ~GaveUp
    BY <2>1 DEF Answered, GaveUp
  <2> QED BY <2>1, <2>2, ServerStep DEF IInv
<1>2. /\ UNCHANGED <<client, phase, clientSession, buffers, given, ws, frames, toClient,
                     opened, made>>
      /\ server' = MessageB(S2) /\ serverSession' = Split(MessageB(S2), FALSE)
      /\ toServer' = Tail(toServer)
  BY <1>1 DEF ServerFinish, Finishing
<1>3. MessageB(S2) = C3
  BY <1>1, SameStates DEF Finishing, ClientUp, S3
<1>4. serverSession' = [ sendKey |-> Key(C3.ck, 2), recvKey |-> Key(C3.ck, 1),
                         writeNonce |-> 0, readNonce |-> 0 ]
  BY <1>2, <1>3 DEF Split
<1>5. /\ serverSession' \in [ sendKey : {Key(C3.ck, 2)}, recvKey : {Key(C3.ck, 1)},
                              writeNonce : Nat, readNonce : Nat ]
      /\ serverSession'.writeNonce = 0 /\ serverSession'.readNonce = 0
  <2> DEFINE k1 == Key(C3.ck, 1)
             k2 == Key(C3.ck, 2)
  <2>1. serverSession' = [ sendKey |-> k2, recvKey |-> k1, writeNonce |-> 0, readNonce |-> 0 ]
    BY <1>4
  <2> HIDE DEF k1, k2
  <2>2. /\ serverSession' \in [ sendKey : {k2}, recvKey : {k1},
                                writeNonce : Nat, readNonce : Nat ]
        /\ serverSession'.writeNonce = 0 /\ serverSession'.readNonce = 0
    BY <2>1
  <2> QED BY <2>2 DEF k1, k2
<1>6. /\ toServer' \in Seq(ClientPackets) /\ Len(toServer') = Len(toServer) - 1
      /\ Len(toServer) \in Nat
      /\ \A i \in 1..Len(toServer') : toServer'[i] = toServer[i + 1]
  <2>1. toServer \in Seq(ClientPackets) /\ toServer # <<>>
    BY <1>1 DEF ServerFinish, Finishing, ClientUp
  <2> QED BY <1>2, <2>1, HeadTailProperties, LenProperties
<1>7. ClientUp'
  <2>1. frames' \in Seq(ServerPackets)'
    BY <1>1, <1>2, Kept DEF Finishing, ClientUp, ServerPackets
  <2> QED BY <1>1, <1>2, <1>6, <2>1, Kept DEF Finishing, ClientUp, buffers
<1>8. \A i \in 1..Len(toServer') : toServer'[i] = <<ClientFrame(0 + i - 1)>>
  <2> TAKE i \in 1..Len(toServer')
  <2>1. i + 1 \in 2..Len(toServer) /\ (i + 1) - 2 = 0 + i - 1
    BY <1>6
  <2>2. toServer[i + 1] = <<ClientFrame((i + 1) - 2)>>
    BY <1>1, <2>1 DEF Finishing
  <2> QED BY <1>6, <2>1, <2>2
<1>9. ws' = "open" => 0 + Len(toServer') = clientSession'.writeNonce
  BY <1>1, <1>2, <1>6 DEF Finishing
<1>10. Len(frames') = 1 + 0 /\ \A i \in 2..Len(frames') : frames'[i] = <<ServerFrame(i - 2)>>
  BY <1>1, <1>2 DEF Finishing
<1>11. Stream'
  <2>1. /\ Len(opened') = 0 /\ Len(rxBuffer') = 0 /\ Len(toClient') = 0 /\ Len(frames') = 1
    BY <1>1, <1>2, EmptySeq DEF Finishing, buffers
  <2> QED BY <2>1 DEF Stream
<1>12. Made(made', S1', 2, 2, clientSession'.writeNonce, serverSession'.writeNonce)
  BY <1>1, <1>2, <1>5, Kept DEF Finishing
<1>13. Up'
  BY <1>2, <1>3, <1>5, <1>7, <1>8, <1>9, <1>10, <1>11, <1>12 DEF Up
<1>14. Given' /\ RejectedForCause'
  BY <1>2, Kept DEF IInv, Given, RejectedForCause
<1> QED BY <1>13, <1>14 DEF IInv

------------------------------------------------------------------------------
(* The sessions.                                                             *)

\* seal() makes the frame that comes next, whether or not it is sent.
LEMMA ClientSendsStep ==
    ASSUME ClientUp, NEW d \in Nat, Made(made, S1, 2, 2, clientSession.writeNonce, d),
           ClientSends
    PROVE  /\ ClientUp' /\ clientSession'.writeNonce = clientSession.writeNonce + 1
           /\ clientSession.writeNonce \in Nat
           /\ Made(made', S1', 2, 2, clientSession'.writeNonce, d)
           /\ toServer' = IF ws = "open"
                          THEN Append(toServer, <<ClientFrame(clientSession.writeNonce)>>)
                          ELSE toServer
<1> DEFINE c == clientSession.writeNonce
           f == Frame(clientSession, "client")
<1>1. /\ UNCHANGED <<handshake, phase, serverSession, buffers, given, ws, frames, toClient, opened>>
      /\ made' = made \cup {f}
      /\ toServer' = IF ws = "open" THEN Append(toServer, <<f>>) ELSE toServer
      /\ clientSession' = [clientSession EXCEPT !.writeNonce = @ + 1]
  BY DEF ClientSends, Sealed
<1>2. /\ clientSession \in [ sendKey : {Key(C3.ck, 1)}, recvKey : {Key(C3.ck, 2)},
                             writeNonce : Nat, readNonce : Nat ]
      /\ toServer \in Seq(ClientPackets)
  BY DEF ClientUp
<1>3. c \in Nat /\ clientSession.sendKey = Key(C3.ck, 1)
  BY <1>2
<1>4. f = ClientFrame(c)
  <2>1. Cardinality(Of(made, "client")) + 1 = c + 3
    BY <1>3 DEF Made
  <2> QED BY <1>3, <2>1 DEF Frame, ClientFrame, Of
<1> HIDE DEF f
<1>5. /\ clientSession' \in [ sendKey : {Key(C3.ck, 1)}, recvKey : {Key(C3.ck, 2)},
                              writeNonce : Nat, readNonce : Nat ]
      /\ clientSession'.writeNonce = c + 1 /\ clientSession'.readNonce = clientSession.readNonce
  <2> DEFINE k1 == Key(C3.ck, 1)
             k2 == Key(C3.ck, 2)
  <2> HIDE DEF k1, k2
  <2>1. clientSession \in [ sendKey : {k1}, recvKey : {k2}, writeNonce : Nat, readNonce : Nat ]
    BY <1>2 DEF k1, k2
  <2>2. /\ clientSession' \in [ sendKey : {k1}, recvKey : {k2}, writeNonce : Nat, readNonce : Nat ]
        /\ clientSession'.writeNonce = c + 1 /\ clientSession'.readNonce = clientSession.readNonce
    BY <1>1, <2>1
  <2> QED BY <2>2 DEF k1, k2
<1> HIDE DEF c
<1>6. Made(made', S1', 2, 2, clientSession'.writeNonce, d)
  <2>1. Made(made, S1, 2, 2, c, d)
    BY DEF c
  <2>2. Made(made \cup {ClientFrame(c)}, S1, 2, 2, c + 1, d)
    BY <1>3, <2>1, ClientFrameMade
  <2> QED BY <1>1, <1>4, <1>5, <2>2, Kept
<1>7. toServer' \in Seq(ClientPackets)
  <2>1. <<f>> \in ClientPackets
    BY <1>3, <1>4 DEF ClientPackets
  <2> QED BY <1>1, <1>2, <2>1, AppendProperties
<1>8. ClientUp'
  <2>1. frames' \in Seq(ServerPackets)'
    BY <1>1, Kept DEF ClientUp, ServerPackets
  <2> QED BY <1>1, <1>5, <1>7, <2>1, Kept DEF ClientUp, handshake, buffers
<1> QED BY <1>1, <1>3, <1>4, <1>5, <1>6, <1>8 DEF c

\* The client sends: its frames on the way are the next ones of the server.
LEMMA ClientSendsInv ==
    ASSUME IInv, ClientSends
    PROVE  IInv'
<1>1. Finishing \/ Up
  BY DEF IInv, ClientSends, New, Greeted, Answered, GaveUp
<1>2. UNCHANGED <<handshake, phase, serverSession, buffers, given, ws, frames, toClient, opened>>
  BY DEF ClientSends
<1>3. Given' /\ RejectedForCause'
  BY <1>2, Kept DEF IInv, Given, RejectedForCause
<1> DEFINE c == clientSession.writeNonce
<1> DEFINE packet == <<ClientFrame(c)>>
<1>4. CASE Finishing
  <2>1. /\ ClientUp' /\ clientSession'.writeNonce = c + 1 /\ c \in Nat
        /\ Made(made', S1', 2, 2, clientSession'.writeNonce, 0)
        /\ toServer' = IF ws = "open" THEN Append(toServer, packet) ELSE toServer
    BY <1>4, ClientSendsStep DEF Finishing
  <2>2. /\ toServer \in Seq(ClientPackets) /\ Len(toServer) \in Nat /\ Len(toServer) >= 1
        /\ ws = "open" => Len(toServer) = c + 1
        /\ toServer[1] = CiphersB(C2)
        /\ \A i \in 2..Len(toServer) : toServer[i] = <<ClientFrame(i - 2)>>
    <3>1. toServer \in Seq(ClientPackets) /\ Len(toServer) \in Nat
      BY <1>4, LenProperties DEF Finishing, ClientUp
    <3>2. /\ Len(toServer) >= 1
          /\ ws = "open" => Len(toServer) - 1 = c
          /\ toServer[1] = CiphersB(C2)
          /\ \A i \in 2..Len(toServer) : toServer[i] = <<ClientFrame(i - 2)>>
      BY <1>4, Zenon DEF Finishing
    <3>3. ws = "open" => Len(toServer) = c + 1
      <4> HIDE DEF c
      <4> QED BY <2>1, <3>1, <3>2
    <3> QED BY <3>1, <3>2, <3>3, Zenon
  <2>3. CASE ws = "open"
    <3>1. packet \in ClientPackets
      BY <2>1 DEF ClientPackets
    <3>2. /\ Len(toServer') = Len(toServer) + 1 /\ toServer'[Len(toServer) + 1] = packet
          /\ \A i \in 1..Len(toServer) : toServer'[i] = toServer[i]
      <4> HIDE DEF packet
      <4> QED BY <2>1, <2>2, <2>3, <3>1, AppendProperties
    <3>3. c = (Len(toServer) + 1) - 2
      BY <2>1, <2>2, <2>3
    <3>4. \A i \in 2..Len(toServer') : toServer'[i] = <<ClientFrame(i - 2)>>
      <4> TAKE i \in 2..Len(toServer')
      <4>1. CASE i = Len(toServer) + 1
        BY <3>2, <3>3, <4>1
      <4>2. CASE i \in 2..Len(toServer)
        <5>1. i \in 1..Len(toServer)
          BY <4>2
        <5> HIDE DEF packet
        <5> QED BY <2>2, <3>2, <4>2, <5>1
      <4> QED BY <2>2, <3>2, <4>1, <4>2
    <3>5. /\ Len(toServer') >= 1 /\ toServer'[1] = CiphersB(C2)
          /\ Len(toServer') - 1 = clientSession'.writeNonce
      <4> HIDE DEF c, packet
      <4> QED BY <2>1, <2>2, <2>3, <3>2
    <3>6. Finishing'
      BY <1>2, <1>4, <2>1, <3>4, <3>5, Kept DEF Finishing, handshake, buffers
    <3> QED BY <1>3, <3>6 DEF IInv
  <2>4. CASE ws # "open"
    <3>1. Finishing'
      BY <1>2, <1>4, <2>1, <2>4, Kept DEF Finishing, handshake, buffers
    <3> QED BY <1>3, <3>1 DEF IInv
  <2> QED BY <2>3, <2>4
<1>5. CASE Up
  <2> DEFINE r == serverSession.readNonce
             d == serverSession.writeNonce
  <2>0. r \in Nat /\ d \in Nat
    BY <1>5 DEF Up
  <2>1. /\ ClientUp' /\ clientSession'.writeNonce = c + 1 /\ c \in Nat
        /\ Made(made', S1', 2, 2, clientSession'.writeNonce, d)
        /\ toServer' = IF ws = "open" THEN Append(toServer, packet) ELSE toServer
    BY <1>5, <2>0, ClientSendsStep DEF Up
  <2>2. /\ toServer \in Seq(ClientPackets) /\ Len(toServer) \in Nat
        /\ ws = "open" => r + Len(toServer) = c
        /\ \A i \in 1..Len(toServer) : toServer[i] = <<ClientFrame(r + i - 1)>>
    BY <1>5, LenProperties DEF Up, ClientUp
  <2>3. Stream'
    BY <1>2, <1>5 DEF Up, Stream, buffers
  <2>4. CASE ws = "open"
    <3>1. packet \in ClientPackets
      BY <2>1 DEF ClientPackets
    <3>2. /\ Len(toServer') = Len(toServer) + 1 /\ toServer'[Len(toServer) + 1] = packet
          /\ \A i \in 1..Len(toServer) : toServer'[i] = toServer[i]
      <4> HIDE DEF packet
      <4> QED BY <2>1, <2>2, <2>4, <3>1, AppendProperties
    <3>3. c = r + (Len(toServer) + 1) - 1
      BY <2>0, <2>1, <2>2, <2>4
    <3>4. \A i \in 1..Len(toServer') : toServer'[i] = <<ClientFrame(r + i - 1)>>
      <4> TAKE i \in 1..Len(toServer')
      <4>1. CASE i = Len(toServer) + 1
        BY <3>2, <3>3, <4>1
      <4>2. CASE i \in 1..Len(toServer)
        <5> HIDE DEF packet, r
        <5> QED BY <2>2, <3>2, <4>2
      <4> QED BY <2>2, <3>2, <4>1, <4>2
    <3>5. r + Len(toServer') = clientSession'.writeNonce
      <4> HIDE DEF c, packet, r
      <4> QED BY <2>0, <2>1, <2>2, <2>4, <3>2
    <3>6. Up'
      BY <1>2, <1>5, <2>1, <2>3, <3>4, <3>5, Kept DEF Up, handshake, buffers
    <3> QED BY <1>3, <3>6 DEF IInv
  <2>5. CASE ws # "open"
    <3>1. Up'
      BY <1>2, <1>5, <2>1, <2>3, <2>5, Kept DEF Up, handshake, buffers
    <3> QED BY <1>3, <3>1 DEF IInv
  <2> QED BY <2>4, <2>5
<1> QED BY <1>1, <1>4, <1>5

\* The server sends its next frame, two units of it.
LEMMA ServerSendsInv ==
    ASSUME IInv, ServerSends
    PROVE  IInv'
<1> DEFINE d == serverSession.writeNonce
           f == Frame(serverSession, "server")
           packet == <<ServerFrame(d)>>
           next == Len(frames) + 1
<1>1. Up
  BY ServerStep DEF IInv, ServerSends
<1>2. /\ UNCHANGED <<handshake, phase, clientSession, buffers, given, ws, toServer, opened>>
      /\ made' = made \cup {f} /\ frames' = Append(frames, <<f>>)
      /\ toClient' = toClient \o <<next, next>>
      /\ serverSession' = [serverSession EXCEPT !.writeNonce = @ + 1]
  BY DEF ServerSends, Sealed
<1>3. /\ serverSession \in [ sendKey : {Key(C3.ck, 2)}, recvKey : {Key(C3.ck, 1)},
                             writeNonce : Nat, readNonce : Nat ]
      /\ frames \in Seq(ServerPackets) /\ toClient \in Seq(Nat)
      /\ clientSession.writeNonce \in Nat
  BY <1>1 DEF Up, ClientUp
<1>4. d \in Nat /\ serverSession.sendKey = Key(C3.ck, 2) /\ Len(frames) \in Nat /\ next \in Nat
  BY <1>3, LenProperties
<1>5. f = ServerFrame(d)
  <2>1. Made(made, S1, 2, 2, clientSession.writeNonce, d)
    BY <1>1 DEF Up
  <2>2. Cardinality(Of(made, "server")) + 1 = d + 3
    <3>1. Cardinality(Of(made, "server")) = d + 2
      BY <2>1, Zenon DEF Made
    <3> HIDE DEF d
    <3> QED BY <1>4, <3>1
  <2> QED BY <1>4, <2>2 DEF Frame, ServerFrame, Of
<1> HIDE DEF f
<1>6. /\ serverSession' \in [ sendKey : {Key(C3.ck, 2)}, recvKey : {Key(C3.ck, 1)},
                              writeNonce : Nat, readNonce : Nat ]
      /\ serverSession'.writeNonce = d + 1 /\ serverSession'.readNonce = serverSession.readNonce
  <2> DEFINE k1 == Key(C3.ck, 1)
             k2 == Key(C3.ck, 2)
  <2> HIDE DEF k1, k2
  <2>1. serverSession \in [ sendKey : {k2}, recvKey : {k1}, writeNonce : Nat, readNonce : Nat ]
    BY <1>3 DEF k1, k2
  <2>2. /\ serverSession' \in [ sendKey : {k2}, recvKey : {k1}, writeNonce : Nat, readNonce : Nat ]
        /\ serverSession'.writeNonce = d + 1 /\ serverSession'.readNonce = serverSession.readNonce
    BY <1>2, <2>1
  <2> QED BY <2>2 DEF k1, k2
<1>7. Made(made', S1', 2, 2, clientSession'.writeNonce, serverSession'.writeNonce)
  <2>1. Made(made, S1, 2, 2, clientSession.writeNonce, d)
    BY <1>1 DEF Up
  <2> HIDE DEF d
  <2>2. Made(made \cup {ServerFrame(d)}, S1, 2, 2, clientSession.writeNonce, d + 1)
    BY <1>3, <1>4, <2>1, ServerFrameMade
  <2> QED BY <1>2, <1>5, <1>6, <2>2, Kept
<1>8. /\ frames' \in Seq(ServerPackets) /\ Len(frames') = Len(frames) + 1
      /\ frames'[Len(frames) + 1] = packet
      /\ \A i \in 1..Len(frames) : frames'[i] = frames[i]
  <2>1. packet \in ServerPackets
    BY <1>4 DEF ServerPackets
  <2>2. frames' = Append(frames, packet)
    BY <1>2, <1>5
  <2> HIDE DEF packet
  <2> QED BY <1>3, <2>1, <2>2, AppendProperties
<1>9. /\ Len(frames') = 1 + serverSession'.writeNonce
      /\ \A i \in 2..Len(frames') : frames'[i] = <<ServerFrame(i - 2)>>
  <2>1. /\ Len(frames) = 1 + d
        /\ \A i \in 2..Len(frames) : frames[i] = <<ServerFrame(i - 2)>>
    BY <1>1 DEF Up
  <2>2. ASSUME NEW i \in 2..Len(frames') PROVE frames'[i] = <<ServerFrame(i - 2)>>
    <3>1. CASE i = Len(frames) + 1
      <4>1. i - 2 = d
        <5> HIDE DEF d
        <5> QED BY <1>4, <2>1, <3>1
      <4> QED BY <1>8, <3>1, <4>1
    <3>2. CASE i \in 2..Len(frames)
      <4>1. i \in 1..Len(frames)
        BY <3>2
      <4> HIDE DEF packet
      <4> QED BY <1>8, <2>1, <3>2, <4>1
    <3> QED BY <1>4, <1>8, <3>1, <3>2
  <2>3. Len(frames') = 1 + serverSession'.writeNonce
    <3> HIDE DEF d
    <3> QED BY <1>4, <1>6, <1>8, <2>1
  <2> QED BY <2>2, <2>3
<1>10. Stream' /\ toClient' \in Seq(Nat)
  <2> DEFINE p == 2 + 2 * Len(opened) + Len(rxBuffer)
  <2>1. /\ <<next, next>> \in Seq(Nat) /\ Len(<<next, next>>) = 2
        /\ \A i \in 1..2 : <<next, next>>[i] = next
    BY <1>4
  <2>2. /\ toClient' \in Seq(Nat) /\ Len(toClient') = Len(toClient) + 2
        /\ \A i \in 1..(Len(toClient) + 2) :
              toClient'[i] = IF i <= Len(toClient) THEN toClient[i] ELSE next
    <3> DEFINE two == <<next, next>>
    <3>1. /\ two \in Seq(Nat) /\ Len(two) = 2 /\ \A i \in 1..2 : two[i] = next
      BY <2>1
    <3> HIDE DEF two
    <3>2. /\ toClient \o two \in Seq(Nat) /\ Len(toClient \o two) = Len(toClient) + Len(two)
          /\ \A i \in 1..(Len(toClient) + Len(two)) :
                (toClient \o two)[i] = IF i <= Len(toClient) THEN toClient[i]
                                       ELSE two[i - Len(toClient)]
      BY <1>3, <3>1, ConcatProperties
    <3>3. toClient' = toClient \o two
      BY <1>2 DEF two
    <3>4. Len(toClient) \in Nat
      BY <1>3, LenProperties
    <3> QED BY <3>1, <3>2, <3>3, <3>4
  <2>3. /\ Len(opened) \in Nat /\ Len(rxBuffer) \in Nat /\ Len(toClient) \in Nat
        /\ opened' = opened /\ rxBuffer' = rxBuffer
    BY <1>1, <1>2, LenProperties DEF Up, ClientUp, buffers
  <2>4. /\ \A i \in 1..Len(toClient) : toClient[i] = UnitAt(p + i)
    BY <1>1 DEF Up, Stream
  <2>7. 2 * Len(frames) = p + Len(toClient) /\ p \in Nat
    BY <1>1, <2>3 DEF Up, Stream
  <2>5. \A i \in 1..Len(toClient') : toClient'[i] = UnitAt(p + i)
    <3> TAKE i \in 1..Len(toClient')
    <3>1. CASE i \in 1..Len(toClient)
      <4> HIDE DEF p, next
      <4> QED BY <2>2, <2>3, <2>4, <3>1
    <3>2. CASE i \in {Len(toClient) + 1, Len(toClient) + 2}
      <4>1. p + i \in {2 * Len(frames) + 1, 2 * Len(frames) + 2}
        <5> HIDE DEF p
        <5> QED BY <1>4, <2>3, <2>7, <3>2
      <4>2. UnitAt(p + i) = Len(frames) + 1
        <5> HIDE DEF p
        <5> QED BY <1>4, <4>1 DEF UnitAt
      <4>3. toClient'[i] = next
        <5> HIDE DEF p, next
        <5> QED BY <2>2, <2>3, <3>2
      <4> QED BY <4>2, <4>3
    <3> QED BY <2>2, <2>3, <3>1, <3>2
  <2>6. 2 * Len(frames') = p + Len(toClient')
    <3>1. Len(frames') = Len(frames) + 1 /\ Len(toClient') = Len(toClient) + 2
      BY <1>8, <2>2
    <3> HIDE DEF p
    <3> QED BY <1>4, <2>3, <2>7, <3>1
  <2> QED BY <1>1, <2>2, <2>3, <2>5, <2>6 DEF Up, Stream
<1>11. ClientUp'
  <2>1. frames' \in Seq(ServerPackets)'
    BY <1>2, <1>8, Kept DEF ServerPackets
  <2> QED BY <1>1, <1>2, <1>10, <2>1, Kept DEF Up, ClientUp, handshake, buffers
<1>12. Up'
  BY <1>1, <1>2, <1>6, <1>7, <1>9, <1>10, <1>11 DEF Up, handshake
<1>13. Given' /\ RejectedForCause'
  BY <1>2, Kept DEF IInv, Given, RejectedForCause
<1> QED BY <1>12, <1>13 DEF IInv
\* The server opens the frame that comes next.
LEMMA ServerOpensInv ==
    ASSUME IInv, ServerOpens
    PROVE  IInv'
<1> DEFINE r == serverSession.readNonce
<1>1. Up
  BY ServerStep DEF IInv, ServerOpens
<1>2. /\ UNCHANGED <<handshake, phase, clientSession, buffers, given, ws, frames, toClient,
                     opened, made>>
      /\ serverSession' = [serverSession EXCEPT !.readNonce = @ + 1]
      /\ toServer' = Tail(toServer) /\ toServer # <<>>
  BY DEF ServerOpens
<1>3. /\ serverSession \in [ sendKey : {Key(C3.ck, 2)}, recvKey : {Key(C3.ck, 1)},
                             writeNonce : Nat, readNonce : Nat ]
      /\ toServer \in Seq(ClientPackets)
  BY <1>1 DEF Up, ClientUp
<1>4. r \in Nat
  BY <1>3
<1>5. /\ serverSession' \in [ sendKey : {Key(C3.ck, 2)}, recvKey : {Key(C3.ck, 1)},
                              writeNonce : Nat, readNonce : Nat ]
      /\ serverSession'.writeNonce = serverSession.writeNonce /\ serverSession'.readNonce = r + 1
  <2> DEFINE k1 == Key(C3.ck, 1)
             k2 == Key(C3.ck, 2)
  <2> HIDE DEF k1, k2
  <2>1. serverSession \in [ sendKey : {k2}, recvKey : {k1}, writeNonce : Nat, readNonce : Nat ]
    BY <1>3 DEF k1, k2
  <2>2. /\ serverSession' \in [ sendKey : {k2}, recvKey : {k1}, writeNonce : Nat, readNonce : Nat ]
        /\ serverSession'.writeNonce = serverSession.writeNonce
        /\ serverSession'.readNonce = r + 1
    BY <1>2, <2>1
  <2> QED BY <2>2 DEF k1, k2
<1>6. /\ toServer' \in Seq(ClientPackets) /\ Len(toServer') = Len(toServer) - 1
      /\ Len(toServer) \in Nat /\ Len(toServer) # 0
      /\ \A i \in 1..Len(toServer') : toServer'[i] = toServer[i + 1]
  BY <1>2, <1>3, HeadTailProperties, LenProperties, EmptySeq
<1>7. \A i \in 1..Len(toServer') : toServer'[i] = <<ClientFrame((r + 1) + i - 1)>>
  <2> TAKE i \in 1..Len(toServer')
  <2>1. i + 1 \in 1..Len(toServer)
    BY <1>6
  <2>2. r + (i + 1) - 1 = (r + 1) + i - 1
    <3> HIDE DEF r
    <3> QED BY <1>4
  <2>3. toServer[i + 1] = <<ClientFrame(r + (i + 1) - 1)>>
    BY <1>1, <2>1 DEF Up
  <2> QED BY <1>6, <2>2, <2>3
<1>8. ws' = "open" => serverSession'.readNonce + Len(toServer') = clientSession'.writeNonce
  <2>1. ws = "open" => r + Len(toServer) = clientSession.writeNonce
    BY <1>1 DEF Up
  <2> HIDE DEF r
  <2> QED BY <1>2, <1>4, <1>5, <1>6, <2>1
<1>9. ClientUp'
  <2>1. frames' \in Seq(ServerPackets)'
    BY <1>1, <1>2, Kept DEF Up, ClientUp, ServerPackets
  <2> QED BY <1>1, <1>2, <1>6, <2>1, Kept DEF Up, ClientUp, handshake, buffers
<1>10. Stream'
  BY <1>1, <1>2 DEF Up, Stream, buffers
<1>11. Made(made', S1', 2, 2, clientSession'.writeNonce, serverSession'.writeNonce)
  BY <1>1, <1>2, <1>5, Kept DEF Up
<1>12. Len(frames') = 1 + serverSession'.writeNonce /\ server' = C3
       /\ \A i \in 2..Len(frames') : frames'[i] = <<ServerFrame(i - 2)>>
  BY <1>1, <1>2, <1>5 DEF Up, handshake
<1>13. \A i \in 1..Len(toServer') :
          toServer'[i] = <<ClientFrame(serverSession'.readNonce + i - 1)>>
  BY <1>5, <1>7
<1>14. Up'
  BY <1>5, <1>8, <1>9, <1>10, <1>11, <1>12, <1>13 DEF Up
<1>15. Given' /\ RejectedForCause'
  BY <1>2, Kept DEF IInv, Given, RejectedForCause
<1> QED BY <1>14, <1>15 DEF IInv

\* The numbers up to k, in order.
Numbers(s, k) == s \in Seq(Nat) /\ Len(s) = k /\ \A i \in 1..k : s[i] = i

\* The c numbers after k are appended to those up to k.
LEMMA Counted ==
    ASSUME NEW s, NEW k \in Nat, Numbers(s, k), NEW c \in Nat
    PROVE  Numbers(s \o [i \in 1..c |-> k + i], k + c)
<1>0. s \in Seq(Nat) /\ Len(s) = k /\ \A i \in 1..k : s[i] = i
  BY DEF Numbers
<1> DEFINE t == [i \in 1..c |-> k + i]
<1>1. t \in Seq(Nat) /\ Len(t) = c /\ \A i \in 1..c : t[i] = k + i
  <2>1. \A i \in 1..c : k + i \in Nat
    OBVIOUS
  <2>2. t \in [1..c -> Nat]
    BY <2>1
  <2> QED BY <2>2, SeqDef, LenProperties
<1> HIDE DEF t
<1>2. /\ s \o t \in Seq(Nat) /\ Len(s \o t) = Len(s) + Len(t)
      /\ \A i \in 1..(Len(s) + Len(t)) : (s \o t)[i] = IF i <= Len(s) THEN s[i] ELSE t[i - Len(s)]
  BY <1>0, <1>1, ConcatProperties
<1>3. \A i \in 1..(k + c) : (s \o t)[i] = i
  <2> TAKE i \in 1..(k + c)
  <2>1. CASE i <= k
    BY <1>0, <1>1, <1>2, <2>1
  <2>2. CASE ~(i <= k)
    <3>1. i - k \in 1..c /\ k + (i - k) = i
      BY <2>2
    <3>2. t[i - k] = k + (i - k)
      BY <1>1, <3>1
    <3> QED BY <1>0, <1>1, <1>2, <2>2, <3>1, <3>2
  <2> QED BY <2>1, <2>2
<1>4. Numbers(s \o t, k + c)
  BY <1>0, <1>1, <1>2, <1>3 DEF Numbers
<1> QED BY <1>4 DEF t

\* What a session is after c frames have been opened.
LEMMA Advanced ==
    ASSUME NEW k1, NEW k2, NEW c \in Nat,
           NEW t \in [ sendKey : {k1}, recvKey : {k2}, writeNonce : Nat, readNonce : Nat ]
    PROVE  LET u == [t EXCEPT !.readNonce = @ + c]
           IN /\ u \in [ sendKey : {k1}, recvKey : {k2}, writeNonce : Nat, readNonce : Nat ]
              /\ u.writeNonce = t.writeNonce /\ u.readNonce = t.readNonce + c
OBVIOUS

\* The units of a frame are its number.
LEMMA Unit ==
    ASSUME NEW j \in Nat
    PROVE  UnitAt(2 * j + 1) = j + 1
BY DEF UnitAt

LEMMA CompleteFrames ==
    ASSUME NEW buf, Len(buf) \in Nat
    PROVE  Complete(buf) \in Nat /\ 2 * Complete(buf) <= Len(buf) /\ Len(buf) < 2 * Complete(buf) + 2
BY DEF Complete

\* open(chunk): the frames it completes are the next ones of the client, and each
\* can be opened.
LEMMA OpenInv ==
    ASSUME IInv, NEW n \in 1..Len(toClient), Open(SubSeq(toClient, 1, n)),
           toClient' = SubSeq(toClient, n + 1, Len(toClient)),
           UNCHANGED <<server, serverSession, given, frames>>
    PROVE  IInv'
<1> DEFINE buf == rxBuffer \o SubSeq(toClient, 1, n)
           rest == SubSeq(toClient, n + 1, Len(toClient))
           k == Len(opened)
           count == Complete(buf)
           frame(i) == frames[buf[2 * i - 1]][1]
           opens(i) == Opens(clientSession, clientSession.readNonce + i - 1, frame(i))
           good == CHOOSE i \in 0..count : /\ \A j \in 1..i : opens(j)
                                           /\ i = count \/ ~opens(i + 1)
           taken == IF good = count THEN count ELSE good + 1
<1>1. Up
  <2>1. phase = "noise_done"
    BY DEF Open
  <2>2. ~New /\ ~Greeted /\ ~Answered /\ ~GaveUp
    BY <2>1 DEF New, Greeted, Answered, GaveUp
  <2>3. ~Finishing
    BY DEF Finishing
  <2> QED BY <2>2, <2>3 DEF IInv
<1>2. /\ rxBuffer' = SubSeq(buf, 2 * taken + 1, Len(buf))
      /\ clientSession' = [clientSession EXCEPT !.readNonce = @ + good]
      /\ opened' = IF good = count THEN opened \o [i \in 1..count |-> frame(i).part - 2]
                                   ELSE opened
      /\ UNCHANGED <<client, phase, ws, rxBuf, toServer, made>>
  BY DEF Open
<1>3. /\ clientSession \in [ sendKey : {Key(C3.ck, 1)}, recvKey : {Key(C3.ck, 2)},
                             writeNonce : Nat, readNonce : Nat ]
      /\ clientSession.readNonce = k /\ opened \in Seq(Nat) /\ rxBuffer \in Seq(Nat)
      /\ toClient \in Seq(Nat) /\ frames \in Seq(ServerPackets)
  BY <1>1 DEF Up, ClientUp
<1>4. k \in Nat /\ Len(rxBuffer) \in Nat /\ Len(toClient) \in Nat /\ Len(frames) \in Nat
  BY <1>3, LenProperties
<1>5. /\ buf \in Seq(Nat) /\ Len(buf) = Len(rxBuffer) + n
      /\ \A i \in 1..Len(rxBuffer) : buf[i] = rxBuffer[i]
      /\ \A i \in 1..n : buf[Len(rxBuffer) + i] = toClient[i]
      /\ rest \in Seq(Nat) /\ Len(rest) = Len(toClient) - n
      /\ \A i \in 1..(Len(toClient) - n) : rest[i] = toClient[n + i]
  <2>1. rxBuffer \in Seq(Nat) /\ toClient \in Seq(Nat)
    BY <1>3
  <2>2. IsCut(Nat, rxBuffer, toClient, n, buf, rest)
    BY <2>1, Cut
  <2> HIDE DEF buf, rest
  <2> QED BY <2>2 DEF IsCut
<1> HIDE DEF buf, rest
<1> DEFINE p == 2 + 2 * k
<1>6. /\ p \in Nat /\ Len(buf) \in Nat /\ Len(rest) \in Nat
      /\ 2 * Len(frames) = p + Len(buf) + Len(rest)
  <2>1. 2 * Len(frames) = p + Len(rxBuffer) + Len(toClient)
    BY <1>1 DEF Up, Stream
  <2>2. p \in Nat
    BY <1>4
  <2>3. Len(buf) = Len(rxBuffer) + n /\ Len(rest) = Len(toClient) - n
    BY <1>5
  <2> HIDE DEF p
  <2> QED BY <1>4, <2>1, <2>2, <2>3
\* Both the buffer and the rest are a part of what the server sent.
<1>7. \A i \in 1..Len(buf) : buf[i] = UnitAt(p + i)
  <2>1. /\ \A i \in 1..Len(rxBuffer) : rxBuffer[i] = UnitAt(p + i)
        /\ \A i \in 1..Len(toClient) : toClient[i] = UnitAt(p + Len(rxBuffer) + i)
    BY <1>1 DEF Up, Stream
  <2> HIDE DEF p, k
  <2> TAKE i \in 1..Len(buf)
  <2>2. CASE i \in 1..Len(rxBuffer)
    BY <1>5, <2>1, <2>2
  <2>3. CASE i \notin 1..Len(rxBuffer)
    <3> DEFINE j == i - Len(rxBuffer)
    <3>1. /\ j \in 1..n /\ j \in 1..Len(toClient) /\ i = Len(rxBuffer) + j
          /\ p + Len(rxBuffer) + j = p + i
      BY <1>4, <1>5, <1>6, <2>3
    <3> HIDE DEF j
    <3> QED BY <1>5, <2>1, <3>1
  <2> QED BY <2>2, <2>3
<1>8. \A i \in 1..Len(rest) : rest[i] = UnitAt(p + Len(buf) + i)
  <2>1. \A i \in 1..Len(toClient) : toClient[i] = UnitAt(p + Len(rxBuffer) + i)
    BY <1>1 DEF Up, Stream
  <2> HIDE DEF p, k
  <2> TAKE i \in 1..Len(rest)
  <2>2. n + i \in 1..Len(toClient) /\ p + Len(rxBuffer) + (n + i) = p + Len(buf) + i
    <3>1. Len(buf) = Len(rxBuffer) + n /\ Len(rest) = Len(toClient) - n
      BY <1>5
    <3> HIDE DEF count, frame, opens, good, taken
    <3> QED BY <1>4, <1>6, <3>1
  <2> QED BY <1>4, <1>5, <2>1, <2>2
<1>9. count \in Nat /\ 2 * count <= Len(buf) /\ Len(buf) < 2 * count + 2
  BY <1>6, CompleteFrames
<1> HIDE DEF count
\* The i-th frame it completes.
<1>10. ASSUME NEW i \in 1..count
       PROVE  frame(i) = ServerFrame(k + i - 1)
  <2> DEFINE at == 2 * i - 1
  <2>1. at \in 1..Len(buf) /\ p + at = 2 * (k + i) + 1 /\ k + i \in Nat
    BY <1>4, <1>6, <1>9
  <2>2. buf[at] = k + i + 1
    <3> HIDE DEF at, p, k
    <3>1. buf[at] = UnitAt(2 * (k + i) + 1)
      BY <1>7, <2>1
    <3> QED BY <2>1, <3>1, Unit
  <2>3. k + i + 1 \in 2..Len(frames) /\ (k + i + 1) - 2 = k + i - 1
    BY <1>4, <1>6, <1>9
  <2>4. frames[k + i + 1] = <<ServerFrame((k + i + 1) - 2)>>
    BY <1>1, <2>3 DEF Up
  <2> HIDE DEF k
  <2> QED BY <2>2, <2>3, <2>4
<1>11. ASSUME NEW i \in 1..count
       PROVE  opens(i) /\ frame(i).part - 2 = k + i
  <2>1. clientSession.recvKey = Key(C3.ck, 2)
    BY <1>3
  <2>2. /\ ServerFrame(k + i - 1).key = Key(C3.ck, 2)
        /\ ServerFrame(k + i - 1).nonce = k + i - 1
        /\ ServerFrame(k + i - 1).part = (k + i - 1) + 3
    BY DEF ServerFrame, Cipher
  <2>3. (k + i - 1) + 3 - 2 = k + i
    BY <1>4
  <2> HIDE DEF frame, k
  <2> QED BY <1>3, <1>10, <2>1, <2>2, <2>3 DEF Opens, k
<1> HIDE DEF opens, frame
\* So all of them are opened.
<1>12. good = count
  <2>1. /\ \A j \in 1..count : opens(j)
        /\ count \in 0..count
    BY <1>9, <1>11
  <2>2. \A i \in 0..count : i = count \/ ~opens(i + 1) => i = count
    <3> TAKE i \in 0..count
    <3>1. i = count \/ i + 1 \in 1..count
      BY <1>9
    <3> QED BY <2>1, <3>1
  <2> QED BY <2>1, <2>2
<1> HIDE DEF good
<1>13. /\ rxBuffer' = SubSeq(buf, 2 * count + 1, Len(buf))
       /\ clientSession' = [clientSession EXCEPT !.readNonce = @ + count]
       /\ opened' = opened \o [i \in 1..count |-> frame(i).part - 2]
  BY <1>2, <1>12
<1>14. opened' \in Seq(Nat) /\ Len(opened') = k + count /\ \A i \in 1..Len(opened') : opened'[i] = i
  <2>1. [i \in 1..count |-> frame(i).part - 2] = [i \in 1..count |-> k + i]
    BY <1>11
  <2>2. Numbers(opened, k)
    BY <1>1, <1>3 DEF Up, Stream, Numbers
  <2>3. opened' = opened \o [i \in 1..count |-> k + i]
    BY <1>13, <2>1
  <2> HIDE DEF k
  <2>4. Numbers(opened', k + count)
    <3>1. k \in Nat /\ count \in Nat
      BY <1>4, <1>9
    <3> QED BY <2>2, <2>3, <3>1, Counted
  <2> QED BY <2>4 DEF Numbers
<1>15. /\ rxBuffer' \in Seq(Nat) /\ Len(rxBuffer') = Len(buf) - 2 * count
       /\ \A i \in 1..Len(rxBuffer') : rxBuffer'[i] = buf[2 * count + i]
  <2>1. 2 * count \in 0..Len(buf)
    BY <1>6, <1>9
  <2>2. buf \in Seq(Nat)
    BY <1>5
  <2>3. /\ rxBuffer' \in Seq(Nat) /\ Len(rxBuffer') = Len(buf) - 2 * count
        /\ \A i \in 1..(Len(buf) - 2 * count) : rxBuffer'[i] = buf[2 * count + i]
    <3> HIDE DEF k, taken
    <3> QED BY <1>13, <2>1, <2>2, Left
  <2> QED BY <2>3
<1>16. /\ clientSession' \in [ sendKey : {Key(C3.ck, 1)}, recvKey : {Key(C3.ck, 2)},
                               writeNonce : Nat, readNonce : Nat ]
       /\ clientSession'.writeNonce = clientSession.writeNonce
       /\ clientSession'.readNonce = Len(opened')
  <2> DEFINE k1 == Key(C3.ck, 1)
             k2 == Key(C3.ck, 2)
  <2> HIDE DEF k1, k2
  <2>1. clientSession \in [ sendKey : {k1}, recvKey : {k2}, writeNonce : Nat, readNonce : Nat ]
    BY <1>3 DEF k1, k2
  <2>2. /\ clientSession' \in [ sendKey : {k1}, recvKey : {k2}, writeNonce : Nat, readNonce : Nat ]
        /\ clientSession'.writeNonce = clientSession.writeNonce
        /\ clientSession'.readNonce = k + count
    <3>1. clientSession.readNonce = k /\ k \in Nat
      BY <1>3, <1>4
    <3>2. clientSession' = [clientSession EXCEPT !.readNonce = @ + count] /\ count \in Nat
      BY <1>9, <1>13
    <3> HIDE DEF k, p, taken
    <3> QED BY <2>1, <3>1, <3>2, Advanced
  <2> QED BY <1>14, <2>2 DEF k1, k2
<1>17. Stream'
  <2> DEFINE q == 2 + 2 * Len(opened')
  <2>1. q = p + 2 * count /\ q \in Nat
    BY <1>4, <1>9, <1>14
  <2>2. Len(rxBuffer') < 2 /\ Len(rxBuffer') \in Nat /\ q + Len(rxBuffer') = p + Len(buf)
    <3> HIDE DEF p, q
    <3> QED BY <1>6, <1>9, <1>15, <2>1
  <2>3. \A i \in 1..Len(rxBuffer') : rxBuffer'[i] = UnitAt(q + i)
    <3> TAKE i \in 1..Len(rxBuffer')
    <3> HIDE DEF p, q
    <3>1. 2 * count + i \in 1..Len(buf) /\ p + (2 * count + i) = q + i
      BY <1>6, <1>9, <1>15, <2>1
    <3> QED BY <1>7, <1>15, <3>1
  <2>4. \A i \in 1..Len(toClient') : toClient'[i] = UnitAt(q + Len(rxBuffer') + i)
    <3>1. toClient' = rest
      BY DEF rest
    <3> HIDE DEF p, q
    <3> QED BY <1>8, <2>2, <3>1
  <2>5. 2 * Len(frames') = q + Len(rxBuffer') + Len(toClient')
    <3>1. toClient' = rest /\ frames' = frames
      BY DEF rest
    <3> HIDE DEF p, q
    <3> QED BY <1>6, <2>2, <3>1
  <2> QED BY <1>14, <2>2, <2>3, <2>4, <2>5 DEF Stream
<1>18. ClientUp'
  <2>1. frames' \in Seq(ServerPackets)' /\ toServer' \in Seq(ClientPackets)
    BY <1>1, <1>2, Kept DEF Up, ClientUp, ServerPackets
  <2>2. toClient' \in Seq(Nat)
    BY <1>5 DEF rest
  <2> HIDE DEF k, p
  <2> QED BY <1>1, <1>2, <1>14, <1>15, <1>16, <2>1, <2>2, Kept DEF Up, ClientUp
<1>19. Made(made', S1', 2, 2, clientSession'.writeNonce, serverSession'.writeNonce)
  BY <1>1, <1>2, <1>16, Kept DEF Up
<1>20. Up'
  BY <1>1, <1>2, <1>16, <1>17, <1>18, <1>19 DEF Up
<1>21. Given' /\ RejectedForCause'
  BY <1>2, Kept DEF IInv, Given, RejectedForCause
<1> QED BY <1>20, <1>21 DEF IInv

\* The network is lost, or nothing happens.
LEMMA LostInv ==
    ASSUME IInv, Lost \/ UNCHANGED vars
    PROVE  IInv'
<1>1. /\ UNCHANGED <<handshake, phase, sessions, buffers, given, toServer, frames, toClient,
                     opened, made>>
      /\ \/ ws' = ws
         \/ ws = "open" /\ ws' = "lost"
  BY DEF Lost, vars, network
<1>2. UNCHANGED <<client, server, phase, clientSession, serverSession, rxBuf, rxBuffer, toServer,
                  frames, toClient, opened, made>>
  BY <1>1 DEF handshake, sessions, buffers
<1>3. ClientUp => ClientUp'
  <2>1. ServerPackets' = ServerPackets /\ known' = known
    BY <1>1, Kept DEF ServerPackets
  <2> QED BY <1>2, <2>1 DEF ClientUp
<1>4. NoSessions => NoSessions'
  BY <1>2 DEF NoSessions
<1>5. \A f, c, d : Made(made, S1, 2, f, c, d) => Made(made', S1', 2, f, c, d)
  BY <1>1, <1>2, Kept
<1>6. New => New'
  BY <1>1, <1>2, <1>4, Kept DEF New
<1>7. Greeted => Greeted'
  BY <1>1, <1>2, <1>4, Kept DEF Greeted
<1>8. Answered => Answered'
  BY <1>1, <1>2, <1>4, <1>5, Kept DEF Answered
<1>9. GaveUp => GaveUp'
  BY <1>1, <1>2, <1>5, Kept DEF GaveUp
<1>10. Finishing => Finishing'
  BY <1>1, <1>2, <1>3, <1>5, Kept DEF Finishing
<1>11. Up => Up'
  BY <1>1, <1>2, <1>3, <1>5, Kept DEF Up, Stream
<1>12. Given' /\ RejectedForCause'
  BY <1>1, Kept DEF IInv, Given, RejectedForCause
<1> QED BY <1>6, <1>7, <1>8, <1>9, <1>10, <1>11, <1>12 DEF IInv

------------------------------------------------------------------------------
(* The theorems.                                                             *)

\* In every reachable state the two parties are at one of the six points.
THEOREM Invariance == Spec => []IInv
<1>1. ASSUME IInv, [Next]_vars
      PROVE  IInv'
  <2>1. CASE Deliver
    <3>1. PICK n \in 1..Len(toClient) :
             /\ ws # "closed" /\ toClient' = SubSeq(toClient, n + 1, Len(toClient))
             /\ OnHandshakeBytes(SubSeq(toClient, 1, n)) \/ Open(SubSeq(toClient, 1, n))
             /\ UNCHANGED <<server, serverSession, given, frames>>
      BY <2>1 DEF Deliver
    <3> QED BY <1>1, <3>1, HandshakeBytesInv, OpenInv
  <2> QED BY <1>1, <2>1, SendHelloInv, ServerHelloInv, ServerFinishInv, ClientSendsInv,
             ServerSendsInv, ServerOpensInv, LostInv DEF Next
<1> QED BY InitInv, <1>1, PTL DEF Spec

\* No two of all that either party encrypts, in the handshake and after it, have
\* a key and a nonce in common: seal() uses its nonce up also when the WebSocket
\* takes nothing any more.
THEOREM NoNonceTwice == Spec => []NonceUsedOnce
<1>1. IInv => NonceUsedOnce
  <2> SUFFICES ASSUME IInv PROVE NonceUsedOnce
    OBVIOUS
  <2>1. CASE New \/ Greeted
    BY <2>1 DEF New, Greeted, NonceUsedOnce
  <2>2. CASE Answered \/ GaveUp
    <3>1. \E f \in {0, 2} : Made(made, S1, 2, f, 0, 0)
      BY <2>2 DEF Answered, GaveUp
    <3> QED BY <3>1, Determined DEF IInv
  <2>3. CASE Finishing \/ Up
    <3>1. clientSession.writeNonce \in Nat /\ serverSession.writeNonce \in Nat
      <4>1. clientSession.writeNonce \in Nat
        BY <2>3 DEF Finishing, Up, ClientUp
      <4>2. CASE Finishing
        BY <4>1, <4>2 DEF Finishing, NoSession
      <4>3. CASE Up
        BY <4>1, <4>3 DEF Up
      <4> QED BY <2>3, <4>2, <4>3
    <3> QED BY <2>3, <3>1, Determined DEF IInv, Finishing, Up
  <2> QED BY <2>1, <2>2, <2>3 DEF IInv
<1> QED BY Invariance, <1>1, PTL

\* Once the server has read the finish frame, both have the same transcript and
\* the keys of one are those of the other, mirrored.
THEOREM BothAgree == Spec => []SessionsAgree
<1>1. IInv => SessionsAgree
  <2> SUFFICES ASSUME IInv, server.step = 3 PROVE SessionsAgree
    BY DEF SessionsAgree
  <2>1. Up
    BY ServerStep DEF IInv
  <2>2. client = server
    BY <2>1 DEF Up, ClientUp
  <2>3. /\ clientSession.sendKey = Key(C3.ck, 1) /\ clientSession.recvKey = Key(C3.ck, 2)
        /\ serverSession.sendKey = Key(C3.ck, 2) /\ serverSession.recvKey = Key(C3.ck, 1)
    BY <2>1 DEF Up, ClientUp
  <2> QED BY <2>2, <2>3 DEF SessionsAgree
<1> QED BY Invariance, <1>1, PTL

\* A handshake that fails had a reason to.
THEOREM FailsForCause == Spec => []RejectedForCause
<1>1. IInv => RejectedForCause
  BY DEF IInv
<1> QED BY Invariance, <1>1, PTL

\* What is under way to the server is, frame by frame, what its read nonce expects.
THEOREM ServerCanOpen == Spec => []NoGapToServer
<1>1. IInv => NoGapToServer
  <2> SUFFICES ASSUME IInv, phase = "noise_done" PROVE NoGapToServer
    BY DEF NoGapToServer
  <2>1. Finishing \/ Up
    BY DEF IInv, New, Greeted, Answered, GaveUp
  <2>2. \A m \in Int : <<ClientFrame(m)>>[1].nonce = m
    BY DEF ClientFrame, Cipher
  <2>3. CASE Finishing
    <3>1. server.step # 3 /\ serverSession.readNonce = 0
      BY <2>3, ServerStep DEF IInv, Finishing, NoSession
    <3>2. ASSUME NEW i \in 2..Len(toServer)
          PROVE  toServer[i][1].nonce = 0 + i - 2
      BY <2>2, <2>3 DEF Finishing
    <3> QED BY <3>1, <3>2 DEF NoGapToServer
  <2>4. CASE Up
    <3>1. server.step = 3 /\ serverSession.readNonce \in Nat
      BY <2>4, ServerStep DEF IInv, Up
    <3>2. ASSUME NEW i \in 1..Len(toServer)
          PROVE  toServer[i][1].nonce = serverSession.readNonce + i - 1
      BY <2>2, <2>4, <3>1 DEF Up
    <3> QED BY <3>1, <3>2 DEF NoGapToServer
  <2> QED BY <2>1, <2>3, <2>4
<1> QED BY Invariance, <1>1, PTL

\* However the pieces fall, the payloads that open() has returned are the server's,
\* from the first on, and less than a frame is kept back.
THEOREM AllDelivered == Spec => []NothingLeftBehind
<1>1. IInv => NothingLeftBehind
  <2> SUFFICES ASSUME IInv, phase = "noise_done" PROVE NothingLeftBehind
    BY DEF NothingLeftBehind
  <2>1. Finishing \/ Up
    BY DEF IInv, New, Greeted, Answered, GaveUp
  <2>2. opened \in Seq(Nat) /\ opened = [i \in 1..Len(opened) |-> opened[i]]
    BY <2>1, SeqDef, LenProperties DEF Finishing, Up, ClientUp
  <2>3. CASE Finishing
    <3>1. Len(opened) = 0 /\ Len(rxBuffer) = 0 /\ Len(toClient) = 0 /\ Len(frames) = 1
      BY <2>3 DEF Finishing
    <3>2. opened = [i \in 1..Len(opened) |-> i]
      BY <2>2, <3>1
    <3> QED BY <3>1, <3>2 DEF NothingLeftBehind
  <2>4. CASE Up
    <3>1. Stream
      BY <2>4 DEF Up
    <3>2. opened = [i \in 1..Len(opened) |-> i]
      BY <2>2, <3>1 DEF Stream
    <3> QED BY <3>1, <3>2 DEF Stream, NothingLeftBehind
  <2> QED BY <2>1, <2>3, <2>4
<1> QED BY Invariance, <1>1, PTL
=============================================================================
