-------------------------- MODULE TransportProofs ---------------------------
(***************************************************************************)
(* The safety properties of Transport, for any number of sockets, any      *)
(* queries and either order of the ping and pong periods.                  *)
(*                                                                         *)
(* SingleSocket is inductive on top of the types: a handler that is let    *)
(* past IsStale acts on the socket in ws.  That a drop is never taken for  *)
(* an intended close rests on intentionalClose being set only where the    *)
(* socket is given up.                                                     *)
(***************************************************************************)
EXTENDS Transport, TLAPS

\* close() has given up the socket it closed, and only connect() makes another.
IntentionalHasNoSocket == intentionalClose => ws = None

IInv == TypeOK /\ SingleSocket /\ IntentionalHasNoSocket

------------------------------------------------------------------------------
(* The pieces of the actions.                                                *)

\* The queries keep their types, whatever settles them.
LEMMA IqTypes ==
    ASSUME TypeOK,
           \/ UNCHANGED iqVars
           \/ CancelQueries
           \/ \E q \in Queries : \/ \E ok \in BOOLEAN : Query(q, ok)
                                 \/ \E isError \in BOOLEAN : OnAnswer(q, isError)
                                 \/ QueryTimeout(q)
    PROVE  IqTypeOK'
BY DEF TypeOK, IqTypeOK, iqVars, CancelQueries, Query, OnAnswer, QueryTimeout, Settle

\* The next number is that of a socket of its own, and no socket is None.
LEMMA NextSocket ==
    ASSUME TypeOK, socketId < MaxSocketId
    PROVE  /\ socketId + 1 \in SocketIds /\ socketId + 1 \in 0..MaxSocketId
           /\ None \notin SocketIds
BY TransportAssumption DEF TypeOK, SocketIds

\* destroySocket leaves no socket that could still act.
LEMMA NothingLives ==
    ASSUME IInv
    PROVE  /\ WithoutCurrent \in [SocketIds -> {"none", "connecting", "open", "closing",
                                                "closed", "destroyed"}]
           /\ \A i \in SocketIds : WithoutCurrent[i] \notin {"connecting", "open", "closing"}
BY DEF IInv, TypeOK, SingleSocket, WithoutCurrent

------------------------------------------------------------------------------
(* One lemma per part of Next.                                               *)

\* A new object knows no socket.
LEMMA InitInv == Init => IInv
<1> SUFFICES ASSUME Init PROVE IInv
  OBVIOUS
<1>1. IqTypeOK
  BY DEF Init, IqInit, IqTypeOK
<1>2. socket \in [SocketIds -> {"none"}] /\ silent \in [SocketIds -> BOOLEAN]
  BY DEF Init
<1>3. carrier \in [Queries -> SocketIds \cup {None}]
  BY DEF Init
<1>4. TypeOK
  <2>1. /\ connecting \in BOOLEAN /\ intentionalClose \in BOOLEAN /\ pingTimer \in BOOLEAN
    BY Zenon DEF Init
  <2>2. socketId \in 0..MaxSocketId
    BY TransportAssumption DEF Init
  <2>3. \A T : {ws, handshakeTimer, pongTimer} \subseteq T \cup {None}
    BY DEF Init
  <2>4. socket \in [SocketIds -> {"none", "connecting", "open", "closing", "closed",
                                 "destroyed"}]
    BY <1>2
  <2> QED BY <1>1, <1>2, <1>3, <2>1, <2>2, <2>3, <2>4, Zenon DEF TypeOK
<1>5. SingleSocket /\ IntentionalHasNoSocket
  BY DEF Init, SingleSocket, IntentionalHasNoSocket
<1> QED BY <1>4, <1>5 DEF IInv

\* connect() destroys the socket it replaces.
LEMMA ConnectInv == IInv /\ Connect => IInv'
<1> SUFFICES ASSUME IInv, Connect PROVE IInv'
  OBVIOUS
<1>1. /\ socketId + 1 \in SocketIds /\ socketId + 1 \in 0..MaxSocketId
      /\ None \notin SocketIds
  BY NextSocket DEF IInv, Connect
<1>2. TypeOK'
  BY <1>1, NothingLives, IqTypes DEF IInv, TypeOK, Connect, iqVars
<1>3. SingleSocket' /\ IntentionalHasNoSocket'
  BY <1>1, NothingLives DEF Connect, SingleSocket, IntentionalHasNoSocket
<1> QED BY <1>2, <1>3 DEF IInv

\* close() leaves no socket and no timer.
LEMMA CloseInv == IInv /\ Close => IInv'
<1> SUFFICES ASSUME IInv, Close PROVE IInv'
  OBVIOUS
<1>1. IqTypeOK'
  BY IqTypes DEF IInv, Close
<1>2. TypeOK'
  BY <1>1, NextSocket, NothingLives DEF IInv, TypeOK, Close, StopTimers
<1>3. SingleSocket' /\ IntentionalHasNoSocket'
  BY NothingLives DEF Close, StopTimers, SingleSocket, IntentionalHasNoSocket
<1> QED BY <1>2, <1>3 DEF IInv

\* An event of a socket that still has listeners is one of the current socket.
LEMMA NetworkInv ==
    ASSUME IInv, NEW i \in SocketIds,
           OnOpen(i) \/ Ends(i) \/ GoesSilent(i) \/ OnClose(i) \/ OnPong(i)
    PROVE  IInv'
<1> USE TransportAssumption DEF IInv, Live, IsStale
<1>0. None \notin SocketIds
  BY DEF SocketIds
<1>1. CASE OnOpen(i)
  BY <1>0, <1>1, IqTypes DEF OnOpen, TypeOK, SingleSocket, IntentionalHasNoSocket, ReadyState
<1>2. CASE Ends(i)
  BY <1>0, <1>2, IqTypes
     DEF Ends, TypeOK, SingleSocket, IntentionalHasNoSocket, ReadyState, timers
<1>3. CASE GoesSilent(i)
  BY <1>0, <1>3, IqTypes
     DEF GoesSilent, TypeOK, SingleSocket, IntentionalHasNoSocket, ReadyState, timers, flags
<1>4. CASE OnClose(i)
  BY <1>0, <1>4, IqTypes
     DEF OnClose, TypeOK, SingleSocket, IntentionalHasNoSocket, ReadyState, StopTimers
<1>5. CASE OnPong(i)
  BY <1>0, <1>5, IqTypes
     DEF OnPong, TypeOK, SingleSocket, IntentionalHasNoSocket, ReadyState, flags
<1> QED BY <1>1, <1>2, <1>3, <1>4, <1>5

\* A timer terminates the socket it was armed for or none.
LEMMA TimersInv == IInv /\ Timers => IInv'
<1> SUFFICES ASSUME IInv, Timers PROVE IInv'
  OBVIOUS
<1> USE TransportAssumption DEF IInv
<1>0. None \notin SocketIds
  BY DEF SocketIds
<1>1. CASE HandshakeTimeout
  BY <1>0, <1>1, IqTypes
     DEF HandshakeTimeout, IsStale, Terminate, TypeOK, SingleSocket, IntentionalHasNoSocket,
         ReadyState
<1>2. CASE Ping
  BY <1>0, <1>2, IqTypes
     DEF Ping, TypeOK, SingleSocket, IntentionalHasNoSocket, ReadyState, flags
<1>3. CASE PongTimeout
  BY <1>0, <1>3, IqTypes
     DEF PongTimeout, Terminate, TypeOK, SingleSocket, IntentionalHasNoSocket, ReadyState, flags
<1> QED BY <1>1, <1>2, <1>3 DEF Timers

\* Queries leave the socket alone.
LEMMA QueriesInv ==
    ASSUME IInv, NEW q \in Queries, SendQuery(q) \/ Answer(q) \/ TimesOut(q)
    PROVE  IInv'
<1>1. IqTypeOK'
  BY IqTypes DEF IInv, SendQuery, Answer, TimesOut
<1>2. UNCHANGED transportVars
  BY DEF SendQuery, Answer, TimesOut
<1>3. carrier' \in [Queries -> SocketIds \cup {None}]
  BY DEF IInv, TypeOK, SendQuery, Answer, TimesOut
<1> QED BY <1>1, <1>2, <1>3
        DEF IInv, TypeOK, SingleSocket, IntentionalHasNoSocket, ReadyState,
            transportVars, flags, timers

\* Nothing happens.
LEMMA StutterInv == IInv /\ UNCHANGED vars => IInv'
BY DEF IInv, TypeOK, IqTypeOK, SingleSocket, IntentionalHasNoSocket, ReadyState,
       vars, transportVars, flags, timers, iqVars

\* The invariant holds in every state.
THEOREM Invariance == Spec => []IInv
<1>1. IInv /\ [Next]_vars => IInv'
  BY ConnectInv, CloseInv, NetworkInv, TimersInv, QueriesInv, StutterInv
     DEF Next, Network
<1> QED BY InitInv, <1>1, PTL DEF Spec

------------------------------------------------------------------------------

\* WebSocketTransport's fields and the ws library's sockets keep their types.
THEOREM TransportTypeCorrect == Spec => []TypeOK
BY Invariance, PTL DEF IInv

\* transport.ts: at most one socket is alive, the transport knows it, and the timers
\* are its own, however connects, closes, events and timers interleave.
THEOREM OneSocket == Spec => []SingleSocket
BY Invariance, PTL DEF IInv

\* transport.ts, close(): a close event that reaches the connection is never taken
\* for a close it asked for.
THEOREM DropsAreReported == Spec => DropIsNotIntentional
<1>1. ASSUME IInv, NEW i \in SocketIds, OnClose(i) PROVE ~intentionalClose
  BY <1>1, TransportAssumption DEF IInv, IntentionalHasNoSocket, OnClose, IsStale, SocketIds
<1>2. IInv => [\A i \in SocketIds : OnClose(i) => ~intentionalClose]_vars
  BY <1>1
<1> QED BY <1>2, Invariance, PTL DEF DropIsNotIntentional

------------------------------------------------------------------------------
(* The transport as a Link (one without sessions).                           *)

TransportLink == INSTANCE Link WITH gen <- socketId, ws <- ReadyState, session <- None,
                                    Generations <- 0..MaxSocketId

\* The current socket has not been closed, and connect() will not replace it while it
\* is still connecting.
CurrentIsUp ==
    /\ ws # None => socket[ws] \in {"connecting", "open", "closing"}
    /\ ReadyState = "connecting" => connecting

LinkInv == IInv /\ CurrentIsUp

\* connect() and close().
LEMMA ConnectIsLink ==
    ASSUME LinkInv, Connect \/ Close
    PROVE  CurrentIsUp' /\ TransportLink!Next
<1> USE TransportAssumption
<1>1. /\ socketId + 1 \in SocketIds /\ socketId + 1 \in 0..MaxSocketId
      /\ None \notin SocketIds /\ socketId \in Nat
  BY NextSocket DEF LinkInv, IInv, Connect, Close, TypeOK
<1>2. CASE Connect
  <2>1. ReadyState \notin {"connecting", "open"}
    BY <1>2 DEF Connect, ConnectIgnored, LinkInv, CurrentIsUp
  <2>2. /\ socketId' = socketId + 1 /\ ws' = socketId + 1 /\ ws' # None
        /\ socket'[socketId + 1] = "connecting" /\ connecting' = TRUE
    BY <1>1, <1>2, NothingLives DEF Connect, LinkInv
  <2>3. ReadyState' = "connecting"
    BY <2>2 DEF ReadyState
  <2>4. TransportLink!Dials
    BY <1>1, <2>1, <2>2, <2>3 DEF TransportLink!Dials
  <2> QED BY <2>2, <2>3, <2>4 DEF CurrentIsUp, TransportLink!Next
<1>3. CASE Close
  <2>1. socketId' = socketId + 1 /\ ws' = None /\ ReadyState' = "none"
    BY <1>3 DEF Close, ReadyState
  <2>2. TransportLink!Discards
    BY <1>1, <2>1 DEF TransportLink!Discards
  <2> QED BY <2>1, <2>2 DEF CurrentIsUp, TransportLink!Next
<1> QED BY <1>2, <1>3

\* The events of a socket and the timers.
LEMMA EventsAreLink ==
    ASSUME LinkInv, Network \/ Timers
    PROVE  CurrentIsUp' /\ [TransportLink!Next]_(TransportLink!vars)
<1> USE TransportAssumption DEF LinkInv, IInv
<1>0. None \notin SocketIds
  BY DEF SocketIds
<1>1. ASSUME NEW i \in SocketIds, OnOpen(i)
      PROVE  CurrentIsUp' /\ TransportLink!Opens
  BY <1>0, <1>1 DEF OnOpen, IsStale, TypeOK, CurrentIsUp, ReadyState, TransportLink!Opens
<1>2. ASSUME NEW i \in SocketIds, Ends(i)
      PROVE  CurrentIsUp' /\ TransportLink!Drops
  BY <1>0, <1>2 DEF Ends, Live, TypeOK, SingleSocket, CurrentIsUp, ReadyState,
     TransportLink!Drops
<1>3. ASSUME NEW i \in SocketIds, OnClose(i)
      PROVE  CurrentIsUp' /\ TransportLink!Closes
  BY <1>0, <1>3 DEF OnClose, IsStale, TypeOK, CurrentIsUp, ReadyState, TransportLink!Closes
<1>4. ASSUME NEW i \in SocketIds, GoesSilent(i) \/ OnPong(i)
      PROVE  CurrentIsUp' /\ UNCHANGED <<socketId, ReadyState>>
  BY <1>4 DEF GoesSilent, OnPong, flags, CurrentIsUp, ReadyState
<1>5. ASSUME Ping
      PROVE  CurrentIsUp' /\ UNCHANGED <<socketId, ReadyState>>
  BY <1>5 DEF Ping, flags, CurrentIsUp, ReadyState
<1>6. ASSUME HandshakeTimeout \/ PongTimeout
      PROVE  /\ CurrentIsUp'
             /\ UNCHANGED <<socketId, ReadyState>> \/ TransportLink!Drops
  <2>1. UNCHANGED <<ws, socketId>>
    BY <1>6 DEF HandshakeTimeout, PongTimeout, flags
  <2>2. CASE UNCHANGED <<socket, connecting>>
    BY <2>1, <2>2 DEF CurrentIsUp, ReadyState
  <2>3. CASE ws # None /\ Terminate
    <3>1. ws \in SocketIds /\ socket'[ws] = "closing" /\ ReadyState' = "closing"
      BY <2>1, <2>3 DEF TypeOK, Terminate, ReadyState
    <3>2. ReadyState \in {"connecting", "open", "closing"}
      BY <2>3 DEF CurrentIsUp, ReadyState
    <3> QED BY <2>1, <3>1, <3>2 DEF CurrentIsUp, TransportLink!Drops
  <2> QED BY <1>0, <1>6, <2>2, <2>3 DEF HandshakeTimeout, PongTimeout, IsStale, TypeOK,
             SingleSocket, flags
<1> QED BY <1>1, <1>2, <1>3, <1>4, <1>5, <1>6 DEF Network, Timers, TransportLink!Next,
           TransportLink!vars

\* transport.ts implements what Link says of a WebSocket: dialled only when there is none
\* that could still open, numbered upwards, and its close told once.
THEOREM TransportIsLink == Spec => TransportLink!Spec
<1>1. Init => CurrentIsUp /\ TransportLink!Init
  BY DEF Init, CurrentIsUp, ReadyState, TransportLink!Init
<1>2. ASSUME LinkInv, [Next]_vars
      PROVE  CurrentIsUp' /\ [TransportLink!Next]_(TransportLink!vars)
  <2>1. CASE Connect \/ Close
    BY <1>2, <2>1, ConnectIsLink
  <2>2. CASE Network \/ Timers
    BY <1>2, <2>2, EventsAreLink
  <2>3. CASE \/ UNCHANGED vars
             \/ \E q \in Queries : SendQuery(q) \/ Answer(q) \/ TimesOut(q)
    <3>1. UNCHANGED transportVars
      BY <2>3 DEF SendQuery, Answer, TimesOut, vars
    <3> QED BY <1>2, <3>1 DEF LinkInv, CurrentIsUp, ReadyState, transportVars, flags,
               TransportLink!vars
  <2> QED BY <1>2, <2>1, <2>2, <2>3 DEF Next
<1> QED BY <1>1, <1>2, Invariance, PTL DEF LinkInv, Spec, TransportLink!Spec
=============================================================================
