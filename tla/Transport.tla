----------------------------- MODULE Transport ------------------------------
(***************************************************************************)
(* WebSocketTransport (src/Socket/transport.ts) with the IQ queries that   *)
(* are sent over it (IqController).  It owns one WebSocket at a time and   *)
(* three timers: the handshake timer, the ping interval and the pong       *)
(* timeout.  The ws library's sockets are named by socketId, the number    *)
(* the transport gives them.  destroySocket removes the listeners of a     *)
(* socket, which is of no consequence after that ("destroyed").            *)
(*                                                                         *)
(* The error event changes nothing its close event would not; a send over  *)
(* an OPEN socket does not throw.                                          *)
(***************************************************************************)
EXTENDS Naturals, IqController

CONSTANTS None,
          MaxSocketId,     \* bound: socketId
          PongBeforePing   \* pongTimeoutMs < pingIntervalMs, as by default

ASSUME TransportAssumption ==
    /\ MaxSocketId \in Nat /\ None \notin 1..MaxSocketId
    /\ PongBeforePing \in BOOLEAN

SocketIds == 1..MaxSocketId

VARIABLES socket,       \* per socket: its readyState, or "destroyed"
          silent,       \* per socket: the peer is gone without a word
          ws, socketId,
          connecting, intentionalClose,
          handshakeTimer,  \* the socket it was armed for, or None
          pingTimer,
          pongTimer,       \* the socket pinged when it was armed, or None
          carrier          \* per query: the socket its IQ was sent on, or None

timers == <<handshakeTimer, pingTimer, pongTimer>>
flags  == <<socketId, connecting, intentionalClose>>
transportVars == <<socket, silent, ws, flags, timers>>
vars == <<transportVars, carrier, iqVars>>

\* The domains of the variables.
TypeOK ==
    /\ IqTypeOK
    /\ socket \in [SocketIds -> {"none", "connecting", "open", "closing", "closed",
                                 "destroyed"}]
    /\ silent \in [SocketIds -> BOOLEAN]
    /\ ws \in SocketIds \cup {None} /\ socketId \in 0..MaxSocketId
    /\ connecting \in BOOLEAN /\ intentionalClose \in BOOLEAN
    /\ handshakeTimer \in SocketIds \cup {None}
    /\ pingTimer \in BOOLEAN /\ pongTimer \in SocketIds \cup {None}
    /\ carrier \in [Queries -> SocketIds \cup {None}]

Init ==
    /\ IqInit
    /\ socket = [i \in SocketIds |-> "none"]
    /\ silent = [i \in SocketIds |-> FALSE]
    /\ ws = None /\ socketId = 0
    /\ connecting = FALSE /\ intentionalClose = FALSE
    /\ handshakeTimer = None /\ pingTimer = FALSE /\ pongTimer = None
    /\ carrier = [q \in Queries |-> None]

ReadyState == IF ws = None THEN "none" ELSE socket[ws]

------------------------------------------------------------------------------
(* connect, close.                                                           *)

\* clearHandshakeTimer and stopPingLoop.
StopTimers == handshakeTimer' = None /\ pingTimer' = FALSE /\ pongTimer' = None

\* What destroySocket leaves of the sockets.
WithoutCurrent == [i \in SocketIds |-> IF i = ws THEN "destroyed" ELSE socket[i]]

ConnectIgnored == ReadyState = "open" \/ (connecting /\ ReadyState = "connecting")

\* Mutant: the previous socket is left alone.
ConnectBeside ==
    /\ ~ConnectIgnored /\ socketId < MaxSocketId
    /\ socketId' = socketId + 1 /\ ws' = socketId'
    /\ socket' = [socket EXCEPT ![socketId'] = "connecting"]
    /\ intentionalClose' = FALSE /\ connecting' = TRUE
    /\ handshakeTimer' = socketId' /\ pingTimer' = FALSE /\ pongTimer' = None
    /\ UNCHANGED <<silent, carrier, iqVars>>

\* Mutant: a close of long ago still counts as intended.
ConnectStillIntended ==
    /\ ~ConnectIgnored /\ socketId < MaxSocketId
    /\ socketId' = socketId + 1 /\ ws' = socketId'
    /\ socket' = [WithoutCurrent EXCEPT ![socketId'] = "connecting"]
    /\ UNCHANGED intentionalClose /\ connecting' = TRUE
    /\ handshakeTimer' = socketId' /\ pingTimer' = FALSE /\ pongTimer' = None
    /\ UNCHANGED <<silent, carrier, iqVars>>

Connect ==
    /\ ~ConnectIgnored /\ socketId < MaxSocketId
    /\ socketId' = socketId + 1 /\ ws' = socketId'
    /\ socket' = [WithoutCurrent EXCEPT ![socketId'] = "connecting"]
    /\ intentionalClose' = FALSE /\ connecting' = TRUE
    /\ handshakeTimer' = socketId' /\ pingTimer' = FALSE /\ pongTimer' = None
    /\ UNCHANGED <<silent, carrier, iqVars>>

\* close() of the transport; the connection's stop() cancels the queries, its
\* other calls of close() do not.
Close ==
    /\ socketId < MaxSocketId
    /\ socketId' = socketId + 1 /\ ws' = None
    /\ socket' = WithoutCurrent
    /\ intentionalClose' = TRUE /\ connecting' = FALSE
    /\ StopTimers
    /\ CancelQueries \/ UNCHANGED iqVars
    /\ UNCHANGED <<silent, carrier>>

------------------------------------------------------------------------------
(* Events of a WebSocket with listeners.                                     *)

IsStale(i) == i # socketId \/ ws # i

\* The network can still deliver something to socket i.
Live(i) == socket[i] \in {"connecting", "open"} /\ ~silent[i]

OnOpen(i) ==
    /\ Live(i) /\ socket[i] = "connecting" /\ ~IsStale(i)
    /\ socket' = [socket EXCEPT ![i] = "open"]
    /\ handshakeTimer' = None /\ connecting' = FALSE
    /\ pingTimer' = TRUE /\ pongTimer' = None
    /\ UNCHANGED <<silent, ws, socketId, intentionalClose, carrier, iqVars>>

\* Refused, reset, or closed by the peer; an error event may come first.
Ends(i) ==
    /\ Live(i)
    /\ socket' = [socket EXCEPT ![i] = "closing"]
    /\ connecting' \in {connecting, FALSE}
    /\ UNCHANGED <<silent, ws, socketId, intentionalClose, timers, carrier, iqVars>>

GoesSilent(i) ==
    /\ Live(i)
    /\ silent' = [silent EXCEPT ![i] = TRUE]
    /\ UNCHANGED <<socket, ws, flags, timers, carrier, iqVars>>

\* The close event: handlers.onClose is called.
OnClose(i) ==
    /\ socket[i] = "closing" /\ ~IsStale(i)
    /\ socket' = [socket EXCEPT ![i] = "closed"]
    /\ StopTimers
    /\ connecting' = FALSE /\ ws' = None
    /\ UNCHANGED <<silent, socketId, intentionalClose, carrier, iqVars>>

OnPong(i) ==
    /\ Live(i) /\ pongTimer = i /\ ~IsStale(i)
    /\ pongTimer' = None
    /\ UNCHANGED <<socket, silent, ws, flags, handshakeTimer, pingTimer, carrier, iqVars>>

------------------------------------------------------------------------------
(* Timers.                                                                   *)

Terminate == socket' = [socket EXCEPT ![ws] = "closing"]

HandshakeTimeout ==
    /\ handshakeTimer # None
    /\ handshakeTimer' = None
    /\ IF IsStale(handshakeTimer) \/ ReadyState = "open"
       THEN UNCHANGED <<socket, connecting>>
       ELSE Terminate /\ connecting' = FALSE
    /\ UNCHANGED <<silent, ws, socketId, intentionalClose, pingTimer, pongTimer, carrier,
                   iqVars>>

\* Mutant: a ping nobody waits for.
PingUnwatched == FALSE /\ UNCHANGED vars

\* The interval calls ping(), which arms the pong timeout anew.  Whichever of
\* the two periods is shorter decides which timer runs first.
Ping ==
    /\ pingTimer /\ ReadyState = "open"
    /\ PongBeforePing => pongTimer = None
    /\ pongTimer' = ws
    /\ UNCHANGED <<socket, silent, ws, flags, handshakeTimer, pingTimer, carrier, iqVars>>

PongTimeout ==
    /\ pongTimer # None
    /\ PongBeforePing \/ ~(pingTimer /\ ReadyState = "open")
    /\ pongTimer' = None
    /\ IF ws = None THEN UNCHANGED socket ELSE Terminate
    /\ UNCHANGED <<silent, ws, flags, handshakeTimer, pingTimer, carrier, iqVars>>

------------------------------------------------------------------------------
(* Queries.                                                                  *)

\* requireNet and query(): the IQ is sent on the socket of the moment.
SendQuery(q) ==
    /\ Query(q, ReadyState = "open")
    /\ carrier' = [carrier EXCEPT ![q] = IF ReadyState = "open" THEN ws ELSE None]
    /\ UNCHANGED transportVars

\* The server answers on the socket that carried the query, late or repeatedly.
Answer(q) ==
    /\ carrier[q] # None /\ Live(carrier[q]) /\ ~IsStale(carrier[q])
    /\ \E isError \in BOOLEAN : OnAnswer(q, isError)
    /\ UNCHANGED <<transportVars, carrier>>

TimesOut(q) == QueryTimeout(q) /\ UNCHANGED <<transportVars, carrier>>

------------------------------------------------------------------------------

Network == \E i \in SocketIds :
              OnOpen(i) \/ Ends(i) \/ GoesSilent(i) \/ OnClose(i) \/ OnPong(i)

Timers == HandshakeTimeout \/ Ping \/ PongTimeout

Next == \/ Connect \/ Close
        \/ Network \/ Timers
        \/ \E q \in Queries : SendQuery(q) \/ Answer(q) \/ TimesOut(q)

\* Timers expire; a terminated socket reports its close.
Fairness ==
    /\ WF_vars(HandshakeTimeout) /\ WF_vars(Ping) /\ WF_vars(PongTimeout)
    /\ \A i \in SocketIds : WF_vars(OnClose(i))
    /\ \A q \in Queries : WF_vars(TimesOut(q))

Spec == Init /\ [][Next]_vars /\ Fairness

------------------------------------------------------------------------------
(* Properties.                                                               *)

\* "Single-socket WebSocket transport - no duplicate connections": whatever is
\* not destroyed or closed is the socket the transport knows, and no timer armed
\* for one socket acts on its successor.
SingleSocket ==
    /\ \A i \in SocketIds : socket[i] \in {"connecting", "open", "closing"} => ws = i
    /\ {handshakeTimer, pongTimer} \subseteq {None, ws}
    /\ pingTimer => ReadyState \in {"open", "closing"}

\* A close that reaches the connection is never taken for one it asked for: the
\* reconnect manager would not replace the socket.
DropIsNotIntentional ==
    [][\A i \in SocketIds : OnClose(i) => ~intentionalClose]_vars

\* A peer that is gone without a word is noticed, before and after the socket
\* is open: its close is reported, unless the transport gave the socket up.
SilentSocketIsDropped ==
    \A i \in SocketIds :
        (silent[i] /\ socket[i] \in {"connecting", "open"})
            ~> (socket[i] \in {"closed", "destroyed"})

\* Every query ends, also when the connection that carried it is gone.
EveryQueryEnds == \A q \in Queries : (query[q] = "waiting") ~> (query[q] # "waiting")
=============================================================================
