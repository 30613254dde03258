------------------------------- MODULE Link --------------------------------
(***************************************************************************)
(* What the parts above a connection may rely on: one WebSocket at a time, *)
(* numbered upwards, and at most one Noise session, made on the WebSocket  *)
(* that is open.  WebSocketTransport (src/Socket/transport.ts) and the     *)
(* connection controller (src/Socket/connection.ts) both implement it;     *)
(* the message engine, which is handed the socket and the session of the   *)
(* moment, is checked over it.                                             *)
(***************************************************************************)
EXTENDS Naturals

CONSTANTS Generations,  \* the numbers of WebSockets
          None

VARIABLES gen,      \* of the last WebSocket made
          ws,       \* "closing": not OPEN any more, its close event has not come
          session   \* the generation whose handshake made the session, or None

vars == <<gen, ws, session>>

Init == gen = 0 /\ ws = "none" /\ session = None

\* A WebSocket that is connecting or open is never replaced.
Dials == /\ ws \notin {"connecting", "open"}
         /\ gen' \in Generations /\ gen' > gen
         /\ ws' = "connecting" /\ session' = None

Opens == /\ ws = "connecting"
         /\ ws' = "open" /\ session' = None
         /\ UNCHANGED gen

\* There is no second handshake on the same WebSocket.
Handshakes == /\ ws = "open" /\ session = None
              /\ session' = gen
              /\ UNCHANGED <<gen, ws>>

Drops == /\ ws \in {"connecting", "open"}
         /\ ws' = "closing"
         /\ UNCHANGED <<gen, session>>

Closes == /\ ws = "closing"
          /\ ws' = "none" /\ session' = None
          /\ UNCHANGED gen

\* The code gives the WebSocket up; a logged-out one leaves its session behind.
Discards == /\ gen' \in Generations /\ gen' >= gen
            /\ ws' = "none" /\ session' \in {session, None}

Next == Dials \/ Opens \/ Handshakes \/ Drops \/ Closes \/ Discards

Spec == Init /\ [][Next]_vars
=============================================================================
