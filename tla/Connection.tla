----------------------------- MODULE Connection -----------------------------
(***************************************************************************)
(* createConnectionController (src/Socket/connection.ts): WebSocket, Noise *)
(* handshake, client payload, decrypted nodes, reconnection, and the calls *)
(* of the socket's user.  It is composed with the pairing controller       *)
(* (PairingController, whose variables and actions it shares), the event   *)
(* buffer, the reconnect manager and the node classification.              *)
(*                                                                         *)
(* The code is single threaded, but emitting an event runs the listeners   *)
(* at once, and a listener may call back into the socket.  A handler that  *)
(* emits is therefore cut at its emissions: k names the code to run next,  *)
(* work is the handler's loop variable (decrypted nodes still to be        *)
(* handled, or flushed events still to be emitted).  Everything else -     *)
(* messages, timers, WebSocket events - waits until k = "idle".            *)
(*                                                                         *)
(* The transport is abstracted to the state of its current socket.  Its    *)
(* close() removes the listeners, so a socket the code closed itself       *)
(* reports nothing any more; transport.connect() is given a constant URL   *)
(* and does not throw.  activeGen always equals rm.generation (both are    *)
(* assigned together), so it is not a variable of its own.                 *)
(***************************************************************************)
EXTENDS PairingController, EventBuffer, ReconnectManager

INSTANCE LoginLifecycle WITH NoId <- None

CONSTANTS Payloads,   \* stanzas the server may send (ids of sent IQs are added)
          MaxChunk,   \* bound: decrypted nodes in one WebSocket message
          MaxGen,     \* bound: connections after which the network holds
          Reentrant   \* whether listeners call back into the socket

ASSUME ConnectionAssumption ==
    /\ MaxChunk \in Nat \ {0}
    /\ MaxGen \in Nat \ {0}
    /\ Reentrant \in BOOLEAN
    /\ None \notin Nat

VARIABLES started, stopped,
          ws,            \* the transport's socket: "closing" is not OPEN any more
                         \* but its close event has not been delivered
          phase,
          session,       \* generation whose handshake made the session, or None
          rm,            \* the reconnect manager
          backoff,       \* a reconnect task is waiting
          connectTimer,  \* armed by start()
          conn,          \* state.connection
          buffer,        \* the event buffer
          seen,          \* last connection value the listeners were given
          registered,    \* creds.registered (with creds.me)
          pairingCode,   \* the IQ whose code is in creds.pairingCode, or None
          call,          \* per request: where requestPairingCode stands
          k, work,
          listening      \* listeners of the event just emitted are running

linkVars   == <<ws, phase, session>>
rmVars     == <<rm, backoff, connectTimer>>
eventVars  == <<conn, buffer, seen>>
credsVars  == <<registered, pairingCode>>
lifeVars   == <<started, stopped>>
handlerVars == <<k, work, listening>>
connVars == <<linkVars, rmVars, eventVars, credsVars, lifeVars, handlerVars, call>>
vars == <<connVars, pairingVars>>

Phases == {"idle", "sent_e", "noise_done", "login_sent", "failed"}
Connections == {"connecting", "open", "close"}

\* Domains of the link, the credentials, the calls and the handler being run.
TypeOK ==
    /\ PairingTypeOK
    /\ started \in BOOLEAN /\ stopped \in BOOLEAN
    /\ ws \in {"none", "connecting", "open", "closing"}
    /\ phase \in Phases
    /\ session \in Nat \cup {None}
    /\ rm \in [generation : Nat, attempt : Nat, cancelled : BOOLEAN]
    /\ backoff \in BOOLEAN /\ connectTimer \in BOOLEAN
    /\ conn \in Connections
    /\ buffer \in [enabled : BOOLEAN, queue : Seq(Connections)]
    /\ seen \in Connections \cup {"none"}
    /\ registered \in BOOLEAN /\ pairingCode \in Iqs \cup {None}
    /\ call \in [Requests -> {"none", "waiting", "resumed", "rejected", "made"}]
    /\ k \in {"idle", "flush", "handshake", "clientPayload", "closeFailed",
              "payload", "disconnect", "report", "logout", "pairing", "paired",
              "pairedCancel", "protocol", "success"}
    /\ listening \in BOOLEAN

\* The socket object before start(): createInitialState says "connecting".
Init ==
    /\ PairingInit
    /\ started = FALSE /\ stopped = FALSE
    /\ ws = "none" /\ phase = "idle" /\ session = None
    /\ rm = InitManager /\ backoff = FALSE /\ connectTimer = FALSE
    /\ conn = "connecting" /\ buffer = EmptyBuffer /\ seen = "none"
    /\ registered \in BOOLEAN /\ pairingCode = None
    /\ call = [r \in Requests |-> "none"]
    /\ k = "idle" /\ work = <<>> /\ listening = FALSE

------------------------------------------------------------------------------
(* Pieces used by several handlers.                                          *)

IsPairingReady == session # None /\ phase \in {"login_sent", "noise_done"}

\* transport.send(session!.seal(...)) returns instead of throwing.
SendOk == session # None /\ ws = "open"

\* settleReadyWaiters() and settleReadyWaiters(err).  A resolved waiter's
\* continuation runs later, as a microtask.
SettleReady == call' = [r \in Requests |->
                          IF call[r] = "waiting" THEN "resumed" ELSE call[r]]
\* Mutant: nobody is told.
FailReadyLost == UNCHANGED call

FailReady == call' = [r \in Requests |->
                        IF call[r] = "waiting" THEN "rejected" ELSE call[r]]

\* safeConnectionUpdate with the buffer in state b.
Update(b, value) == /\ buffer' = BufferPush(b, value)
                    /\ seen' = IF b.enabled THEN seen ELSE value

\* The handler goes on at stage after an emission (or none).
Goto(stage, emitted) == /\ k' = stage
                        /\ listening' = (emitted /\ stage # "idle")
                        /\ UNCHANGED work

\* A timer or a WebSocket event is dispatched: no handler is running and the
\* microtasks have been run.  Several messages that arrive together may be
\* dispatched without microtasks in between.
EventLoop == k = "idle"
Macrotask == EventLoop /\ \A r \in Requests : call[r] # "resumed"

\* The user calls a method: between handlers, or from a listener.
UserRuns == started /\ (EventLoop \/ (Reentrant /\ listening))

------------------------------------------------------------------------------
(* start, stop and the connect timer                                         *)

Start ==
    /\ ~started
    /\ started' = TRUE /\ stopped' = FALSE
    /\ rm' = BeginConnect(Cancel(rm))
    /\ conn' = "connecting" /\ Update(buffer, "connecting")
    /\ connectTimer' = TRUE
    /\ ws' = "connecting"
    /\ UNCHANGED <<phase, session, backoff, credsVars, call, handlerVars, pairingVars>>

ConnectTimeout ==
    /\ Macrotask /\ connectTimer
    /\ connectTimer' = FALSE
    /\ ws' = "none"
    /\ conn' = "close" /\ Update(buffer, "close")
    /\ FailReady
    /\ UNCHANGED <<phase, session, rm, backoff, credsVars, lifeVars, handlerVars, pairingVars>>

Stop ==
    /\ stopped' = TRUE
    /\ rm' = Cancel(rm)
    /\ CancelAll
    /\ connectTimer' = FALSE
    /\ FailReady
    /\ ws' = "none" /\ session' = None /\ phase' = "idle"
    /\ conn' = "close" /\ Update(BufferClear(buffer), "close")
    /\ UNCHANGED <<started, backoff, handlerVars>>

End == UserRuns /\ Stop /\ UNCHANGED credsVars

Logout == UserRuns /\ registered' = FALSE /\ Stop /\ UNCHANGED pairingCode

------------------------------------------------------------------------------
(* requestPairingCode                                                        *)

Call(r, status) == call' = [call EXCEPT ![r] = status]

\* Control reaches pairing.requestCode (the number was normalized before).
CallController(r) ==
    /\ Call(r, "made")
    /\ RequestCode(r, registered, TRUE, SendOk)

RequestPairingCode(r) ==
    /\ UserRuns /\ call[r] = "none"
    /\ \/ registered /\ Call(r, "rejected") /\ UNCHANGED pairingVars
       \/ ~registered /\ IsPairingReady /\ CallController(r)
       \/ /\ ~registered /\ ~IsPairingReady
          /\ Call(r, IF phase = "failed" \/ conn = "close" THEN "rejected" ELSE "waiting")
          /\ UNCHANGED pairingVars
    /\ UNCHANGED <<linkVars, rmVars, eventVars, credsVars, lifeVars, handlerVars>>

\* The continuation after "await waitForPairingReady".
Resume(r) ==
    /\ EventLoop /\ call[r] = "resumed"
    /\ \/ IsPairingReady /\ CallController(r)
       \/ ~IsPairingReady /\ Call(r, "rejected") /\ UNCHANGED pairingVars
    /\ UNCHANGED <<linkVars, rmVars, eventVars, credsVars, lifeVars, handlerVars>>

WaiterTimeout(r) ==
    /\ Macrotask /\ call[r] = "waiting" /\ Call(r, "rejected")
    /\ UNCHANGED <<linkVars, rmVars, eventVars, credsVars, lifeVars, handlerVars, pairingVars>>

\* The pairing controller's timers; its send is the connection's.
PairingTimers ==
    /\ Macrotask
    /\ \E r \in Requests : \/ AttemptTimer(r, SendOk)
                           \/ OverallTimeout(r)
    /\ UNCHANGED connVars

Deadline == (\E r \in Requests : DeadlinePasses(r)) /\ EventLoop /\ UNCHANGED connVars

------------------------------------------------------------------------------
(* onOpen: flush what was buffered, announce, start the Noise handshake.     *)

WsOpens ==
    /\ Macrotask /\ ws = "connecting"
    /\ IsCurrent(rm, rm.generation)
    /\ ws' = "open" /\ phase' = "idle" /\ session' = None
    /\ connectTimer' = FALSE
    /\ rm' = MarkOpen(rm, rm.generation)
    /\ buffer' = BufferFlushed(buffer) /\ work' = buffer.queue
    /\ k' = "flush" /\ listening' = FALSE
    /\ UNCHANGED <<backoff, conn, seen, credsVars, lifeVars, call, pairingVars>>

FlushOne ==
    /\ k = "flush" /\ work # <<>>
    /\ seen' = Head(work)
    /\ work' = Tail(work) /\ listening' = TRUE
    /\ UNCHANGED <<k, linkVars, rmVars, conn, buffer, credsVars, lifeVars, call, pairingVars>>

AnnounceConnecting ==
    /\ k = "flush" /\ work = <<>>
    /\ conn' = "connecting" /\ Update(buffer, "connecting")
    /\ Goto("handshake", TRUE)
    /\ UNCHANGED <<linkVars, rmVars, credsVars, lifeVars, call, pairingVars>>

\* The first frame can only fail to be sent if a listener ended the socket.
StartHandshake ==
    /\ k = "handshake"
    /\ \/ ws = "open" /\ phase' = "sent_e" /\ UNCHANGED call
       \/ ws # "open" /\ phase' = "failed" /\ FailReady
    /\ Goto("idle", FALSE)
    /\ UNCHANGED <<ws, session, rmVars, eventVars, credsVars, lifeVars, pairingVars>>

------------------------------------------------------------------------------
(* onHandshakeBytes.  A message that does not complete the frame changes     *)
(* only rxBuf, which is left out.                                            *)

\* What the socket had received before it dropped is still delivered.
Receiving == EventLoop /\ ws \in {"open", "closing"}

HandshakeMessage == Receiving /\ phase = "sent_e"

HandshakeOverflow ==
    /\ HandshakeMessage
    /\ phase' = "failed" /\ FailReady
    /\ ws' = "none"
    /\ UNCHANGED <<session, rmVars, eventVars, credsVars, lifeVars, handlerVars, pairingVars>>

\* The finish frame can be sent.
HelloAccepted ==
    /\ HandshakeMessage /\ ws = "open"
    /\ session' = rm.generation /\ phase' = "noise_done"
    /\ Update(buffer, "connecting")
    /\ Goto("clientPayload", TRUE)
    /\ UNCHANGED <<ws, conn, rmVars, credsVars, lifeVars, call, pairingVars>>

\* sendClientPayload returns at once if a listener ended the socket.
SendClientPayload ==
    /\ k = "clientPayload"
    /\ \/ session = None /\ UNCHANGED <<phase, call>>
       \/ session # None /\ phase' = "login_sent" /\ SettleReady
    /\ Goto("idle", FALSE)
    /\ UNCHANGED <<ws, session, rmVars, eventVars, credsVars, lifeVars, pairingVars>>

\* A bad hello, or a finish frame that cannot be sent any more.
HelloRejected ==
    /\ HandshakeMessage
    /\ phase' = "failed" /\ FailReady
    /\ Update(buffer, "close")
    /\ Goto("closeFailed", TRUE)
    /\ UNCHANGED <<ws, session, conn, rmVars, credsVars, lifeVars, pairingVars>>

CloseFailed ==
    /\ k = "closeFailed"
    /\ ws' = "none"
    /\ Goto("idle", FALSE)
    /\ UNCHANGED <<phase, session, rmVars, eventVars, credsVars, lifeVars, call, pairingVars>>

------------------------------------------------------------------------------
(* onMessage after the handshake: handleDecrypted for each node.             *)

Identified(stanza, iq) ==
    [stanza EXCEPT !.attrs = [a \in DOMAIN @ \cup {"id"} |-> IF a = "id" THEN iq ELSE @[a]]]

Unasked == {Parsed(stanza) : stanza \in Payloads}
Answers == [iq \in Iqs |->
              {Parsed(Identified(stanza, iq)) : stanza \in {p \in Payloads : p.tag = "iq"}}]

\* What the server may send: a stanza of its own, or one with the id of an IQ it
\* was sent.  A stanza is parsed by several functions, always in the same way.
Nodes == Unasked \cup UNION {Answers[iq] : iq \in sent}

\* The server cannot know the id of an IQ it was not sent, so no stanza carries one
\* but that of the IQ it answers.  The stanzas are within the bound of Walk.
ASSUME StanzaAssumption ==
    /\ \A stanza \in Payloads : Walk(stanza).todo = <<>>
    /\ \A n \in Unasked : n.iqId \notin Iqs
    /\ \A iq \in Iqs : \A n \in Answers[iq] : n.iqId \in Iqs => n.iqId = iq

MessageArrives ==
    /\ Receiving /\ phase \in {"noise_done", "login_sent"} /\ session # None
    /\ \E n \in 1..MaxChunk : work' \in [1..n -> Nodes]
    /\ k' = "payload"
    /\ UNCHANGED <<listening, linkVars, rmVars, eventVars, credsVars, lifeVars, call, pairingVars>>

Node == Head(work)

\* pairing.onPayload; the message engine emits for messages and receipts.
HandlePayload ==
    /\ k = "payload"
    /\ OnPayload(Node.iqId, Node.pairing)
    /\ Goto("disconnect", Node.announced)
    /\ UNCHANGED <<linkVars, rmVars, eventVars, credsVars, lifeVars, call>>

\* A logged-out disconnect clears the registration and emits creds.update.
HandleDisconnect ==
    /\ k = "disconnect"
    /\ \/ ~Node.disconnects /\ Goto("pairing", FALSE) /\ UNCHANGED credsVars
       \/ /\ Node.disconnects /\ ~Node.logsOut
          /\ Goto("report", FALSE) /\ UNCHANGED credsVars
       \/ /\ Node.logsOut
          /\ registered' = FALSE /\ pairingCode' = None
          /\ Goto("report", TRUE)
    /\ UNCHANGED <<linkVars, rmVars, eventVars, lifeVars, call, pairingVars>>

ReportDisconnect ==
    /\ k = "report"
    /\ conn' = "close" /\ Update(buffer, "close")
    /\ CancelAll
    /\ Goto(IF Node.logsOut THEN "logout" ELSE "pairing", TRUE)
    /\ UNCHANGED <<linkVars, rmVars, credsVars, lifeVars, call>>

NextPayload(emitted) ==
    /\ work' = Tail(work)
    /\ k' = IF Len(work) = 1 THEN "idle" ELSE "payload"
    /\ listening' = (emitted /\ Len(work) > 1)

LoggedOut ==
    /\ k = "logout"
    /\ stopped' = TRUE
    /\ ws' = "none"
    /\ NextPayload(FALSE)
    /\ UNCHANGED <<started, phase, session, rmVars, eventVars, credsVars, call, pairingVars>>

\* The code of the active attempt is saved; pair-success registers.
HandlePairing ==
    /\ k = "pairing"
    /\ LET saved == IF Node.pairing = "code" /\ IsActiveIq(Node.iqId)
                    THEN Node.iqId ELSE pairingCode
       IN \/ /\ Node.registers
             /\ registered' = TRUE /\ pairingCode' = None
             /\ Goto("paired", TRUE)
          \/ /\ ~Node.registers
             /\ pairingCode' = saved /\ UNCHANGED registered
             /\ Goto("protocol", saved # pairingCode)
    /\ UNCHANGED <<linkVars, rmVars, eventVars, lifeVars, call, pairingVars>>

PairSuccess ==
    /\ k = "paired"
    /\ conn' = "open" /\ Update(buffer, "open")
    /\ Goto("pairedCancel", TRUE)
    /\ UNCHANGED <<linkVars, rmVars, credsVars, lifeVars, call, pairingVars>>

\* Mutant: pair-success leaves the pairing request running.
PairSuccessCancelsNothing ==
    /\ k = "pairedCancel"
    /\ Goto("protocol", FALSE)
    /\ UNCHANGED <<linkVars, rmVars, eventVars, credsVars, lifeVars, call, pairingVars>>

PairSuccessCancels ==
    /\ k = "pairedCancel"
    /\ CancelAll
    /\ Goto("protocol", FALSE)
    /\ UNCHANGED <<linkVars, rmVars, eventVars, credsVars, lifeVars, call>>

\* Every QR ref is announced as "connecting", whatever state.connection is.
HandleQr ==
    /\ k = "protocol"
    /\ \/ /\ Node.qrRefs > 0
          /\ Update(buffer, "connecting")
          /\ work' = [work EXCEPT ![1].qrRefs = @ - 1]
          /\ listening' = TRUE /\ UNCHANGED k
       \/ Node.qrRefs = 0 /\ Goto("success", FALSE) /\ UNCHANGED <<buffer, seen>>
    /\ UNCHANGED <<linkVars, rmVars, conn, credsVars, lifeVars, call, pairingVars>>

\* Mutant: any success opens.
AlwaysReady == TRUE

AuthReady == registered

HandleSuccess ==
    /\ k = "success"
    /\ LET opens == AuthReady /\ Node.success
       IN /\ \/ opens /\ conn' = "open" /\ Update(buffer, "open")
             \/ ~opens /\ UNCHANGED eventVars
          /\ NextPayload(opens)
    /\ UNCHANGED <<linkVars, rmVars, credsVars, lifeVars, call, pairingVars>>

------------------------------------------------------------------------------
(* The network, onClose, and the reconnect task.                             *)

\* The peer, the network or the ping watchdog ends the socket.
WsDrops ==
    /\ EventLoop /\ ws \in {"connecting", "open"} /\ rm.generation < MaxGen
    /\ ws' = "closing"
    /\ UNCHANGED <<phase, session, rmVars, eventVars, credsVars, lifeVars, handlerVars,
                   call, pairingVars>>

NoDisconnectInfo == [statusCode |-> 0, isLoggedOut |-> FALSE]

\* Mutant: the session survives its socket.
ForgetPhase == phase' = "idle" /\ UNCHANGED session

ForgetLink == phase' = "idle" /\ session' = None

WsCloses ==
    /\ Macrotask /\ ws = "closing"
    /\ ws' = "none" /\ ForgetLink
    /\ connectTimer' = FALSE
    /\ conn' = "close"
    /\ FailReady
    /\ LET b == BufferPush(BufferStart(buffer), "close")
           should == OnCloseShould(rm, rm.generation, FALSE, stopped, NoDisconnectInfo)
       IN \/ should /\ buffer' = b /\ rm' = WaitBackoff(rm) /\ backoff' = TRUE
          \/ ~should /\ buffer' = BufferStop(b) /\ UNCHANGED <<rm, backoff>>
    /\ UNCHANGED <<seen, credsVars, lifeVars, handlerVars, pairingVars>>

\* Mutant: the task does not look whether the connection was stopped.
BackoffDoneAnyway ==
    /\ Macrotask /\ backoff
    /\ backoff' = FALSE
    /\ ws \notin {"open", "connecting"}
    /\ rm' = BeginConnect(rm)
    /\ conn' = "connecting" /\ Update(buffer, "connecting")
    /\ ws' = "connecting"
    /\ UNCHANGED <<phase, session, connectTimer, credsVars, lifeVars, handlerVars, call,
                   pairingVars>>

BackoffDone ==
    /\ Macrotask /\ backoff
    /\ backoff' = FALSE
    /\ \/ stopped /\ buffer' = BufferClear(buffer) /\ UNCHANGED <<ws, rm, conn, seen>>
       \/ /\ ~stopped /\ ws \notin {"open", "connecting"}
          /\ rm' = BeginConnect(rm)
          /\ conn' = "connecting" /\ Update(buffer, "connecting")
          /\ ws' = "connecting"
    /\ UNCHANGED <<phase, session, connectTimer, credsVars, lifeVars, handlerVars, call,
                   pairingVars>>

------------------------------------------------------------------------------

\* The rest of a handler that was cut at an emission.
HandlerSteps ==
    \/ FlushOne \/ AnnounceConnecting \/ StartHandshake
    \/ SendClientPayload \/ CloseFailed
    \/ HandlePayload \/ HandleDisconnect \/ ReportDisconnect \/ LoggedOut
    \/ HandlePairing \/ PairSuccess \/ PairSuccessCancels \/ HandleQr \/ HandleSuccess

Network == WsOpens \/ WsDrops \/ HandshakeOverflow \/ HelloAccepted \/ HelloRejected
             \/ MessageArrives

User == End \/ Logout \/ \E r \in Requests : RequestPairingCode(r)

Next ==
    \/ Start \/ ConnectTimeout
    \/ HandlerSteps
    \/ Network \/ WsCloses \/ BackoffDone
    \/ \E r \in Requests : Resume(r) \/ WaiterTimeout(r)
    \/ PairingTimers \/ Deadline
    \/ User

\* A handler finishes and its microtasks run.  The event loop visits expired
\* timers and pending close events between messages, however many arrive:
\* strong fairness, because each message disables them while it is handled.
Timeout == Macrotask /\ (\E r \in Requests : OverallTimeout(r)) /\ UNCHANGED connVars

Fairness ==
    /\ WF_vars(HandlerSteps)
    /\ SF_vars(WsCloses) /\ SF_vars(BackoffDone)
    /\ SF_vars(Deadline) /\ SF_vars(Timeout)
    /\ \A r \in Requests : SF_vars(Resume(r)) /\ SF_vars(WaiterTimeout(r))

SafeSpec == Init /\ [][Next]_vars
Spec == SafeSpec /\ Fairness

------------------------------------------------------------------------------
(* Properties.                                                               *)

\* Once end(), logout() or a logged-out disconnect has happened, no timer or
\* reconnect task opens another WebSocket.
NoConnectAfterStop ==
    [][(ws' = "connecting" /\ ws # "connecting") => ~stopped]_vars

\* A session is used on the WebSocket whose handshake made it: keys of an
\* earlier connection never meet a later socket.
SessionOfThisSocket ==
    (session # None /\ ~stopped /\ phase # "failed")
        => session = rm.generation /\ ws \in {"open", "closing"}

\* While connections keep failing, the buffer holds one "close" per failure and one
\* "connecting" per retry, so retries stop long before it drops events; and nothing is
\* held back from the listeners any more once a WebSocket is open.
EventsReachListeners ==
    /\ Len(buffer.queue) <= 2 * MaxRetries + 1
    /\ (EventLoop /\ ws = "open") => buffer = EmptyBuffer

\* Until the socket is stopped, no requestPairingCode is left waiting for a
\* readiness that has come or that can no longer come.
NoForgottenWaiter ==
    (EventLoop /\ ~stopped) => \A r \in Requests : call[r] = "waiting" =>
        ~IsPairingReady /\ phase # "failed" /\ conn # "close"

\* After end(), logout() or a logged-out disconnect the connection stays down,
\* and the listeners have been told.
StopIsFinal ==
    (EventLoop /\ stopped) =>
        /\ conn = "close" /\ seen = "close" /\ ws = "none"
        /\ \A r \in Requests : call[r] # "waiting"

\* state.connection is "open" only with a registered account and a live session
\* (connection.ts:304, "Open only when auth is actually registered").
OpenMeansLoggedIn ==
    (EventLoop /\ conn = "open") =>
        registered /\ phase = "login_sent" /\ session = rm.generation

\* A registered account has no pairing in progress (Types/Socket.ts:77).
NoPairingOnceRegistered == (EventLoop /\ registered) => active = None

\* Every call of requestPairingCode ends: with a code or an error.
EveryCallEnds ==
    \A r \in Requests :
        (call[r] # "none") ~> (call[r] = "rejected" \/ outcome[r] \in Settled)

\* A socket that drops before the retries are used up is replaced, unless the
\* connection is stopped.  (Two exceptions of the code, after which nothing
\* retries: the connect timer of start() may fire between the drop and its close
\* event, and a hello that comes in between fails the handshake.)
DropIsRetried ==
    (ws = "closing" /\ ~connectTimer /\ phase \notin {"sent_e", "failed"} /\ rm.attempt < MaxRetries)
        ~> (ws = "connecting" \/ stopped)

\* For the parts above it the connection is a Link: whatever handlers and listeners do,
\* a WebSocket is given up before the next is dialled, and a session comes and goes with it.
ConnectionLink == INSTANCE Link WITH gen <- rm.generation, Generations <- Nat
ImplementsLink == ConnectionLink!Spec

------------------------------------------------------------------------------
(* What the repository says and the code does not do.                        *)

\* connection.ts:234: the code of the active attempt is persisted.
AnsweredCodeIsSaved ==
    [][\A r \in Requests :
          (k = "pairing" /\ Node.pairing = "code" /\ code[r] # None /\ code[r] = Node.iqId)
          => pairingCode' = code[r]]_vars
==============================================================================
