-------------------------- MODULE ConnectionProofs --------------------------
(***************************************************************************)
(* The safety properties of Connection, for any requests, attempts,        *)
(* retries, stanzas, generations and lengths of a message.                 *)
(*                                                                         *)
(* What a handler may rely on is where it was cut: a listener may have     *)
(* ended the socket in between, but it can do no more than that.  The      *)
(* invariant therefore ties k to the phase, the phase to the session and   *)
(* the WebSocket, and the buffer to the retries.  What it says of the      *)
(* waiting calls and of "open" holds until the socket is stopped: after-   *)
(* wards the handler that was running may still announce what it was at.   *)
(* A stop made between handlers is final whatever the listeners do.        *)
(***************************************************************************)
EXTENDS Connection, PairingControllerProofs, SequenceTheorems

\* The stages of handleDecrypted.
Stages == {"payload", "disconnect", "report", "logout", "pairing", "paired", "pairedCancel",
           "protocol", "success"}

\* The nodes still to be looked at are those the server may have sent.  (The first
\* one may have lost some of its QR refs on the way.)
Elements(w) == {w[i] : i \in DOMAIN w}
WorkOfStage ==
    /\ k = "flush" => work \in Seq(Connections)
    /\ k = "payload" => work \in Seq(Nodes)
    /\ k \in Stages => work \in Seq(Elements(work)) /\ work # <<>> /\ Tail(work) \in Seq(Nodes)

\* Nothing runs before start().
BeforeStart ==
    ~started => /\ ws = "none" /\ phase = "idle" /\ k = "idle"
                /\ ~stopped /\ ~connectTimer /\ ~backoff /\ buffer = EmptyBuffer

\* The connect timer is that of the first WebSocket, which has not opened yet.
FirstConnect ==
    connectTimer => /\ ws \in {"connecting", "closing"} /\ phase = "idle" /\ k = "idle"
                    /\ ~backoff /\ buffer = EmptyBuffer

\* There is no link while a WebSocket is connecting or about to be retried.
NoLinkYet ==
    /\ ws = "connecting" => phase = "idle" /\ k = "idle"
    /\ backoff => ws = "none" /\ phase = "idle" /\ k = "idle"

\* The phases with a session, and whose it is.
SessionOfPhase ==
    IF phase \in {"noise_done", "login_sent"}
    THEN session = rm.generation /\ (ws \in {"open", "closing"} \/ stopped)
    ELSE session = None

\* Where a handler was cut, the phase is what it made it, or the socket was ended.
PhaseOfStage ==
    /\ k \in {"flush", "handshake"} => phase = "idle"
    /\ k = "clientPayload" => phase \in {"noise_done", "idle"}
    /\ k = "closeFailed" => phase \in {"failed", "idle"}
    /\ k \in Stages => phase \in {"noise_done", "login_sent", "idle"}

\* Events are only held back between the close of a WebSocket and the next open, two
\* for each retry.
HeldBack ==
    /\ rm.attempt <= MaxRetries
    /\ buffer # EmptyBuffer => phase = "idle" /\ k = "idle" /\ ws # "open"
    /\ Len(buffer.queue) <= 2 * rm.attempt + 1
    /\ ws \in {"connecting", "closing"} => Len(buffer.queue) <= 2 * rm.attempt
    /\ backoff => rm.attempt >= 1 /\ Len(buffer.queue) <= 2 * rm.attempt - 1

\* A registration cancels the pairing before the handler ends.
RegisteredAlone ==
    registered /\ k \notin {"paired", "pairedCancel"} => active = None

CInv == /\ TypeOK /\ IInv /\ WorkOfStage
        /\ BeforeStart /\ FirstConnect /\ NoLinkYet
        /\ SessionOfPhase /\ PhaseOfStage /\ HeldBack /\ RegisteredAlone

------------------------------------------------------------------------------
(* While the connection runs.                                                *)

\* The phase then says exactly where the handler is.
PhaseIsStage ==
    /\ phase = "noise_done" <=> k = "clientPayload"
    /\ k = "closeFailed" => phase = "failed"
    /\ k \in Stages => phase = "login_sent"

\* Who waits, waits for a login that is still to come.
WaitersHope ==
    \A r \in Requests : call[r] = "waiting" =>
        phase \in {"idle", "sent_e", "noise_done"} /\ conn # "close"

OpenIsRegistered ==
    /\ conn = "open" => phase = "login_sent" /\ (registered \/ k = "report")
    /\ k \in {"paired", "pairedCancel"} => registered

CalmInv == CInv /\ PhaseIsStage /\ WaitersHope /\ OpenIsRegistered

------------------------------------------------------------------------------
(* The parts.                                                                *)

Buffers == [enabled : BOOLEAN, queue : Seq(Connections)]

\* The buffer's methods: what they do to the queue.
LEMMA BufferMethods ==
    ASSUME NEW b \in Buffers, NEW value \in Connections
    PROVE  /\ BufferStart(b) \in Buffers /\ BufferStart(b).queue = b.queue
           /\ BufferStop(b) \in Buffers /\ BufferStop(b).queue = b.queue
           /\ BufferPush(b, value) \in Buffers
           /\ Len(BufferPush(b, value).queue) <= Len(b.queue) + 1
           /\ ~b.enabled => BufferPush(b, value) = b
<1>1. /\ BufferStart(b) \in Buffers /\ BufferStart(b).queue = b.queue
      /\ BufferStop(b) \in Buffers /\ BufferStop(b).queue = b.queue
  BY DEF Buffers, BufferStart, BufferStop
<1> DEFINE q == b.queue
           kept == IF Len(q) >= MaxSize THEN Tail(q) ELSE q
<1>2. q \in Seq(Connections)
  BY DEF Buffers
<1>3. kept \in Seq(Connections) /\ Len(kept) <= Len(q)
  BY <1>2, BufferAssumption
<1>4. /\ Append(kept, value) \in Seq(Connections)
      /\ Len(Append(kept, value)) <= Len(q) + 1
  BY <1>2, <1>3
<1>5. b.enabled => BufferPush(b, value) = [b EXCEPT !.queue = Append(kept, value)]
  BY DEF BufferPush
<1>6. ~b.enabled => BufferPush(b, value) = b
  BY DEF BufferPush
<1>7. [b EXCEPT !.queue = Append(kept, value)] \in Buffers
  BY <1>4 DEF Buffers
<1>8. [b EXCEPT !.queue = Append(kept, value)].queue = Append(kept, value)
  BY DEF Buffers
<1> HIDE DEF kept
<1>9. Len(b.queue) <= Len(b.queue) + 1
  BY <1>2
<1> QED BY <1>1, <1>4, <1>5, <1>6, <1>7, <1>8, <1>9

LEMMA EmptyIsBuffer ==
    /\ EmptyBuffer \in Buffers /\ ~EmptyBuffer.enabled /\ Len(EmptyBuffer.queue) = 0
BY DEF EmptyBuffer, Buffers

Managers == [generation : Nat, attempt : Nat, cancelled : BOOLEAN]

\* Setting its fields, whatever their values are.
LEMMA SetCancelled ==
    ASSUME NEW S, NEW m \in [generation : Nat, attempt : Nat, cancelled : S], NEW x \in S
    PROVE  [m EXCEPT !.cancelled = x] =
               [generation |-> m.generation, attempt |-> m.attempt, cancelled |-> x]
OBVIOUS

LEMMA SetGeneration ==
    ASSUME NEW S, NEW m \in [generation : Nat, attempt : Nat, cancelled : S], NEW n
    PROVE  [m EXCEPT !.generation = n] =
               [generation |-> n, attempt |-> m.attempt, cancelled |-> m.cancelled]
OBVIOUS

\* The reconnect manager's methods.
LEMMA ManagerMethods ==
    ASSUME NEW m \in Managers
    PROVE  /\ BeginConnect(m) \in Managers /\ BeginConnect(m).attempt = m.attempt
           /\ BeginConnect(m).generation = m.generation + 1
           /\ Cancel(m) \in Managers /\ Cancel(m).attempt = m.attempt
           /\ Cancel(m).generation = m.generation
           /\ MarkOpen(m, m.generation) \in Managers /\ MarkOpen(m, m.generation).attempt = 0
           /\ MarkOpen(m, m.generation).generation = m.generation
           /\ WaitBackoff(m) \in Managers /\ WaitBackoff(m).attempt = m.attempt + 1
           /\ WaitBackoff(m).generation = m.generation
<1>1. /\ m.generation \in Nat /\ m.attempt \in Nat /\ m.cancelled \in BOOLEAN
  BY DEF Managers
<1>2. BeginConnect(m) = [generation |-> m.generation + 1, attempt |-> m.attempt, cancelled |-> FALSE]
  <2> DEFINE c == [m EXCEPT !.cancelled = FALSE]
  <2>1. c = [generation |-> m.generation, attempt |-> m.attempt, cancelled |-> FALSE]
    BY SetCancelled, FALSE \in BOOLEAN, Zenon DEF Managers
  <2>2. /\ c \in [generation : Nat, attempt : Nat, cancelled : BOOLEAN]
        /\ c.attempt = m.attempt /\ c.cancelled = FALSE
    BY <1>1, <2>1
  <2>3. BeginConnect(m) = [c EXCEPT !.generation = m.generation + 1]
    BY DEF BeginConnect
  <2> HIDE DEF c
  <2> QED BY <2>2, <2>3, SetGeneration, Zenon
<1>3. Cancel(m) = [generation |-> m.generation, attempt |-> m.attempt, cancelled |-> TRUE]
  BY SetCancelled, TRUE \in BOOLEAN, Zenon DEF Managers, Cancel
<1>4. MarkOpen(m, m.generation) = [generation |-> m.generation, attempt |-> 0, cancelled |-> m.cancelled]
  BY DEF Managers, MarkOpen
<1>5. WaitBackoff(m) = [generation |-> m.generation, attempt |-> m.attempt + 1, cancelled |-> m.cancelled]
  BY DEF Managers, WaitBackoff
<1> QED BY <1>1, <1>2, <1>3, <1>4, <1>5 DEF Managers

\* What a stanza says to a pairing is one of three things.
LEMMA PairingKinds ==
    ASSUME sent \subseteq Iqs, NEW n \in Nodes
    PROVE  n.pairing \in {"code", "error", "empty"}
<1>1. n \in Unasked \/ \E iq \in Iqs : n \in Answers[iq]
  BY DEF Nodes
<1>2. PICK stanza : n = Parsed(stanza)
  BY <1>1 DEF Unasked, Answers
<1> QED BY <1>2 DEF Parsed

\* The id in a stanza is of an IQ that was sent, or of none.
LEMMA PairingIds ==
    ASSUME sent \subseteq Iqs, NEW n \in Nodes
    PROVE  n.iqId \in Iqs => n.iqId \in sent
BY StanzaAssumption DEF Nodes
------------------------------------------------------------------------------
(* Pairing: whatever the connection does, the controller takes a step of its *)
(* own or none.                                                              *)

LEMMA CancelIsStep == CancelAll => [PairingNext]_pairingVars
BY DEF CancelAll, PairingNext

LEMMA CallIsStep ==
    ASSUME TypeOK, NEW r \in Requests, CallController(r)
    PROVE  [PairingNext]_pairingVars
<1>1. RequestCode(r, registered, TRUE, SendOk) /\ registered \in BOOLEAN
  BY DEF CallController, TypeOK
<1>2. PICK sendOk \in BOOLEAN : RequestCode(r, registered, TRUE, sendOk)
  BY <1>1 DEF SendOk
<1>3. Request(r)
  BY <1>1, <1>2 DEF Request
<1> QED BY <1>3 DEF PairingNext

LEMMA TimerIsStep == PairingTimers => [PairingNext]_pairingVars
<1> SUFFICES ASSUME NEW r \in Requests, AttemptTimer(r, SendOk) \/ OverallTimeout(r)
             PROVE  PairingNext
  BY DEF PairingTimers
<1>1. ASSUME AttemptTimer(r, SendOk) PROVE \E sendOk \in BOOLEAN : AttemptTimer(r, sendOk)
  BY <1>1 DEF SendOk
<1> QED BY <1>1 DEF PairingNext

LEMMA PayloadIsStep ==
    ASSUME CInv, HandlePayload
    PROVE  [PairingNext]_pairingVars
<1>1. sent \subseteq Iqs
  BY DEF CInv, TypeOK, PairingTypeOK
<1>2. Node \in Nodes
  BY DEF CInv, WorkOfStage, HandlePayload, Stages, Node
<1>3. OnPayload(Node.iqId, Node.pairing)
  BY DEF HandlePayload
<1>4. CASE Node.iqId \in Iqs
  BY <1>1, <1>2, <1>3, <1>4, PairingIds, PairingKinds DEF Answer, PairingNext
<1>5. CASE Node.iqId \notin Iqs
  <2>1. MatchedFlow(Node.iqId) = None
    BY <1>5 DEF MatchedFlow
  <2> QED BY <1>3, <2>1 DEF OnPayload
<1> QED BY <1>4, <1>5

LEMMA PairingSteps ==
    ASSUME CInv, [Next]_vars
    PROVE  [PairingNext]_pairingVars
<1>1. CASE Start \/ ConnectTimeout \/ Network \/ WsCloses \/ BackoffDone
  BY <1>1 DEF Start, ConnectTimeout, Network, WsOpens, WsDrops, HandshakeOverflow,
     HelloAccepted, HelloRejected, MessageArrives, WsCloses, BackoffDone
<1>2. CASE HandlerSteps
  <2>1. CASE HandlePayload
    BY <2>1, PayloadIsStep
  <2>2. CASE ReportDisconnect \/ PairSuccessCancels
    BY <2>2, CancelIsStep DEF ReportDisconnect, PairSuccessCancels
  <2> QED BY <1>2, <2>1, <2>2
          DEF HandlerSteps, FlushOne, AnnounceConnecting, StartHandshake, SendClientPayload,
              CloseFailed, HandleDisconnect, LoggedOut, HandlePairing, PairSuccess, HandleQr,
              HandleSuccess
<1>3. CASE \E r \in Requests : Resume(r) \/ WaiterTimeout(r)
  BY <1>3, CallIsStep DEF Resume, WaiterTimeout, CInv
<1>4. CASE PairingTimers \/ Deadline
  BY <1>4, TimerIsStep DEF Deadline, PairingNext
<1>5. CASE User
  <2>1. CASE End \/ Logout
    BY <2>1, CancelIsStep DEF End, Logout, Stop
  <2>2. CASE \E r \in Requests : RequestPairingCode(r)
    BY <2>2, CallIsStep DEF RequestPairingCode, CInv
  <2> QED BY <1>5, <2>1, <2>2 DEF User
<1>6. CASE UNCHANGED vars
  BY <1>6 DEF vars
<1> QED BY <1>1, <1>2, <1>3, <1>4, <1>5, <1>6 DEF Next

\* Nothing that was sent is forgotten.
LEMMA SentGrows ==
    ASSUME [PairingNext]_pairingVars
    PROVE  sent \subseteq sent'
<1>1. ASSUME NEW r \in Requests, NEW f, NEW n, NEW ok, RunAttempt(r, f, n, ok)
      PROVE  sent \subseteq sent'
  BY <1>1 DEF RunAttempt, AttemptSent, AttemptSendFailed
<1>2. ASSUME NEW r \in Requests, Request(r) PROVE sent \subseteq sent'
  BY <1>1, <1>2 DEF Request, RequestCode, RequestRefused
<1>3. ASSUME NEW r \in Requests, NEW ok \in BOOLEAN, AttemptTimer(r, ok) PROVE sent \subseteq sent'
  BY <1>1, <1>3 DEF AttemptTimer, WindowElapsed, RetryDue
<1> QED BY <1>2, <1>3 DEF PairingNext, DeadlinePasses, OverallTimeout, Answer, OnPayload,
           CancelAll, pairingVars
------------------------------------------------------------------------------
(* The steps keep the invariant.                                             *)

Kept == IInv' /\ sent \subseteq sent'

\* The work of a stage stays what it is when the handler does not go on.
LEMMA WorkStays ==
    ASSUME WorkOfStage, sent \subseteq sent', UNCHANGED work, k' = k
    PROVE  WorkOfStage'
<1>1. Nodes \subseteq Nodes'
  BY DEF Nodes
<1>2. Seq(Nodes) \subseteq Seq(Nodes')
  BY <1>1
<1> QED BY <1>2 DEF WorkOfStage, Elements

Statuses == {"none", "waiting", "resumed", "rejected", "made"}

\* Settling the waiters keeps the calls' types.
LEMMA SettledTypes ==
    ASSUME TypeOK, FailReady \/ SettleReady
    PROVE  call' \in [Requests -> Statuses]
BY DEF TypeOK, FailReady, SettleReady, Statuses

\* An update of an empty buffer reaches the listeners.
LEMMA UpdateTypes ==
    ASSUME TypeOK, NEW value \in Connections, Update(buffer, value)
    PROVE  /\ buffer' \in Buffers /\ seen' \in Connections \cup {"none"}
           /\ Len(buffer'.queue) <= Len(buffer.queue) + 1
           /\ buffer = EmptyBuffer => buffer' = EmptyBuffer /\ seen' = value
<1>1. buffer \in Buffers /\ seen \in Connections \cup {"none"}
  BY DEF TypeOK, Buffers
<1>2. buffer' = BufferPush(buffer, value) /\ (seen' = seen \/ seen' = value)
  BY DEF Update
<1>3. buffer = EmptyBuffer => buffer' = EmptyBuffer
  BY <1>1, <1>2, BufferMethods, EmptyIsBuffer
<1>4. buffer = EmptyBuffer => seen' = value
  BY EmptyIsBuffer DEF Update
<1> QED BY <1>1, <1>2, <1>3, <1>4, BufferMethods

LEMMA StartInv ==
    ASSUME CInv, Kept, Start
    PROVE  CInv'
<1> USE DEF CInv
<1>1. /\ started' /\ ~stopped' /\ ws' = "connecting" /\ connectTimer' /\ k = "idle" /\ k' = k
      /\ UNCHANGED <<phase, session, backoff, registered, pairingCode, call, work, listening, active>>
      /\ phase = "idle" /\ ~backoff /\ buffer = EmptyBuffer
  BY DEF Start, BeforeStart, credsVars, handlerVars, pairingVars
<1>2. buffer' = EmptyBuffer /\ seen' = "connecting" /\ conn' = "connecting"
  BY <1>1, UpdateTypes DEF Start, Connections
<1>3. rm' \in Managers /\ rm'.attempt = rm.attempt
  BY ManagerMethods DEF Start, TypeOK, Managers
<1>4. TypeOK'
  BY <1>1, <1>2, <1>3, EmptyIsBuffer DEF Start, TypeOK, Kept, IInv, Buffers, Managers, Connections
<1>5. WorkOfStage'
  BY <1>1, WorkStays DEF Kept
<1>6. BeforeStart' /\ FirstConnect' /\ NoLinkYet' /\ SessionOfPhase' /\ PhaseOfStage' /\ RegisteredAlone'
  BY <1>1, <1>2 DEF BeforeStart, FirstConnect, NoLinkYet, SessionOfPhase, PhaseOfStage,
     RegisteredAlone, Stages
<1>7. HeldBack'
  BY <1>1, <1>2, <1>3, EmptyIsBuffer DEF HeldBack, TypeOK
<1> QED BY <1>4, <1>5, <1>6, <1>7 DEF Kept

\* Calls, timers and the controller's own steps leave the connection as it is.
LEMMA CallsInv ==
    ASSUME CInv, Kept,
           UNCHANGED <<linkVars, rmVars, eventVars, credsVars, lifeVars, handlerVars>>,
           call' \in [Requests -> Statuses],
           RegisteredAlone'
    PROVE  CInv'
<1> USE DEF CInv, linkVars, rmVars, eventVars, credsVars, lifeVars, handlerVars
<1>1. TypeOK'
  BY DEF TypeOK, Kept, IInv, Statuses
<1>2. WorkOfStage'
  BY WorkStays DEF Kept
<1>3. BeforeStart' /\ FirstConnect' /\ NoLinkYet' /\ SessionOfPhase' /\ PhaseOfStage' /\ HeldBack'
  BY DEF BeforeStart, FirstConnect, NoLinkYet, SessionOfPhase, PhaseOfStage, HeldBack
<1> QED BY <1>1, <1>2, <1>3 DEF Kept

\* A call or a timer may only begin or go on with a pairing of an unregistered account.
LEMMA StaysAlone ==
    ASSUME CInv, UNCHANGED <<k, registered>>, active' \in {active, None} \/ ~registered
    PROVE  RegisteredAlone'
BY DEF CInv, RegisteredAlone

LEMMA RequestsInv ==
    ASSUME CInv, Kept, NEW r \in Requests,
           RequestPairingCode(r) \/ Resume(r) \/ WaiterTimeout(r)
    PROVE  CInv'
<1> USE DEF credsVars, handlerVars
<1>1. call' \in [Requests -> Statuses]
  <2>1. call \in [Requests -> Statuses]
    BY DEF CInv, TypeOK, Statuses
  <2>2. \E status \in {"waiting", "rejected", "made"} : Call(r, status)
    BY DEF RequestPairingCode, Resume, WaiterTimeout, CallController
  <2> QED BY <2>1, <2>2 DEF Call, Statuses
<1>2. UNCHANGED <<linkVars, rmVars, eventVars, credsVars, lifeVars, handlerVars>>
  BY DEF RequestPairingCode, Resume, WaiterTimeout
<1>3. active' = active \/ ~registered
  <2>1. CallController(r) => active' = active \/ ~registered
    BY DEF CallController, RequestCode, RequestRefused
  <2> QED BY <2>1 DEF RequestPairingCode, Resume, WaiterTimeout, pairingVars
<1> QED BY <1>1, <1>2, <1>3, CallsInv, StaysAlone

LEMMA PairingTimersInv ==
    ASSUME CInv, Kept, PairingTimers \/ Deadline
    PROVE  CInv'
<1> USE DEF connVars, handlerVars, credsVars
<1>1. /\ UNCHANGED <<linkVars, rmVars, eventVars, credsVars, lifeVars, handlerVars>>
      /\ UNCHANGED call /\ k = "idle"
  BY DEF PairingTimers, Deadline, EventLoop, Macrotask
<1>2. active' = active \/ ~registered
  <2>1. ASSUME NEW r \in Requests, AttemptTimer(r, SendOk) \/ OverallTimeout(r)
        PROVE  ~registered
    <3>1. flow[r].attemptTimer # "off" \/ flow[r].overallTimer # "off"
      BY <2>1 DEF AttemptTimer, WindowElapsed, RetryDue, OverallTimeout
    <3>2. active = r
      BY <3>1, TimerMayRun DEF CInv
    <3> QED BY <1>1, <3>2, PairingAssumption DEF CInv, RegisteredAlone
  <2> QED BY <2>1 DEF PairingTimers, Deadline, DeadlinePasses
<1>3. call' \in [Requests -> Statuses]
  BY <1>1 DEF CInv, TypeOK, Statuses
<1> QED BY <1>1, <1>2, <1>3, CallsInv, StaysAlone

\* end() and logout(), between handlers or in a listener, leave nothing behind.
LEMMA EndInv ==
    ASSUME CInv, Kept, End \/ Logout
    PROVE  CInv'
<1> USE DEF CInv
<1>1. /\ started /\ stopped' = TRUE /\ connectTimer' = FALSE /\ ws' = "none" /\ session' = None /\ phase' = "idle"
      /\ UNCHANGED <<started, backoff, k, work, listening, pairingCode>>
      /\ conn' = "close" /\ buffer' = EmptyBuffer /\ seen' = "close"
      /\ rm' = Cancel(rm) /\ registered' \in BOOLEAN /\ (registered' => registered)
      /\ active' \in {None, active}
  <2>1. Stop /\ started
    BY DEF End, Logout, UserRuns
  <2>2. buffer' = EmptyBuffer /\ seen' = "close"
    BY <2>1, BufferMethods, EmptyIsBuffer DEF Stop, Update, BufferClear, Connections
  <2>3. active' \in {None, active}
    BY <2>1 DEF Stop, CancelAll, SettleReject, CleanupFlow, pairingVars
  <2>4. registered' \in BOOLEAN /\ (registered' => registered) /\ pairingCode' = pairingCode
    <3>1. CASE End
      BY <3>1 DEF End, credsVars, TypeOK
    <3>2. CASE Logout
      BY <3>2, Zenon DEF Logout
    <3> QED BY <3>1, <3>2
  <2> QED BY <2>1, <2>2, <2>3, <2>4 DEF Stop, handlerVars
<1>2. rm' \in Managers /\ rm'.attempt = rm.attempt
  BY <1>1, ManagerMethods DEF TypeOK, Managers
<1>3. call' \in [Requests -> Statuses]
  BY SettledTypes DEF End, Logout, Stop
<1>4. TypeOK'
  BY <1>1, <1>2, <1>3, EmptyIsBuffer
     DEF TypeOK, Kept, IInv, Buffers, Managers, Statuses, Connections, Phases
<1>5. WorkOfStage'
  BY <1>1, WorkStays DEF Kept
<1>6. BeforeStart' /\ FirstConnect' /\ NoLinkYet' /\ SessionOfPhase' /\ PhaseOfStage'
  BY <1>1 DEF BeforeStart, FirstConnect, NoLinkYet, SessionOfPhase, PhaseOfStage
<1>8. RegisteredAlone'
  BY <1>1 DEF RegisteredAlone
<1>7. HeldBack'
  BY <1>1, <1>2, EmptyIsBuffer DEF HeldBack, TypeOK
<1> QED BY <1>4, <1>5, <1>6, <1>7, <1>8 DEF Kept

LEMMA ConnectTimeoutInv ==
    ASSUME CInv, Kept, ConnectTimeout
    PROVE  CInv'
<1> USE DEF CInv
<1>1. /\ k = "idle" /\ connectTimer /\ connectTimer' = FALSE /\ ws' = "none" /\ conn' = "close"
      /\ UNCHANGED <<phase, session, rm, backoff, registered, pairingCode, started, stopped,
                     k, work, listening, active>>
  BY DEF ConnectTimeout, Macrotask, EventLoop, credsVars, lifeVars, handlerVars, pairingVars
<1>2. started /\ phase = "idle" /\ ~backoff /\ buffer = EmptyBuffer
  BY <1>1 DEF FirstConnect, BeforeStart
<1>3. buffer' = EmptyBuffer /\ seen' = "close"
  BY <1>2, UpdateTypes DEF ConnectTimeout, Connections
<1>4. call' \in [Requests -> Statuses]
  BY SettledTypes DEF ConnectTimeout
<1>5. TypeOK'
  BY <1>1, <1>3, <1>4, EmptyIsBuffer DEF TypeOK, Kept, IInv, Buffers, Statuses, Connections
<1>6. WorkOfStage'
  BY <1>1, WorkStays DEF Kept
<1>7. BeforeStart' /\ FirstConnect' /\ NoLinkYet' /\ SessionOfPhase' /\ PhaseOfStage' /\ RegisteredAlone'
  BY <1>1, <1>2 DEF BeforeStart, FirstConnect, NoLinkYet, SessionOfPhase, PhaseOfStage,
     RegisteredAlone, Stages
<1>8. HeldBack'
  BY <1>1, <1>2, <1>3, EmptyIsBuffer DEF HeldBack, TypeOK
<1> QED BY <1>5, <1>6, <1>7, <1>8 DEF Kept

LEMMA WsDropsInv ==
    ASSUME CInv, Kept, WsDrops
    PROVE  CInv'
<1> USE DEF CInv
<1>1. /\ k = "idle" /\ ws \in {"connecting", "open"} /\ ws' = "closing"
      /\ UNCHANGED <<phase, session, rm, backoff, connectTimer, registered, pairingCode, started,
                     stopped, conn, buffer, seen, k, work, listening, active, call>>
  BY DEF WsDrops, EventLoop, rmVars, eventVars, credsVars, lifeVars, handlerVars, pairingVars
<1>2. TypeOK'
  BY <1>1 DEF TypeOK, Kept, IInv
<1>3. WorkOfStage'
  BY <1>1, WorkStays DEF Kept
<1>4. BeforeStart' /\ FirstConnect' /\ NoLinkYet' /\ SessionOfPhase' /\ PhaseOfStage' /\ RegisteredAlone'
  BY <1>1 DEF BeforeStart, FirstConnect, NoLinkYet, SessionOfPhase, PhaseOfStage, RegisteredAlone
<1>5. HeldBack'
  BY <1>1, EmptyIsBuffer DEF HeldBack, TypeOK
<1> QED BY <1>2, <1>3, <1>4, <1>5 DEF Kept

\* The close of a WebSocket is held back, and another attempt is counted.
LEMMA WsClosesInv ==
    ASSUME CInv, Kept, WsCloses
    PROVE  CInv'
<1> USE DEF CInv
<1>1. /\ k = "idle" /\ ws = "closing" /\ ws' = "none" /\ phase' = "idle" /\ session' = None
      /\ connectTimer' = FALSE /\ conn' = "close"
      /\ UNCHANGED <<seen, registered, pairingCode, started, stopped, k, work, listening, active>>
  BY DEF WsCloses, Macrotask, EventLoop, ForgetLink, credsVars, lifeVars, handlerVars, pairingVars
<1>2. started /\ ~backoff
  BY <1>1 DEF BeforeStart, NoLinkYet
<1> DEFINE b == BufferPush(BufferStart(buffer), "close")
<1>3. b \in Buffers /\ Len(b.queue) <= Len(buffer.queue) + 1
  BY BufferMethods DEF TypeOK, Buffers, Connections
<1>4. BufferStop(b) \in Buffers /\ BufferStop(b).queue = b.queue
  BY <1>3, BufferMethods DEF Connections
<1>5. \/ /\ ShouldReconnect(rm.attempt) /\ buffer' = b
         /\ rm' = WaitBackoff(rm) /\ backoff' = TRUE
      \/ buffer' = BufferStop(b) /\ UNCHANGED <<rm, backoff>>
  BY DEF WsCloses, OnCloseShould
<1> HIDE DEF b
<1>6. buffer' \in Buffers /\ Len(buffer'.queue) <= Len(buffer.queue) + 1
  BY <1>3, <1>4, <1>5
<1>7. /\ rm' \in Managers /\ backoff' \in BOOLEAN
      /\ \/ rm.attempt < MaxRetries /\ rm'.attempt = rm.attempt + 1
         \/ ~backoff' /\ rm'.attempt = rm.attempt
  <2>1. rm \in Managers /\ backoff \in BOOLEAN
    BY DEF TypeOK, Managers
  <2>2. CASE ShouldReconnect(rm.attempt) /\ rm' = WaitBackoff(rm) /\ backoff' = TRUE
    BY <2>1, <2>2, ManagerMethods DEF ShouldReconnect
  <2>3. CASE UNCHANGED <<rm, backoff>>
    BY <1>2, <2>1, <2>3
  <2> QED BY <1>5, <2>2, <2>3
<1>8. call' \in [Requests -> Statuses]
  BY SettledTypes DEF WsCloses
<1>9. TypeOK'
  BY <1>1, <1>6, <1>7, <1>8
     DEF TypeOK, Kept, IInv, Buffers, Managers, Statuses, Connections, Phases
<1>10. WorkOfStage'
  BY <1>1, WorkStays DEF Kept
<1>11. BeforeStart' /\ FirstConnect' /\ NoLinkYet' /\ SessionOfPhase' /\ PhaseOfStage' /\ RegisteredAlone'
  BY <1>1, <1>2 DEF BeforeStart, FirstConnect, NoLinkYet, SessionOfPhase, PhaseOfStage,
     RegisteredAlone, Stages
<1>12. HeldBack'
  <2>1. Len(buffer.queue) \in Nat /\ Len(buffer'.queue) \in Nat /\ rm.attempt \in Nat /\ rm'.attempt \in Nat
    BY <1>6, <1>7 DEF TypeOK, Buffers, Managers
  <2>2. Len(buffer.queue) <= 2 * rm.attempt /\ rm.attempt <= MaxRetries
    BY <1>1 DEF HeldBack
  <2>3. /\ rm'.attempt <= MaxRetries
        /\ Len(buffer'.queue) <= 2 * rm'.attempt + 1
        /\ backoff' => rm'.attempt >= 1 /\ Len(buffer'.queue) <= 2 * rm'.attempt - 1
    <3> DEFINE l == Len(buffer.queue)
               m == Len(buffer'.queue)
               a == rm.attempt
               c == rm'.attempt
    <3>1. /\ l \in Nat /\ m \in Nat /\ a \in Nat /\ c \in Nat /\ m <= l + 1 /\ l <= 2 * a
          /\ a <= MaxRetries
          /\ (a < MaxRetries /\ c = a + 1) \/ (~backoff' /\ c = a)
      BY <1>6, <1>7, <2>1, <2>2
    <3> HIDE DEF l, m, a, c
    <3>2. c <= MaxRetries /\ m <= 2 * c + 1 /\ (backoff' => c >= 1 /\ m <= 2 * c - 1)
      <4>1. CASE a < MaxRetries /\ c = a + 1
        BY <3>1, <4>1, RetriesAssumption
      <4>2. CASE ~backoff' /\ c = a
        BY <3>1, <4>2, RetriesAssumption
      <4> QED BY <3>1, <4>1, <4>2
    <3> QED BY <3>2 DEF m, c
  <2> QED BY <1>1, <2>3 DEF HeldBack
<1> QED BY <1>9, <1>10, <1>11, <1>12 DEF Kept

\* The task connects again, or finds the connection stopped.
LEMMA BackoffInv ==
    ASSUME CInv, Kept, BackoffDone
    PROVE  CInv'
<1> USE DEF CInv
<1>1. /\ k = "idle" /\ backoff /\ backoff' = FALSE
      /\ UNCHANGED <<phase, session, connectTimer, registered, pairingCode, started, stopped, k,
                     work, listening, call, active>>
  BY DEF BackoffDone, Macrotask, EventLoop, credsVars, lifeVars, handlerVars, pairingVars
<1>2. started /\ ws = "none" /\ phase = "idle" /\ session = None /\ ~connectTimer
  BY <1>1 DEF BeforeStart, NoLinkYet, FirstConnect, SessionOfPhase
<1>3. WorkOfStage'
  BY <1>1, WorkStays DEF Kept
<1>4. CASE stopped /\ buffer' = BufferClear(buffer) /\ UNCHANGED <<ws, rm, conn, seen>>
  <2>1. buffer' = EmptyBuffer
    BY <1>4 DEF BufferClear
  <2>2. TypeOK'
    BY <1>1, <1>4, <2>1, EmptyIsBuffer DEF TypeOK, Kept, IInv, Buffers
  <2>3. BeforeStart' /\ FirstConnect' /\ NoLinkYet' /\ SessionOfPhase' /\ PhaseOfStage' /\ RegisteredAlone'
    BY <1>1, <1>2, <1>4 DEF BeforeStart, FirstConnect, NoLinkYet, SessionOfPhase, PhaseOfStage,
       RegisteredAlone, Stages
  <2>4. HeldBack'
    BY <1>1, <1>2, <1>4, <2>1, EmptyIsBuffer DEF HeldBack, TypeOK
  <2> QED BY <1>3, <2>2, <2>3, <2>4 DEF Kept
<1>5. CASE /\ rm' = BeginConnect(rm) /\ conn' = "connecting"
           /\ Update(buffer, "connecting") /\ ws' = "connecting"
  <2>1. /\ buffer' \in Buffers /\ seen' \in Connections \cup {"none"}
        /\ Len(buffer'.queue) <= Len(buffer.queue) + 1
    BY <1>5, UpdateTypes DEF Connections
  <2>2. rm' \in Managers /\ rm'.attempt = rm.attempt
    BY <1>5, ManagerMethods DEF TypeOK, Managers
  <2>3. TypeOK'
    BY <1>1, <1>5, <2>1, <2>2 DEF TypeOK, Kept, IInv, Buffers, Managers, Connections
  <2>4. BeforeStart' /\ FirstConnect' /\ NoLinkYet' /\ SessionOfPhase' /\ PhaseOfStage' /\ RegisteredAlone'
    BY <1>1, <1>2, <1>5 DEF BeforeStart, FirstConnect, NoLinkYet, SessionOfPhase, PhaseOfStage,
       RegisteredAlone, Stages
  <2>5. HeldBack'
    <3>1. Len(buffer.queue) \in Nat /\ Len(buffer'.queue) \in Nat /\ rm.attempt \in Nat
      BY <2>1 DEF TypeOK, Buffers
    <3>2. Len(buffer.queue) <= 2 * rm.attempt - 1 /\ rm.attempt <= MaxRetries
      BY <1>1 DEF HeldBack
    <3>3. Len(buffer'.queue) <= 2 * rm'.attempt
      BY <2>1, <2>2, <3>1, <3>2
    <3> QED BY <1>1, <1>2, <1>5, <2>2, <3>1, <3>2, <3>3 DEF HeldBack
  <2> QED BY <1>3, <2>3, <2>4, <2>5 DEF Kept
<1> QED BY <1>4, <1>5 DEF BackoffDone

\* The open empties the buffer and gives the retries back.
LEMMA WsOpensInv ==
    ASSUME CInv, Kept, WsOpens
    PROVE  CInv'
<1> USE DEF CInv
<1>1. /\ k = "idle" /\ ws = "connecting" /\ ws' = "open" /\ phase' = "idle" /\ session' = None
      /\ connectTimer' = FALSE /\ buffer' = EmptyBuffer /\ work' = buffer.queue
      /\ k' = "flush" /\ listening' = FALSE /\ rm' = MarkOpen(rm, rm.generation)
      /\ UNCHANGED <<backoff, conn, seen, registered, pairingCode, started, stopped, call, active>>
  BY DEF WsOpens, Macrotask, EventLoop, BufferFlushed, credsVars, lifeVars, pairingVars
<1>2. started /\ ~backoff
  BY <1>1 DEF BeforeStart, NoLinkYet
<1>3. rm' \in Managers /\ rm'.attempt = 0
  BY <1>1, ManagerMethods DEF TypeOK, Managers
<1>4. TypeOK'
  BY <1>1, <1>3, EmptyIsBuffer DEF TypeOK, Kept, IInv, Buffers, Managers, Phases
<1>5. WorkOfStage'
  BY <1>1 DEF WorkOfStage, Stages, TypeOK
<1>6. BeforeStart' /\ FirstConnect' /\ NoLinkYet' /\ SessionOfPhase' /\ PhaseOfStage' /\ RegisteredAlone'
  BY <1>1, <1>2 DEF BeforeStart, FirstConnect, NoLinkYet, SessionOfPhase, PhaseOfStage,
     RegisteredAlone, Stages
<1>7. HeldBack'
  BY <1>1, <1>2, <1>3, EmptyIsBuffer, RetriesAssumption DEF HeldBack
<1> QED BY <1>4, <1>5, <1>6, <1>7 DEF Kept

LEMMA FlushInv ==
    ASSUME CInv, Kept, FlushOne \/ AnnounceConnecting
    PROVE  CInv'
<1> USE DEF CInv
<1>1. /\ k = "flush" /\ k' \in {"flush", "handshake"}
      /\ UNCHANGED <<ws, phase, session, rm, backoff, connectTimer, registered, pairingCode,
                     started, stopped, call, active>>
  BY DEF FlushOne, AnnounceConnecting, Goto, linkVars, rmVars, credsVars, lifeVars, pairingVars
<1>2. buffer = EmptyBuffer /\ phase = "idle" /\ work \in Seq(Connections)
  BY <1>1 DEF HeldBack, PhaseOfStage, WorkOfStage
<1>3. /\ buffer' = EmptyBuffer /\ conn' \in Connections /\ seen' \in Connections \cup {"none"}
      /\ listening' \in BOOLEAN /\ (k' = "flush" => work' \in Seq(Connections))
  <2>1. CASE FlushOne
    <3>1. Head(work) \in Connections /\ Tail(work) \in Seq(Connections)
      BY <1>2, <2>1 DEF FlushOne
    <3> QED BY <1>2, <2>1, <3>1 DEF FlushOne, TypeOK
  <2>2. CASE AnnounceConnecting
    <3>1. buffer' = EmptyBuffer /\ seen' = "connecting"
      BY <1>2, <2>2, UpdateTypes DEF AnnounceConnecting, Connections
    <3>2. listening' \in BOOLEAN
      BY <2>2 DEF AnnounceConnecting, Goto
    <3> QED BY <2>2, <3>1, <3>2 DEF AnnounceConnecting, Goto, Connections
  <2> QED BY <2>1, <2>2
<1>4. TypeOK'
  BY <1>1, <1>3, EmptyIsBuffer DEF TypeOK, Kept, IInv, Buffers
<1>5. WorkOfStage'
  BY <1>1, <1>3 DEF WorkOfStage, Stages
<1>6. BeforeStart' /\ FirstConnect' /\ NoLinkYet' /\ SessionOfPhase' /\ PhaseOfStage' /\ RegisteredAlone'
  BY <1>1, <1>2, <1>3 DEF BeforeStart, FirstConnect, NoLinkYet, SessionOfPhase, PhaseOfStage,
     RegisteredAlone, Stages
<1>7. HeldBack'
  BY <1>1, <1>2, <1>3, EmptyIsBuffer DEF HeldBack
<1> QED BY <1>4, <1>5, <1>6, <1>7 DEF Kept

\* The steps of the handshake after which the event loop goes on.
LEMMA StartHandshakeInv ==
    ASSUME CInv, Kept, StartHandshake \/ SendClientPayload \/ CloseFailed
    PROVE  CInv'
<1> USE DEF CInv
<1>1. /\ k \in {"handshake", "clientPayload", "closeFailed"} /\ k' = "idle"
      /\ listening' = FALSE
      /\ UNCHANGED <<session, rm, backoff, connectTimer, registered, pairingCode, started,
                     stopped, conn, buffer, seen, active>>
  BY DEF StartHandshake, SendClientPayload, CloseFailed, Goto, rmVars, eventVars, credsVars,
     lifeVars, pairingVars
<1>2. started /\ buffer = EmptyBuffer /\ ~backoff /\ ~connectTimer /\ ws # "connecting"
  BY <1>1 DEF HeldBack, BeforeStart, NoLinkYet, FirstConnect
<1>3. /\ phase' \in Phases /\ ws' \in {ws, "none"} /\ call' \in [Requests -> Statuses]
      /\ SessionOfPhase'
  <2>1. CASE StartHandshake
    <3>1. call' \in [Requests -> Statuses]
      BY <2>1, SettledTypes DEF StartHandshake, TypeOK, Statuses
    <3> QED BY <2>1, <3>1 DEF StartHandshake, SessionOfPhase, PhaseOfStage, Phases
  <2>2. CASE SendClientPayload
    <3>1. call' \in [Requests -> Statuses]
      BY <2>2, SettledTypes DEF SendClientPayload, TypeOK, Statuses
    <3>2. UNCHANGED <<session, rm, ws, stopped>>
      BY <1>1, <2>2 DEF SendClientPayload
    <3>3. CASE session = None /\ UNCHANGED phase
      BY <3>1, <3>2, <3>3 DEF SessionOfPhase, TypeOK
    <3>4. CASE session # None /\ phase' = "login_sent"
      BY <2>2, <3>1, <3>2, <3>4 DEF SendClientPayload, SessionOfPhase, PhaseOfStage, Phases
    <3> QED BY <2>2, <3>3, <3>4 DEF SendClientPayload
  <2>3. CASE CloseFailed
    BY <1>1, <2>3 DEF CloseFailed, SessionOfPhase, PhaseOfStage, TypeOK, Statuses
  <2> QED BY <2>1, <2>2, <2>3
<1>4. TypeOK'
  <2>1. ws' \in {"none", "connecting", "open", "closing"} /\ listening' \in BOOLEAN
    BY <1>1, <1>3 DEF TypeOK
  <2> QED BY <1>1, <1>3, <2>1 DEF TypeOK, Kept, IInv, Statuses
<1>5. WorkOfStage'
  BY <1>1 DEF WorkOfStage, Stages
<1>6. BeforeStart' /\ FirstConnect' /\ NoLinkYet' /\ PhaseOfStage' /\ RegisteredAlone'
  BY <1>1, <1>2, <1>3 DEF BeforeStart, FirstConnect, NoLinkYet, PhaseOfStage,
     RegisteredAlone, Stages
<1>7. HeldBack'
  BY <1>1, <1>2, EmptyIsBuffer DEF HeldBack, TypeOK
<1> QED BY <1>3, <1>4, <1>5, <1>6, <1>7 DEF Kept

\* A message of the handshake comes to a connection with a WebSocket and no session.
LEMMA HelloInv ==
    ASSUME CInv, Kept, HandshakeOverflow \/ HelloAccepted \/ HelloRejected
    PROVE  CInv'
<1> USE DEF CInv
<1>1. /\ k = "idle" /\ ws \in {"open", "closing"} /\ phase = "sent_e"
      /\ k' \in {"idle", "clientPayload", "closeFailed"}
      /\ UNCHANGED <<rm, backoff, connectTimer, registered, pairingCode, started,
                     stopped, conn, active>>
  BY DEF HandshakeOverflow, HelloAccepted, HelloRejected, HandshakeMessage, Receiving, EventLoop,
     Goto, rmVars, eventVars, credsVars, lifeVars, handlerVars, pairingVars
<1>2. /\ started /\ buffer = EmptyBuffer /\ ~backoff /\ ~connectTimer /\ session = None
  BY <1>1 DEF HeldBack, BeforeStart, NoLinkYet, FirstConnect, SessionOfPhase
<1>3. /\ buffer' = EmptyBuffer /\ seen' \in Connections \cup {"none"}
      /\ call' \in [Requests -> Statuses] /\ listening' \in BOOLEAN
  <2>1. seen \in Connections \cup {"none"} /\ call \in [Requests -> Statuses] /\ listening \in BOOLEAN
    BY DEF TypeOK, Statuses
  <2>2. CASE HandshakeOverflow
    BY <1>2, <2>1, <2>2, SettledTypes DEF HandshakeOverflow, eventVars, handlerVars
  <2>3. CASE HelloAccepted
    <3>1. buffer' = EmptyBuffer /\ seen' = "connecting"
      BY <1>2, <2>3, UpdateTypes DEF HelloAccepted, Connections
    <3> QED BY <2>1, <2>3, <3>1 DEF HelloAccepted, Goto, Connections
  <2>4. CASE HelloRejected
    <3>1. buffer' = EmptyBuffer /\ seen' = "close"
      BY <1>2, <2>4, UpdateTypes DEF HelloRejected, Connections
    <3> QED BY <2>4, <3>1, SettledTypes DEF HelloRejected, Goto, Connections
  <2> QED BY <2>2, <2>3, <2>4
<1>4. \/ k' = "idle" /\ phase' = "failed" /\ session' = None /\ ws' = "none"
      \/ /\ k' = "clientPayload" /\ phase' = "noise_done" /\ session' = rm.generation
         /\ ws' = ws
      \/ k' = "closeFailed" /\ phase' = "failed" /\ session' = None /\ ws' = ws
  BY <1>1, <1>2 DEF HandshakeOverflow, HelloAccepted, HelloRejected, Goto, handlerVars
<1>5. TypeOK'
  <2>1. session' \in Nat \cup {None} /\ phase' \in Phases /\ ws' \in {"none", "open", "closing"}
    BY <1>1, <1>4 DEF TypeOK, Phases
  <2> QED BY <1>1, <1>3, <2>1, EmptyIsBuffer DEF TypeOK, Kept, IInv, Statuses, Buffers
<1>6. WorkOfStage'
  BY <1>1 DEF WorkOfStage, Stages
<1>7. BeforeStart' /\ FirstConnect' /\ NoLinkYet' /\ SessionOfPhase' /\ PhaseOfStage' /\ RegisteredAlone'
  BY <1>1, <1>2, <1>4 DEF BeforeStart, FirstConnect, NoLinkYet, SessionOfPhase, PhaseOfStage,
     RegisteredAlone, Stages
<1>8. HeldBack'
  BY <1>1, <1>2, <1>3, EmptyIsBuffer DEF HeldBack, TypeOK
<1> QED BY <1>5, <1>6, <1>7, <1>8 DEF Kept
------------------------------------------------------------------------------
(* The nodes of a message.                                                   *)

\* A sequence is one of its own elements.
LEMMA OwnElements ==
    ASSUME NEW S, NEW s \in Seq(S)
    PROVE  s \in Seq(Elements(s))
<1>1. /\ Len(s) \in Nat /\ DOMAIN s = 1..Len(s)
      /\ s = [i \in 1..Len(s) |-> s[i]]
  OBVIOUS
<1>2. \A i \in 1..Len(s) : s[i] \in Elements(s)
  BY <1>1 DEF Elements
<1> QED BY <1>1, <1>2

LEMMA NodesGrow ==
    ASSUME sent \subseteq sent'
    PROVE  Seq(Nodes) \subseteq Seq(Nodes')
<1>1. Nodes \subseteq Nodes'
  BY DEF Nodes
<1> QED BY <1>1

\* The next stage for the same node.
LEMMA SameNode ==
    ASSUME WorkOfStage, sent \subseteq sent', k \in Stages, k' \in Stages \ {"payload"},
           UNCHANGED work
    PROVE  WorkOfStage'
BY NodesGrow DEF WorkOfStage, Stages, Elements

\* The next node, or the end of the message.
LEMMA NextNode ==
    ASSUME WorkOfStage, sent \subseteq sent', k \in Stages, NEW emitted, NextPayload(emitted)
    PROVE  WorkOfStage' /\ k' \in {"payload", "idle"}
<1>1. work \in Seq(Elements(work)) /\ work # <<>> /\ Tail(work) \in Seq(Nodes)
  BY DEF WorkOfStage
<1>2. Len(work) \in Nat \ {0} /\ Len(Tail(work)) = Len(work) - 1
  BY <1>1
<1>3. work' = Tail(work) /\ k' = IF Len(work) = 1 THEN "idle" ELSE "payload"
  BY DEF NextPayload
<1>4. CASE Len(work) = 1
  BY <1>3, <1>4 DEF WorkOfStage, Stages
<1>5. CASE Len(work) # 1
  <2>1. work' \in Seq(Nodes') /\ work' # <<>>
    <3>1. work' \in Seq(Nodes) /\ Len(work') = Len(work) - 1
      BY <1>1, <1>2, <1>3
    <3>2. Len(work') # 0
      BY <1>2, <1>5, <3>1
    <3> QED BY <3>1, <3>2, NodesGrow
  <2>2. Tail(work') \in Seq(Nodes') /\ work' \in Seq(Elements(work'))
    BY <2>1, OwnElements
  <2> QED BY <1>3, <1>5, <2>1, <2>2 DEF WorkOfStage
<1> QED BY <1>4, <1>5

\* A QR ref less of the same node.
LEMMA QrNode ==
    ASSUME WorkOfStage, sent \subseteq sent', k \in Stages \ {"payload"}, k' = k,
           NEW n, work' = [work EXCEPT ![1] = n]
    PROVE  WorkOfStage' /\ Len(work') = Len(work)
<1> DEFINE S == Elements(work) \cup {n}
<1>1. work \in Seq(S) /\ work # <<>> /\ Tail(work) \in Seq(Nodes)
  <2>1. work \in Seq(Elements(work)) /\ work # <<>> /\ Tail(work) \in Seq(Nodes)
    BY DEF WorkOfStage
  <2> HIDE DEF WorkOfStage
  <2> QED BY <2>1
<1> HIDE DEF S
<1>2. n \in S
  BY DEF S
<1>3. work' \in Seq(S) /\ Len(work') = Len(work)
  BY <1>1, <1>2
<1>4. Tail(work') = Tail(work) /\ work' # <<>>
  BY <1>1, <1>3
<1>5. work' \in Seq(Elements(work'))
  BY <1>3, OwnElements
<1>6. Tail(work') \in Seq(Nodes')
  BY <1>1, <1>4, NodesGrow
<1> QED BY <1>3, <1>4, <1>5, <1>6 DEF WorkOfStage, Stages

\* What the stages of handleDecrypted have in common.
LEMMA StageInv ==
    ASSUME CInv, Kept, k \in Stages, k' \in Stages \cup {"idle"}, WorkOfStage',
           UNCHANGED <<phase, session, rm, backoff, connectTimer, started, call>>,
           \/ UNCHANGED <<ws, stopped>>
           \/ ws' = "none" /\ stopped' = TRUE,
           buffer' = EmptyBuffer, conn' \in Connections, seen' \in Connections \cup {"none"},
           registered' \in BOOLEAN, pairingCode' \in Iqs \cup {None}, listening' \in BOOLEAN,
           RegisteredAlone'
    PROVE  CInv'
<1> USE DEF CInv
<1>1. started /\ ~backoff /\ ~connectTimer /\ k # "idle"
  BY DEF BeforeStart, NoLinkYet, FirstConnect, Stages
<1>2. TypeOK'
  <2>1. ws' \in {"none", "connecting", "open", "closing"} /\ stopped' \in BOOLEAN
    BY DEF TypeOK
  <2>2. k' \in {"idle", "flush", "handshake", "clientPayload", "closeFailed",
              "payload", "disconnect", "report", "logout", "pairing", "paired",
              "pairedCancel", "protocol", "success"}
    BY DEF Stages
  <2> QED BY <2>1, <2>2, EmptyIsBuffer DEF TypeOK, Kept, IInv, Buffers
<1>3. BeforeStart' /\ FirstConnect' /\ NoLinkYet' /\ PhaseOfStage'
  BY <1>1 DEF BeforeStart, FirstConnect, NoLinkYet, PhaseOfStage, Stages
<1>4. SessionOfPhase'
  BY DEF SessionOfPhase
<1>5. HeldBack'
  BY <1>1, EmptyIsBuffer DEF HeldBack, TypeOK
<1> QED BY <1>2, <1>3, <1>4, <1>5 DEF Kept

\* During a handler the buffer holds nothing back.
LEMMA StageBuffer ==
    ASSUME CInv, k \in Stages
    PROVE  /\ buffer = EmptyBuffer
           /\ \A value \in Connections :
                 Update(buffer, value) => buffer' = EmptyBuffer /\ seen' = value
BY UpdateTypes DEF CInv, HeldBack, Stages

LEMMA MessageInv ==
    ASSUME CInv, Kept, MessageArrives
    PROVE  CInv'
<1> USE DEF CInv
<1>1. /\ k = "idle" /\ phase \in {"noise_done", "login_sent"} /\ k' = "payload"
      /\ UNCHANGED <<listening, ws, phase, session, rm, backoff, connectTimer, conn, buffer, seen,
                     registered, pairingCode, started, stopped, call, active, sent>>
  BY DEF MessageArrives, Receiving, EventLoop, linkVars, rmVars, eventVars, credsVars, lifeVars,
     pairingVars
<1>2. started /\ buffer = EmptyBuffer /\ ~backoff /\ ~connectTimer /\ ws # "connecting"
  BY <1>1 DEF HeldBack, BeforeStart, NoLinkYet, FirstConnect
<1>3. PICK n \in 1..MaxChunk : work' \in [1..n -> Nodes]
  BY DEF MessageArrives
<1>4. work' \in Seq(Nodes) /\ work' # <<>>
  BY <1>3, ConnectionAssumption
<1>5. Tail(work') \in Seq(Nodes) /\ work' \in Seq(Elements(work'))
  BY <1>4, OwnElements
<1>6. WorkOfStage'
  BY <1>1, <1>4, <1>5, NodesGrow DEF WorkOfStage, Kept
<1>7. TypeOK'
  BY <1>1 DEF TypeOK, Kept, IInv
<1>8. BeforeStart' /\ FirstConnect' /\ NoLinkYet' /\ SessionOfPhase' /\ PhaseOfStage' /\ RegisteredAlone'
  BY <1>1, <1>2 DEF BeforeStart, FirstConnect, NoLinkYet, SessionOfPhase, PhaseOfStage,
     RegisteredAlone, Stages
<1>9. HeldBack'
  BY <1>1, <1>2, EmptyIsBuffer DEF HeldBack, TypeOK
<1> QED BY <1>6, <1>7, <1>8, <1>9 DEF Kept

\* An answer or a cancellation may end a pairing.
LEMMA MayEndPairing ==
    /\ CancelAll => active' = None
    /\ \A iq, kind : OnPayload(iq, kind) => active' \in {active, None}
<1>1. ASSUME CancelAll PROVE active' = None
  BY <1>1 DEF CancelAll, SettleReject, CleanupFlow, pairingVars
<1>2. ASSUME NEW iq, NEW kind, OnPayload(iq, kind) PROVE active' \in {active, None}
  BY <1>2 DEF OnPayload, SettleReject, SettleResolve, CleanupFlow, pairingVars
<1> QED BY <1>1, <1>2

LEMMA HandlePayloadInv ==
    ASSUME CInv, Kept, HandlePayload \/ HandleDisconnect
    PROVE  CInv'
<1> USE DEF CInv
<1>1. /\ k \in {"payload", "disconnect"} /\ k' \in {"disconnect", "pairing", "report"}
      /\ UNCHANGED <<work, ws, phase, session, rm, backoff, connectTimer, conn, buffer, seen,
                     started, stopped, call>>
  BY DEF HandlePayload, HandleDisconnect, Goto, linkVars, rmVars, eventVars, lifeVars
<1>2. k \in Stages /\ k' \in Stages \ {"payload"}
  BY <1>1 DEF Stages
<1>3. /\ registered' \in BOOLEAN /\ (registered' => registered)
      /\ pairingCode' \in Iqs \cup {None} /\ listening' \in BOOLEAN
      /\ active' \in {active, None}
  <2>1. registered \in BOOLEAN /\ pairingCode \in Iqs \cup {None}
    BY DEF TypeOK
  <2>2. listening' \in BOOLEAN
    BY DEF HandlePayload, HandleDisconnect, Goto
  <2>3. CASE HandlePayload
    BY <2>1, <2>2, <2>3, MayEndPairing DEF HandlePayload, credsVars
  <2>4. CASE HandleDisconnect
    <3>1. CASE UNCHANGED credsVars
      BY <2>1, <2>2, <2>4, <3>1 DEF HandleDisconnect, credsVars, pairingVars
    <3>2. CASE registered' = FALSE /\ pairingCode' = None
      BY <2>2, <2>4, <3>2 DEF HandleDisconnect, pairingVars
    <3> QED BY <2>4, <3>1, <3>2 DEF HandleDisconnect
  <2> QED BY <2>3, <2>4
<1>4. WorkOfStage'
  BY <1>1, <1>2, SameNode DEF Kept
<1>5. RegisteredAlone'
  BY <1>1, <1>3 DEF RegisteredAlone
<1>6. buffer' = EmptyBuffer /\ conn' \in Connections /\ seen' \in Connections \cup {"none"}
  BY <1>1, <1>2, StageBuffer DEF TypeOK
<1> QED BY <1>1, <1>2, <1>3, <1>4, <1>5, <1>6, StageInv

LEMMA ReportDisconnectInv ==
    ASSUME CInv, Kept, ReportDisconnect
    PROVE  CInv'
<1>1. /\ k = "report" /\ k' \in {"logout", "pairing"}
      /\ UNCHANGED <<work, ws, phase, session, rm, backoff, connectTimer, registered, pairingCode,
                     started, stopped, call>>
      /\ conn' = "close" /\ Update(buffer, "close") /\ active' = None
  BY MayEndPairing DEF ReportDisconnect, Goto, linkVars, rmVars, credsVars, lifeVars
<1>2. k \in Stages /\ k' \in Stages \ {"payload"}
  BY <1>1 DEF Stages
<1>3. buffer' = EmptyBuffer /\ seen' = "close"
  BY <1>1, <1>2, StageBuffer DEF Connections
<1>4. WorkOfStage'
  BY <1>1, <1>2, SameNode DEF Kept, CInv
<1>5. listening' \in BOOLEAN
  BY DEF ReportDisconnect, Goto
<1>6. registered' \in BOOLEAN /\ pairingCode' \in Iqs \cup {None}
  BY <1>1 DEF CInv, TypeOK
<1>7. RegisteredAlone'
  BY <1>1 DEF RegisteredAlone
<1> QED BY <1>1, <1>2, <1>3, <1>4, <1>5, <1>6, <1>7, StageInv DEF Connections

LEMMA LoggedOutInv ==
    ASSUME CInv, Kept, LoggedOut
    PROVE  CInv'
<1>1. /\ k = "logout" /\ ws' = "none" /\ stopped' = TRUE /\ NextPayload(FALSE)
      /\ UNCHANGED <<phase, session, rm, backoff, connectTimer, conn, buffer, seen, registered,
                     pairingCode, started, call, active>>
  BY DEF LoggedOut, rmVars, eventVars, credsVars, pairingVars
<1>2. k \in Stages
  BY <1>1 DEF Stages
<1>3. WorkOfStage' /\ k' \in {"payload", "idle"}
  BY <1>1, <1>2, NextNode DEF Kept, CInv
<1>4. listening' \in BOOLEAN
  BY <1>1 DEF NextPayload
<1>5. buffer' = EmptyBuffer
  BY <1>1, <1>2, StageBuffer
<1>6. /\ registered' \in BOOLEAN /\ pairingCode' \in Iqs \cup {None}
      /\ conn' \in Connections /\ seen' \in Connections \cup {"none"}
  BY <1>1 DEF CInv, TypeOK
<1>7. RegisteredAlone'
  BY <1>1, <1>3 DEF RegisteredAlone, CInv
<1>8. k' \in Stages \cup {"idle"}
  BY <1>3 DEF Stages
<1> QED BY <1>1, <1>2, <1>3, <1>4, <1>5, <1>6, <1>7, <1>8, StageInv

LEMMA HandlePairingInv ==
    ASSUME CInv, Kept, HandlePairing
    PROVE  CInv'
<1>1. /\ k = "pairing" /\ k' \in {"paired", "protocol"}
      /\ UNCHANGED <<work, ws, phase, session, rm, backoff, connectTimer, conn, buffer, seen,
                     started, stopped, call, active>>
  BY DEF HandlePairing, Goto, linkVars, rmVars, eventVars, lifeVars, pairingVars
<1>2. k \in Stages /\ k' \in Stages \ {"payload"}
  BY <1>1 DEF Stages
<1>3. registered \in BOOLEAN /\ pairingCode \in Iqs \cup {None}
  BY DEF CInv, TypeOK
<1>4. IsActiveIq(Node.iqId) => Node.iqId \in Iqs
  BY DEF IsActiveIq, CInv, TypeOK, PairingTypeOK, Flows
<1>5. \/ registered' = TRUE /\ pairingCode' = None /\ k' = "paired"
      \/ pairingCode' \in {pairingCode, Node.iqId} /\ (pairingCode' = pairingCode \/ Node.iqId \in Iqs)
         /\ UNCHANGED registered
  BY <1>4 DEF HandlePairing, Goto
<1>6. registered' \in BOOLEAN /\ pairingCode' \in Iqs \cup {None}
  <2>1. CASE registered' = TRUE /\ pairingCode' = None
    BY <2>1
  <2>2. CASE /\ pairingCode' = pairingCode \/ pairingCode' \in Iqs
             /\ UNCHANGED registered
    BY <1>3, <2>2
  <2> QED BY <1>5, <2>1, <2>2
<1>7. RegisteredAlone'
  <2>1. CASE k' = "paired"
    BY <2>1 DEF RegisteredAlone
  <2>2. CASE UNCHANGED registered
    BY <1>1, <2>2 DEF RegisteredAlone, CInv
  <2> QED BY <1>5, <2>1, <2>2
<1>8. WorkOfStage'
  BY <1>1, <1>2, SameNode DEF Kept, CInv
<1>9. listening' \in BOOLEAN
  BY DEF HandlePairing, Goto
<1>10. buffer' = EmptyBuffer /\ conn' \in Connections /\ seen' \in Connections \cup {"none"}
  BY <1>1, <1>2, StageBuffer DEF CInv, TypeOK
<1> QED BY <1>1, <1>2, <1>6, <1>7, <1>8, <1>9, <1>10, StageInv

\* The account is registered; then the pairing is cancelled.
LEMMA PairSuccessInv ==
    ASSUME CInv, Kept, PairSuccess \/ PairSuccessCancels
    PROVE  CInv'
<1>1. /\ k \in {"paired", "pairedCancel"} /\ k' \in {"pairedCancel", "protocol"}
      /\ UNCHANGED <<work, ws, phase, session, rm, backoff, connectTimer, registered, pairingCode,
                     started, stopped, call>>
  BY DEF PairSuccess, PairSuccessCancels, Goto, linkVars, rmVars, eventVars, credsVars, lifeVars
<1>2. k \in Stages /\ k' \in Stages \ {"payload"}
  BY <1>1 DEF Stages
<1>3. buffer' = EmptyBuffer /\ conn' \in Connections /\ seen' \in Connections \cup {"none"}
  <2>1. CASE PairSuccess
    BY <1>2, <2>1, StageBuffer DEF PairSuccess, Connections
  <2>2. CASE PairSuccessCancels
    BY <1>2, <2>2, StageBuffer DEF PairSuccessCancels, eventVars, CInv, TypeOK
  <2> QED BY <2>1, <2>2
<1>4. WorkOfStage'
  BY <1>1, <1>2, SameNode DEF Kept, CInv
<1>5. listening' \in BOOLEAN
  BY DEF PairSuccess, PairSuccessCancels, Goto
<1>6. registered' \in BOOLEAN /\ pairingCode' \in Iqs \cup {None}
  BY <1>1 DEF CInv, TypeOK
<1>7. RegisteredAlone'
  <2>1. k' = "pairedCancel" \/ active' = None
    BY MayEndPairing DEF PairSuccess, PairSuccessCancels, Goto
  <2> QED BY <2>1 DEF RegisteredAlone
<1> QED BY <1>1, <1>2, <1>3, <1>4, <1>5, <1>6, <1>7, StageInv

LEMMA HandleQrInv ==
    ASSUME CInv, Kept, HandleQr
    PROVE  CInv'
<1>1. /\ k = "protocol" /\ k' \in {"protocol", "success"}
      /\ UNCHANGED <<ws, phase, session, rm, backoff, connectTimer, conn, registered, pairingCode,
                     started, stopped, call, active>>
  BY DEF HandleQr, Goto, linkVars, rmVars, credsVars, lifeVars, pairingVars
<1>2. k \in Stages /\ k' \in Stages \ {"payload"}
  BY <1>1 DEF Stages
<1>3. buffer' = EmptyBuffer /\ seen' \in Connections \cup {"none"}
  <2>1. CASE Update(buffer, "connecting")
    BY <1>2, <2>1, StageBuffer DEF Connections
  <2>2. CASE UNCHANGED <<buffer, seen>>
    BY <1>2, <2>2, StageBuffer DEF CInv, TypeOK
  <2> QED BY <2>1, <2>2 DEF HandleQr
<1>4. WorkOfStage'
  <2>1. CASE UNCHANGED work
    BY <1>2, <2>1, SameNode DEF Kept, CInv
  <2>2. CASE k' = k /\ work' = [work EXCEPT ![1].qrRefs = @ - 1]
    <3>1. work' = [work EXCEPT ![1] = [work[1] EXCEPT !.qrRefs = work[1].qrRefs - 1]]
      BY <2>2
    <3> QED BY <1>1, <1>2, <2>2, <3>1, QrNode DEF Kept, CInv
  <2> QED BY <2>1, <2>2 DEF HandleQr, Goto
<1>5. listening' \in BOOLEAN
  BY DEF HandleQr, Goto
<1>6. registered' \in BOOLEAN /\ pairingCode' \in Iqs \cup {None} /\ conn' \in Connections
  BY <1>1 DEF CInv, TypeOK
<1>7. RegisteredAlone'
  BY <1>1 DEF RegisteredAlone, CInv
<1> QED BY <1>1, <1>2, <1>3, <1>4, <1>5, <1>6, <1>7, StageInv

LEMMA HandleSuccessInv ==
    ASSUME CInv, Kept, HandleSuccess
    PROVE  CInv'
<1>1. /\ k = "success"
      /\ UNCHANGED <<ws, phase, session, rm, backoff, connectTimer, registered, pairingCode,
                     started, stopped, call, active>>
  BY DEF HandleSuccess, linkVars, rmVars, credsVars, lifeVars, pairingVars
<1>2. k \in Stages
  BY <1>1 DEF Stages
<1>3. PICK emitted : NextPayload(emitted)
  BY DEF HandleSuccess
<1>4. WorkOfStage' /\ k' \in {"payload", "idle"}
  BY <1>2, <1>3, NextNode DEF Kept, CInv
<1>5. listening' \in BOOLEAN
  BY DEF HandleSuccess, NextPayload
<1>6. buffer' = EmptyBuffer /\ conn' \in Connections /\ seen' \in Connections \cup {"none"}
  <2>1. CASE conn' = "open" /\ Update(buffer, "open")
    BY <1>2, <2>1, StageBuffer DEF Connections
  <2>2. CASE UNCHANGED eventVars
    BY <1>2, <2>2, StageBuffer DEF CInv, TypeOK, eventVars
  <2> QED BY <2>1, <2>2 DEF HandleSuccess
<1>7. registered' \in BOOLEAN /\ pairingCode' \in Iqs \cup {None}
  BY <1>1 DEF CInv, TypeOK
<1>8. RegisteredAlone'
  BY <1>1, <1>4 DEF RegisteredAlone, CInv
<1>9. k' \in Stages \cup {"idle"}
  BY <1>4 DEF Stages
<1> QED BY <1>1, <1>2, <1>4, <1>5, <1>6, <1>7, <1>8, <1>9, StageInv
------------------------------------------------------------------------------
(* The invariant.                                                            *)

LEMMA ConnectionInit == Init => CInv
<1> SUFFICES ASSUME Init PROVE CInv
  OBVIOUS
<1>1. IInv
  BY InitInv DEF Init
<1>2. rm \in Managers /\ rm.attempt = 0
  BY DEF Init, InitManager, Managers
<1>3. TypeOK
  BY <1>1, <1>2, EmptyIsBuffer
     DEF Init, TypeOK, IInv, Buffers, Managers, Phases, Connections, Statuses
<1>4. WorkOfStage /\ BeforeStart /\ FirstConnect /\ NoLinkYet /\ SessionOfPhase /\ PhaseOfStage
  BY DEF Init, WorkOfStage, BeforeStart, FirstConnect, NoLinkYet, SessionOfPhase, PhaseOfStage, Stages
<1>5. HeldBack
  BY <1>2, EmptyIsBuffer, RetriesAssumption DEF Init, HeldBack
<1>6. RegisteredAlone
  BY DEF Init, PairingInit, RegisteredAlone
<1> QED BY <1>1, <1>3, <1>4, <1>5, <1>6 DEF CInv

LEMMA ConnectionStutters ==
    ASSUME CInv, Kept, UNCHANGED vars
    PROVE  CInv'
<1>1. /\ UNCHANGED <<linkVars, rmVars, eventVars, credsVars, lifeVars, handlerVars>>
      /\ UNCHANGED <<call, active, k, registered>>
  BY DEF vars, connVars, pairingVars, credsVars, handlerVars
<1>2. call' \in [Requests -> Statuses]
  BY <1>1 DEF CInv, TypeOK, Statuses
<1> QED BY <1>1, <1>2, CallsInv, StaysAlone

\* Every step keeps it, whoever is called back.
LEMMA ConnectionNext == CInv /\ [Next]_vars => CInv'
<1> SUFFICES ASSUME CInv, [Next]_vars PROVE CInv'
  OBVIOUS
<1>1. Kept
  BY PairingSteps, NextInv, SentGrows DEF Kept, CInv
<1>2. CASE Start
  BY <1>1, <1>2, StartInv
<1>3. CASE ConnectTimeout
  BY <1>1, <1>3, ConnectTimeoutInv
<1>4. CASE HandlerSteps
  BY <1>1, <1>4, FlushInv, StartHandshakeInv, HandlePayloadInv, ReportDisconnectInv, LoggedOutInv,
     HandlePairingInv, PairSuccessInv, HandleQrInv, HandleSuccessInv DEF HandlerSteps
<1>5. CASE Network
  BY <1>1, <1>5, WsOpensInv, WsDropsInv, HelloInv, MessageInv DEF Network
<1>6. CASE WsCloses \/ BackoffDone
  BY <1>1, <1>6, WsClosesInv, BackoffInv
<1>7. CASE \E r \in Requests : Resume(r) \/ WaiterTimeout(r)
  BY <1>1, <1>7, RequestsInv
<1>8. CASE PairingTimers \/ Deadline
  BY <1>1, <1>8, PairingTimersInv
<1>9. CASE User
  BY <1>1, <1>9, EndInv, RequestsInv DEF User
<1>10. CASE UNCHANGED vars
  BY <1>1, <1>10, ConnectionStutters
<1> QED BY <1>2, <1>3, <1>4, <1>5, <1>6, <1>7, <1>8, <1>9, <1>10 DEF Next

LEMMA ConnectionInvariance == SafeSpec => []CInv
BY ConnectionInit, ConnectionNext, PTL DEF SafeSpec

\* Type correctness of the connection's state.
THEOREM ConnectionTypeCorrect == SafeSpec => []TypeOK
BY ConnectionInvariance, PTL DEF CInv

\* Whatever the connection does around it, the pairing controller inside behaves as
\* the controller on its own does: what is proved of that holds here.
THEOREM PairingInside == SafeSpec => PairingInit /\ [][PairingNext]_pairingVars
<1>1. Init => PairingInit
  BY DEF Init
<1>2. CInv /\ [Next]_vars => [PairingNext]_pairingVars
  BY PairingSteps
<1> QED BY <1>1, <1>2, ConnectionInvariance, PTL DEF SafeSpec

\* Its invariants, here: the lock is held by the pending call, a code answers an IQ that
\* was sent for that very call, also over a reconnect, and nothing is left of a finished one.
THEOREM PairingKeptInside ==
    SafeSpec => [](/\ LockHeldWhilePending /\ CodeAnswersOwnIq
                   /\ MapMatchesActiveFlow /\ TimersBelongToLockHolder)
BY TimersOfHolder, ConnectionInvariance, PTL DEF CInv, IInv

\* So do the action properties: of the answers of one call only that of its newest
\* attempt resolves it, and the whole connection, drops and reconnects included, gives
\* the callers of requestPairingCode what PairingPromise says.
THEOREM NewestAttemptInside == SafeSpec => NewestAttemptResolves
<1>1. CInv /\ [Next]_vars => [NewestResolves]_pairingVars
  BY PairingSteps, NewestStep DEF CInv
<1> QED BY <1>1, ConnectionInvariance, PTL DEF SafeSpec, NewestAttemptResolves, NewestResolves

THEOREM PromiseKeptInside == SafeSpec => KeepsPromise
<1>1. Init => Promise!Init
  BY PromiseInit DEF Init
<1>2. CInv /\ [Next]_vars => [Promise!Next]_(Promise!vars)
  BY PairingSteps, PromiseStep DEF CInv
<1> QED BY <1>1, <1>2, ConnectionInvariance, PTL DEF SafeSpec, KeepsPromise, Promise!Spec

\* A session is used on the WebSocket whose handshake made it (connection.ts keeps
\* session and phase across callbacks; a reconnect must not).
THEOREM SessionOfItsSocket == SafeSpec => []SessionOfThisSocket
<1>1. CInv => SessionOfThisSocket
  BY DEF CInv, SessionOfPhase, SessionOfThisSocket, TypeOK, Phases
<1> QED BY <1>1, ConnectionInvariance, PTL

\* The retries stop long before the buffer of events drops one, and once the WebSocket is
\* open the listeners have been given every event.
THEOREM NothingHeldBack == SafeSpec => []EventsReachListeners
<1>1. CInv => EventsReachListeners
  <2> SUFFICES ASSUME CInv PROVE EventsReachListeners
    OBVIOUS
  <2>1. /\ Len(buffer.queue) \in Nat /\ rm.attempt \in Nat /\ rm.attempt <= MaxRetries
        /\ Len(buffer.queue) <= 2 * rm.attempt + 1
    BY DEF CInv, TypeOK, HeldBack
  <2>2. Len(buffer.queue) <= 2 * MaxRetries + 1
    BY <2>1, RetriesAssumption
  <2>3. (EventLoop /\ ws = "open") => buffer = EmptyBuffer
    BY DEF CInv, HeldBack
  <2> QED BY <2>2, <2>3 DEF EventsReachListeners
<1> QED BY <1>1, ConnectionInvariance, PTL

\* A registered account has no pairing in progress, whoever registered it.
THEOREM RegisteredHasNoPairing == SafeSpec => []NoPairingOnceRegistered
<1>1. CInv => NoPairingOnceRegistered
  BY DEF CInv, RegisteredAlone, NoPairingOnceRegistered, EventLoop
<1> QED BY <1>1, ConnectionInvariance, PTL

\* connection.ts over transport.ts is a Link: for the message engine and whoever else is
\* handed the socket and the session of the moment, WebSockets come one after the other
\* and a session is that of the WebSocket it was made on.
THEOREM ConnectionIsLink == SafeSpec => ImplementsLink
<1> USE DEF ConnectionLink!Next, ConnectionLink!Dials, ConnectionLink!Opens,
            ConnectionLink!Handshakes, ConnectionLink!Drops, ConnectionLink!Closes,
            ConnectionLink!Discards
<1>1. Init => ConnectionLink!Init
  BY DEF Init, InitManager, ConnectionLink!Init
<1>2. ASSUME CInv, [Next]_vars PROVE [ConnectionLink!Next]_(ConnectionLink!vars)
  <2>1. /\ rm.generation \in Nat /\ rm.generation + 1 \in Nat
        /\ rm.generation < rm.generation + 1
    BY <1>2 DEF CInv, TypeOK
  <2>2. CASE Start
    <3>1. ws = "none" /\ session = None
      BY <1>2, <2>2 DEF Start, CInv, BeforeStart, SessionOfPhase
    <3>2. /\ ws' = "connecting" /\ session' = session
          /\ rm'.generation = rm.generation + 1
      BY <1>2, <2>2, ManagerMethods DEF Start, CInv, TypeOK, Managers
    <3> QED BY <2>1, <3>1, <3>2
  <2>3. CASE BackoffDone
    <3>1. ws = "none" /\ session = None /\ session' = session
      BY <1>2, <2>3 DEF BackoffDone, CInv, NoLinkYet, SessionOfPhase
    <3>2. UNCHANGED <<ws, rm>> \/ (ws' = "connecting" /\ rm'.generation = rm.generation + 1)
      BY <1>2, <2>3, ManagerMethods DEF BackoffDone, CInv, TypeOK, Managers
    <3> QED BY <2>1, <3>1, <3>2 DEF ConnectionLink!vars
  <2>4. CASE ConnectTimeout \/ HandshakeOverflow \/ CloseFailed \/ LoggedOut
    <3>1. ws' = "none" /\ session' = session /\ rm' = rm
      BY <2>4 DEF ConnectTimeout, HandshakeOverflow, CloseFailed, LoggedOut, rmVars
    <3> QED BY <2>1, <3>1
  <2>5. CASE End \/ Logout
    <3>1. ws' = "none" /\ session' = None /\ rm' = Cancel(rm)
      BY <2>5 DEF End, Logout, Stop
    <3>2. rm'.generation = rm.generation
      BY <1>2, <3>1, ManagerMethods DEF CInv, TypeOK, Managers
    <3> QED BY <2>1, <3>1, <3>2
  <2>6. CASE WsOpens
    <3>1. /\ ws = "connecting" /\ ws' = "open" /\ session' = None
          /\ rm' = MarkOpen(rm, rm.generation)
      BY <2>6 DEF WsOpens
    <3>2. rm'.generation = rm.generation
      BY <1>2, <3>1, ManagerMethods DEF CInv, TypeOK, Managers
    <3> QED BY <3>1, <3>2
  <2>7. CASE HelloAccepted
    <3>1. session = None
      BY <1>2, <2>7 DEF HelloAccepted, HandshakeMessage, CInv, SessionOfPhase
    <3> QED BY <2>7, <3>1 DEF HelloAccepted, rmVars
  <2>8. CASE WsDrops
    BY <2>8 DEF WsDrops, rmVars
  <2>9. CASE WsCloses
    <3>1. ws = "closing" /\ ws' = "none" /\ session' = None /\ rm' \in {rm, WaitBackoff(rm)}
      BY <2>9 DEF WsCloses, ForgetLink
    <3>2. rm'.generation = rm.generation
      BY <1>2, <3>1, ManagerMethods DEF CInv, TypeOK, Managers
    <3> QED BY <3>1, <3>2
  <2>10. ASSUME ~(Start \/ BackoffDone \/ ConnectTimeout \/ HandshakeOverflow \/ CloseFailed
                    \/ LoggedOut \/ End \/ Logout \/ WsOpens \/ HelloAccepted \/ WsDrops
                    \/ WsCloses)
         PROVE  UNCHANGED <<ws, session, rm>>
    <3>1. CASE HandlerSteps
      BY <2>10, <3>1 DEF HandlerSteps, FlushOne, AnnounceConnecting, StartHandshake,
         SendClientPayload, HandlePayload, HandleDisconnect, ReportDisconnect, HandlePairing,
         PairSuccess, PairSuccessCancels, HandleQr, HandleSuccess, linkVars, rmVars
    <3>2. CASE HelloRejected \/ MessageArrives
      BY <3>2 DEF HelloRejected, MessageArrives, linkVars, rmVars
    <3>3. CASE PairingTimers \/ Deadline \/ UNCHANGED vars
      BY <3>3 DEF PairingTimers, Deadline, vars, connVars, linkVars, rmVars
    <3>4. ASSUME NEW r \in Requests, RequestPairingCode(r) \/ Resume(r) \/ WaiterTimeout(r)
          PROVE  UNCHANGED <<ws, session, rm>>
      BY <3>4 DEF RequestPairingCode, Resume, WaiterTimeout, linkVars, rmVars
    <3> QED BY <1>2, <2>10, <3>1, <3>2, <3>3, <3>4 DEF Next, Network, User
  <2> QED BY <2>2, <2>3, <2>4, <2>5, <2>6, <2>7, <2>8, <2>9, <2>10 DEF ConnectionLink!vars
<1>3. QED BY <1>1, <1>2, ConnectionInvariance, PTL DEF SafeSpec, ImplementsLink,
             ConnectionLink!Spec

\* No timer and no reconnect task opens a WebSocket after a stop.
THEOREM NothingConnectsOnceStopped == SafeSpec => NoConnectAfterStop
<1>1. CInv /\ [Next]_vars => [(ws' = "connecting" /\ ws # "connecting") => ~stopped]_vars
  <2> SUFFICES ASSUME CInv, Next, ws' = "connecting", ws # "connecting"
               PROVE  ~stopped
    OBVIOUS
  <2>1. CASE Start
    BY <2>1 DEF Start, CInv, BeforeStart
  <2>2. CASE BackoffDone
    BY <2>2 DEF BackoffDone
  <2>3. CASE ConnectTimeout \/ Network \/ WsCloses
    BY <2>3 DEF ConnectTimeout, Network, WsOpens, WsDrops, HandshakeOverflow, HelloAccepted,
       HelloRejected, MessageArrives, WsCloses, linkVars
  <2>4. CASE HandlerSteps
    BY <2>4 DEF HandlerSteps, FlushOne, AnnounceConnecting, StartHandshake, SendClientPayload,
       CloseFailed, HandlePayload, HandleDisconnect, ReportDisconnect, LoggedOut, HandlePairing,
       PairSuccess, PairSuccessCancels, HandleQr, HandleSuccess, linkVars
  <2>5. CASE PairingTimers \/ Deadline \/ \E r \in Requests : Resume(r) \/ WaiterTimeout(r)
    BY <2>5 DEF PairingTimers, Deadline, Resume, WaiterTimeout, connVars, linkVars
  <2>6. CASE User
    BY <2>6 DEF User, End, Logout, Stop, RequestPairingCode, linkVars
  <2> QED BY <2>1, <2>2, <2>3, <2>4, <2>5, <2>6 DEF Next
<1> QED BY <1>1, ConnectionInvariance, PTL DEF SafeSpec, NoConnectAfterStop
------------------------------------------------------------------------------
(* While the connection runs, whatever the listeners do.                     *)

CalmParts == PhaseIsStage /\ WaitersHope /\ OpenIsRegistered

LEMMA NobodyWaits ==
    FailReady \/ SettleReady => \A r \in Requests : call'[r] # "waiting"
BY DEF FailReady, SettleReady

\* In the phases with a session there is one.
LEMMA SessionMade ==
    ASSUME CInv, phase \in {"noise_done", "login_sent"}
    PROVE  session # None
BY ConnectionAssumption DEF CInv, TypeOK, SessionOfPhase

\* The user's calls, the timers and the reconnect task.
LEMMA CalmOutside ==
    ASSUME CalmInv, ~stopped',
           Start \/ ConnectTimeout \/ WsCloses \/ BackoffDone \/ PairingTimers \/ Deadline
             \/ User \/ \E r \in Requests : Resume(r) \/ WaiterTimeout(r)
    PROVE  CalmParts'
<1> USE DEF CalmInv
<1>1. CASE Start
  <2>1. /\ conn' = "connecting" /\ k' = "idle" /\ phase' = "idle" /\ phase = "idle"
        /\ UNCHANGED <<call, registered>>
    BY <1>1 DEF Start, CInv, BeforeStart, handlerVars, credsVars
  <2> QED BY <2>1 DEF CalmParts, PhaseIsStage, WaitersHope, OpenIsRegistered, Stages
<1>2. CASE ConnectTimeout \/ WsCloses
  <2>1. /\ conn' = "close" /\ FailReady /\ k = "idle" /\ k' = "idle" /\ phase' \in {phase, "idle"}
    BY <1>2 DEF ConnectTimeout, WsCloses, ForgetLink, Macrotask, EventLoop, handlerVars
  <2> QED BY <2>1, NobodyWaits DEF CalmParts, PhaseIsStage, WaitersHope, OpenIsRegistered, Stages
<1>3. CASE BackoffDone
  <2>1. /\ conn' \in {conn, "connecting"} /\ k = "idle" /\ phase = "idle"
        /\ UNCHANGED <<k, phase, call, registered>>
    BY <1>3 DEF BackoffDone, Macrotask, EventLoop, CInv, NoLinkYet, handlerVars, credsVars
  <2> QED BY <2>1 DEF CalmParts, PhaseIsStage, WaitersHope, OpenIsRegistered, Stages
<1>4. CASE PairingTimers \/ Deadline
  <2>1. UNCHANGED <<conn, k, phase, call, registered>>
    BY <1>4 DEF PairingTimers, Deadline, connVars, linkVars, eventVars, credsVars, handlerVars
  <2> QED BY <2>1 DEF CalmParts, PhaseIsStage, WaitersHope, OpenIsRegistered
<1>5. CASE End \/ Logout
  BY <1>5 DEF End, Logout, Stop
<1>6. ASSUME NEW r \in Requests, RequestPairingCode(r) \/ Resume(r) \/ WaiterTimeout(r)
      PROVE  CalmParts'
  <2>1. UNCHANGED <<conn, k, phase, registered>>
    BY <1>6 DEF RequestPairingCode, Resume, WaiterTimeout, linkVars, eventVars, credsVars, handlerVars
  <2>2. PICK status \in {"waiting", "rejected", "made"} :
           /\ Call(r, status)
           /\ status = "waiting" => ~IsPairingReady /\ phase # "failed" /\ conn # "close"
    BY <1>6 DEF RequestPairingCode, Resume, WaiterTimeout, CallController
  <2>3. IsPairingReady \/ phase \in {"idle", "sent_e", "failed"}
    BY SessionMade DEF IsPairingReady, CInv, TypeOK, Phases
  <2>4. ASSUME NEW q \in Requests, call'[q] = "waiting"
        PROVE  phase' \in {"idle", "sent_e", "noise_done"} /\ conn' # "close"
    <3>1. call \in [Requests -> Statuses]
      BY DEF CInv, TypeOK, Statuses
    <3>2. CASE q = r
      BY <2>1, <2>2, <2>3, <2>4, <3>1, <3>2 DEF Call
    <3>3. CASE q # r
      BY <2>1, <2>2, <2>4, <3>1, <3>3 DEF Call, WaitersHope
    <3> QED BY <3>2, <3>3
  <2>5. WaitersHope'
    BY <2>4 DEF WaitersHope
  <2> QED BY <2>1, <2>5 DEF CalmParts, PhaseIsStage, OpenIsRegistered
<1> QED BY <1>1, <1>2, <1>3, <1>4, <1>5, <1>6 DEF User

\* The WebSocket's events and the handshake.
LEMMA CalmLink ==
    ASSUME CalmInv,
           Network \/ FlushOne \/ AnnounceConnecting \/ StartHandshake \/ SendClientPayload
             \/ CloseFailed
    PROVE  CalmParts'
<1> USE DEF CalmInv
<1>1. CASE WsOpens
  <2>1. /\ phase = "idle" /\ phase' = "idle" /\ k' = "flush" /\ UNCHANGED <<conn, call, registered>>
    BY <1>1 DEF WsOpens, CInv, NoLinkYet, credsVars
  <2> QED BY <2>1 DEF CalmParts, PhaseIsStage, WaitersHope, OpenIsRegistered, Stages
<1>2. CASE WsDrops \/ FlushOne \/ CloseFailed
  <2>1. /\ k' = k \/ (k = "closeFailed" /\ k' = "idle")
        /\ UNCHANGED <<phase, conn, call, registered>>
    BY <1>2 DEF WsDrops, FlushOne, CloseFailed, Goto, linkVars, eventVars, credsVars, handlerVars
  <2> QED BY <2>1 DEF CalmParts, PhaseIsStage, WaitersHope, OpenIsRegistered, Stages
<1>3. CASE AnnounceConnecting
  <2>1. /\ k = "flush" /\ k' = "handshake" /\ conn' = "connecting"
        /\ UNCHANGED <<phase, call, registered>>
    BY <1>3 DEF AnnounceConnecting, Goto, linkVars, credsVars
  <2> QED BY <2>1 DEF CalmParts, PhaseIsStage, WaitersHope, OpenIsRegistered, Stages
<1>4. CASE StartHandshake \/ HandshakeOverflow \/ HelloRejected
  <2>1. /\ phase \in {"idle", "sent_e"} /\ phase' \in {"sent_e", "failed"}
        /\ phase' = "failed" => FailReady
        /\ phase' # "failed" => UNCHANGED call
        /\ k' \in {"idle", "closeFailed"} /\ (k' = "closeFailed" => phase' = "failed")
        /\ UNCHANGED <<conn, registered>>
    <3>1. k = "handshake" => phase = "idle"
      BY DEF CInv, PhaseOfStage
    <3> QED BY <1>4, <3>1 DEF StartHandshake, HandshakeOverflow, HelloRejected, HandshakeMessage,
               Receiving, EventLoop, Goto, eventVars, credsVars, handlerVars
  <2> QED BY <2>1, NobodyWaits DEF CalmParts, PhaseIsStage, WaitersHope, OpenIsRegistered, Stages
<1>5. CASE HelloAccepted
  <2>1. /\ phase = "sent_e" /\ phase' = "noise_done" /\ k' = "clientPayload"
        /\ UNCHANGED <<conn, call, registered>>
    BY <1>5 DEF HelloAccepted, HandshakeMessage, Goto, credsVars
  <2> QED BY <2>1 DEF CalmParts, PhaseIsStage, WaitersHope, OpenIsRegistered, Stages
<1>6. CASE SendClientPayload
  <2>1. phase = "noise_done" /\ session # None
    BY <1>6, SessionMade DEF SendClientPayload, PhaseIsStage
  <2>2. phase' = "login_sent" /\ SettleReady /\ k' = "idle" /\ UNCHANGED <<conn, registered>>
    BY <1>6, <2>1 DEF SendClientPayload, Goto, eventVars, credsVars
  <2> QED BY <2>1, <2>2, NobodyWaits
          DEF CalmParts, PhaseIsStage, WaitersHope, OpenIsRegistered, Stages
<1>7. CASE MessageArrives
  <2>1. /\ k = "idle" /\ phase \in {"noise_done", "login_sent"} /\ k' = "payload"
        /\ UNCHANGED <<phase, conn, call, registered>>
    BY <1>7 DEF MessageArrives, Receiving, EventLoop, linkVars, eventVars, credsVars
  <2> QED BY <2>1 DEF CalmParts, PhaseIsStage, WaitersHope, OpenIsRegistered, Stages
<1> QED BY <1>1, <1>2, <1>3, <1>4, <1>5, <1>6, <1>7 DEF Network

\* The stages of handleDecrypted.
LEMMA CalmStages ==
    ASSUME CalmInv,
           HandlePayload \/ HandleDisconnect \/ ReportDisconnect \/ LoggedOut \/ HandlePairing
             \/ PairSuccess \/ PairSuccessCancels \/ HandleQr \/ HandleSuccess
    PROVE  CalmParts'
<1> USE DEF CalmInv
<1>1. k \in Stages /\ k' \in Stages \cup {"idle"} /\ UNCHANGED <<phase, call>>
  BY DEF HandlePayload, HandleDisconnect, ReportDisconnect, LoggedOut, HandlePairing, PairSuccess,
     PairSuccessCancels, HandleQr, HandleSuccess, Goto, NextPayload, Stages, linkVars
<1>2. phase = "login_sent" /\ k # "clientPayload" /\ k' \notin {"clientPayload", "closeFailed"}
  BY <1>1 DEF PhaseIsStage, Stages
<1>3. PhaseIsStage' /\ WaitersHope'
  BY <1>1, <1>2 DEF PhaseIsStage, WaitersHope
<1>4. /\ conn' = "open" => registered' \/ k' = "report"
      /\ k' \in {"paired", "pairedCancel"} => registered'
  <2>1. /\ conn = "open" => registered \/ k = "report"
        /\ k \in {"paired", "pairedCancel"} => registered
    BY DEF OpenIsRegistered
  <2>2. CASE HandlePayload \/ HandleQr \/ PairSuccessCancels
    BY <2>1, <2>2 DEF HandlePayload, HandleQr, PairSuccessCancels, Goto, eventVars, credsVars
  <2>3. CASE HandleDisconnect
    BY <2>1, <2>3 DEF HandleDisconnect, Goto, eventVars, credsVars
  <2>4. CASE ReportDisconnect
    BY <2>4 DEF ReportDisconnect, Goto
  <2>5. CASE LoggedOut
    BY <2>1, <2>5 DEF LoggedOut, NextPayload, eventVars, credsVars
  <2>6. CASE HandlePairing
    BY <2>1, <2>6 DEF HandlePairing, Goto, eventVars
  <2>7. CASE PairSuccess
    BY <2>1, <2>7 DEF PairSuccess, Goto, credsVars
  <2>8. CASE HandleSuccess
    BY <2>1, <2>8 DEF HandleSuccess, NextPayload, AuthReady, eventVars, credsVars
  <2> QED BY <2>2, <2>3, <2>4, <2>5, <2>6, <2>7, <2>8
<1>5. OpenIsRegistered'
  BY <1>1, <1>2, <1>4 DEF OpenIsRegistered
<1> QED BY <1>3, <1>5 DEF CalmParts

LEMMA CalmInit == Init => CalmInv
<1> SUFFICES ASSUME Init PROVE CalmInv
  OBVIOUS
<1> QED BY ConnectionInit DEF Init, CalmInv, PhaseIsStage, WaitersHope, OpenIsRegistered, Stages

LEMMA CalmStep ==
    ASSUME CalmInv, ~stopped', [Next]_vars
    PROVE  CalmParts'
<1>1. CASE Next
  BY <1>1, CalmOutside, CalmLink, CalmStages DEF Next, HandlerSteps
<1>2. CASE UNCHANGED vars
  <2>1. UNCHANGED <<conn, k, phase, call, registered>>
    BY <1>2 DEF vars, connVars, linkVars, eventVars, credsVars, handlerVars
  <2> QED BY <2>1 DEF CalmParts, CalmInv, PhaseIsStage, WaitersHope, OpenIsRegistered
<1> QED BY <1>1, <1>2

\* Only start() takes a stop back, and it runs once.
LEMMA StopStays ==
    ASSUME CInv, [Next]_vars, stopped
    PROVE  stopped'
<1>1. CASE Start
  BY <1>1 DEF Start, CInv, BeforeStart
<1>2. CASE ConnectTimeout \/ Network \/ WsCloses \/ BackoffDone
  BY <1>2 DEF ConnectTimeout, Network, WsOpens, WsDrops, HandshakeOverflow, HelloAccepted,
     HelloRejected, MessageArrives, WsCloses, BackoffDone, lifeVars
<1>3. CASE HandlerSteps
  BY <1>3 DEF HandlerSteps, FlushOne, AnnounceConnecting, StartHandshake, SendClientPayload,
     CloseFailed, HandlePayload, HandleDisconnect, ReportDisconnect, LoggedOut, HandlePairing,
     PairSuccess, PairSuccessCancels, HandleQr, HandleSuccess, lifeVars
<1>4. CASE PairingTimers \/ Deadline \/ \E r \in Requests : Resume(r) \/ WaiterTimeout(r)
  BY <1>4 DEF PairingTimers, Deadline, Resume, WaiterTimeout, connVars, lifeVars
<1>5. CASE User
  BY <1>5 DEF User, End, Logout, Stop, RequestPairingCode, lifeVars
<1>6. CASE UNCHANGED vars
  BY <1>6 DEF vars, connVars, lifeVars
<1> QED BY <1>1, <1>2, <1>3, <1>4, <1>5, <1>6 DEF Next

\* Whatever the listeners do, until one of them (or a stanza) stops the socket.
LEMMA RunningInvariance == SafeSpec => [](CInv /\ (~stopped => CalmParts))
<1>1. Init => CInv /\ (~stopped => CalmParts)
  BY CalmInit DEF CalmInv, CalmParts
<1>2. CInv /\ (~stopped => CalmParts) /\ [Next]_vars => CInv' /\ (~stopped' => CalmParts')
  <2> SUFFICES ASSUME CInv, ~stopped => CalmParts, [Next]_vars
               PROVE  CInv' /\ (~stopped' => CalmParts')
    OBVIOUS
  <2>1. ASSUME ~stopped' PROVE CalmParts'
    <3>1. CalmInv
      BY <2>1, StopStays DEF CalmInv, CalmParts
    <3> QED BY <2>1, <3>1, CalmStep
  <2> QED BY <2>1, ConnectionNext
<1> QED BY <1>1, <1>2, PTL DEF SafeSpec

\* Who waits at the end of a handler can still be answered.
LEMMA WaitsWithHope ==
    ASSUME CalmParts, EventLoop, NEW r \in Requests, call[r] = "waiting"
    PROVE  ~IsPairingReady /\ phase # "failed" /\ conn # "close"
<1>1. phase \in {"idle", "sent_e"} /\ conn # "close"
  BY DEF CalmParts, WaitersHope, PhaseIsStage, EventLoop
<1> QED BY <1>1 DEF IsPairingReady

\* Whatever the listeners do and however many stanzas arrive in a message, no call of
\* requestPairingCode waits for a readiness that has come or cannot come, until the socket
\* is stopped.
THEOREM NobodyIsForgotten == SafeSpec => []NoForgottenWaiter
<1>1. (~stopped => CalmParts) => NoForgottenWaiter
  BY WaitsWithHope DEF NoForgottenWaiter
<1> QED BY <1>1, RunningInvariance, PTL

\* state.connection is "open" only with a registered account and its session.
LEMMA OpenHasLogin == CInv /\ CalmParts => OpenMeansLoggedIn
BY DEF CalmParts, CInv, OpenIsRegistered, SessionOfPhase, OpenMeansLoggedIn, EventLoop

\* ... whatever the listeners do, until the socket is stopped.
THEOREM OpenWhileRunning == SafeSpec => [](~stopped => OpenMeansLoggedIn)
<1>1. CInv /\ (~stopped => CalmParts) => (~stopped => OpenMeansLoggedIn)
  BY OpenHasLogin
<1> QED BY <1>1, RunningInvariance, PTL

------------------------------------------------------------------------------
(* After a stop.                                                             *)

Down == stopped => ws = "none" /\ ~connectTimer

\* end(), logout() and the logged-out disconnect stop the socket, and nothing else does.
LEMMA StopComes ==
    ASSUME [Next]_vars, ~stopped, stopped'
    PROVE  End \/ Logout \/ LoggedOut
BY DEF Next, Start, ConnectTimeout, WsCloses, BackoffDone, PairingTimers,
       Deadline, Resume, WaiterTimeout, User, RequestPairingCode, Network,
       WsOpens, WsDrops, HandshakeOverflow, HelloAccepted, HelloRejected,
       MessageArrives, HandlerSteps, FlushOne, AnnounceConnecting, StartHandshake,
       SendClientPayload, CloseFailed, HandlePayload, HandleDisconnect, ReportDisconnect,
       HandlePairing, PairSuccess, PairSuccessCancels, HandleQr, HandleSuccess,
       connVars, lifeVars, vars

\* Whatever happens after a stop, there is no WebSocket any more, and no timer that would
\* report on one.
THEOREM DownOnceStopped == SafeSpec => []Down
<1>1. Init => Down
  BY DEF Init, Down
<1>2. CInv /\ Down /\ [Next]_vars => Down'
  <2> SUFFICES ASSUME CInv, Down, [Next]_vars PROVE Down'
    OBVIOUS
  <2>1. CASE ~stopped /\ ~stopped'
    BY <2>1 DEF Down
  <2>2. CASE stopped
    <3>1. ws = "none" /\ ~connectTimer /\ started
      BY <2>2 DEF CInv, BeforeStart, Down
    <3>2. CASE Next
      BY <2>2, <3>1, <3>2 DEF Next, Start, ConnectTimeout, WsCloses, BackoffDone, PairingTimers,
         Deadline, Resume, WaiterTimeout, User, End, Logout, Stop, RequestPairingCode, Network,
         WsOpens, WsDrops, HandshakeOverflow, HelloAccepted, HelloRejected, HandshakeMessage,
         MessageArrives, Receiving, HandlerSteps, FlushOne, AnnounceConnecting, StartHandshake,
         SendClientPayload, CloseFailed, HandlePayload, HandleDisconnect, ReportDisconnect,
         LoggedOut, HandlePairing, PairSuccess, PairSuccessCancels, HandleQr, HandleSuccess,
         connVars, linkVars, rmVars, Down
    <3> QED BY <3>1, <3>2 DEF vars, connVars, linkVars, rmVars, Down
  <2>3. CASE ~stopped /\ stopped'
    <3>1. End \/ Logout \/ LoggedOut
      BY <2>3, StopComes
    <3> QED BY <3>1 DEF End, Logout, Stop, LoggedOut, CInv, FirstConnect, rmVars, Down
  <2> QED BY <2>1, <2>2, <2>3
<1> QED BY <1>1, <1>2, ConnectionInvariance, PTL DEF SafeSpec

\* A stop made between handlers puts the connection down at once; the listeners are told
\* past the buffer.
LEMMA StopBetweenHandlers ==
    ASSUME CInv, EventLoop, End \/ Logout
    PROVE  EventLoop' /\ StopIsFinal'
<1>1. /\ k' = k /\ conn' = "close" /\ ws' = "none" /\ FailReady
      /\ Update(BufferClear(buffer), "close")
  BY DEF End, Logout, Stop, handlerVars
<1>2. seen' = "close"
  BY <1>1, EmptyIsBuffer DEF Update, BufferClear
<1> QED BY <1>1, <1>2, NobodyWaits DEF StopIsFinal, EventLoop

\* Once a stopped connection is down, nothing that is left to happen brings it up again: a
\* reconnect task, timers of pairing requests, continuations, further calls of the user.
LEMMA StoppedStays ==
    ASSUME CInv, Down, EventLoop, StopIsFinal, stopped, [Next]_vars
    PROVE  EventLoop' /\ StopIsFinal'
<1>0. /\ k = "idle" /\ conn = "close" /\ seen = "close" /\ ws = "none" /\ ~connectTimer /\ started
      /\ \A r \in Requests : call[r] # "waiting"
      /\ call \in [Requests -> Statuses]
  BY DEF EventLoop, StopIsFinal, Down, CInv, TypeOK, BeforeStart, Statuses
<1>1. CASE Start \/ ConnectTimeout \/ WsCloses \/ Network \/ HandlerSteps
  <2>1. FALSE
    BY <1>0, <1>1
       DEF Start, ConnectTimeout, WsCloses, Network, WsOpens, WsDrops, HandshakeOverflow,
           HelloAccepted, HelloRejected, HandshakeMessage, MessageArrives, Receiving,
           HandlerSteps, FlushOne, AnnounceConnecting, StartHandshake, SendClientPayload,
           CloseFailed, HandlePayload, HandleDisconnect, ReportDisconnect, LoggedOut,
           HandlePairing, PairSuccess, PairSuccessCancels, HandleQr, HandleSuccess
  <2> QED BY <2>1
<1>2. CASE BackoffDone \/ PairingTimers \/ Deadline \/ UNCHANGED vars
  <2>1. UNCHANGED <<k, conn, seen, ws, call>>
    BY <1>2 DEF BackoffDone, PairingTimers, Deadline, vars, connVars, linkVars, eventVars,
       handlerVars
  <2> QED BY <1>0, <2>1 DEF EventLoop, StopIsFinal
<1>3. ASSUME NEW r \in Requests, RequestPairingCode(r) \/ Resume(r) \/ WaiterTimeout(r)
      PROVE  EventLoop' /\ StopIsFinal'
  <2>1. UNCHANGED <<k, conn, seen, ws>>
    BY <1>3 DEF RequestPairingCode, Resume, WaiterTimeout, linkVars, eventVars, handlerVars
  <2>2. Call(r, "rejected") \/ Call(r, "made")
    BY <1>0, <1>3 DEF RequestPairingCode, Resume, WaiterTimeout, CallController
  <2>3. \A q \in Requests : call'[q] # "waiting"
    BY <1>0, <2>2 DEF Call
  <2> QED BY <1>0, <2>1, <2>3 DEF EventLoop, StopIsFinal
<1>4. CASE End \/ Logout
  BY <1>4, StopBetweenHandlers
<1> QED BY <1>1, <1>2, <1>3, <1>4 DEF Next, User

\* A stop is final, whatever the listeners do and however many stanzas arrive in a
\* message: end() and logout() between handlers put the connection down at once, and a
\* stopped connection that is down, with its listeners told and no call waiting, stays so.
\* (Made while a handler runs, by a listener or a logged-out stanza, a stop can be followed
\* by what that handler still announces, and then it is not final in this sense.)
THEOREM StopStaysFinal ==
    SafeSpec => [][(EventLoop /\ StopIsFinal /\ stopped') => (EventLoop' /\ StopIsFinal')]_vars
<1>1. CInv /\ Down /\ [Next]_vars
         => [(EventLoop /\ StopIsFinal /\ stopped') => (EventLoop' /\ StopIsFinal')]_vars
  <2> SUFFICES ASSUME CInv, Down, [Next]_vars, EventLoop, StopIsFinal, stopped'
               PROVE  EventLoop' /\ StopIsFinal'
    OBVIOUS
  <2>1. CASE stopped
    BY <2>1, StoppedStays
  <2>2. CASE ~stopped
    <3>1. End \/ Logout
      BY <2>2, StopComes DEF LoggedOut, EventLoop
    <3> QED BY <3>1, StopBetweenHandlers
  <2> QED BY <2>1, <2>2
<1> QED BY <1>1, ConnectionInvariance, DownOnceStopped, PTL DEF SafeSpec
=============================================================================
