----------------------------- MODULE Messaging ------------------------------
(***************************************************************************)
(* createMessageEngine (src/Messages/engine.ts) with its retries, its ack  *)
(* waiters and its deduplication window, over a connection that drops and  *)
(* comes back.                                                             *)
(*                                                                         *)
(* A message is its id.  An outgoing message may come back from the server *)
(* as an echo (fromMe = "true", the same deduplication key); an incoming   *)
(* one may be delivered again.  The connection is any Link: the socket and *)
(* the Noise session of the moment, which the engine is handed.  Signal    *)
(* encryption is left out: the socket passes no Signal session to the      *)
(* engine (src/Socket/socket.ts).                                          *)
(*                                                                         *)
(* Reactions, deletions and edits are messages of their own.  Whoever has  *)
(* one tells its listeners what becomes of the message it is about: its    *)
(* effect, before the window is asked.                                     *)
(***************************************************************************)
EXTENDS Naturals, FiniteSets, Sequences, SequencesExt

CONSTANTS Outgoing,     \* messages the user sends
          Incoming,     \* messages others send
          Effective,    \* those of both that are a reaction, a deletion or an edit
          Reactions,    \* what sendReaction sends
          None,
          MaxAttempts,  \* maxSendAttempts, 3 by default
          WindowSize,   \* maxSize of the deduper, 5000
          MaxGen,       \* bound: sockets
          MaxEffects    \* bound: effects of one message

ASSUME MessagingAssumption ==
    /\ Outgoing \cap Incoming = {}
    /\ Effective \subseteq Outgoing \cup Incoming
    /\ Reactions \subseteq Outgoing \cap Effective
    /\ MaxAttempts \in Nat \ {0} /\ WindowSize \in Nat \ {0}
    /\ MaxGen \in Nat /\ MaxEffects \in Nat
    /\ None \notin 0..MaxGen

VARIABLES gen, ws, session,  \* of the Link
          ended,      \* end() was called
          send,       \* per outgoing message: where sendMessage stands
          wire,       \* frames handed to sockets; attempt 0 is the receipt of an incoming message
          receipts,   \* per outgoing message: types of receipts received
          lastStatus, \* per outgoing message: the last status listeners were given
          window,     \* the deduper's keys, oldest first
          upserts,    \* per message: messages.upsert events
          effects,    \* per message: messages.reaction, .delete and .update events of its content
          forgotten   \* per message: how often the window lost it

connection == <<gen, ws, session, ended>>
dedup == <<window, upserts, forgotten>>
vars  == <<connection, send, wire, receipts, lastStatus, dedup, effects>>

Messages == Outgoing \cup Incoming

ReceiptTypes == {"server", "delivery", "read", "played"}

Stages == {"none",
           "backoff",   \* withRetry waits before the next attempt
           "handed",    \* handed to a socket, the continuation has not run
           "awaiting",  \* waits for the ACK
           "acked",     \* the waiter is resolved, the continuation has not run
           "returned",  \* sendRaw has returned to sendReaction
           "sent", "failed", "local"}

\* The domains of the variables.
TypeOK ==
    /\ gen \in 0..MaxGen /\ ws \in {"none", "connecting", "open", "closing"}
    /\ session \in (0..MaxGen) \cup {None} /\ ended \in BOOLEAN
    /\ send \in [Outgoing -> [ stage : Stages, session : (0..MaxGen) \cup {None},
                               attempt : 0..MaxAttempts,
                               status : {2, 3, 4} \cup {None} ]]
    /\ wire \subseteq [ socket : 0..MaxGen, session : 0..MaxGen, msg : Messages,
                         attempt : 0..MaxAttempts ]
    /\ receipts \in [Outgoing -> SUBSET ReceiptTypes]
    /\ lastStatus \in [Outgoing -> {2, 3, 4} \cup {None}]
    /\ window \in Seq(Messages) /\ Len(window) <= WindowSize
    /\ upserts \in [Messages -> Nat] /\ effects \in [Messages -> 0..MaxEffects + 1]
    /\ forgotten \in [Messages -> Nat]

Net == INSTANCE Link WITH Generations <- 0..MaxGen

Init ==
    /\ Net!Init /\ ended = FALSE
    /\ send = [m \in Outgoing |-> [ stage |-> "none", session |-> None,
                                    attempt |-> 0, status |-> None ]]
    /\ wire = {}
    /\ receipts = [m \in Outgoing |-> {}]
    /\ lastStatus = [m \in Outgoing |-> None]
    /\ window = <<>>
    /\ upserts = [m \in Messages |-> 0] /\ effects = [m \in Messages |-> 0]
    /\ forgotten = [m \in Messages |-> 0]

------------------------------------------------------------------------------
(* MessageDeduper and emitUpsert.                                            *)

Known(m) == Contains(window, m)

\* Mutant: a full window remembers nothing new.
RememberWhileRoom(m) ==
    \/ Known(m) /\ UNCHANGED dedup
    \/ /\ ~Known(m)
       /\ upserts' = [upserts EXCEPT ![m] = @ + 1]
       /\ window' = IF Len(window) < WindowSize THEN Append(window, m) ELSE window
       /\ UNCHANGED forgotten

\* emitUpsert: a message in the window is not announced again; a full window
\* loses its oldest key.
EmitUpsert(m) ==
    \/ Known(m) /\ UNCHANGED dedup
    \/ /\ ~Known(m)
       /\ upserts' = [upserts EXCEPT ![m] = @ + 1]
       /\ IF Len(window) < WindowSize
          THEN window' = Append(window, m) /\ UNCHANGED forgotten
          ELSE /\ window' = Append(Tail(window), m)
               /\ forgotten' = [forgotten EXCEPT ![Head(window)] = @ + 1]

\* The oldest key is older than the time to live; gc() will drop it.
Expire ==
    /\ window # <<>>
    /\ window' = Tail(window)
    /\ forgotten' = [forgotten EXCEPT ![Head(window)] = @ + 1]
    /\ UNCHANGED <<connection, send, wire, receipts, lastStatus, upserts, effects>>

------------------------------------------------------------------------------
(* sendMessage.                                                              *)

At(m, stage) == send' = [send EXCEPT ![m].stage = stage]

Frame(m, sealedBy, n) ==
    [socket |-> gen, session |-> sealedBy, msg |-> m, attempt |-> n]

\* Timers run after the promise continuations of the handler before.
Macrotask == \A m \in Outgoing : send[m].stage \notin {"handed", "acked", "returned"}

\* Where sendRaw returns to: sendReaction has something left to do.
Returned(m, stage) == IF m \in Reactions THEN "returned" ELSE stage

\* One attempt of withRetry: seal with the session captured by sendMessage,
\* send on the socket of the moment.
Attempt(m, sealedBy, n) ==
    \/ /\ ws = "open"
       /\ wire' = wire \cup {Frame(m, sealedBy, n)}
       /\ send' = [send EXCEPT ![m] = [@ EXCEPT !.stage = "handed",
                                                !.session = sealedBy, !.attempt = n]]
       /\ UNCHANGED dedup
    \/ /\ ws # "open"
       /\ send' = [send EXCEPT ![m] =
                     [@ EXCEPT !.stage = IF n < MaxAttempts THEN "backoff" ELSE "failed",
                               !.session = sealedBy, !.attempt = n]]
       /\ UNCHANGED <<wire, dedup>>

\* Without a session the message is only announced locally.
SendMessage(m) ==
    /\ send[m].stage = "none"
    /\ \/ session = None /\ EmitUpsert(m) /\ At(m, Returned(m, "local")) /\ UNCHANGED wire
       \/ session # None /\ Attempt(m, session, 1)
    /\ UNCHANGED <<connection, receipts, lastStatus, effects>>

Retry(m) ==
    /\ Macrotask /\ send[m].stage = "backoff"
    /\ Attempt(m, send[m].session, send[m].attempt + 1)
    /\ UNCHANGED <<connection, receipts, lastStatus, effects>>

\* The continuation of "await withRetry": announce the message and register
\* the waiter.  The caller's next statements, end() among them, come first.
SendContinuation(m) ==
    /\ send[m].stage = "handed"
    /\ EmitUpsert(m)
    /\ At(m, "awaiting")
    /\ UNCHANGED <<connection, wire, receipts, lastStatus, effects>>

statusFromReceipt(type) ==
    CASE type = "read" -> 4 [] type = "delivery" -> 3 [] OTHER -> 2

\* handlePayload of a receipt: the waiter, if there is one, is resolved, and
\* the listeners get a status at once.
HandleReceipt(m, type) ==
    /\ receipts' = [receipts EXCEPT ![m] = @ \cup {type}]
    /\ lastStatus' = [lastStatus EXCEPT ![m] = statusFromReceipt(type)]
    /\ send' = IF send[m].stage = "awaiting"
               THEN [send EXCEPT ![m].stage = "acked",
                                 ![m].status = statusFromReceipt(type)]
               ELSE send
    /\ UNCHANGED <<connection, wire, dedup, effects>>

\* The continuation of "await acks.wait" announces the status again.
AckContinuation(m) ==
    /\ send[m].stage = "acked"
    /\ At(m, Returned(m, "sent"))
    /\ lastStatus' = [lastStatus EXCEPT ![m] = send[m].status]
    /\ UNCHANGED <<connection, wire, receipts, dedup, effects>>

\* Mutant: no ACK counts as a failed attempt.
AckTimeoutRetries(m) ==
    /\ Macrotask /\ send[m].stage = "awaiting"
    /\ At(m, IF send[m].attempt < MaxAttempts THEN "backoff" ELSE "failed")
    /\ UNCHANGED <<connection, wire, receipts, lastStatus, dedup, effects>>

\* Mutant: the waiter has no timer.
AckTimeoutNever(m) == FALSE /\ UNCHANGED vars

\* No ACK in time: the frame was sent, the promise resolves all the same.
AckTimeout(m) ==
    /\ Macrotask /\ send[m].stage = "awaiting"
    /\ At(m, Returned(m, "sent"))
    /\ UNCHANGED <<connection, wire, receipts, lastStatus, dedup, effects>>

\* Mutant: the listeners are told of a reaction before it is sent.
SendReactionFirst(m) ==
    /\ m \in Reactions /\ effects[m] = 0
    /\ effects' = [effects EXCEPT ![m] = @ + 1]
    /\ UNCHANGED <<connection, send, wire, receipts, lastStatus, dedup>>

\* sendReaction goes on: its listeners are told now.  A deletion and an edit of
\* one's own have no effect before their echo.
ReactionContinuation(m) ==
    /\ send[m].stage = "returned"
    /\ effects' = [effects EXCEPT ![m] = @ + 1]
    /\ At(m, IF send[m].attempt = 0 THEN "local" ELSE "sent")
    /\ UNCHANGED <<connection, wire, receipts, lastStatus, dedup>>

------------------------------------------------------------------------------
(* handleIncomingMessageNode: announce, and send a client receipt for what   *)
(* others wrote, on the session and the socket of the moment.                *)

\* Receiving: the socket need not be OPEN any more, only not yet closed.
Receiving == ws \in {"open", "closing"} /\ session # None

HandleMessage(m) ==
    /\ effects' = IF m \in Effective THEN [effects EXCEPT ![m] = @ + 1] ELSE effects
    /\ EmitUpsert(m)
    /\ wire' = wire \cup (IF m \in Incoming /\ ws = "open"
                          THEN {Frame(m, session, 0)} ELSE {})
    /\ UNCHANGED <<connection, send, receipts, lastStatus>>

------------------------------------------------------------------------------
(* The server: receipts for, and echoes of, what it could decrypt.           *)

\* It takes the network longer than the continuation of the send.
Reached(m) == /\ m \in Outgoing
              /\ \E f \in wire : f.msg = m /\ f.socket = f.session
              /\ send[m].stage # "handed"

\* Bound: one receipt of each type.
Receipt == \E m \in Outgoing, type \in ReceiptTypes :
              Receiving /\ Reached(m) /\ type \notin receipts[m] /\ HandleReceipt(m, type)

Delivery == \E m \in Messages :
              /\ Receiving
              /\ m \in Incoming \/ Reached(m)
              /\ upserts[m] < 2 /\ effects[m] < MaxEffects   \* bounds on repetition
              /\ HandleMessage(m)

------------------------------------------------------------------------------
(* The connection and the user's end().                                      *)

\* Until end() the connection may dial again; WebSocket events are macrotasks, and the
\* code may give a socket up in the middle of a message.
Link ==
    /\ \/ ~ended /\ Net!Dials
       \/ Net!Opens
       \/ Net!Handshakes
       \/ Net!Drops
       \/ Macrotask /\ Net!Closes
       \/ Net!Discards
    /\ UNCHANGED <<ended, send, wire, receipts, lastStatus, dedup, effects>>

\* dispose() rejects the waiters and empties the window; stop() closes.
End ==
    /\ ~ended /\ ended' = TRUE
    /\ send' = [m \in Outgoing |-> IF send[m].stage = "awaiting"
                                   THEN [send[m] EXCEPT !.stage = Returned(m, "sent")] ELSE send[m]]
    /\ window' = <<>>
    /\ forgotten' = [m \in Messages |-> IF Known(m) THEN forgotten[m] + 1
                                        ELSE forgotten[m]]
    /\ ws' = "none" /\ session' = None
    /\ UNCHANGED <<gen, wire, receipts, lastStatus, upserts, effects>>

Next ==
    \/ \E m \in Outgoing : \/ SendMessage(m) \/ Retry(m) \/ SendContinuation(m)
                            \/ AckContinuation(m) \/ AckTimeout(m)
                            \/ ReactionContinuation(m)
    \/ Receipt \/ Delivery \/ Expire
    \/ Link \/ End

\* Timers expire and continuations run.
Fairness == \A m \in Outgoing :
    /\ WF_vars(Retry(m)) /\ WF_vars(AckTimeout(m))
    /\ WF_vars(SendContinuation(m)) /\ WF_vars(AckContinuation(m))
    /\ WF_vars(ReactionContinuation(m))

Spec == Init /\ [][Next]_vars /\ Fairness

------------------------------------------------------------------------------
(* Properties.                                                               *)

\* A message is announced to the listeners once as long as the window knows
\* it, be it sent, echoed, delivered or delivered again.
AnnouncedOnce ==
    \A m \in Messages : upserts[m] <= forgotten[m] + 1

\* sendMessage tells the truth about the wire: a message is handed to a socket
\* at most once, exactly if the promise resolves after a send, and never if
\* the promise is rejected - so the caller may safely send it again. 
OutcomeMatchesWire ==
    \A m \in Outgoing :
        Cardinality({f \in wire : f.msg = m}) =
            IF \/ send[m].stage \in {"handed", "awaiting", "acked", "sent"}
               \/ send[m].stage = "returned" /\ send[m].attempt # 0 THEN 1 ELSE 0

\* A message of one's own has an effect on the listeners only when it was handed to
\* a socket, or kept locally: never before, and never when its promise is rejected.
EffectsAfterSend ==
    \A m \in Outgoing :
        /\ effects[m] > 0 => send[m].stage \notin {"none", "backoff", "handed", "failed"}
        /\ m \in Reactions /\ send[m].stage \in {"sent", "local"} => effects[m] > 0

\* Every sendMessage ends, whatever becomes of the connection.
EverySendEnds ==
    \A m \in Outgoing :
        (send[m].stage # "none") ~> (send[m].stage \in {"sent", "failed", "local"})
=============================================================================
