-------------------------- MODULE ReconnectManager --------------------------
(***************************************************************************)
(* createReconnectManager (src/Socket/reconnect-manager.ts).  A manager is *)
(* a record, its methods are operators.  Left out: isReconnecting, which   *)
(* nothing reads, and reconnectToken, whose only effect is the return      *)
(* value of waitBackoff, which its caller ignores (connection.ts:456-459). *)
(***************************************************************************)
EXTENDS Naturals

CONSTANT MaxRetries   \* DEFAULT_MAX_RECONNECT = 8

ASSUME RetriesAssumption == MaxRetries \in Nat

InitManager == [generation |-> 0, attempt |-> 0, cancelled |-> FALSE]

BeginConnect(rm) == [rm EXCEPT !.cancelled = FALSE, !.generation = @ + 1]

IsCurrent(rm, gen) == gen = rm.generation /\ ~rm.cancelled

MarkOpen(rm, gen) == IF gen = rm.generation THEN [rm EXCEPT !.attempt = 0] ELSE rm

Cancel(rm) == [rm EXCEPT !.cancelled = TRUE]

\* Mutant: one retry too many.
ShouldReconnectOnce(attempt) == attempt <= MaxRetries

\* src/Socket/reconnect.ts, shouldReconnect
ShouldReconnect(attempt) == attempt < MaxRetries

\* Mutant: an unknown close code is fatal.
OnCloseShouldKnown(rm, gen, intentional, stopped, disc) ==
    /\ gen = rm.generation
    /\ ~stopped /\ ~intentional /\ ~rm.cancelled
    /\ disc.statusCode \notin {0, 401, 403}
    /\ ShouldReconnect(rm.attempt)

\* onClose(...).should.  disc is closeOpts.disconnect, or what mapWsCode makes
\* of the WebSocket close code: never logged out, never forbidden.
OnCloseShould(rm, gen, intentional, stopped, disc) ==
    /\ gen = rm.generation
    /\ ~stopped /\ ~intentional /\ ~rm.cancelled
    /\ ~disc.isLoggedOut
    /\ disc.statusCode \notin {401, 403}
    /\ ShouldReconnect(rm.attempt)

\* The synchronous part of waitBackoff: the attempt is counted up front.
WaitBackoff(rm) == [rm EXCEPT !.attempt = @ + 1]
=============================================================================
