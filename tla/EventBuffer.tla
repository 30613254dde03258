----------------------------- MODULE EventBuffer -----------------------------
(***************************************************************************)
(* EventBuffer (src/Events/buffer.ts): while enabled, events are queued    *)
(* instead of emitted; flush hands the queue to the emitter.  A buffer is  *)
(* a record, its methods are operators from a buffer to a buffer.          *)
(***************************************************************************)
EXTENDS Naturals, Sequences

CONSTANT MaxSize   \* constructor argument, 500 in connection.ts

ASSUME BufferAssumption == MaxSize \in Nat \ {0}

EmptyBuffer == [enabled |-> FALSE, queue |-> <<>>]

BufferStart(b) == [b EXCEPT !.enabled = TRUE]
BufferStop(b)  == [b EXCEPT !.enabled = FALSE]

\* Mutant: clear drops the events but goes on buffering.
BufferCleared(b) == [b EXCEPT !.queue = <<>>]

BufferClear(b) == EmptyBuffer

\* A full queue loses its oldest event.  (An enabled buffer takes the event
\* and the caller does not emit it; a disabled one leaves it to the caller.)
BufferPush(b, event) ==
    IF ~b.enabled THEN b
    ELSE [b EXCEPT !.queue = Append(IF Len(@) >= MaxSize THEN Tail(@) ELSE @, event)]

\* flush: the queue is taken and buffering ends before anything is emitted.
BufferFlushed(b) == EmptyBuffer
=============================================================================
