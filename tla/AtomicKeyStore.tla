--------------------------- MODULE AtomicKeyStore ---------------------------
(***************************************************************************)
(* What "transaction-safe" (src/Auth/key-store.ts:2) promises the callers  *)
(* of a signal key store: a set() takes effect as a whole or not at all,   *)
(* in the order of the calls, before it is acknowledged, and a crash       *)
(* undoes nothing.  clear() removes the keys one by one.                   *)
(*                                                                         *)
(* store is the promise, place is where the key files are on their way to  *)
(* it.  As long as no write fails they always arrive.  A write that fails  *)
(* leaves a batch half in place: the other half may be forgotten, what     *)
(* was acknowledged before it may not.  The same goes for a recovery that  *)
(* runs beside a call; the keys they contend for are given up altogether.  *)
(***************************************************************************)
EXTENDS Naturals

CONSTANTS Keys,
          Calls,     \* calls of set and clear, numbered in the order they are made
          Absent     \* a key that is not stored

VARIABLES store,   \* per key: the call that stored its value, or Absent
          place,   \* the same of the values that are in place
          intact,  \* no write has failed
          contested, \* keys that a recovery may have overwritten with older values
          batch,   \* per call: what it asks for
          status   \* per call: how far it is

values     == <<store, place>>
atomicVars == <<values, intact, contested, batch, status>>

\* Every batch is in place, or will be.
Whole == intact /\ contested = {}

\* A set() writes and deletes some keys; clear() has no keys of its own.
Batches == UNION {[K -> {"write", "delete"}] : K \in (SUBSET Keys) \ {{}}}
Clear   == [k \in {} |-> "delete"]

\* What call c leaves of key k.
Effect(b, c, k) == IF b[k] = "write" THEN c ELSE Absent

Init == /\ store = [k \in Keys |-> Absent] /\ place = store
        /\ intact = TRUE /\ contested = {}
        /\ batch = [c \in Calls |-> Clear]
        /\ status = [c \in Calls |-> "none"]

Request(c) == /\ status[c] = "none"
              /\ batch' \in [Calls -> Batches \cup {Clear}]
              /\ \A d \in Calls \ {c} : batch'[d] = batch[d]
              /\ status' = [status EXCEPT ![c] = "queued"]
              /\ UNCHANGED <<values, intact>>

\* The calls before c have taken effect, have failed or were lost.
MyTurn(c) == /\ status[c] = "queued"
             /\ \A d \in Calls : d < c => status[d] \notin {"none", "queued", "running"}

Commit(c) == /\ MyTurn(c) /\ batch[c] # Clear
             /\ Whole' => place = store
             /\ store' = [k \in Keys |-> IF k \in DOMAIN batch[c]
                                         THEN Effect(batch[c], c, k) ELSE place[k]]
             /\ status' = [status EXCEPT ![c] = "running"]
             /\ UNCHANGED <<place, intact, batch>>

BeginClear(c) == /\ MyTurn(c) /\ batch[c] = Clear
                 /\ status' = [status EXCEPT ![c] = "running"]
                 /\ UNCHANGED <<values, intact, batch>>

Write(k) == /\ place' = [place EXCEPT ![k] = store[k]]
            /\ UNCHANGED <<store, intact, batch, status>>

Erase(c, k) == /\ status[c] = "running" /\ batch[c] = Clear
               /\ place' = [place EXCEPT ![k] = Absent]
               /\ \/ store' = [store EXCEPT ![k] = Absent]
                  \/ ~Whole /\ store' = store
               /\ UNCHANGED <<intact, batch, status>>

\* The call has done all it was to do, and nothing else is still to be done.
Acknowledge(c) == /\ status[c] = "running"
                  /\ \A k \in Keys \ contested :
                        /\ place[k] = store[k]
                        /\ batch[c] = Clear => place[k] = Absent
                        /\ k \in DOMAIN batch[c] => place[k] = Effect(batch[c], c, k)
                  /\ store' = place
                  /\ status' = [status EXCEPT ![c] = "acked"]
                  /\ UNCHANGED <<place, intact, batch>>

\* A write fails, and the call with it; or one of those that make up for a crash.
Fail(c) == /\ MyTurn(c) \/ status[c] = "running"
           /\ batch[c] # Clear
           /\ status' = [status EXCEPT ![c] = "failed"]
           /\ intact' = FALSE
           /\ UNCHANGED <<values, batch>>

FailLate == intact' = FALSE /\ UNCHANGED <<values, batch, status>>

\* What a failed write or a late recovery kept from being put in place is given up.
Forget == ~Whole /\ store' = place /\ UNCHANGED <<place, intact, batch, status>>

\* A set() whose journal was taken away goes on without it.
Redo(c, k) == /\ status[c] = "running" /\ batch[c] # Clear /\ k \in DOMAIN batch[c]
              /\ contested # {}
              /\ place' = [place EXCEPT ![k] = Effect(batch[c], c, k)]
              /\ store' = [store EXCEPT ![k] = Effect(batch[c], c, k)]
              /\ UNCHANGED <<intact, batch, status>>

\* A late recovery brings back what was overwritten.
Revert(c, k) == /\ k \in contested /\ batch[c] # Clear /\ k \in DOMAIN batch[c]
                /\ place' = [place EXCEPT ![k] = Effect(batch[c], c, k)]
                /\ \/ store' = [store EXCEPT ![k] = Effect(batch[c], c, k)]
                   \/ store' = store
                /\ UNCHANGED <<intact, batch, status>>

\* Calls not yet begun never happen; one begun is not acknowledged any more.
Crash == /\ status' = [c \in Calls |-> IF status[c] \in {"queued", "running"}
                                       THEN "lost" ELSE status[c]]
         /\ UNCHANGED <<values, intact, batch>>

Steps == \/ Crash \/ FailLate \/ Forget
         \/ \E k \in Keys : Write(k)
         \/ \E c \in Calls :
                \/ Request(c) \/ Commit(c) \/ BeginClear(c) \/ Acknowledge(c) \/ Fail(c)
                \/ \E k \in Keys : Erase(c, k) \/ Redo(c, k) \/ Revert(c, k)

Next == contested \subseteq contested' /\ (Steps \/ UNCHANGED <<values, intact, batch, status>>)

Spec == Init /\ [][Next]_atomicVars
=============================================================================
