--------------------------- MODULE PairingPromise ---------------------------
(***************************************************************************)
(* What the pairing-code controller promises its callers, without timers,  *)
(* retries or bookkeeping (src/Socket/pairing-controller.ts, header):      *)
(* at most one request is in progress; a request ends exactly once, with a *)
(* code that answers an IQ sent for that very request or with an error;    *)
(* attempts are numbered upwards; no IQ is sent for a request that ended.  *)
(***************************************************************************)
EXTENDS Naturals

CONSTANTS Requests,     \* calls of requestPairingCode
          MaxAttempts,  \* IQs one request may send
          None          \* "no request", "no IQ"

VARIABLES holder,   \* the request in progress, or None
          outcome,  \* per request: not made, pending, or how its promise ended
          code,     \* per request: the IQ whose answer carried the code
          sent      \* the pairing IQs handed to the transport

vars == <<holder, outcome, code, sent>>

Iqs == Requests \X (1..MaxAttempts)

Init == /\ holder = None
        /\ outcome = [r \in Requests |-> "none"]
        /\ code = [r \in Requests |-> None]
        /\ sent = {}

\* The request takes the lock and may send its first IQ in the same step.
Begin(r) == /\ holder = None
            /\ outcome[r] = "none"
            /\ holder' = r
            /\ outcome' = [outcome EXCEPT ![r] = "pending"]
            /\ sent' \in {sent, sent \cup {<<r, 1>>}}
            /\ UNCHANGED code

\* Refused: registered, busy, invalid phone number, or nothing could be sent.
Refuse(r) == /\ outcome[r] = "none"
             /\ outcome' = [outcome EXCEPT ![r] = "error"]
             /\ UNCHANGED <<holder, code, sent>>

\* The next attempt of the request in progress, numbered above all before it.
Ask(r, n) == /\ holder = r
             /\ \A m \in n..MaxAttempts : <<r, m>> \notin sent
             /\ sent' = sent \cup {<<r, n>>}
             /\ UNCHANGED <<holder, outcome, code>>

Answer(r, iq) == /\ holder = r
                 /\ iq \in sent
                 /\ iq[1] = r
                 /\ holder' = None
                 /\ outcome' = [outcome EXCEPT ![r] = "code"]
                 /\ code' = [code EXCEPT ![r] = iq]
                 /\ UNCHANGED sent

Fail(r) == /\ holder = r
           /\ holder' = None
           /\ outcome' = [outcome EXCEPT ![r] = "error"]
           /\ UNCHANGED <<code, sent>>

Next == \E r \in Requests :
          \/ Begin(r)
          \/ Refuse(r)
          \/ Fail(r)
          \/ \E iq \in Iqs : Answer(r, iq)
          \/ \E n \in 1..MaxAttempts : Ask(r, n)

Spec == Init /\ [][Next]_vars
=============================================================================
