---------------------------- MODULE IqController ----------------------------
(***************************************************************************)
(* createIqController (src/Socket/iq-controller.ts): a promise per query,  *)
(* settled by the answer with its id, by a failed send, by its timer or by *)
(* cancelAll.  An IQ id is the query it was made for.                      *)
(***************************************************************************)
CONSTANT Queries

VARIABLES query,  \* per query: "waiting" while its waiter is in the map
          timer   \* per query: the waiter's timer is armed

iqVars == <<query, timer>>

IqTypeOK == /\ query \in [Queries -> {"none", "waiting", "answered", "failed"}]
            /\ timer \in [Queries -> BOOLEAN]

IqInit == /\ query = [q \in Queries |-> "none"]
          /\ timer = [q \in Queries |-> FALSE]

Settle(q, result) ==
    /\ query' = [query EXCEPT ![q] = result]
    /\ timer' = [timer EXCEPT ![q] = FALSE]

\* Mutant: the waiter has no timer.
QueryUntimed(q, sendOk) ==
    /\ query[q] = "none"
    /\ query' = [query EXCEPT ![q] = IF sendOk THEN "waiting" ELSE "failed"]
    /\ UNCHANGED timer

Query(q, sendOk) ==
    /\ query[q] = "none"
    /\ query' = [query EXCEPT ![q] = IF sendOk THEN "waiting" ELSE "failed"]
    /\ timer' = [timer EXCEPT ![q] = sendOk]

\* onPayload: an answer nobody waits for is ignored.
OnAnswer(q, isError) ==
    \/ /\ query[q] = "waiting"
       /\ Settle(q, IF isError THEN "failed" ELSE "answered")
    \/ query[q] # "waiting" /\ UNCHANGED iqVars

QueryTimeout(q) == timer[q] /\ Settle(q, "failed")

CancelQueries ==
    /\ query' = [q \in Queries |-> IF query[q] = "waiting" THEN "failed" ELSE query[q]]
    /\ timer' = [q \in Queries |-> FALSE]
=============================================================================
