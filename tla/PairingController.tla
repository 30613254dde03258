-------------------------- MODULE PairingController --------------------------
(***************************************************************************)
(* createPairingController (src/Socket/pairing-controller.ts): one call of *)
(* requestCode runs up to MaxAttempts sequential pairing IQs and its       *)
(* promise is settled by an answer, an error, the overall timer, the last  *)
(* failed send or cancelAll.  Handlers run to completion (one JavaScript   *)
(* thread), so every handler is one action; what interleaves is timers,    *)
(* answers, cancellations and calls.                                       *)
(*                                                                         *)
(* The IQ id of attempt n of request r is the pair <<r, n>>                *)
(* (generateMessageID is taken to be collision free).                      *)
(***************************************************************************)
EXTENDS Naturals

CONSTANTS Requests,     \* calls of requestCode
          MaxAttempts,  \* opts.maxAttempts, DEFAULT_PAIRING_MAX_ATTEMPTS = 3
          None          \* null

ASSUME PairingAssumption ==
    /\ MaxAttempts \in Nat \ {0}
    /\ None \notin Requests
    /\ None \notin Requests \X (1..MaxAttempts)

VARIABLES active,    \* the request that holds the lock, or None
          iqToFlow,  \* IQ id -> request of the flow it belongs to, or None
          flow,      \* per request: its ActiveFlow object
          outcome,   \* per request: state of the promise
          code,      \* per request: the IQ whose answer resolved the promise
          sent       \* pairing IQs handed to the transport

pairingVars == <<active, iqToFlow, flow, outcome, code, sent>>

Iqs == Requests \X (1..MaxAttempts)

Settled == {"code", "error"}

Flows == [ attempt : 0..MaxAttempts,
           iqIds : SUBSET Iqs,
           activeIqId : Iqs \cup {None},
           attemptTimer : {"off", "window", "retry"},
           \* "due": overallDeadline has passed, the timer has not run yet
           overallTimer : {"off", "armed", "due"} ]

\* The object before requestCode creates it and after it has been dropped.
NoFlow == [ attempt |-> 0, iqIds |-> {}, activeIqId |-> None,
            attemptTimer |-> "off", overallTimer |-> "off" ]

\* Domains: attempts stay within MaxAttempts, timers and promises in their states.
PairingTypeOK ==
    /\ active \in Requests \cup {None}
    /\ iqToFlow \in [Iqs -> Requests \cup {None}]
    /\ flow \in [Requests -> Flows]
    /\ outcome \in [Requests -> {"none", "pending"} \cup Settled]
    /\ code \in [Requests -> Iqs \cup {None}]
    /\ sent \subseteq Iqs

PairingInit ==
    /\ active = None
    /\ iqToFlow = [iq \in Iqs |-> None]
    /\ flow = [r \in Requests |-> NoFlow]
    /\ outcome = [r \in Requests |-> "none"]
    /\ code = [r \in Requests |-> None]
    /\ sent = {}

------------------------------------------------------------------------------
(* Settling.  cleanupFlow clears both timers, forgets the IQ ids and frees   *)
(* the lock if this flow holds it.                                           *)

\* Mutant: the lock is not freed.
CleanupKeepsLock(r) ==
    /\ flow' = [flow EXCEPT ![r] = NoFlow]
    /\ iqToFlow' = [iq \in Iqs |->
                      IF iq \in flow[r].iqIds THEN None ELSE iqToFlow[iq]]
    /\ UNCHANGED active

\* Mutant: the IQ ids stay in the map.
CleanupKeepsIds(r) ==
    /\ flow' = [flow EXCEPT ![r] = NoFlow]
    /\ UNCHANGED iqToFlow
    /\ active' = IF active = r THEN None ELSE active

CleanupFlow(r) ==
    /\ flow' = [flow EXCEPT ![r] = NoFlow]
    /\ iqToFlow' = [iq \in Iqs |->
                      IF iq \in flow[r].iqIds THEN None ELSE iqToFlow[iq]]
    /\ active' = IF active = r THEN None ELSE active

SettleReject(r) ==
    /\ outcome' = [outcome EXCEPT ![r] = "error"]
    /\ CleanupFlow(r)
    /\ UNCHANGED code

SettleResolve(r, iq) ==
    /\ outcome' = [outcome EXCEPT ![r] = "code"]
    /\ code' = [code EXCEPT ![r] = iq]
    /\ CleanupFlow(r)

------------------------------------------------------------------------------
(* runAttempt(n) of the flow of r, whose object on entry is f.  sendOk says  *)
(* whether opts.send returned or threw.                                      *)

\* The clock reads past overallDeadline, or the attempts are used up.
AttemptRefused(f, n) == f.overallTimer = "due" \/ n > MaxAttempts

\* The flow holds the lock and waits: for an answer, a window or a retry.
Await(r, f, n, activeIqId, timer, overall) ==
    /\ active' = r
    /\ outcome' = [outcome EXCEPT ![r] = "pending"]
    /\ iqToFlow' = [iqToFlow EXCEPT ![<<r, n>>] = r]
    /\ flow' = [flow EXCEPT ![r] =
                  [ attempt |-> n,
                    iqIds |-> f.iqIds \cup {<<r, n>>},
                    activeIqId |-> activeIqId,
                    attemptTimer |-> timer,
                    overallTimer |-> overall ]]
    /\ UNCHANGED code

\* Sent: the attempt gets a window, unless it is the last one or no time
\* remains before the deadline (attemptWindow = 0).
AttemptSent(r, f, n) ==
    /\ sent' = sent \cup {<<r, n>>}
    /\ \/ n < MaxAttempts /\ Await(r, f, n, <<r, n>>, "window", f.overallTimer)
       \/ n = MaxAttempts /\ Await(r, f, n, <<r, n>>, "off", f.overallTimer)
       \/ Await(r, f, n, <<r, n>>, "off", "due")

\* Not sent: no attempt is active; retry after a delay or give up.
AttemptSendFailed(r, f, n) ==
    /\ UNCHANGED sent
    /\ \/ n < MaxAttempts /\ Await(r, f, n, None, "retry", f.overallTimer)
       \/ n >= MaxAttempts /\ SettleReject(r)

RunAttempt(r, f, n, sendOk) ==
    \/ AttemptRefused(f, n) /\ SettleReject(r) /\ UNCHANGED sent
    \/ ~AttemptRefused(f, n) /\ sendOk /\ AttemptSent(r, f, n)
    \/ ~AttemptRefused(f, n) /\ ~sendOk /\ AttemptSendFailed(r, f, n)

------------------------------------------------------------------------------
(* The controller's interface.                                               *)

RequestRefused(r, registered, phoneOk) ==
    /\ registered \/ active # None \/ ~phoneOk
    /\ outcome' = [outcome EXCEPT ![r] = "error"]
    /\ UNCHANGED <<active, iqToFlow, flow, code, sent>>

\* Mutant: a second request does not see the lock.
RequestCodeUnlocked(r, registered, phoneOk, sendOk) ==
    /\ outcome[r] = "none"
    /\ \/ (registered \/ ~phoneOk) /\ RequestRefused(r, registered, phoneOk)
       \/ /\ ~registered /\ phoneOk
          /\ RunAttempt(r, [NoFlow EXCEPT !.overallTimer = "armed"], 1, sendOk)

\* Mutant: the overall timer is not armed.
RequestCodeUntimed(r, registered, phoneOk, sendOk) ==
    /\ outcome[r] = "none"
    /\ \/ RequestRefused(r, registered, phoneOk)
       \/ /\ ~registered /\ active = None /\ phoneOk
          /\ RunAttempt(r, NoFlow, 1, sendOk)

RequestCode(r, registered, phoneOk, sendOk) ==
    /\ outcome[r] = "none"
    /\ \/ RequestRefused(r, registered, phoneOk)
       \/ /\ ~registered /\ active = None /\ phoneOk
          /\ RunAttempt(r, [NoFlow EXCEPT !.overallTimer = "armed"], 1, sendOk)

CancelAll ==
    \/ active = None /\ UNCHANGED pairingVars
    \/ active # None /\ SettleReject(active) /\ UNCHANGED sent

\* Mutant: the only request in progress takes any answer.
MatchedByLock(iq) == IF iq \in Iqs THEN active ELSE None

\* Mutant: answers to expired attempts are taken.
MatchedById(iq) == IF iq \in Iqs THEN iqToFlow[iq] ELSE None

\* Which flow an answer with IQ id iq may settle, or None: unknown ids are
\* ignored, and so are ids other than activeIqId while one is set.
MatchedFlow(iq) ==
    IF /\ iq \in Iqs
       /\ iqToFlow[iq] # None
       /\ flow[iqToFlow[iq]].activeIqId \in {None, iq}
    THEN iqToFlow[iq]
    ELSE None

\* A frame with IQ id iq; kind is "code", "error" or "empty" (neither).
OnPayload(iq, kind) ==
    LET r == MatchedFlow(iq)
    IN \/ r = None /\ UNCHANGED pairingVars
       \/ /\ r # None
          /\ \/ kind = "code" /\ SettleResolve(r, iq)
             \/ kind # "code" /\ SettleReject(r)
          /\ UNCHANGED sent

IsActiveIq(iq) == active # None /\ iq # None /\ flow[active].activeIqId = iq

------------------------------------------------------------------------------
(* Timers.                                                                   *)

\* The attempt's window elapsed: expire the attempt, try the next one.
WindowElapsed(r, sendOk) ==
    /\ flow[r].attemptTimer = "window"
    /\ outcome[r] \notin Settled
    /\ RunAttempt(r, [flow[r] EXCEPT !.attemptTimer = "off", !.activeIqId = None],
                  flow[r].attempt + 1, sendOk)

\* The delay after a failed send is over.
RetryDue(r, sendOk) ==
    /\ flow[r].attemptTimer = "retry"
    /\ outcome[r] \notin Settled
    /\ RunAttempt(r, [flow[r] EXCEPT !.attemptTimer = "off"],
                  flow[r].attempt + 1, sendOk)

DeadlinePasses(r) ==
    /\ flow[r].overallTimer = "armed"
    /\ flow' = [flow EXCEPT ![r].overallTimer = "due"]
    /\ UNCHANGED <<active, iqToFlow, outcome, code, sent>>

OverallTimeout(r) ==
    /\ flow[r].overallTimer = "due"
    /\ outcome[r] \notin Settled
    /\ SettleReject(r)
    /\ UNCHANGED sent

AttemptTimer(r, sendOk) == WindowElapsed(r, sendOk) \/ RetryDue(r, sendOk)

------------------------------------------------------------------------------
(* The controller on its own, under any caller, transport and server: the    *)
(* server may answer any IQ it was sent, at any time and more than once, and *)
(* may send frames whose id matches nothing.                                 *)

Request(r) == \E registered, phoneOk, sendOk \in BOOLEAN :
                 RequestCode(r, registered, phoneOk, sendOk)

Answer == \E iq \in sent \cup {None}, kind \in {"code", "error", "empty"} :
             OnPayload(iq, kind)

PairingNext ==
    \/ \E r \in Requests :
         \/ Request(r)
         \/ \E sendOk \in BOOLEAN : AttemptTimer(r, sendOk)
         \/ DeadlinePasses(r)
         \/ OverallTimeout(r)
    \/ Answer
    \/ CancelAll

\* Time passes and an expired setTimeout is run by the event loop.
PairingFairness ==
    \A r \in Requests : /\ WF_pairingVars(DeadlinePasses(r))
                        /\ WF_pairingVars(OverallTimeout(r))

PairingSpec == PairingInit /\ [][PairingNext]_pairingVars /\ PairingFairness

------------------------------------------------------------------------------
(* Properties.                                                               *)

\* The lock is held by exactly the request whose promise is pending: no call
\* is left waiting without the lock, and no settled call keeps others out.
LockHeldWhilePending ==
    \A r \in Requests : (outcome[r] = "pending") <=> (active = r)

\* iqToFlow knows exactly the ids of the flow in progress: nothing of a
\* finished flow can match a late answer ("full cleanup", header line 10).
MapMatchesActiveFlow ==
    \A iq \in Iqs :
        iqToFlow[iq] = IF active # None /\ iq \in flow[active].iqIds
                       THEN active ELSE None

\* Only the flow in progress owns timers, and it always owns the overall one:
\* no settled flow can still send, no pending one can wait for ever.
TimersBelongToLockHolder ==
    \A r \in Requests :
        /\ r # active => flow[r].attemptTimer = "off"
        /\ (flow[r].overallTimer # "off") <=> (r = active)

\* A code given to a caller answers an IQ that was really sent for that call
\* (header line 8: "response only accepted on exact IQ id match").
CodeAnswersOwnIq ==
    \A r \in Requests :
        outcome[r] = "code" => /\ code[r] \in sent
                               /\ code[r][1] = r

\* An attempt that is awaited was sent, and is the newest of its flow
\* ("sequential retries", header line 9).
AwaitedAttemptIsNewest ==
    \A r \in Requests :
        LET iq == flow[r].activeIqId
        IN iq # None => /\ iq \in sent
                        /\ \A m \in (iq[2] + 1)..MaxAttempts :
                              <<r, m>> \notin sent \cup flow[r].iqIds

\* While every IQ of a flow could be sent, only the newest of them can resolve
\* it: an answer that arrives after its window elapsed is ignored ("stale
\* responses after timeout ... are ignored", header line 9).
NewestAttemptResolves ==
    [][\A r \in Requests :
          (outcome[r] = "pending" /\ outcome'[r] = "code"
             /\ flow[r].iqIds \subseteq sent)
          => \A m \in 1..MaxAttempts :
                <<r, m>> \in sent => m <= code'[r][2]]_pairingVars

\* Every call gets an answer or an error in the end.
EveryRequestSettles ==
    \A r \in Requests : (outcome[r] = "pending") ~> (outcome[r] \in Settled)

\* The controller keeps the promise of PairingPromise: every step of it is a
\* step, or a stutter, of that abstract specification.
Promise == INSTANCE PairingPromise WITH holder <- active
KeepsPromise == Promise!Spec
==============================================================================
