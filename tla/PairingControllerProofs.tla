---------------------- MODULE PairingControllerProofs ----------------------
(***************************************************************************)
(* Proofs about PairingController, for any set of requests and any number  *)
(* of attempts.  The inductive invariant IInv says that the object of the  *)
(* flow in progress, iqToFlow and the history of sent IQs describe the     *)
(* same attempts, and that every other flow object is blank.               *)
(***************************************************************************)
EXTENDS PairingController, TLAPS

\* A flow that does not hold the lock has been cleaned up or not created yet.
OtherFlowsBlank == \A r \in Requests : r # active => flow[r] = NoFlow

\* The flow in progress has made an attempt and owns the overall timer.
ActiveFlowRuns ==
    active # None => /\ flow[active].attempt \in 1..MaxAttempts
                     /\ flow[active].overallTimer \in {"armed", "due"}

\* Its IQ ids are its own, up to the current attempt.
IdsOfActiveFlow ==
    active # None =>
        \A iq \in flow[active].iqIds :
            iq[1] = active /\ iq[2] <= flow[active].attempt

\* The awaited IQ is that of the current attempt and was sent; when none is
\* awaited, the current attempt's IQ was not sent.
ActiveIqIsCurrent ==
    active # None =>
        LET f == flow[active]
            iq == <<active, f.attempt>>
        IN /\ iq \in f.iqIds
           /\ \/ f.activeIqId = iq /\ iq \in sent
              \/ f.activeIqId = None /\ iq \notin sent

\* What was sent belongs to a call that was made; what the flow in progress
\* sent is among its ids.
SentIdsKnown ==
    \A iq \in sent :
        /\ outcome[iq[1]] # "none"
        /\ iq[1] = active => iq \in flow[active].iqIds

IInv == /\ PairingTypeOK
        /\ LockHeldWhilePending
        /\ OtherFlowsBlank
        /\ ActiveFlowRuns
        /\ IdsOfActiveFlow
        /\ ActiveIqIsCurrent
        /\ SentIdsKnown
        /\ MapMatchesActiveFlow
        /\ CodeAnswersOwnIq


----------------------------------------------------------------------------
(* Facts about the data the controller works on.                            *)

\* An IQ id is the pair of its request and its attempt number.
LEMMA IqPairs ==
    ASSUME NEW iq \in Iqs
    PROVE  /\ iq[1] \in Requests
           /\ iq[2] \in 1..MaxAttempts
           /\ iq = <<iq[1], iq[2]>>
           /\ iq # None
BY PairingAssumption DEF Iqs

\* The dropped flow object is a flow object.
LEMMA NoFlowType == NoFlow \in Flows
BY PairingAssumption DEF NoFlow, Flows

----------------------------------------------------------------------------
(* Settling a flow, whether it holds the lock or is refused at its first    *)
(* attempt, re-establishes the invariant.                                   *)

\* cleanupFlow leaves no trace of the flow it settles.
LEMMA CleanupInv ==
    ASSUME IInv, NEW r \in Requests, active \in {r, None}, CleanupFlow(r)
    PROVE  /\ active' = None
           /\ flow' = [q \in Requests |-> NoFlow]
           /\ iqToFlow' = [iq \in Iqs |-> None]
<1>1. active' = None
  BY DEF CleanupFlow
<1>2. flow' = [q \in Requests |-> NoFlow]
  BY PairingAssumption DEF CleanupFlow, IInv, OtherFlowsBlank, PairingTypeOK
<1>3. ASSUME NEW iq \in Iqs PROVE iq \in flow[r].iqIds \/ iqToFlow[iq] = None
  <2>1. CASE active = r
    BY <2>1, PairingAssumption DEF IInv, MapMatchesActiveFlow
  <2>2. CASE active = None
    BY <2>2 DEF IInv, MapMatchesActiveFlow
  <2>3. QED BY <2>1, <2>2
<1>4. iqToFlow' = [iq \in Iqs |-> None]
  BY <1>3 DEF CleanupFlow
<1>5. QED BY <1>1, <1>2, <1>4

\* A blank controller whose only settled call is r satisfies the invariant.
LEMMA SettleInv ==
    ASSUME IInv, NEW r \in Requests, active \in {r, None},
           UNCHANGED sent,
           \/ SettleReject(r)
           \/ \E iq \in sent : iq[1] = r /\ SettleResolve(r, iq)
    PROVE  IInv'
<1> USE PairingAssumption
<1>1. /\ active' = None
      /\ flow' = [q \in Requests |-> NoFlow]
      /\ iqToFlow' = [iq \in Iqs |-> None]
  BY CleanupInv DEF SettleReject, SettleResolve
<1>2. /\ outcome' \in [Requests -> {"none", "pending"} \cup Settled]
      /\ outcome'[r] \in Settled
      /\ \A q \in Requests \ {r} : outcome'[q] = outcome[q]
      /\ code' \in [Requests -> Iqs \cup {None}]
  BY DEF SettleReject, SettleResolve, Settled, IInv, PairingTypeOK
<1>3. PairingTypeOK'
  BY <1>1, <1>2, NoFlowType DEF IInv, PairingTypeOK
<1>4. LockHeldWhilePending'
  BY <1>1, <1>2 DEF IInv, LockHeldWhilePending, Settled, PairingTypeOK
<1>5. SentIdsKnown'
  <2>1. ASSUME NEW iq \in sent PROVE outcome'[iq[1]] # "none" /\ iq[1] # None
    BY <1>2, IqPairs DEF IInv, SentIdsKnown, PairingTypeOK, Settled
  <2>2. QED BY <1>1, <2>1 DEF SentIdsKnown
<1>6. MapMatchesActiveFlow'
  BY <1>1 DEF MapMatchesActiveFlow
<1>7. CodeAnswersOwnIq'
  BY DEF SettleReject, SettleResolve, IInv, CodeAnswersOwnIq, PairingTypeOK
<1>8. OtherFlowsBlank' /\ ActiveFlowRuns' /\ IdsOfActiveFlow' /\ ActiveIqIsCurrent'
  BY <1>1 DEF OtherFlowsBlank, ActiveFlowRuns, IdsOfActiveFlow, ActiveIqIsCurrent
<1>9. QED BY <1>3, <1>4, <1>5, <1>6, <1>7, <1>8 DEF IInv

----------------------------------------------------------------------------
(* Running attempt n of the flow of r, which holds the lock or takes it.    *)

MayRun(r, f, n) ==
    /\ active \in {r, None}
    /\ outcome[r] \notin Settled
    /\ f.iqIds = flow[r].iqIds
    /\ n = flow[r].attempt + 1

\* The attempt's id is new: it was neither sent nor tried before.
LEMMA NewId ==
    ASSUME IInv, NEW r \in Requests, NEW f, NEW n \in 1..MaxAttempts,
           MayRun(r, f, n)
    PROVE  /\ <<r, n>> \in Iqs
           /\ <<r, n>> \notin sent
           /\ \A iq \in flow[r].iqIds : iq \in Iqs /\ iq[1] = r /\ iq[2] <= n
           /\ active = None => flow[r] = NoFlow
           /\ \A iq \in sent : iq[1] = r => iq \in flow[r].iqIds
<1> USE PairingAssumption
<1>1. <<r, n>> \in Iqs
  BY DEF Iqs
<1>2. flow[r] \in Flows
  BY DEF IInv, PairingTypeOK
<1>3. CASE active = r
  <2>1. \A iq \in flow[r].iqIds :
            iq \in Iqs /\ iq[1] = r /\ iq[2] < n /\ iq[2] <= n
    BY <1>2, <1>3, IqPairs DEF IInv, IdsOfActiveFlow, MayRun, Flows
  <2>2. \A iq \in sent : iq[1] = r => iq \in flow[r].iqIds
    BY <1>3 DEF IInv, SentIdsKnown
  <2>3. <<r, n>> \notin sent
    BY <2>1, <2>2
  <2>4. QED BY <1>1, <1>3, <2>1, <2>2, <2>3
<1>4. CASE active = None
  <2>1. flow[r] = NoFlow
    BY <1>4 DEF IInv, OtherFlowsBlank
  <2>2. outcome[r] = "none"
    BY <1>4 DEF IInv, LockHeldWhilePending, MayRun, PairingTypeOK
  <2>3. \A iq \in sent : iq[1] # r
    BY <2>2 DEF IInv, SentIdsKnown
  <2>4. <<r, n>> \notin sent
    BY <2>3
  <2>5. QED BY <1>1, <2>1, <2>3, <2>4 DEF NoFlow
<1>5. QED BY <1>3, <1>4 DEF MayRun

\* Sending an attempt keeps the invariant.
LEMMA AwaitInv ==
    ASSUME IInv, NEW r \in Requests, NEW f \in Flows, NEW n \in 1..MaxAttempts,
           MayRun(r, f, n),
           NEW activeIqId, NEW timer \in {"off", "window", "retry"},
           NEW overall \in {"armed", "due"},
           Await(r, f, n, activeIqId, timer, overall),
           \/ activeIqId = <<r, n>> /\ sent' = sent \cup {<<r, n>>}
           \/ activeIqId = None /\ sent' = sent
    PROVE  IInv'
<1> USE PairingAssumption
<1> DEFINE g == [ attempt |-> n,
                  iqIds |-> f.iqIds \cup {<<r, n>>},
                  activeIqId |-> activeIqId,
                  attemptTimer |-> timer,
                  overallTimer |-> overall ]
<1>1. /\ active' = r
      /\ flow' = [flow EXCEPT ![r] = g]
      /\ outcome' = [outcome EXCEPT ![r] = "pending"]
      /\ iqToFlow' = [iqToFlow EXCEPT ![<<r, n>>] = r]
      /\ code' = code
  BY DEF Await
<1>2. /\ <<r, n>> \in Iqs
      /\ <<r, n>> \notin sent
      /\ \A iq \in flow[r].iqIds : iq \in Iqs /\ iq[1] = r /\ iq[2] <= n
      /\ active = None => flow[r] = NoFlow
      /\ \A iq \in sent : iq[1] = r => iq \in flow[r].iqIds
      /\ f.iqIds = flow[r].iqIds
  BY NewId DEF MayRun
<1>3. g \in Flows
  BY <1>2 DEF Flows
<1>4. /\ flow'[r] = g
      /\ \A q \in Requests \ {r} : flow'[q] = NoFlow
      /\ outcome'[r] = "pending"
      /\ \A q \in Requests \ {r} : outcome'[q] = outcome[q] /\ outcome[q] # "pending"
  BY <1>1 DEF IInv, PairingTypeOK, OtherFlowsBlank, LockHeldWhilePending, MayRun
<1>5. PairingTypeOK'
  BY <1>1, <1>2, <1>3 DEF IInv, PairingTypeOK
<1>6. LockHeldWhilePending' /\ OtherFlowsBlank'
  BY <1>1, <1>4 DEF LockHeldWhilePending, OtherFlowsBlank
<1>7. ActiveFlowRuns' /\ IdsOfActiveFlow' /\ ActiveIqIsCurrent'
  BY <1>1, <1>2, <1>4 DEF ActiveFlowRuns, IdsOfActiveFlow, ActiveIqIsCurrent
<1>8. SentIdsKnown'
  <2>1. ASSUME NEW iq \in sent'
        PROVE  /\ outcome'[iq[1]] # "none"
               /\ iq[1] = r => iq \in g.iqIds
    <3>1. CASE iq = <<r, n>>
      BY <3>1, <1>4
    <3>2. CASE iq \in sent
      <4>1. outcome[iq[1]] # "none" /\ iq[1] \in Requests
        BY <3>2, IqPairs DEF IInv, SentIdsKnown, PairingTypeOK
      <4>2. QED BY <3>2, <4>1, <1>2, <1>4
    <3>3. QED BY <3>1, <3>2
  <2>2. QED BY <2>1, <1>1, <1>4 DEF SentIdsKnown
<1>9. MapMatchesActiveFlow'
  <2>1. ASSUME NEW iq \in Iqs
        PROVE  iqToFlow'[iq] = IF iq \in g.iqIds THEN r ELSE None
    <3>1. iqToFlow[iq] = IF iq \in flow[r].iqIds THEN r ELSE None
      <4>1. CASE active = r
        BY <4>1 DEF IInv, MapMatchesActiveFlow
      <4>2. CASE active = None
        BY <4>2, <1>2 DEF IInv, MapMatchesActiveFlow, NoFlow
      <4>3. QED BY <4>1, <4>2 DEF MayRun
    <3>2. iqToFlow'[iq] = IF iq = <<r, n>> THEN r ELSE iqToFlow[iq]
      BY <1>1, <1>2 DEF IInv, PairingTypeOK
    <3>3. QED BY <3>1, <3>2, <1>2
  <2>2. QED BY <2>1, <1>1, <1>4 DEF MapMatchesActiveFlow
<1>10. CodeAnswersOwnIq'
  BY <1>1, <1>4 DEF IInv, CodeAnswersOwnIq, PairingTypeOK
<1>11. QED BY <1>5, <1>6, <1>7, <1>8, <1>9, <1>10 DEF IInv

\* Whatever runAttempt does, settling or sending, keeps the invariant.
LEMMA RunAttemptInv ==
    ASSUME IInv, NEW r \in Requests, NEW f \in Flows, NEW n \in Nat,
           MayRun(r, f, n), f.overallTimer \in {"armed", "due"},
           NEW sendOk \in BOOLEAN, RunAttempt(r, f, n, sendOk)
    PROVE  IInv'
<1> USE PairingAssumption
<1>1. CASE SettleReject(r) /\ UNCHANGED sent
  BY <1>1, SettleInv DEF MayRun
<1>2. CASE ~AttemptRefused(f, n) /\ AttemptSent(r, f, n)
  <2>1. n \in 1..MaxAttempts /\ sent' = sent \cup {<<r, n>>}
    BY <1>2 DEF AttemptRefused, AttemptSent, MayRun, IInv, PairingTypeOK, Flows
  <2>2. PICK timer \in {"off", "window"}, overall \in {"armed", "due"} :
          Await(r, f, n, <<r, n>>, timer, overall)
    BY <1>2 DEF AttemptSent
  <2>3. QED BY <2>1, <2>2, AwaitInv
<1>3. CASE /\ ~AttemptRefused(f, n)
           /\ Await(r, f, n, None, "retry", f.overallTimer)
           /\ UNCHANGED sent
  <2>1. n \in 1..MaxAttempts
    BY <1>3 DEF AttemptRefused, MayRun, IInv, PairingTypeOK, Flows
  <2>2. QED BY <1>3, <2>1, AwaitInv
<1>4. QED BY <1>1, <1>2, <1>3 DEF RunAttempt, AttemptSendFailed

----------------------------------------------------------------------------
(* The theorems.                                                            *)

\* The initial state satisfies the invariant.
LEMMA InitInv == PairingInit => IInv
BY PairingAssumption, NoFlowType
   DEF PairingInit, IInv, PairingTypeOK, LockHeldWhilePending, OtherFlowsBlank,
       ActiveFlowRuns, IdsOfActiveFlow, ActiveIqIsCurrent, SentIdsKnown,
       MapMatchesActiveFlow, CodeAnswersOwnIq, Settled

\* What the lock holder's flow looks like to its timers.
LEMMA TimerMayRun ==
    ASSUME IInv, NEW r \in Requests, flow[r].overallTimer # "off"
           \/ flow[r].attemptTimer # "off"
    PROVE  /\ active = r
           /\ flow[r] \in Flows
           /\ flow[r].overallTimer \in {"armed", "due"}
           /\ flow[r].attempt + 1 \in Nat
           /\ outcome[r] = "pending"
BY PairingAssumption
   DEF IInv, OtherFlowsBlank, NoFlow, ActiveFlowRuns, PairingTypeOK, Flows,
       LockHeldWhilePending

\* Every step runs an attempt, refuses a call, lets the deadline pass, settles
\* the flow in progress, or changes nothing.
RunsAttempt == \E r \in Requests, f \in Flows, n \in Nat, sendOk \in BOOLEAN :
                  /\ MayRun(r, f, n)
                  /\ f.overallTimer \in {"armed", "due"}
                  /\ RunAttempt(r, f, n, sendOk)
RefusesCall == \E r \in Requests, registered, phoneOk \in BOOLEAN :
                  outcome[r] = "none" /\ RequestRefused(r, registered, phoneOk)
DeadlineStep == \E r \in Requests : DeadlinePasses(r)
SettlesActive ==
    /\ active \in Requests
    /\ UNCHANGED sent
    /\ \/ SettleReject(active)
       \/ \E iq \in sent : /\ iq \in flow[active].iqIds
                            /\ flow[active].activeIqId \in {None, iq}
                            /\ SettleResolve(active, iq)

\* Every step settles the pending call, sends its next attempt, or only moves a timer.
LEMMA StepShape ==
    IInv /\ [PairingNext]_pairingVars
      => RunsAttempt \/ RefusesCall \/ DeadlineStep \/ SettlesActive \/ UNCHANGED pairingVars
<1> SUFFICES ASSUME IInv, [PairingNext]_pairingVars
             PROVE  RunsAttempt \/ RefusesCall \/ DeadlineStep \/ SettlesActive
                      \/ UNCHANGED pairingVars
  OBVIOUS
<1> USE PairingAssumption
<1>1. ASSUME NEW r \in Requests, Request(r) PROVE RefusesCall \/ RunsAttempt
  <2>1. PICK registered \in BOOLEAN, phoneOk \in BOOLEAN, sendOk \in BOOLEAN :
          RequestCode(r, registered, phoneOk, sendOk)
    BY <1>1 DEF Request
  <2>2. CASE RequestRefused(r, registered, phoneOk)
    BY <2>1, <2>2 DEF RequestCode, RefusesCall
  <2>3. CASE ~RequestRefused(r, registered, phoneOk)
    <3> DEFINE f == [NoFlow EXCEPT !.overallTimer = "armed"]
    <3>1. active = None /\ RunAttempt(r, f, 1, sendOk) /\ outcome[r] = "none"
      BY <2>1, <2>3 DEF RequestCode
    <3>2. f \in Flows /\ f.overallTimer = "armed" /\ f.iqIds = {}
      BY NoFlowType DEF NoFlow, Flows
    <3>3. flow[r] = NoFlow
      BY <3>1 DEF IInv, OtherFlowsBlank
    <3>4. MayRun(r, f, 1)
      BY <3>1, <3>2, <3>3 DEF MayRun, NoFlow, Settled
    <3>5. QED BY <3>1, <3>2, <3>4 DEF RunsAttempt
  <2>4. QED BY <2>2, <2>3
<1>2. ASSUME NEW r \in Requests, NEW sendOk \in BOOLEAN, AttemptTimer(r, sendOk)
      PROVE  RunsAttempt
  <2> DEFINE n == flow[r].attempt + 1
  <2>1. /\ active = r /\ flow[r] \in Flows /\ outcome[r] = "pending"
        /\ flow[r].overallTimer \in {"armed", "due"}
        /\ n \in Nat
    BY <1>2, TimerMayRun DEF AttemptTimer, WindowElapsed, RetryDue
  <2>2. PICK f \in Flows : /\ f.iqIds = flow[r].iqIds
                           /\ f.overallTimer = flow[r].overallTimer
                           /\ RunAttempt(r, f, n, sendOk)
    <3>1. CASE WindowElapsed(r, sendOk)
      BY <2>1, <3>1 DEF WindowElapsed, Flows
    <3>2. CASE RetryDue(r, sendOk)
      BY <2>1, <3>2 DEF RetryDue, Flows
    <3>3. QED BY <1>2, <3>1, <3>2 DEF AttemptTimer
  <2>3. MayRun(r, f, n)
    BY <2>1, <2>2 DEF MayRun, Settled
  <2>4. QED BY <2>1, <2>2, <2>3 DEF RunsAttempt
<1>3. ASSUME NEW r \in Requests, OverallTimeout(r) PROVE SettlesActive
  BY <1>3, TimerMayRun DEF OverallTimeout, SettlesActive
<1>4. CASE Answer
  <2>1. PICK iq \in sent \cup {None}, kind \in {"code", "error", "empty"} :
          OnPayload(iq, kind)
    BY <1>4 DEF Answer
  <2>2. CASE MatchedFlow(iq) = None
    BY <2>1, <2>2 DEF OnPayload
  <2>3. CASE MatchedFlow(iq) # None
    <3>1. /\ iq \in sent /\ MatchedFlow(iq) = active /\ active \in Requests
          /\ iq \in flow[active].iqIds
          /\ flow[active].activeIqId \in {None, iq}
      BY <2>1, <2>3 DEF MatchedFlow, IInv, MapMatchesActiveFlow, PairingTypeOK, Iqs
    <3>2. QED BY <2>1, <2>3, <3>1 DEF OnPayload, SettlesActive
  <2>4. QED BY <2>2, <2>3
<1>5. CASE CancelAll
  BY <1>5 DEF CancelAll, SettlesActive, IInv, PairingTypeOK
<1>6. QED
  BY <1>1, <1>2, <1>3, <1>4, <1>5 DEF PairingNext, DeadlineStep

\* Every step keeps the invariant.
LEMMA NextInv == IInv /\ [PairingNext]_pairingVars => IInv'
<1> SUFFICES ASSUME IInv, [PairingNext]_pairingVars PROVE IInv'
  OBVIOUS
<1> USE PairingAssumption
<1>1. CASE RunsAttempt
  BY <1>1, RunAttemptInv DEF RunsAttempt
<1>2. CASE RefusesCall
  <2>1. PICK r \in Requests, registered \in BOOLEAN, phoneOk \in BOOLEAN :
          outcome[r] = "none" /\ RequestRefused(r, registered, phoneOk)
    BY <1>2 DEF RefusesCall
  <2>2. /\ outcome[r] = "none" /\ active # r
        /\ outcome' \in [Requests -> {"none", "pending"} \cup Settled]
        /\ outcome'[r] = "error"
        /\ \A q \in Requests \ {r} : outcome'[q] = outcome[q]
        /\ UNCHANGED <<active, iqToFlow, flow, code, sent>>
    BY <2>1 DEF RequestRefused, IInv, PairingTypeOK, Settled, LockHeldWhilePending
  <2>3. PairingTypeOK' /\ LockHeldWhilePending'
    BY <2>2 DEF IInv, PairingTypeOK, LockHeldWhilePending
  <2>4. /\ OtherFlowsBlank' /\ ActiveFlowRuns' /\ IdsOfActiveFlow'
        /\ ActiveIqIsCurrent' /\ MapMatchesActiveFlow'
    BY <2>2 DEF IInv, OtherFlowsBlank, ActiveFlowRuns, IdsOfActiveFlow,
       ActiveIqIsCurrent, MapMatchesActiveFlow
  <2>5. SentIdsKnown'
    BY <2>2, IqPairs DEF IInv, SentIdsKnown, PairingTypeOK
  <2>6. CodeAnswersOwnIq'
    BY <2>2 DEF IInv, CodeAnswersOwnIq
  <2>7. QED BY <2>3, <2>4, <2>5, <2>6 DEF IInv
<1>3. CASE DeadlineStep
  <2>1. PICK r \in Requests : DeadlinePasses(r)
    BY <1>3 DEF DeadlineStep
  <2>2. active = r /\ flow[r] \in Flows
    BY <2>1, TimerMayRun DEF DeadlinePasses
  <2>3. /\ flow' = [flow EXCEPT ![r] = [flow[r] EXCEPT !.overallTimer = "due"]]
        /\ UNCHANGED <<active, iqToFlow, outcome, code, sent>>
    BY <2>1 DEF DeadlinePasses
  <2>4. /\ flow'[r] \in Flows
        /\ flow'[r].overallTimer = "due"
        /\ flow'[r].attempt = flow[r].attempt
        /\ flow'[r].iqIds = flow[r].iqIds
        /\ flow'[r].activeIqId = flow[r].activeIqId
        /\ \A q \in Requests \ {r} : flow'[q] = flow[q]
        /\ flow' \in [Requests -> Flows]
    BY <2>2, <2>3 DEF Flows, IInv, PairingTypeOK
  <2>5. PairingTypeOK' /\ LockHeldWhilePending' /\ OtherFlowsBlank' /\ ActiveFlowRuns'
    BY <2>2, <2>3, <2>4 DEF IInv, PairingTypeOK, LockHeldWhilePending,
       OtherFlowsBlank, ActiveFlowRuns
  <2>6. IdsOfActiveFlow' /\ ActiveIqIsCurrent' /\ SentIdsKnown' /\ MapMatchesActiveFlow'
    BY <2>2, <2>3, <2>4 DEF IInv, IdsOfActiveFlow, ActiveIqIsCurrent, SentIdsKnown,
       MapMatchesActiveFlow
  <2>7. CodeAnswersOwnIq'
    BY <2>3 DEF IInv, CodeAnswersOwnIq
  <2>8. QED BY <2>5, <2>6, <2>7 DEF IInv
<1>4. CASE SettlesActive
  <2>1. \A iq \in sent : iq \in flow[active].iqIds => iq[1] = active
    BY <1>4 DEF SettlesActive, IInv, IdsOfActiveFlow
  <2>2. QED BY <1>4, <2>1, SettleInv DEF SettlesActive
<1>5. CASE UNCHANGED pairingVars
  BY <1>5 DEF pairingVars, IInv, PairingTypeOK, LockHeldWhilePending,
     OtherFlowsBlank, ActiveFlowRuns, IdsOfActiveFlow, ActiveIqIsCurrent,
     SentIdsKnown, MapMatchesActiveFlow, CodeAnswersOwnIq
<1>6. QED BY <1>1, <1>2, <1>3, <1>4, <1>5, StepShape

\* The invariant holds in every reachable state.
LEMMA SpecInv == PairingSpec => []IInv
BY InitInv, NextInv, PTL DEF PairingSpec

\* Type correctness of the controller's state.
THEOREM PairingTypeCorrect == PairingSpec => []PairingTypeOK
BY SpecInv, PTL DEF IInv

\* At most one pairing is in progress, and exactly while its promise is pending
\* the lock is held (PAIRING_ALREADY_IN_PROGRESS, and no lock is leaked).
THEOREM OnePairingAtATime == PairingSpec => []LockHeldWhilePending
BY SpecInv, PTL DEF IInv

\* cleanupFlow is complete: nothing of a finished flow can match an answer, and
\* no finished flow owns a timer.
LEMMA TimersOfHolder == IInv => TimersBelongToLockHolder
<1> SUFFICES ASSUME IInv, NEW r \in Requests
             PROVE  /\ r # active => flow[r].attemptTimer = "off"
                    /\ (flow[r].overallTimer # "off") <=> (r = active)
  BY DEF TimersBelongToLockHolder
<1>1. CASE r = active
  BY <1>1, PairingAssumption DEF IInv, ActiveFlowRuns
<1>2. CASE r # active
  BY <1>2 DEF IInv, OtherFlowsBlank, NoFlow
<1> QED BY <1>1, <1>2

THEOREM FullCleanup ==
    PairingSpec => [](MapMatchesActiveFlow /\ TimersBelongToLockHolder)
BY TimersOfHolder, SpecInv, PTL DEF IInv

\* A resolved code answers an IQ sent for the very call that gets it.
THEOREM CodesAnswerOwnIqs == PairingSpec => []CodeAnswersOwnIq
BY SpecInv, PTL DEF IInv

\* The awaited attempt was sent and no later attempt exists.
THEOREM AttemptsAreSequential == PairingSpec => []AwaitedAttemptIsNewest
<1>1. ASSUME IInv, NEW r \in Requests, flow[r].activeIqId # None
      PROVE  LET iq == flow[r].activeIqId
             IN /\ iq \in sent
                /\ \A m \in (iq[2] + 1)..MaxAttempts : <<r, m>> \notin sent \cup flow[r].iqIds
  <2>1. r = active
    BY <1>1 DEF IInv, OtherFlowsBlank, NoFlow
  <2>2. flow[r] \in Flows /\ active # None
    BY <2>1, <1>1, PairingAssumption DEF IInv, PairingTypeOK
  <2>3. flow[r].activeIqId = <<r, flow[r].attempt>> /\ flow[r].activeIqId \in sent
    BY <1>1, <2>1, <2>2 DEF IInv, ActiveIqIsCurrent
  <2>4. ASSUME NEW m \in (flow[r].attempt + 1)..MaxAttempts
        PROVE  <<r, m>> \notin flow[r].iqIds
    <3>1. ~ (m <= flow[r].attempt)
      BY <2>2, PairingAssumption DEF Flows
    <3>2. QED BY <1>1, <2>1, <2>2, <3>1 DEF IInv, IdsOfActiveFlow
  <2>5. \A m : <<r, m>> \in sent => <<r, m>> \in flow[r].iqIds
    BY <1>1, <2>1 DEF IInv, SentIdsKnown
  <2>6. QED BY <2>3, <2>4, <2>5
<1>2. IInv => AwaitedAttemptIsNewest
  BY <1>1 DEF AwaitedAttemptIsNewest
<1>3. QED BY <1>2, SpecInv, PTL

\* What NewestAttemptResolves says of one step.
NewestResolves ==
    \A r \in Requests :
      (outcome[r] = "pending" /\ outcome'[r] = "code" /\ flow[r].iqIds \subseteq sent)
      => \A m \in 1..MaxAttempts : <<r, m>> \in sent => m <= code'[r][2]

LEMMA NewestStep == IInv /\ [PairingNext]_pairingVars => [NewestResolves]_pairingVars
<1>1. ASSUME IInv, [PairingNext]_pairingVars, NEW r \in Requests,
             outcome[r] = "pending", outcome'[r] = "code",
             flow[r].iqIds \subseteq sent,
             NEW m \in 1..MaxAttempts, <<r, m>> \in sent
      PROVE  m <= code'[r][2]
  <2> USE PairingAssumption
  <2>1. \A q \in Requests : SettleReject(q) => outcome'[r] # "code"
    BY <1>1 DEF SettleReject, IInv, PairingTypeOK
  <2>2. ~ RunsAttempt
    <3>1. \A q \in Requests : \A f, n, a, t, o : Await(q, f, n, a, t, o) => outcome'[r] # "code"
      BY <1>1 DEF Await, IInv, PairingTypeOK
    <3>2. \A q, f, n : AttemptSent(q, f, n) => \E a, t, o : Await(q, f, n, a, t, o)
      BY DEF AttemptSent
    <3>3. \A q, f, n : AttemptSendFailed(q, f, n) =>
             SettleReject(q) \/ \E a, t, o : Await(q, f, n, a, t, o)
      BY DEF AttemptSendFailed
    <3>4. \A q, f, n, ok : RunAttempt(q, f, n, ok) =>
             SettleReject(q) \/ \E a, t, o : Await(q, f, n, a, t, o)
      BY <3>2, <3>3 DEF RunAttempt
    <3>5. QED BY <1>1, <2>1, <3>1, <3>4 DEF RunsAttempt
  <2>3. ~ RefusesCall /\ ~ DeadlineStep /\ ~ UNCHANGED pairingVars
    BY <1>1 DEF RefusesCall, RequestRefused, DeadlineStep, DeadlinePasses, pairingVars,
       IInv, PairingTypeOK
  <2>4. SettlesActive
    BY <1>1, <2>2, <2>3, StepShape
  <2>5. active = r
    BY <1>1, <2>4 DEF IInv, LockHeldWhilePending
  <2>6. PICK iq \in sent : /\ iq \in flow[r].iqIds
                           /\ flow[r].activeIqId \in {None, iq}
                           /\ SettleResolve(r, iq)
    BY <1>1, <2>1, <2>4, <2>5 DEF SettlesActive
  <2>7. code'[r] = iq
    BY <1>1, <2>6 DEF SettleResolve, IInv, PairingTypeOK
  <2>8. iq = <<r, flow[r].attempt>>
    <3>1. /\ <<r, flow[r].attempt>> \in flow[r].iqIds
          /\ \/ flow[r].activeIqId = <<r, flow[r].attempt>>
             \/ <<r, flow[r].attempt>> \notin sent
      BY <1>1, <2>5 DEF IInv, ActiveIqIsCurrent
    <3>2. <<r, flow[r].attempt>> # None
      BY <1>1, <3>1, IqPairs DEF IInv, PairingTypeOK
    <3>3. QED BY <1>1, <2>6, <3>1, <3>2
  <2>9. m <= flow[r].attempt
    BY <1>1, <2>5 DEF IInv, SentIdsKnown, IdsOfActiveFlow
  <2>10. QED BY <2>7, <2>8, <2>9
<1>2. QED BY <1>1 DEF NewestResolves

\* While every IQ of the flow could be sent, only the newest attempt resolves it.
THEOREM NewestAttempt == PairingSpec => NewestAttemptResolves
BY NewestStep, SpecInv, PTL DEF PairingSpec, NewestAttemptResolves, NewestResolves

LEMMA PromiseInit == PairingInit => Promise!Init
BY DEF PairingInit, Promise!Init

LEMMA PromiseStep == IInv /\ [PairingNext]_pairingVars => [Promise!Next]_(Promise!vars)
<1> USE PairingAssumption
<1>1. ASSUME IInv, NEW r \in Requests, NEW f \in Flows, NEW n \in Nat, NEW ok \in BOOLEAN,
             MayRun(r, f, n), RunAttempt(r, f, n, ok)
      PROVE  [Promise!Next]_(Promise!vars)
  <2>1. CASE SettleReject(r) /\ UNCHANGED sent
    <3>1. CASE active = r
      <4>1. Promise!Fail(r)
        BY <2>1, <3>1 DEF Promise!Fail, SettleReject, CleanupFlow
      <4>2. QED BY <4>1 DEF Promise!Next
    <3>2. CASE active = None
      <4>1. outcome[r] = "none"
        BY <1>1, <3>2 DEF MayRun, IInv, LockHeldWhilePending, PairingTypeOK
      <4>2. Promise!Refuse(r)
        BY <2>1, <3>2, <4>1 DEF Promise!Refuse, SettleReject, CleanupFlow
      <4>3. QED BY <4>2 DEF Promise!Next
    <3>3. QED BY <1>1, <3>1, <3>2 DEF MayRun
  <2>2. CASE ~AttemptRefused(f, n) /\ AttemptSent(r, f, n)
    <3>1. /\ n \in 1..MaxAttempts
          /\ sent' = sent \cup {<<r, n>>}
          /\ active' = r /\ code' = code
          /\ outcome' = [outcome EXCEPT ![r] = "pending"]
      BY <1>1, <2>2 DEF AttemptRefused, AttemptSent, Await, MayRun, IInv,
         PairingTypeOK, Flows
    <3>2. CASE active = r
      <4>1. outcome' = outcome
        BY <1>1, <3>1, <3>2 DEF IInv, LockHeldWhilePending, PairingTypeOK
      <4>2. ASSUME NEW m \in n..MaxAttempts PROVE <<r, m>> \notin sent
        BY <1>1, <3>1, <3>2 DEF IInv, SentIdsKnown, IdsOfActiveFlow, MayRun,
           PairingTypeOK, Flows
      <4>3. Promise!Ask(r, n)
        BY <3>1, <3>2, <4>1, <4>2 DEF Promise!Ask
      <4>4. QED BY <3>1, <4>3 DEF Promise!Next
    <3>3. CASE active = None
      <4>1. outcome[r] = "none" /\ n = 1
        BY <1>1, <3>3 DEF MayRun, IInv, LockHeldWhilePending, PairingTypeOK,
           OtherFlowsBlank, NoFlow
      <4>2. Promise!Begin(r)
        BY <3>1, <3>3, <4>1 DEF Promise!Begin
      <4>3. QED BY <4>2 DEF Promise!Next
    <3>4. QED BY <1>1, <3>2, <3>3 DEF MayRun
  <2>3. CASE Await(r, f, n, None, "retry", f.overallTimer) /\ UNCHANGED sent
    <3>1. CASE active = r
      <4>1. UNCHANGED <<active, outcome, code, sent>>
        BY <1>1, <2>3, <3>1 DEF Await, IInv, LockHeldWhilePending, PairingTypeOK
      <4>2. QED BY <4>1 DEF Promise!vars
    <3>2. CASE active = None
      <4>1. outcome[r] = "none"
        BY <1>1, <3>2 DEF MayRun, IInv, LockHeldWhilePending, PairingTypeOK
      <4>2. Promise!Begin(r)
        BY <2>3, <3>2, <4>1 DEF Promise!Begin, Await
      <4>3. QED BY <4>2 DEF Promise!Next
    <3>3. QED BY <1>1, <3>1, <3>2 DEF MayRun
  <2>4. QED BY <1>1, <2>1, <2>2, <2>3 DEF RunAttempt, AttemptSendFailed
<1>2. ASSUME IInv, [PairingNext]_pairingVars PROVE [Promise!Next]_(Promise!vars)
  <2>1. CASE RunsAttempt
    BY <2>1, <1>1, <1>2 DEF RunsAttempt
  <2>2. CASE RefusesCall
    BY <2>2 DEF RefusesCall, RequestRefused, Promise!Refuse, Promise!Next
  <2>3. CASE DeadlineStep \/ UNCHANGED pairingVars
    BY <2>3 DEF DeadlineStep, DeadlinePasses, pairingVars, Promise!vars
  <2>4. CASE SettlesActive
    <3>1. CASE SettleReject(active) /\ UNCHANGED sent
      <4>1. Promise!Fail(active)
        BY <3>1 DEF Promise!Fail, SettleReject, CleanupFlow
      <4>2. QED BY <4>1, <2>4 DEF Promise!Next, SettlesActive
    <3>2. ASSUME NEW iq \in sent, iq \in flow[active].iqIds, SettleResolve(active, iq)
          PROVE  Promise!Next
      <4>1. iq \in Iqs /\ iq[1] = active
        BY <1>2, <2>4, <3>2 DEF IInv, PairingTypeOK, IdsOfActiveFlow, SettlesActive
      <4>2. Promise!Answer(active, iq)
        BY <2>4, <3>2, <4>1 DEF Promise!Answer, SettleResolve, CleanupFlow, SettlesActive
      <4>3. QED BY <2>4, <4>1, <4>2 DEF Promise!Next, Promise!Iqs, Iqs, SettlesActive
    <3>3. QED BY <2>4, <3>1, <3>2 DEF SettlesActive
  <2>5. QED BY <1>2, <2>1, <2>2, <2>3, <2>4, StepShape
<1>3. QED BY <1>2

\* Every behaviour of the controller is one of PairingPromise: the initial state
\* is an initial state, and every action is one of its actions or a stutter.
THEOREM ControllerKeepsPromise == PairingSpec => KeepsPromise
BY PromiseInit, PromiseStep, SpecInv, PTL DEF PairingSpec, KeepsPromise, Promise!Spec
============================================================================
