--------------------------- MODULE SignalSession ----------------------------
(***************************************************************************)
(* A Signal session (src/Signal/session.ts), one direction of it: the      *)
(* sender's signalEncrypt and the receiver's signalDecrypt, through the    *)
(* SignalSessionManager, over a network that loses, repeats and reorders.  *)
(*                                                                         *)
(* A session is the number of its key agreement; its message keys are      *)
(* named by the session and the counter they were derived for.  Decryption *)
(* succeeds with the key the message was encrypted with and throws with    *)
(* any other (AES-GCM).  signalEncrypt never changes its ratchet key, so   *)
(* an unknown ratchet key in a header means another session.               *)
(***************************************************************************)
EXTENDS Naturals, FiniteSets

CONSTANTS MaxSkip,      \* MAX_SKIP, 100
          MaxSessions,  \* bound: key agreements
          MaxCounter    \* bound: messages of one session

ASSUME SignalAssumption ==
    /\ MaxSkip \in Nat /\ MaxSessions \in Nat \ {0} /\ MaxCounter \in Nat \ {0}

Sessions == 1..MaxSessions
Messages == [session : Sessions, counter : 0..(MaxCounter - 1)]

VARIABLES sending,    \* the sender's session and its counter
          receiving,  \* the receiver's session, its counter and its skipped keys
          network,    \* messages encrypted and not lost
          decrypted   \* per message: how often it was decrypted

vars == <<sending, receiving, network, decrypted>>

\* Domains: counters stay within one past the last message of a session.
TypeOK ==
    /\ sending \in [session : Sessions, counter : 0..MaxCounter]
    /\ receiving \in [session : Sessions, counter : 0..MaxCounter,
                      skipped : SUBSET (0..(MaxCounter - 1))]
    /\ network \subseteq Messages
    /\ decrypted \in [Messages -> Nat]

\* initSessionAsInitiator, initSessionAsResponder, establishSessions.
NewSending(s)   == [session |-> s, counter |-> 0]
NewReceiving(s) == [session |-> s, counter |-> 0, skipped |-> {}]

Init ==
    /\ sending = NewSending(1) /\ receiving = NewReceiving(1)
    /\ network = {}
    /\ decrypted = [m \in Messages |-> 0]

------------------------------------------------------------------------------

\* encrypt of the manager: the session with the next counter replaces the old.
Encrypt ==
    /\ sending.counter < MaxCounter
    /\ sending' = [sending EXCEPT !.counter = @ + 1]
    /\ network' = network \cup {sending}
    /\ UNCHANGED <<receiving, decrypted>>

Skipped(m) == m.counter \in receiving.skipped

\* The counters whose keys skipMessageKeys would store on the way to m.
Gap(m) == receiving.counter..(m.counter - 1)

\* Mutant: a key that was used is kept.
UseSkippedKept(m) ==
    /\ Skipped(m) /\ m.session = receiving.session
    /\ UNCHANGED receiving

\* A key stored for the counter is tried whatever the header's ratchet key is.
UseSkipped(m) ==
    /\ Skipped(m) /\ m.session = receiving.session
    /\ receiving' = [receiving EXCEPT !.skipped = @ \ {m.counter}]

\* Mutant: the limit is per gap.
MaySkipPerGap(m) == Cardinality(Gap(m)) <= MaxSkip + 1

\* skipMessageKeys checks the number of stored keys before it adds one.
MaySkip(m) == Gap(m) = {} \/ Cardinality(receiving.skipped) + Cardinality(Gap(m)) <= MaxSkip + 1

\* Mutant: the keys on the way to m are not stored.
AdvanceForgets(m) ==
    /\ ~Skipped(m) /\ m.session = receiving.session
    /\ m.counter >= receiving.counter /\ MaySkip(m)
    /\ receiving' = [receiving EXCEPT !.counter = m.counter + 1]

\* The chain moves to the key of m and past it.  (After a step to an unknown
\* ratchet key the chain is not the sender's, decryption throws and the stored
\* session stays as it was.)
Advance(m) ==
    /\ ~Skipped(m) /\ m.session = receiving.session
    /\ m.counter >= receiving.counter /\ MaySkip(m)
    /\ receiving' = [receiving EXCEPT !.counter = m.counter + 1,
                                      !.skipped = @ \cup Gap(m)]

\* decrypt of the manager; where it throws, nothing changes.
Decrypt(m) ==
    /\ m \in network
    /\ UseSkipped(m) \/ Advance(m)
    /\ decrypted' = [decrypted EXCEPT ![m] = @ + 1]
    /\ UNCHANGED <<sending, network>>

\* A new key agreement of the sender, and the receiver's part of it.
Initiate ==
    /\ sending.session < MaxSessions
    /\ sending' = NewSending(sending.session + 1)
    /\ UNCHANGED <<receiving, network, decrypted>>

Respond ==
    /\ receiving.session < sending.session
    /\ receiving' = NewReceiving(sending.session)
    /\ UNCHANGED <<sending, network, decrypted>>

Lose(m) ==
    /\ m \in network
    /\ network' = network \ {m}
    /\ UNCHANGED <<sending, receiving, decrypted>>

Next == \/ Encrypt \/ Initiate \/ Respond
        \/ \E m \in Messages : Decrypt(m) \/ Lose(m)

Spec == Init /\ [][Next]_vars

------------------------------------------------------------------------------
(* Properties.                                                               *)

\* No message is decrypted twice, however often and in whatever order the
\* network delivers it.
DecryptedOnce == \A m \in Messages : decrypted[m] <= 1

\* The receiver holds the keys of exactly the messages it went past: none of
\* them is lost to it, none that was used is kept.
KeysOfMissing ==
    receiving.skipped =
        {n \in 0..(receiving.counter - 1) :
            decrypted[[session |-> receiving.session, counter |-> n]] = 0}

\* A flood of skipped counters cannot make the session grow without bound.
SkippedBounded == Cardinality(receiving.skipped) <= MaxSkip + 1

\* A key belongs to a message that was sent: the receiver is never ahead.
NeverAhead ==
    receiving.session = sending.session => receiving.counter <= sending.counter
=============================================================================
