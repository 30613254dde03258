------------------------ MODULE SignalSessionProofs -------------------------
(***************************************************************************)
(* The safety properties of SignalSession for every limit of skipped keys  *)
(* and any number of sessions and messages.                                *)
(*                                                                         *)
(* None of DecryptedOnce, KeysOfMissing and NeverAhead is inductive alone: *)
(* that a message is decrypted once rests on the stored keys being those   *)
(* of messages not yet decrypted and on nothing having been decrypted that *)
(* the receiver's chain has still to reach.                                *)
(***************************************************************************)
EXTENDS SignalSession, FiniteSetTheorems, TLAPS

\* Only messages behind the receiver's counter have been decrypted.
PastOnly ==
    \A m \in Messages : decrypted[m] > 0 =>
        \/ m.session < receiving.session
        \/ m.session = receiving.session /\ m.counter < receiving.counter

\* The network carries what the sender has sent, and the receiver answers to a
\* key agreement the sender has made.
SentOnly ==
    /\ receiving.session <= sending.session
    /\ \A m \in network :
           \/ m.session < sending.session
           \/ m.session = sending.session /\ m.counter < sending.counter

IInv == /\ TypeOK /\ PastOnly /\ SentOnly
        /\ DecryptedOnce /\ KeysOfMissing /\ SkippedBounded /\ NeverAhead

------------------------------------------------------------------------------

\* The initial state satisfies the invariant.
LEMMA InitInv == Init => IInv
<1> SUFFICES ASSUME Init PROVE IInv
  OBVIOUS
<1> USE SignalAssumption DEF Init, NewSending, NewReceiving
<1>1. TypeOK
  BY DEF TypeOK, Sessions, Messages
<1>2. PastOnly /\ SentOnly /\ DecryptedOnce /\ NeverAhead
  BY DEF PastOnly, SentOnly, DecryptedOnce, NeverAhead
<1>3. KeysOfMissing
  BY DEF KeysOfMissing
<1>4. SkippedBounded
  BY FS_EmptySet DEF SkippedBounded
<1> QED BY <1>1, <1>2, <1>3, <1>4 DEF IInv

\* A message is the pair of its session and its counter.
LEMMA MessagePairs ==
    \A m \in Messages : /\ m.session \in Sessions /\ m.counter \in 0..(MaxCounter - 1)
                        /\ m = [session |-> m.session, counter |-> m.counter]
BY DEF Messages

\* The parts of the receiver's session and their types.
LEMMA ReceivingParts ==
    TypeOK => /\ receiving.session \in Nat /\ receiving.session \in Sessions
              /\ receiving.counter \in Nat /\ receiving.counter <= MaxCounter
              /\ receiving.skipped \subseteq 0..(MaxCounter - 1)
              /\ decrypted \in [Messages -> Nat]
BY SignalAssumption DEF TypeOK, Sessions

\* The counters on the way to a message are finitely many.
LEMMA GapFinite ==
    ASSUME NEW m \in Messages, TypeOK
    PROVE  /\ IsFiniteSet(Gap(m)) /\ IsFiniteSet(receiving.skipped)
           /\ Cardinality(Gap(m)) \in Nat /\ Cardinality(receiving.skipped) \in Nat
<1>1. IsFiniteSet(0..(MaxCounter - 1))
  BY FS_Interval, SignalAssumption
<1>2. receiving.skipped \subseteq 0..(MaxCounter - 1)
  BY DEF TypeOK
<1>3. Gap(m) \subseteq 0..(MaxCounter - 1)
  BY MessagePairs, SignalAssumption DEF Gap, TypeOK
<1>4. IsFiniteSet(Gap(m)) /\ IsFiniteSet(receiving.skipped)
  BY <1>1, <1>2, <1>3, FS_Subset
<1> QED BY <1>4, FS_CardinalityType

\* Every message decrypted was not decrypted before.
LEMMA DecryptsNew ==
    ASSUME IInv, NEW m \in Messages, UseSkipped(m) \/ Advance(m)
    PROVE  decrypted[m] = 0
<1>1. m = [session |-> m.session, counter |-> m.counter]
  BY MessagePairs
<1>2. CASE UseSkipped(m)
  BY <1>1, <1>2 DEF UseSkipped, Skipped, IInv, KeysOfMissing
<1>3. CASE Advance(m)
  <2>1. ~(m.session < receiving.session) /\ ~(m.counter < receiving.counter)
    BY <1>3, MessagePairs, ReceivingParts, SignalAssumption DEF Advance, IInv
  <2>2. ~(decrypted[m] > 0) /\ decrypted[m] \in Nat
    BY <2>1, ReceivingParts DEF IInv, PastOnly
  <2> QED BY <2>2
<1> QED BY <1>2, <1>3

\* Decryption keeps the receiver's keys exactly those of the messages it is missing.
LEMMA DecryptKeys ==
    ASSUME IInv, NEW m \in Messages, Decrypt(m)
    PROVE  KeysOfMissing'
<1> DEFINE s == receiving.session
           id(n) == [session |-> s, counter |-> n]
<1>1. /\ m = id(m.counter) /\ m.session = s /\ receiving'.session = s
      /\ m.counter \in 0..(MaxCounter - 1) /\ receiving.counter \in Nat
  <2>1. m.session = s /\ receiving'.session = s
    BY DEF Decrypt, UseSkipped, Advance, IInv, TypeOK
  <2> QED BY <2>1, MessagePairs, ReceivingParts DEF IInv
<1>2. \A n \in 0..(MaxCounter - 1) :
          decrypted'[id(n)] = IF n = m.counter THEN decrypted[m] + 1 ELSE decrypted[id(n)]
  <2>1. \A n \in 0..(MaxCounter - 1) : id(n) \in Messages
    BY DEF Messages, IInv, TypeOK
  <2>2. \A n \in 0..(MaxCounter - 1) : id(n) = m => n = m.counter
    BY <1>1
  <2> QED BY <1>1, <2>1, <2>2 DEF Decrypt, IInv, TypeOK
<1>3. decrypted[m] = 0
  BY DecryptsNew DEF Decrypt
<1>4. receiving.counter <= MaxCounter /\ receiving'.counter <= MaxCounter
  <2>1. receiving'.counter \in {receiving.counter, m.counter + 1}
    BY DEF Decrypt, UseSkipped, Advance, IInv, TypeOK
  <2> QED BY <1>1, <2>1, ReceivingParts, SignalAssumption DEF IInv
<1>5. \A n \in receiving.counter..(MaxCounter - 1) : decrypted[id(n)] = 0
  <2> SUFFICES ASSUME NEW n \in receiving.counter..(MaxCounter - 1)
               PROVE  decrypted[id(n)] = 0
    OBVIOUS
  <2>1. id(n) \in Messages
    BY <1>1, ReceivingParts, SignalAssumption DEF Messages, IInv
  <2>2. ~(id(n).session < receiving.session) /\ ~(id(n).counter < receiving.counter)
    BY <1>1, ReceivingParts, SignalAssumption DEF IInv
  <2>3. ~(decrypted[id(n)] > 0) /\ decrypted[id(n)] \in Nat
    BY <2>1, <2>2, ReceivingParts DEF IInv, PastOnly
  <2> QED BY <2>3
<1>6. receiving.skipped = {n \in 0..(receiving.counter - 1) : decrypted[id(n)] = 0}
  BY DEF IInv, KeysOfMissing
<1>7. CASE UseSkipped(m)
  <2>1. receiving'.counter = receiving.counter
        /\ receiving'.skipped = receiving.skipped \ {m.counter}
    BY <1>7 DEF UseSkipped, IInv, TypeOK
  <2> QED BY <1>1, <1>2, <1>3, <1>4, <1>6, <2>1, SignalAssumption DEF KeysOfMissing
<1>8. CASE Advance(m)
  <2>1. /\ receiving'.counter = m.counter + 1 /\ m.counter >= receiving.counter
        /\ receiving'.skipped = receiving.skipped \cup (receiving.counter..(m.counter - 1))
    BY <1>8 DEF Advance, Gap, IInv, TypeOK
  <2> QED BY <1>1, <1>2, <1>3, <1>4, <1>5, <1>6, <2>1, SignalAssumption DEF KeysOfMissing
<1> QED BY <1>7, <1>8 DEF Decrypt

\* skipMessageKeys never stores more than MAX_SKIP + 1 keys.
LEMMA DecryptBounded ==
    ASSUME IInv, NEW m \in Messages, Decrypt(m)
    PROVE  SkippedBounded'
<1>1. IsFiniteSet(Gap(m)) /\ IsFiniteSet(receiving.skipped)
      /\ Cardinality(Gap(m)) \in Nat /\ Cardinality(receiving.skipped) \in Nat
  BY GapFinite DEF IInv
<1>2. CASE UseSkipped(m)
  <2>1. receiving'.skipped = receiving.skipped \ {m.counter}
    BY <1>2 DEF UseSkipped, IInv, TypeOK
  <2>2. Cardinality(receiving'.skipped) <= Cardinality(receiving.skipped)
    BY <1>1, <2>1, FS_Subset
  <2>3. Cardinality(receiving'.skipped) \in Nat
    BY <1>1, <2>1, FS_Subset, FS_CardinalityType
  <2> QED BY <1>1, <2>2, <2>3, SignalAssumption DEF IInv, SkippedBounded
<1>3. CASE Advance(m) /\ Gap(m) = {}
  BY <1>3 DEF Advance, IInv, SkippedBounded, TypeOK
<1>4. CASE Advance(m) /\ Gap(m) # {}
  <2>1. receiving'.skipped = receiving.skipped \cup Gap(m)
    BY <1>4 DEF Advance, IInv, TypeOK
  <2>2. IsFiniteSet(receiving.skipped \cap Gap(m))
    BY <1>1, FS_Subset
  <2>3. Cardinality(receiving.skipped \cap Gap(m)) \in Nat
    BY <2>2, FS_CardinalityType
  <2>4. Cardinality(receiving.skipped \cup Gap(m)) =
            Cardinality(receiving.skipped) + Cardinality(Gap(m))
              - Cardinality(receiving.skipped \cap Gap(m))
    BY <1>1, FS_Union
  <2>5. Cardinality(receiving.skipped) + Cardinality(Gap(m)) <= MaxSkip + 1
    BY <1>4 DEF Advance, MaySkip
  <2> QED BY <1>1, <2>1, <2>3, <2>4, <2>5, SignalAssumption DEF SkippedBounded
<1> QED BY <1>2, <1>3, <1>4 DEF Decrypt

\* Every step keeps the invariant.
LEMMA NextInv == IInv /\ [Next]_vars => IInv'
<1> SUFFICES ASSUME IInv, [Next]_vars PROVE IInv'
  OBVIOUS
<1> USE SignalAssumption
<1>1. CASE Encrypt
  <2>1. TypeOK'
    BY <1>1 DEF Encrypt, IInv, TypeOK, Messages, Sessions
  <2>2. SentOnly' /\ NeverAhead'
    BY <1>1, MessagePairs DEF Encrypt, IInv, SentOnly, NeverAhead, TypeOK, Sessions
  <2> QED BY <1>1, <2>1, <2>2
          DEF Encrypt, IInv, PastOnly, DecryptedOnce, KeysOfMissing, SkippedBounded
<1>2. CASE Initiate
  <2>1. TypeOK'
    BY <1>2 DEF Initiate, NewSending, IInv, TypeOK, Sessions
  <2>2. SentOnly' /\ NeverAhead'
    BY <1>2, MessagePairs
       DEF Initiate, NewSending, IInv, SentOnly, NeverAhead, TypeOK, Sessions
  <2> QED BY <1>2, <2>1, <2>2
          DEF Initiate, IInv, PastOnly, DecryptedOnce, KeysOfMissing, SkippedBounded
<1>3. CASE Respond
  <2>1. TypeOK'
    BY <1>3 DEF Respond, NewReceiving, IInv, TypeOK, Sessions
  <2>2. PastOnly' /\ SentOnly' /\ NeverAhead'
    BY <1>3, MessagePairs
       DEF Respond, NewReceiving, IInv, PastOnly, SentOnly, NeverAhead, TypeOK, Sessions
  <2>3. KeysOfMissing'
    BY <1>3 DEF Respond, NewReceiving, KeysOfMissing
  <2>4. SkippedBounded'
    BY <1>3, FS_EmptySet DEF Respond, NewReceiving, SkippedBounded
  <2> QED BY <1>3, <2>1, <2>2, <2>3, <2>4 DEF Respond, IInv, DecryptedOnce
<1>4. ASSUME NEW m \in Messages, Lose(m) PROVE IInv'
  BY <1>4 DEF Lose, IInv, TypeOK, PastOnly, SentOnly, DecryptedOnce, KeysOfMissing,
              SkippedBounded, NeverAhead
<1>5. ASSUME NEW m \in Messages, Decrypt(m) PROVE IInv'
  <2>1. decrypted[m] = 0
    BY <1>5, DecryptsNew DEF Decrypt
  <2>2. /\ m.session = receiving.session /\ receiving'.session = receiving.session
        /\ receiving'.counter >= receiving.counter /\ m.counter < receiving'.counter
        /\ receiving'.counter \in 0..MaxCounter
        /\ receiving'.counter = receiving.counter \/ receiving'.counter = m.counter + 1
    <3>1. CASE UseSkipped(m)
      <4>1. m.counter < receiving.counter
        BY <3>1, MessagePairs, ReceivingParts
           DEF UseSkipped, Skipped, IInv, KeysOfMissing
      <4> QED BY <3>1, <4>1, ReceivingParts DEF UseSkipped, IInv, TypeOK
    <3>2. CASE Advance(m)
      <4>1. receiving'.session = receiving.session /\ m.session = receiving.session
            /\ receiving'.counter = m.counter + 1 /\ m.counter >= receiving.counter
        BY <3>2 DEF Advance, IInv, TypeOK
      <4> QED BY <4>1, MessagePairs, ReceivingParts DEF IInv
    <3> QED BY <1>5, <3>1, <3>2 DEF Decrypt
  <2>3. TypeOK'
    <3>1. receiving'.skipped \in SUBSET (0..(MaxCounter - 1))
      <4>1. Gap(m) \subseteq 0..(MaxCounter - 1)
        BY MessagePairs, ReceivingParts DEF Gap, IInv
      <4>2. receiving'.skipped \in {receiving.skipped \ {m.counter},
                                   receiving.skipped \cup Gap(m)}
        BY <1>5 DEF Decrypt, UseSkipped, Advance, IInv, TypeOK
      <4> QED BY <4>1, <4>2, ReceivingParts DEF IInv
    <3>2. receiving' = [session |-> receiving'.session, counter |-> receiving'.counter,
                        skipped |-> receiving'.skipped]
      BY <1>5 DEF Decrypt, UseSkipped, Advance, IInv, TypeOK
    <3> QED BY <1>5, <2>2, <3>1, <3>2 DEF Decrypt, IInv, TypeOK
  <2>4. DecryptedOnce'
    BY <1>5, <2>1 DEF Decrypt, IInv, DecryptedOnce, TypeOK
  <2>5. PastOnly'
    BY <1>5, <2>2, MessagePairs DEF Decrypt, IInv, PastOnly, TypeOK, Sessions
  <2>6. SentOnly' /\ NeverAhead'
    BY <1>5, <2>2, MessagePairs DEF Decrypt, IInv, SentOnly, NeverAhead, TypeOK, Sessions
  <2> QED BY <1>5, <2>3, <2>4, <2>5, <2>6, DecryptKeys, DecryptBounded DEF IInv
<1>6. CASE UNCHANGED vars
  BY <1>6 DEF vars, IInv, TypeOK, PastOnly, SentOnly, DecryptedOnce, KeysOfMissing,
              SkippedBounded, NeverAhead
<1> QED BY <1>1, <1>2, <1>3, <1>4, <1>5, <1>6 DEF Next

\* The invariant holds in every reachable state.
LEMMA SpecInv == Spec => []IInv
BY InitInv, NextInv, PTL DEF Spec

\* The session's state keeps its type.
THEOREM SignalTypeCorrect == Spec => []TypeOK
BY SpecInv, PTL DEF IInv

\* signalDecrypt gives no message's plaintext twice: used keys are gone.
THEOREM NoReplay == Spec => []DecryptedOnce
BY SpecInv, PTL DEF IInv

\* signalDecrypt loses no key of a message it went past, and keeps no other.
THEOREM ExactKeys == Spec => []KeysOfMissing
BY SpecInv, PTL DEF IInv

\* skipMessageKeys bounds the keys a session stores.
THEOREM BoundedSkipping == Spec => []SkippedBounded
BY SpecInv, PTL DEF IInv

\* The receiver's chain never runs ahead of the sender's.
THEOREM ReceiverBehind == Spec => []NeverAhead
BY SpecInv, PTL DEF IInv
=============================================================================
