-------------------------- MODULE MessagingProofs ---------------------------
(***************************************************************************)
(* The safety properties of Messaging, for any messages, attempts, sizes   *)
(* of the window and sequences of connections.                             *)
(*                                                                         *)
(* AnnouncedOnce is the arithmetic of the window: what was announced is in *)
(* the window, once, or was forgotten since.  The outcomes rest on what    *)
(* each stage of a sendMessage says of the frames on the wire, and the     *)
(* effects on both, since an echo exists only of what was sent.            *)
(***************************************************************************)
EXTENDS Messaging, FiniteSetTheorems, SequenceTheorems, TLAPS

\* No key is in the window twice.
WindowDistinct ==
    \A i, j \in 1..Len(window) : window[i] = window[j] => i = j

\* Every announcement is in the window or was forgotten.
AnnouncementsCounted ==
    \A m \in Messages : upserts[m] = forgotten[m] + (IF Known(m) THEN 1 ELSE 0)

\* How many attempts a stage of sendMessage implies, and with which session.
StageOfAttempt ==
    \A m \in Outgoing :
        LET s == send[m]
        IN /\ s.stage = "none" => s.attempt = 0
           /\ s.stage = "backoff" => s.attempt \in 1..(MaxAttempts - 1) /\ s.session # None
           /\ s.stage \in {"handed", "awaiting", "acked"} => s.attempt # 0

FramesOf(m) == {f \in wire : f.msg = m}

\* The stages after a send.
WasSent(m) == \/ send[m].stage \in {"handed", "awaiting", "acked", "sent"}
              \/ send[m].stage = "returned" /\ send[m].attempt # 0

\* One frame after a send, none before it.
OneFrame ==
    \A m \in Outgoing : /\ WasSent(m) => \E f \in wire : FramesOf(m) = {f}
                        /\ ~WasSent(m) => FramesOf(m) = {}

\* The one effect beyond the bound on deliveries is that of sendReaction.
EffectsBounded ==
    \A m \in Outgoing : send[m].stage \notin {"sent", "local"} => effects[m] <= MaxEffects

IInv == /\ TypeOK /\ WindowDistinct /\ AnnouncementsCounted
        /\ StageOfAttempt /\ OneFrame /\ EffectsBounded /\ EffectsAfterSend

------------------------------------------------------------------------------
(* The window.                                                               *)

\* The window is a sequence of messages.
LEMMA WindowType ==
    ASSUME TypeOK
    PROVE  /\ window \in Seq(Messages) /\ Len(window) \in Nat /\ Len(window) <= WindowSize
           /\ \A m : Known(m) <=> \E i \in 1..Len(window) : window[i] = m
BY DEF TypeOK, Known, Contains

\* The window without its oldest key.
LEMMA Forgetting ==
    ASSUME TypeOK, WindowDistinct, window # <<>>
    PROVE  /\ Head(window) \in Messages /\ Tail(window) \in Seq(Messages)
           /\ Len(Tail(window)) = Len(window) - 1
           /\ Known(Head(window))
           /\ \A i, j \in 1..Len(Tail(window)) : Tail(window)[i] = Tail(window)[j] => i = j
           /\ \A m : Contains(Tail(window), m) <=> (Known(m) /\ m # Head(window))
<1>1. /\ window \in Seq(Messages) /\ Len(window) \in Nat /\ 1 \in 1..Len(window)
      /\ Head(window) = window[1]
  BY WindowType, EmptySeq
<1>2. /\ Head(window) \in Messages /\ Tail(window) \in Seq(Messages)
      /\ Len(Tail(window)) = Len(window) - 1
      /\ \A i \in 1..Len(Tail(window)) : Tail(window)[i] = window[i + 1]
  BY <1>1, HeadTailProperties
<1>3. Known(Head(window))
  BY <1>1, WindowType
<1>4. \A i, j \in 1..Len(Tail(window)) : Tail(window)[i] = Tail(window)[j] => i = j
  BY <1>1, <1>2 DEF WindowDistinct
<1>5. ASSUME NEW m PROVE Contains(Tail(window), m) <=> (Known(m) /\ m # Head(window))
  <2>1. ASSUME NEW i \in 1..Len(Tail(window)), Tail(window)[i] = m
        PROVE  Known(m) /\ m # Head(window)
    <3>1. i + 1 \in 1..Len(window) /\ window[i + 1] = m
      BY <1>1, <1>2, <2>1
    <3> QED BY <1>1, <3>1, WindowType DEF WindowDistinct
  <2>2. ASSUME NEW i \in 1..Len(window), window[i] = m, m # Head(window)
        PROVE  \E j \in 1..Len(Tail(window)) : Tail(window)[j] = m
    <3>1. i # 1
      BY <1>1, <2>2
    <3>2. i - 1 \in 1..Len(Tail(window)) /\ (i - 1) + 1 = i
      BY <1>1, <1>2, <3>1
    <3> QED BY <1>2, <2>2, <3>2
  <2> QED BY <2>1, <2>2, WindowType DEF Contains
<1> QED BY <1>2, <1>3, <1>4, <1>5

\* A sequence without repetitions to which a new key is added.
LEMMA Remembering ==
    ASSUME NEW s \in Seq(Messages), NEW m \in Messages, ~Contains(s, m),
           \A i, j \in 1..Len(s) : s[i] = s[j] => i = j
    PROVE  /\ Append(s, m) \in Seq(Messages) /\ Len(Append(s, m)) = Len(s) + 1
           /\ \A i, j \in 1..Len(Append(s, m)) : Append(s, m)[i] = Append(s, m)[j] => i = j
           /\ \A n : Contains(Append(s, m), n) <=> (Contains(s, n) \/ n = m)
<1>1. /\ Append(s, m) \in Seq(Messages) /\ Len(Append(s, m)) = Len(s) + 1
      /\ \A i \in 1..Len(s) : Append(s, m)[i] = s[i]
      /\ Append(s, m)[Len(s) + 1] = m
      /\ Len(s) \in Nat
  BY AppendProperties, LenProperties
<1>2. \A i \in 1..Len(s) : s[i] # m
  BY DEF Contains
<1>3. \A i, j \in 1..(Len(s) + 1) : Append(s, m)[i] = Append(s, m)[j] => i = j
  BY <1>1, <1>2
<1>4. ASSUME NEW n PROVE Contains(Append(s, m), n) <=> (Contains(s, n) \/ n = m)
  <2>1. ASSUME NEW i \in 1..(Len(s) + 1), Append(s, m)[i] = n
        PROVE  n = m \/ \E j \in 1..Len(s) : s[j] = n
    BY <1>1, <2>1
  <2>2. n = m => \E i \in 1..(Len(s) + 1) : Append(s, m)[i] = n
    BY <1>1
  <2>3. ASSUME NEW i \in 1..Len(s), s[i] = n
        PROVE  \E j \in 1..(Len(s) + 1) : Append(s, m)[j] = n
    BY <1>1, <2>3
  <2> QED BY <1>1, <2>1, <2>2, <2>3 DEF Contains
<1> QED BY <1>1, <1>3, <1>4

\* What concerns the window is kept where the window is not touched.
DedupInv ==
    /\ window \in Seq(Messages) /\ Len(window) <= WindowSize
    /\ upserts \in [Messages -> Nat] /\ forgotten \in [Messages -> Nat]
    /\ WindowDistinct /\ AnnouncementsCounted

\* emitUpsert keeps count.
LEMMA EmitUpsertInv ==
    ASSUME TypeOK, DedupInv, NEW m \in Messages, EmitUpsert(m)
    PROVE  DedupInv'
<1> USE MessagingAssumption
<1>1. CASE Known(m)
  BY <1>1 DEF EmitUpsert, DedupInv, dedup, WindowDistinct, AnnouncementsCounted, Known
<1>2. CASE ~Known(m) /\ Len(window) < WindowSize
  <2>1. /\ upserts' = [upserts EXCEPT ![m] = @ + 1] /\ forgotten' = forgotten
        /\ window' = Append(window, m)
    BY <1>2 DEF EmitUpsert
  <2>2. /\ window' \in Seq(Messages) /\ Len(window') = Len(window) + 1 /\ WindowDistinct'
        /\ \A n : Known(n)' <=> (Known(n) \/ n = m)
    BY <1>2, <2>1, Remembering DEF DedupInv, WindowDistinct, Known
  <2>3. Len(window') <= WindowSize
    BY <1>2, <2>2, WindowType
  <2>4. AnnouncementsCounted'
    BY <1>2, <2>1, <2>2 DEF DedupInv, AnnouncementsCounted
  <2> QED BY <2>1, <2>2, <2>3, <2>4 DEF DedupInv
<1>3. CASE ~Known(m) /\ ~(Len(window) < WindowSize)
  <2>1. /\ upserts' = [upserts EXCEPT ![m] = @ + 1]
        /\ window' = Append(Tail(window), m)
        /\ forgotten' = [forgotten EXCEPT ![Head(window)] = @ + 1]
    BY <1>3 DEF EmitUpsert
  <2>2. window # <<>> /\ Len(window) = WindowSize
    BY <1>3, WindowType, EmptySeq DEF DedupInv
  <2>3. ~Contains(Tail(window), m)
    BY <1>3, <2>2, Forgetting DEF DedupInv
  <2>4. /\ window' \in Seq(Messages) /\ Len(window') = Len(window) /\ WindowDistinct'
        /\ \A n : Known(n)' <=> ((Known(n) /\ n # Head(window)) \/ n = m)
    <3>1. /\ Tail(window) \in Seq(Messages) /\ Len(Tail(window)) = Len(window) - 1
          /\ \A i, j \in 1..Len(Tail(window)) : Tail(window)[i] = Tail(window)[j] => i = j
          /\ \A n : Contains(Tail(window), n) <=> (Known(n) /\ n # Head(window))
      BY <2>2, Forgetting DEF DedupInv
    <3>2. /\ window' \in Seq(Messages) /\ Len(window') = Len(Tail(window)) + 1
          /\ \A i, j \in 1..Len(window') : window'[i] = window'[j] => i = j
          /\ \A n : Contains(window', n) <=> (Contains(Tail(window), n) \/ n = m)
      BY <2>1, <2>3, <3>1, Remembering
    <3>3. Len(window') = Len(window)
      BY <3>1, <3>2, WindowType
    <3> QED BY <3>1, <3>2, <3>3 DEF WindowDistinct, Known
  <2>5. /\ Head(window) \in Messages /\ Head(window) # m /\ Known(Head(window))
    BY <1>3, <2>2, Forgetting DEF DedupInv
  <2>6. AnnouncementsCounted'
    BY <1>3, <2>1, <2>4, <2>5 DEF DedupInv, AnnouncementsCounted
  <2>7. upserts' \in [Messages -> Nat] /\ forgotten' \in [Messages -> Nat]
    BY <2>1, <2>5 DEF DedupInv
  <2> QED BY <2>2, <2>4, <2>6, <2>7 DEF DedupInv
<1> QED BY <1>1, <1>2, <1>3

\* The oldest key is forgotten.
LEMMA ExpireDedup ==
    ASSUME TypeOK, DedupInv, Expire
    PROVE  DedupInv'
<1>1. /\ window # <<>> /\ window' = Tail(window) /\ upserts' = upserts
      /\ forgotten' = [forgotten EXCEPT ![Head(window)] = @ + 1]
  BY DEF Expire
<1>2. /\ Head(window) \in Messages /\ Known(Head(window))
      /\ window' \in Seq(Messages) /\ Len(window') = Len(window) - 1 /\ WindowDistinct'
      /\ \A m : Known(m)' <=> (Known(m) /\ m # Head(window))
  BY <1>1, Forgetting DEF DedupInv, WindowDistinct, Known
<1>3. Len(window') <= WindowSize
  BY <1>2, WindowType, MessagingAssumption
<1>4. upserts' \in [Messages -> Nat] /\ forgotten' \in [Messages -> Nat]
  BY <1>1, <1>2 DEF DedupInv
<1>5. AnnouncementsCounted'
  BY <1>1, <1>2 DEF DedupInv, AnnouncementsCounted
<1> QED BY <1>2, <1>3, <1>4, <1>5 DEF DedupInv

\* end() forgets everything.
LEMMA EndDedup ==
    ASSUME TypeOK, DedupInv, End
    PROVE  DedupInv'
<1>1. /\ window' = <<>> /\ upserts' = upserts
      /\ forgotten' = [m \in Messages |-> IF Known(m) THEN forgotten[m] + 1 ELSE forgotten[m]]
  BY DEF End
<1>2. window' \in Seq(Messages) /\ Len(window') = 0
  BY <1>1, EmptySeq
<1>3. WindowDistinct' /\ \A m : ~Known(m)'
  BY <1>2 DEF WindowDistinct, Known, Contains
<1>4. AnnouncementsCounted'
  BY <1>1, <1>3 DEF DedupInv, AnnouncementsCounted
<1>5. /\ Len(window') <= WindowSize
      /\ upserts' \in [Messages -> Nat] /\ forgotten' \in [Messages -> Nat]
  BY <1>1, <1>2, MessagingAssumption DEF DedupInv
<1> QED BY <1>2, <1>3, <1>4, <1>5 DEF DedupInv

------------------------------------------------------------------------------
(* The stages of sendMessage.  The rest of the invariant, without the window. *)

Sends == [ stage : Stages, session : (0..MaxGen) \cup {None}, attempt : 0..MaxAttempts,
           status : {2, 3, 4} \cup {None} ]

Frames == [ socket : 0..MaxGen, session : 0..MaxGen, msg : Messages,
            attempt : 0..MaxAttempts ]

SendTypeOK ==
    /\ send \in [Outgoing -> Sends] /\ wire \subseteq Frames
    /\ lastStatus \in [Outgoing -> {2, 3, 4} \cup {None}]
    /\ receipts \in [Outgoing -> SUBSET ReceiptTypes]
    /\ effects \in [Messages -> 0..MaxEffects + 1]

LinkTypeOK ==
    /\ gen \in 0..MaxGen /\ ws \in {"none", "connecting", "open", "closing"}
    /\ session \in (0..MaxGen) \cup {None} /\ ended \in BOOLEAN

SendInv == SendTypeOK /\ StageOfAttempt /\ OneFrame /\ EffectsBounded /\ EffectsAfterSend

\* The invariant in its three parts, before and after a step.
LEMMA Parts == IInv <=> LinkTypeOK /\ SendInv /\ DedupInv
BY DEF IInv, TypeOK, LinkTypeOK, SendInv, SendTypeOK, DedupInv, Sends, Frames

LEMMA NextParts == LinkTypeOK' /\ SendInv' /\ DedupInv' => IInv'
BY DEF IInv, TypeOK, LinkTypeOK, SendInv, SendTypeOK, DedupInv, Sends, Frames

\* A message is the user's or others'.
LEMMA Disjoint ==
    /\ Outgoing \subseteq Messages /\ Incoming \subseteq Messages
    /\ Reactions \subseteq Outgoing
    /\ \A m \in Incoming : m \notin Outgoing
    /\ MaxAttempts \in Nat \ {0} /\ MaxGen \in Nat /\ MaxEffects \in Nat /\ None \notin 0..MaxGen
BY MessagingAssumption DEF Messages

\* A step that changes one message's stage and nothing else of it.
LEMMA StageStep ==
    ASSUME SendInv, NEW m \in Outgoing, NEW stage \in Stages,
           send' = [send EXCEPT ![m].stage = stage],
           wire' = wire, receipts' = receipts, effects' = effects,
           lastStatus' \in [Outgoing -> {2, 3, 4} \cup {None}],
           stage \in {"none", "backoff", "failed"} => FALSE,
           stage \in {"handed", "awaiting", "acked"} => send[m].attempt # 0,
           WasSent(m)' <=> WasSent(m),
           effects[m] > 0 => stage # "handed",
           m \in Reactions /\ stage \in {"sent", "local"} => effects[m] > 0,
           stage \notin {"sent", "local"} => effects[m] <= MaxEffects
    PROVE  SendInv'
<1> USE Disjoint
<1>1. \A n \in Outgoing : n # m => send'[n] = send[n]
  BY DEF SendInv, SendTypeOK
<1>2. /\ send'[m] = [send[m] EXCEPT !.stage = stage] /\ send[m] \in Sends
      /\ send'[m].stage = stage /\ send'[m].attempt = send[m].attempt
  BY DEF SendInv, SendTypeOK, Sends
<1>3. SendTypeOK'
  BY DEF SendInv, SendTypeOK, Sends
<1>4. StageOfAttempt'
  BY <1>1, <1>2 DEF SendInv, StageOfAttempt
<1>5. OneFrame'
  BY <1>1 DEF SendInv, OneFrame, WasSent, FramesOf
<1>6. EffectsBounded' /\ EffectsAfterSend'
  BY <1>1, <1>2 DEF SendInv, EffectsBounded, EffectsAfterSend
<1> QED BY <1>3, <1>4, <1>5, <1>6 DEF SendInv

\* One attempt: a frame on the wire and the stage that says so, or neither.
LEMMA AttemptStep ==
    ASSUME SendInv, LinkTypeOK, NEW m \in Outgoing, NEW sealedBy \in 0..MaxGen,
           NEW n \in 1..MaxAttempts, send[m].stage \in {"none", "backoff"},
           Attempt(m, sealedBy, n), UNCHANGED <<receipts, lastStatus, effects>>
    PROVE  SendInv'
<1> USE Disjoint
<1>1. /\ send[m] \in Sends /\ n \in 0..MaxAttempts /\ n # 0 /\ sealedBy # None
      /\ effects[m] = 0 /\ ~WasSent(m) /\ FramesOf(m) = {}
  <2>1. effects[m] = 0
    BY DEF SendInv, SendTypeOK, EffectsAfterSend
  <2>2. ~WasSent(m) /\ FramesOf(m) = {}
    BY DEF SendInv, OneFrame, WasSent
  <2> QED BY <2>1, <2>2 DEF SendInv, SendTypeOK
<1>2. ASSUME NEW stage \in {"handed", "backoff", "failed"},
             send' = [send EXCEPT ![m] = [@ EXCEPT !.stage = stage, !.session = sealedBy,
                                                   !.attempt = n]]
      PROVE  /\ send' \in [Outgoing -> Sends]
             /\ \A k \in Outgoing : k # m => send'[k] = send[k]
             /\ send'[m].stage = stage /\ send'[m].attempt = n /\ send'[m].session = sealedBy
  <2> DEFINE s == [send[m] EXCEPT !.stage = stage, !.session = sealedBy, !.attempt = n]
  <2>1. s \in Sends /\ s.stage = stage /\ s.attempt = n /\ s.session = sealedBy
    BY <1>1 DEF Sends, Stages
  <2>2. send' = [send EXCEPT ![m] = s]
    BY <1>2
  <2> HIDE DEF s
  <2> QED BY <2>1, <2>2 DEF SendInv, SendTypeOK
<1>3. CASE ws = "open"
  <2> DEFINE frame == Frame(m, sealedBy, n)
  <2>1. /\ wire' = wire \cup {frame}
        /\ send' = [send EXCEPT ![m] = [@ EXCEPT !.stage = "handed", !.session = sealedBy,
                                                 !.attempt = n]]
    BY <1>3 DEF Attempt
  <2>2. frame \in Frames /\ frame.msg = m
    BY <1>1 DEF Frame, Frames, LinkTypeOK
  <2>3. /\ send' \in [Outgoing -> Sends]
        /\ \A k \in Outgoing : k # m => send'[k] = send[k]
        /\ send'[m].stage = "handed" /\ send'[m].attempt = n
    BY <1>2, <2>1
  <2>4. SendTypeOK'
    BY <2>1, <2>2, <2>3 DEF SendInv, SendTypeOK
  <2>5. OneFrame'
    <3>1. WasSent(m)' /\ FramesOf(m)' = {frame} /\ frame \in wire'
      BY <1>1, <2>1, <2>2, <2>3 DEF WasSent, FramesOf
    <3>2. ASSUME NEW k \in Outgoing, k # m
          PROVE  FramesOf(k)' = FramesOf(k) /\ (WasSent(k)' <=> WasSent(k))
      BY <2>1, <2>2, <2>3, <3>2 DEF FramesOf, WasSent
    <3> QED BY <2>1, <3>1, <3>2 DEF SendInv, OneFrame
  <2>6. StageOfAttempt' /\ EffectsBounded' /\ EffectsAfterSend'
    BY <1>1, <2>3 DEF SendInv, StageOfAttempt, EffectsBounded, EffectsAfterSend
  <2> QED BY <2>4, <2>5, <2>6 DEF SendInv
<1>4. CASE ws # "open"
  <2> DEFINE stage == IF n < MaxAttempts THEN "backoff" ELSE "failed"
  <2>1. /\ wire' = wire
        /\ send' = [send EXCEPT ![m] = [@ EXCEPT !.stage = stage, !.session = sealedBy,
                                                 !.attempt = n]]
    BY <1>4 DEF Attempt
  <2>2. /\ send' \in [Outgoing -> Sends]
        /\ \A k \in Outgoing : k # m => send'[k] = send[k]
        /\ send'[m].stage = stage /\ send'[m].attempt = n /\ send'[m].session = sealedBy
    BY <1>2, <2>1
  <2>3. SendTypeOK'
    BY <2>1, <2>2 DEF SendInv, SendTypeOK
  <2>4. OneFrame'
    BY <1>1, <2>1, <2>2 DEF SendInv, OneFrame, WasSent, FramesOf
  <2>5. StageOfAttempt'
    BY <1>1, <2>2 DEF SendInv, StageOfAttempt
  <2>6. EffectsBounded' /\ EffectsAfterSend'
    BY <1>1, <2>2 DEF SendInv, EffectsBounded, EffectsAfterSend
  <2> QED BY <2>3, <2>4, <2>5, <2>6 DEF SendInv
<1> QED BY <1>3, <1>4

\* A step that leaves the sends alone.
LEMMA SendsUntouched ==
    ASSUME SendInv, UNCHANGED <<send, wire, receipts, lastStatus, effects>>
    PROVE  SendInv'
BY DEF SendInv, SendTypeOK, StageOfAttempt, OneFrame, EffectsBounded, EffectsAfterSend,
       WasSent, FramesOf

\* A step that leaves the window alone.
LEMMA DedupUntouched == DedupInv /\ UNCHANGED dedup => DedupInv'
BY DEF DedupInv, dedup, WindowDistinct, AnnouncementsCounted, Known

\* A step that leaves the connection alone.
LEMMA LinkUntouched == LinkTypeOK /\ UNCHANGED connection => LinkTypeOK'
BY DEF LinkTypeOK, connection

------------------------------------------------------------------------------
(* One lemma per action.                                                     *)

\* The engine before its first message.
LEMMA InitInv == Init => IInv
<1> SUFFICES ASSUME Init PROVE IInv
  OBVIOUS
<1> USE Disjoint DEF Init, Net!Init
<1>1. LinkTypeOK
  <2>1. ended \in BOOLEAN
    BY Zenon
  <2> QED BY <2>1 DEF LinkTypeOK
<1>2. DedupInv
  <2>1. window \in Seq(Messages) /\ Len(window) = 0
    BY EmptySeq
  <2>2. \A m : ~Known(m)
    BY <2>1 DEF Known, Contains
  <2> QED BY <2>1, <2>2, MessagingAssumption DEF DedupInv, WindowDistinct, AnnouncementsCounted
<1>3. SendInv
  <2>1. SendTypeOK
    BY DEF SendTypeOK, Sends, Stages
  <2> QED BY <2>1 DEF SendInv, StageOfAttempt, OneFrame, EffectsBounded, EffectsAfterSend,
                      WasSent, FramesOf
<1> QED BY <1>1, <1>2, <1>3, Parts

\* sendMessage, up to the end of its first attempt.
LEMMA SendMessageInv ==
    ASSUME IInv, NEW m \in Outgoing, SendMessage(m)
    PROVE  IInv'
<1> USE Disjoint
<1>0. /\ send[m].stage = "none" /\ UNCHANGED <<connection, receipts, lastStatus, effects>>
      /\ LinkTypeOK /\ SendInv /\ DedupInv /\ TypeOK
  BY Parts DEF SendMessage, IInv
<1>1. CASE session = None
  <2>1. EmitUpsert(m) /\ At(m, Returned(m, "local")) /\ wire' = wire
    BY <1>0, <1>1, MessagingAssumption DEF SendMessage, LinkTypeOK
  <2>2. /\ send[m].attempt = 0 /\ effects[m] = 0 /\ ~WasSent(m)
        /\ send' = [send EXCEPT ![m].stage = Returned(m, "local")]
        /\ Returned(m, "local") \in Stages
    BY <1>0, <2>1 DEF SendInv, SendTypeOK, StageOfAttempt, EffectsAfterSend, WasSent, At, Returned,
                      Stages
  <2>3. ~WasSent(m)'
    BY <2>2 DEF WasSent, Returned, SendInv, SendTypeOK, Sends
  <2>4. SendInv'
    <3>1. WasSent(m)' <=> WasSent(m)
      BY <2>2, <2>3
    <3>2. lastStatus' \in [Outgoing -> {2, 3, 4} \cup {None}]
      BY <1>0 DEF SendInv, SendTypeOK
    <3>3. CASE m \in Reactions
      <4>1. send' = [send EXCEPT ![m].stage = "returned"] /\ "returned" \in Stages
        BY <2>2, <3>3 DEF Returned, Stages
      <4>2. effects[m] <= MaxEffects /\ UNCHANGED <<wire, receipts, effects>>
        BY <1>0, <2>1, <2>2
      <4> QED BY <1>0, <2>2, <3>1, <3>2, <4>1, <4>2, StageStep
    <3>4. CASE m \notin Reactions
      <4>1. send' = [send EXCEPT ![m].stage = "local"] /\ "local" \in Stages
        BY <2>2, <3>4 DEF Returned, Stages
      <4>2. ~(effects[m] > 0) /\ UNCHANGED <<wire, receipts, effects>>
        BY <1>0, <2>1, <2>2
      <4> QED BY <1>0, <3>1, <3>2, <3>4, <4>1, <4>2, StageStep
    <3> QED BY <3>3, <3>4
  <2>5. DedupInv'
    BY <1>0, <2>1, EmitUpsertInv
  <2> QED BY <1>0, <2>4, <2>5, LinkUntouched, NextParts
<1>2. CASE session # None
  <2>1. Attempt(m, session, 1)
    BY <1>0, <1>2 DEF SendMessage
  <2>2. SendInv'
    BY <1>0, <1>2, <2>1, AttemptStep DEF LinkTypeOK
  <2> QED BY <1>0, <2>1, <2>2, DedupUntouched, LinkUntouched, NextParts DEF Attempt
<1> QED BY <1>1, <1>2

\* withRetry's next attempt.
LEMMA RetryInv ==
    ASSUME IInv, NEW m \in Outgoing, Retry(m)
    PROVE  IInv'
<1> USE Disjoint
<1>0. /\ send[m].stage = "backoff" /\ UNCHANGED <<connection, receipts, lastStatus, effects>>
      /\ Attempt(m, send[m].session, send[m].attempt + 1)
      /\ LinkTypeOK /\ SendInv /\ DedupInv
  BY Parts DEF Retry
<1>1. send[m].attempt + 1 \in 1..MaxAttempts /\ send[m].session \in 0..MaxGen
  BY <1>0 DEF SendInv, SendTypeOK, StageOfAttempt, Sends
<1>2. SendInv'
  BY <1>0, <1>1, AttemptStep
<1> QED BY <1>0, <1>2, DedupUntouched, LinkUntouched, NextParts DEF Attempt

\* The continuation after the send.
LEMMA SendContinuationInv ==
    ASSUME IInv, NEW m \in Outgoing, SendContinuation(m)
    PROVE  IInv'
<1> USE Disjoint
<1>0. /\ send[m].stage = "handed" /\ EmitUpsert(m)
      /\ send' = [send EXCEPT ![m].stage = "awaiting"]
      /\ UNCHANGED <<connection, wire, receipts, lastStatus, effects>>
      /\ LinkTypeOK /\ SendInv /\ DedupInv /\ TypeOK
  BY Parts DEF SendContinuation, At, IInv
<1>1. /\ send[m].attempt # 0 /\ WasSent(m) /\ effects[m] <= MaxEffects
      /\ WasSent(m)'
  BY <1>0 DEF SendInv, SendTypeOK, Sends, StageOfAttempt, WasSent, EffectsBounded
<1>2. SendInv'
  BY <1>0, <1>1, StageStep DEF Stages, SendInv, SendTypeOK
<1>3. DedupInv'
  BY <1>0, EmitUpsertInv
<1> QED BY <1>0, <1>2, <1>3, LinkUntouched, NextParts

\* The continuation after the ACK.
LEMMA AckContinuationInv ==
    ASSUME IInv, NEW m \in Outgoing, AckContinuation(m)
    PROVE  IInv'
<1> USE Disjoint
<1>0. /\ send[m].stage = "acked"
      /\ send' = [send EXCEPT ![m].stage = Returned(m, "sent")]
      /\ lastStatus' = [lastStatus EXCEPT ![m] = send[m].status]
      /\ UNCHANGED <<connection, wire, receipts, dedup, effects>>
      /\ LinkTypeOK /\ SendInv /\ DedupInv
  BY Parts DEF AckContinuation, At
<1>1. /\ send[m].attempt # 0 /\ WasSent(m) /\ effects[m] <= MaxEffects
      /\ WasSent(m)' /\ Returned(m, "sent") \in Stages
      /\ lastStatus' \in [Outgoing -> {2, 3, 4} \cup {None}]
  BY <1>0 DEF SendInv, SendTypeOK, Sends, StageOfAttempt, WasSent, EffectsBounded, Returned, Stages
<1>2. SendInv'
  <2>1. CASE m \in Reactions
    BY <1>0, <1>1, <2>1, StageStep DEF Returned
  <2>2. CASE m \notin Reactions
    BY <1>0, <1>1, <2>2, StageStep DEF Returned
  <2> QED BY <2>1, <2>2
<1> QED BY <1>0, <1>2, DedupUntouched, LinkUntouched, NextParts

\* No ACK in time.
LEMMA AckTimeoutInv ==
    ASSUME IInv, NEW m \in Outgoing, AckTimeout(m)
    PROVE  IInv'
<1> USE Disjoint
<1>0. /\ send[m].stage = "awaiting"
      /\ send' = [send EXCEPT ![m].stage = Returned(m, "sent")]
      /\ UNCHANGED <<connection, wire, receipts, lastStatus, dedup, effects>>
      /\ LinkTypeOK /\ SendInv /\ DedupInv
  BY Parts DEF AckTimeout, At
<1>1. /\ send[m].attempt # 0 /\ WasSent(m) /\ effects[m] <= MaxEffects
      /\ WasSent(m)' /\ Returned(m, "sent") \in Stages
      /\ lastStatus' \in [Outgoing -> {2, 3, 4} \cup {None}]
  BY <1>0 DEF SendInv, SendTypeOK, Sends, StageOfAttempt, WasSent, EffectsBounded, Returned, Stages
<1>2. SendInv'
  <2>1. CASE m \in Reactions
    BY <1>0, <1>1, <2>1, StageStep DEF Returned
  <2>2. CASE m \notin Reactions
    BY <1>0, <1>1, <2>2, StageStep DEF Returned
  <2> QED BY <2>1, <2>2
<1> QED BY <1>0, <1>2, DedupUntouched, LinkUntouched, NextParts

\* sendReaction goes on.
LEMMA ReactionContinuationInv ==
    ASSUME IInv, NEW m \in Outgoing, ReactionContinuation(m)
    PROVE  IInv'
<1> USE Disjoint
<1> DEFINE stage == IF send[m].attempt = 0 THEN "local" ELSE "sent"
<1>0. /\ send[m].stage = "returned"
      /\ effects' = [effects EXCEPT ![m] = @ + 1]
      /\ send' = [send EXCEPT ![m].stage = stage]
      /\ UNCHANGED <<connection, wire, receipts, lastStatus, dedup>>
      /\ LinkTypeOK /\ SendInv /\ DedupInv
  BY Parts DEF ReactionContinuation, At
<1>1. /\ send[m] \in Sends /\ stage \in Stages /\ stage \in {"local", "sent"}
      /\ effects[m] \in 0..MaxEffects
  BY <1>0 DEF SendInv, SendTypeOK, EffectsBounded, Stages
<1>2. /\ \A k \in Outgoing : k # m => send'[k] = send[k] /\ effects'[k] = effects[k]
      /\ send'[m].stage = stage /\ send'[m].attempt = send[m].attempt
      /\ effects'[m] = effects[m] + 1 /\ effects'[m] > 0
      /\ send' \in [Outgoing -> Sends] /\ effects' \in [Messages -> 0..MaxEffects + 1]
  <2> HIDE DEF stage
  <2> QED BY <1>0, <1>1 DEF SendInv, SendTypeOK, Sends
<1>3. SendInv'
  <2>1. SendTypeOK'
    BY <1>0, <1>2 DEF SendInv, SendTypeOK
  <2>2. OneFrame'
    <3>1. \A k \in Outgoing : WasSent(k)' <=> WasSent(k)
      BY <1>0, <1>2 DEF WasSent
    <3>2. \A k : FramesOf(k)' = FramesOf(k)
      BY <1>0 DEF FramesOf
    <3>3. wire' = wire
      BY <1>0
    <3> QED BY <1>0, <3>1, <3>2, <3>3 DEF SendInv, OneFrame
  <2>3. StageOfAttempt'
    BY <1>0, <1>1, <1>2 DEF SendInv, StageOfAttempt
  <2>4. EffectsBounded' /\ EffectsAfterSend'
    <3> HIDE DEF stage
    <3> QED BY <1>0, <1>1, <1>2 DEF SendInv, EffectsBounded, EffectsAfterSend
  <2> QED BY <2>1, <2>2, <2>3, <2>4 DEF SendInv
<1> QED BY <1>0, <1>3, DedupUntouched, LinkUntouched, NextParts

\* A receipt of the server or of the recipient.
LEMMA ReceiptInv ==
    ASSUME IInv, Receipt
    PROVE  IInv'
<1> USE Disjoint
<1>0. PICK m \in Outgoing, type \in ReceiptTypes : HandleReceipt(m, type)
  BY DEF Receipt
<1> DEFINE status == statusFromReceipt(type)
<1>1. /\ UNCHANGED <<connection, wire, dedup, effects>>
      /\ receipts' = [receipts EXCEPT ![m] = @ \cup {type}]
      /\ lastStatus' = [lastStatus EXCEPT ![m] = status]
      /\ status \in {2, 3, 4} \cup {None}
      /\ LinkTypeOK /\ SendInv /\ DedupInv
  BY <1>0, Parts DEF HandleReceipt, statusFromReceipt
<1>2. /\ receipts' \in [Outgoing -> SUBSET ReceiptTypes]
      /\ lastStatus' \in [Outgoing -> {2, 3, 4} \cup {None}]
  <2> HIDE DEF status
  <2> QED BY <1>1 DEF SendInv, SendTypeOK
<1>3. CASE send[m].stage = "awaiting"
  <2>1. /\ send' = [send EXCEPT ![m].stage = "acked", ![m].status = status]
        /\ send[m].attempt # 0 /\ effects[m] <= MaxEffects /\ send[m] \in Sends
    BY <1>0, <1>1, <1>3 DEF HandleReceipt, SendInv, SendTypeOK, StageOfAttempt, EffectsBounded
  <2>2. /\ \A k \in Outgoing : k # m => send'[k] = send[k]
        /\ send'[m].stage = "acked" /\ send'[m].attempt = send[m].attempt
        /\ send' \in [Outgoing -> Sends]
    <3> HIDE DEF status
    <3> QED BY <1>1, <2>1 DEF SendInv, SendTypeOK, Sends, Stages
  <2>3. SendTypeOK'
    BY <1>1, <1>2, <2>2 DEF SendInv, SendTypeOK
  <2>4. OneFrame'
    <3>1. \A k \in Outgoing : WasSent(k)' <=> WasSent(k)
      BY <1>3, <2>2 DEF WasSent
    <3> QED BY <1>1, <3>1 DEF SendInv, OneFrame, FramesOf
  <2>5. StageOfAttempt' /\ EffectsBounded' /\ EffectsAfterSend'
    BY <1>1, <1>3, <2>1, <2>2 DEF SendInv, StageOfAttempt, EffectsBounded, EffectsAfterSend
  <2>6. SendInv'
    BY <2>3, <2>4, <2>5 DEF SendInv
  <2> QED BY <1>1, <2>6, DedupUntouched, LinkUntouched, NextParts
<1>4. CASE send[m].stage # "awaiting"
  <2>1. send' = send
    BY <1>0, <1>4 DEF HandleReceipt
  <2>2. SendInv'
    BY <1>1, <1>2, <2>1 DEF SendInv, SendTypeOK, StageOfAttempt, OneFrame, EffectsBounded,
                            EffectsAfterSend, WasSent, FramesOf
  <2> QED BY <1>1, <2>2, DedupUntouched, LinkUntouched, NextParts
<1> QED BY <1>3, <1>4

\* A message of others, or the echo of one's own.
LEMMA DeliveryInv ==
    ASSUME IInv, Delivery
    PROVE  IInv'
<1> USE Disjoint
<1>0. PICK m \in Messages : /\ Receiving /\ (m \in Incoming \/ Reached(m))
                            /\ effects[m] < MaxEffects /\ HandleMessage(m)
  BY DEF Delivery
<1>1. /\ UNCHANGED <<connection, send, receipts, lastStatus>> /\ EmitUpsert(m)
      /\ effects' = IF m \in Effective THEN [effects EXCEPT ![m] = @ + 1] ELSE effects
      /\ session \in 0..MaxGen /\ gen \in 0..MaxGen
      /\ LinkTypeOK /\ SendInv /\ DedupInv /\ TypeOK
  <2>1. LinkTypeOK /\ SendInv /\ DedupInv /\ TypeOK
    BY Parts DEF IInv
  <2>2. session \in 0..MaxGen /\ gen \in 0..MaxGen
    BY <1>0, <2>1 DEF Receiving, LinkTypeOK
  <2> QED BY <1>0, <2>1, <2>2 DEF HandleMessage
<1>2. DedupInv'
  BY <1>1, EmitUpsertInv
<1>3. /\ effects' \in [Messages -> 0..MaxEffects + 1]
      /\ \A k \in Messages : k # m => effects'[k] = effects[k]
      /\ effects'[m] <= MaxEffects
      /\ \A k \in Messages : effects[k] > 0 => effects'[k] > 0
  BY <1>0, <1>1 DEF SendInv, SendTypeOK
<1>4. /\ wire' \subseteq Frames
      /\ \A k \in Outgoing : FramesOf(k)' = FramesOf(k)
      /\ wire \subseteq wire'
  <2>1. CASE m \in Incoming
    <3>1. Frame(m, session, 0) \in Frames /\ Frame(m, session, 0).msg = m
      BY <1>1 DEF Frame, Frames
    <3>2. wire' \subseteq wire \cup {Frame(m, session, 0)} /\ wire \subseteq wire'
      BY <1>0 DEF HandleMessage
    <3> QED BY <1>1, <2>1, <3>1, <3>2 DEF FramesOf, SendInv, SendTypeOK
  <2>2. CASE m \notin Incoming
    <3>1. wire' = wire
      BY <1>0, <2>2 DEF HandleMessage
    <3> QED BY <1>1, <3>1 DEF FramesOf, SendInv, SendTypeOK
  <2> QED BY <2>1, <2>2
<1>5. m \in Outgoing => send[m].stage \notin {"none", "backoff", "handed", "failed"}
  <2>1. SUFFICES ASSUME m \in Outgoing
                 PROVE  send[m].stage \notin {"none", "backoff", "handed", "failed"}
    OBVIOUS
  <2>2. FramesOf(m) # {} /\ send[m].stage # "handed"
    BY <1>0, <2>1 DEF Reached, FramesOf
  <2>3. WasSent(m)
    BY <1>1, <2>1, <2>2 DEF SendInv, OneFrame
  <2> QED BY <2>2, <2>3 DEF WasSent
<1>6. SendInv'
  <2>1. SendTypeOK' /\ StageOfAttempt'
    BY <1>1, <1>3, <1>4 DEF SendInv, SendTypeOK, StageOfAttempt
  <2>2. OneFrame'
    <3>1. \A k \in Outgoing : WasSent(k)' <=> WasSent(k)
      BY <1>1 DEF WasSent
    <3> QED BY <1>1, <1>4, <3>1 DEF SendInv, OneFrame
  <2>3. EffectsBounded' /\ EffectsAfterSend'
    BY <1>1, <1>3, <1>5 DEF SendInv, EffectsBounded, EffectsAfterSend
  <2> QED BY <2>1, <2>2, <2>3 DEF SendInv
<1> QED BY <1>1, <1>2, <1>6, LinkUntouched, NextParts

\* A key too old.
LEMMA ExpireInv ==
    ASSUME IInv, Expire
    PROVE  IInv'
<1>1. /\ UNCHANGED <<connection, send, wire, receipts, lastStatus, effects>>
      /\ LinkTypeOK /\ SendInv /\ DedupInv /\ TypeOK
  BY Parts DEF Expire, IInv
<1>2. LinkTypeOK' /\ SendInv' /\ DedupInv'
  BY <1>1, LinkUntouched, SendsUntouched, ExpireDedup
<1> QED BY <1>2, NextParts

\* The connection opens, has its session, drops and closes.
LEMMA LinkInv ==
    ASSUME IInv, Link
    PROVE  IInv'
<1> USE Disjoint
<1>1. LinkTypeOK /\ SendInv /\ DedupInv
  BY Parts
<1>2. /\ UNCHANGED <<ended, send, wire, receipts, lastStatus, dedup, effects>>
      /\ gen' \in 0..MaxGen /\ ws' \in {"none", "connecting", "open", "closing"}
      /\ session' \in (0..MaxGen) \cup {None}
  BY <1>1 DEF Link, LinkTypeOK, Net!Dials, Net!Opens, Net!Handshakes, Net!Drops, Net!Closes,
     Net!Discards
<1>3. LinkTypeOK'
  <2>1. ended' \in BOOLEAN
    BY <1>1, <1>2, Zenon DEF LinkTypeOK
  <2> QED BY <1>2, <2>1 DEF LinkTypeOK
<1>4. SendInv' /\ DedupInv'
  BY <1>1, <1>2, SendsUntouched, DedupUntouched
<1> QED BY <1>3, <1>4, NextParts

\* The user's end().
LEMMA EndInv ==
    ASSUME IInv, End
    PROVE  IInv'
<1> USE Disjoint
<1>0. LinkTypeOK /\ SendInv /\ DedupInv /\ TypeOK
  BY Parts DEF IInv
<1>1. /\ UNCHANGED <<gen, wire, receipts, lastStatus, upserts, effects>>
      /\ ended' = TRUE /\ ws' = "none" /\ session' = None
      /\ send' = [m \in Outgoing |-> IF send[m].stage = "awaiting"
                                     THEN [send[m] EXCEPT !.stage = Returned(m, "sent")]
                                     ELSE send[m]]
  BY DEF End
<1>2. LinkTypeOK'
  <2>1. ended' \in BOOLEAN
    BY <1>1, Zenon
  <2> QED BY <1>0, <1>1, <2>1 DEF LinkTypeOK
<1>3. \A m \in Outgoing : send[m] \in Sends /\ Returned(m, "sent") \in Stages
  BY <1>0 DEF SendInv, SendTypeOK, Returned, Stages
<1>4. \A m \in Outgoing :
         /\ send'[m] \in Sends /\ send'[m].attempt = send[m].attempt
         /\ send'[m].session = send[m].session
         /\ send'[m].stage = IF send[m].stage = "awaiting" THEN Returned(m, "sent")
                             ELSE send[m].stage
  BY <1>1, <1>3 DEF Sends
<1>5. SendInv'
  <2>1. SendTypeOK'
    BY <1>0, <1>1, <1>4 DEF SendInv, SendTypeOK
  <2>2. StageOfAttempt'
    BY <1>0, <1>4 DEF SendInv, StageOfAttempt, Returned
  <2>3. OneFrame'
    <3>1. \A m \in Outgoing : WasSent(m)' <=> WasSent(m)
      BY <1>0, <1>4 DEF WasSent, Returned, SendInv, StageOfAttempt
    <3> QED BY <1>0, <1>1, <3>1 DEF SendInv, OneFrame, FramesOf
  <2>4. EffectsBounded'
    BY <1>0, <1>1, <1>4 DEF SendInv, EffectsBounded, Returned
  <2>5. EffectsAfterSend'
    BY <1>0, <1>1, <1>4 DEF SendInv, EffectsAfterSend, Returned
  <2> QED BY <2>1, <2>2, <2>3, <2>4, <2>5 DEF SendInv
<1> QED BY <1>0, <1>2, <1>5, EndDedup, NextParts

\* Nothing happens.
LEMMA StutterInv == IInv /\ UNCHANGED vars => IInv'
BY Parts, NextParts, LinkUntouched, SendsUntouched, DedupUntouched DEF vars

------------------------------------------------------------------------------
(* The theorems.                                                             *)

\* Every reachable state satisfies the invariant.
THEOREM Invariance == Spec => []IInv
<1>1. IInv /\ [Next]_vars => IInv'
  <2> SUFFICES ASSUME IInv, [Next]_vars PROVE IInv'
    OBVIOUS
  <2>1. ASSUME NEW m \in Outgoing,
               SendMessage(m) \/ Retry(m) \/ SendContinuation(m) \/ AckContinuation(m)
               \/ AckTimeout(m) \/ ReactionContinuation(m)
        PROVE  IInv'
    BY <2>1, SendMessageInv, RetryInv, SendContinuationInv, AckContinuationInv, AckTimeoutInv,
       ReactionContinuationInv
  <2>2. CASE Receipt
    BY <2>2, ReceiptInv
  <2>3. CASE Delivery
    BY <2>3, DeliveryInv
  <2>4. CASE Expire
    BY <2>4, ExpireInv
  <2>5. CASE Link
    BY <2>5, LinkInv
  <2>6. CASE End
    BY <2>6, EndInv
  <2>7. CASE UNCHANGED vars
    BY <2>7, StutterInv
  <2> QED BY <2>1, <2>2, <2>3, <2>4, <2>5, <2>6, <2>7 DEF Next
<1> QED BY InitInv, <1>1, PTL DEF Spec

\* The variables stay in their domains: in particular no message is attempted more
\* than maxSendAttempts times and the window keeps its size.
THEOREM MessagingTypeCorrect == Spec => []TypeOK
BY Invariance, PTL DEF IInv

\* emitUpsert announces a message once for as long as the window knows it.
THEOREM AnnouncedOncePerWindow == Spec => []AnnouncedOnce
<1>1. IInv => AnnouncedOnce
  <2> SUFFICES ASSUME IInv, NEW m \in Messages PROVE upserts[m] <= forgotten[m] + 1
    BY DEF AnnouncedOnce
  <2>1. forgotten[m] \in Nat
    BY DEF IInv, TypeOK
  <2>2. upserts[m] = forgotten[m] + (IF Known(m) THEN 1 ELSE 0)
    BY DEF IInv, AnnouncementsCounted
  <2> QED BY <2>1, <2>2
<1> QED BY Invariance, <1>1, PTL

\* sendMessage resolves after exactly one frame and rejects after none.
THEOREM SentOnce == Spec => []OutcomeMatchesWire
<1>1. IInv => OutcomeMatchesWire
  <2> SUFFICES ASSUME IInv, NEW m \in Outgoing
               PROVE  Cardinality(FramesOf(m)) = IF WasSent(m) THEN 1 ELSE 0
    BY DEF OutcomeMatchesWire, FramesOf, WasSent
  <2>1. CASE WasSent(m)
    <3>1. PICK f \in wire : FramesOf(m) = {f}
      BY <2>1 DEF IInv, OneFrame
    <3> QED BY <2>1, <3>1, FS_Singleton
  <2>2. CASE ~WasSent(m)
    BY <2>2, FS_EmptySet DEF IInv, OneFrame
  <2> QED BY <2>1, <2>2
<1> QED BY Invariance, <1>1, PTL

\* Listeners hear of the effect of one's own message only once it was sent or kept.
THEOREM EffectsOnlyAfterSend == Spec => []EffectsAfterSend
BY Invariance, PTL DEF IInv

------------------------------------------------------------------------------
(* What the engine may rely on.                                              *)

\* A session in use is that of the WebSocket in use.
SessionOfSocket == ws # "none" /\ session # None => session = gen

\* Frames sealed and handed over in one go.
FirstFramesReadable == \A f \in wire : f.attempt <= 1 => f.session = f.socket

\* The first attempt of a message, and the receipt of an incoming one, are sealed with the
\* session of the WebSocket that carries them: the server can decrypt them, whatever
\* Link the connection is.  (Later attempts are sealed with the session of the first,
\* engine.ts:187, and this does not hold of them.)
THEOREM FirstAttemptIsReadable == Spec => []FirstFramesReadable
<1> DEFINE Inv == SessionOfSocket /\ FirstFramesReadable
<1>1. Init => Inv
  BY DEF Init, Net!Init, SessionOfSocket, FirstFramesReadable
<1>2. ASSUME IInv, Inv, [Next]_vars PROVE Inv'
  <2>1. CASE Link
    <3>1. UNCHANGED wire
      BY <2>1 DEF Link
    <3>2. SessionOfSocket'
      BY <1>2, <2>1 DEF Link, SessionOfSocket, Net!Dials, Net!Opens, Net!Handshakes, Net!Drops,
         Net!Closes, Net!Discards
    <3> QED BY <1>2, <3>1, <3>2 DEF FirstFramesReadable
  <2>2. CASE End
    BY <1>2, <2>2 DEF End, SessionOfSocket, FirstFramesReadable
  <2>3. CASE ~Link /\ ~End
    <3>1. UNCHANGED connection
      BY <1>2, <2>3 DEF Next, SendMessage, Retry, SendContinuation, AckContinuation, AckTimeout,
         ReactionContinuation, Receipt, HandleReceipt, Delivery, HandleMessage, Expire, vars
    <3>2. ASSUME NEW f \in wire', f \notin wire, f.attempt <= 1
          PROVE  f.session = f.socket
      <4>1. CASE \E m \in Outgoing : SendMessage(m)
        <5>1. f = Frame(f.msg, session, 1) /\ ws = "open" /\ session # None
          BY <3>2, <4>1 DEF SendMessage, Attempt, Frame
        <5> QED BY <1>2, <5>1 DEF SessionOfSocket, Frame
      <4>2. CASE \E m \in Outgoing : Retry(m)
        <5>1. PICK m \in Outgoing : Retry(m)
          BY <4>2
        <5>2. send[m].attempt \in Nat /\ send[m].attempt # 0
          BY <1>2, <5>1, Disjoint, Parts DEF Retry, SendInv, SendTypeOK, Sends, StageOfAttempt
        <5>3. f.attempt = send[m].attempt + 1
          BY <3>2, <5>1 DEF Retry, Attempt, Frame
        <5> QED BY <3>2, <5>2, <5>3
      <4>3. CASE Delivery
        <5>1. PICK m \in Messages : HandleMessage(m) /\ Receiving
          BY <4>3 DEF Delivery
        <5>2. f = Frame(m, session, 0) /\ ws = "open" /\ session # None
          BY <3>2, <5>1 DEF HandleMessage, Receiving
        <5> QED BY <1>2, <5>2 DEF SessionOfSocket, Frame
      <4>4. CASE \/ \E m \in Outgoing : SendContinuation(m) \/ AckContinuation(m) \/ AckTimeout(m)
                                         \/ ReactionContinuation(m)
                 \/ Receipt \/ Expire \/ UNCHANGED vars
        BY <3>2, <4>4 DEF SendContinuation, AckContinuation, AckTimeout, ReactionContinuation,
           Receipt, HandleReceipt, Expire, vars
      <4> QED BY <1>2, <2>3, <4>1, <4>2, <4>3, <4>4 DEF Next
    <3> QED BY <1>2, <3>1, <3>2 DEF SessionOfSocket, FirstFramesReadable, connection
  <2> QED BY <2>1, <2>2, <2>3
<1> QED BY <1>1, <1>2, Invariance, PTL DEF Spec
=============================================================================
