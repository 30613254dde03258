--------------------------- MODULE KeyStoreProofs ---------------------------
(***************************************************************************)
(* KeyStore implements AtomicKeyStore, and what it acknowledged survives,  *)
(* for any keys, calls, crashes and failing writes, whether or not the     *)
(* calls let recovery end.  Only the keys over which a recovery and a call *)
(* were in each other's way are excepted: that they may lose what was      *)
(* acknowledged is what the run KeyStoreRace shows.                        *)
(*                                                                         *)
(* The invariant says what the journal is good for: while a batch is being *)
(* applied, or waits for a restart to be applied again, the journal names  *)
(* it, nothing acknowledged is newer, and what has been taken off the list *)
(* of files to do is in place.  And it says what keeps a recovery from     *)
(* doing harm elsewhere: the journal it read is the one that is there and  *)
(* no call runs, or else the keys of that journal are contested.           *)
(***************************************************************************)
EXTENDS KeyStore, TLAPS

Touches(c, k) == batch[c] = Clear \/ k \in DOMAIN batch[c]
IsSet(c) == batch[c] # Clear
Begun == {"running", "acked", "failed", "lost"}

\* The calls take their turns: whoever has not yet had its turn keeps its successors
\* from theirs, and calls are numbered in the order they are made.
InTurn ==
    \A c, d \in Calls : c < d =>
        /\ status[c] \in {"none", "queued", "running"} => status[d] \in {"none", "queued"}
        /\ status[c] = "none" => status[d] = "none"

\* The mutex is held by the call that runs, and its list of files is its own.
MutexHeld ==
    /\ \A c \in Calls : status[c] = "running" <=> running = c
    /\ running = Absent => todo = {}
    /\ running # Absent /\ IsSet(running) => todo \subseteq DOMAIN batch[running]

\* Recovery works on the batch of a call.
ReplaysCall == recovery = "apply" => replay # Absent

TurnsInv == StoreTypeOK /\ InTurn /\ MutexHeld /\ ReplaysCall

\* What was taken off the list has been done, and is undone only where a recovery is
\* in the way.
DoneIsInPlace ==
    running # Absent =>
        /\ \A k \in Keys \ (todo \cup contested) :
              Touches(running, k) => file[k] = Effect(running, k)
        /\ ~IsSet(running) /\ JournalFile \notin todo => journal = Absent

\* The journal holds a batch that was not acknowledged, and nothing newer was.
JournalIsNewest ==
    journal # Absent =>
        /\ IsSet(journal) /\ status[journal] \in {"running", "failed", "lost"}
        /\ \A c \in Calls : status[c] = "acked" => c < journal

\* A batch that is being applied has its journal, unless a recovery has removed it.
\* Without failing writes and late recoveries there is no other journal, except for a
\* restart to find.
JournalOfBatch ==
    /\ running # Absent /\ IsSet(running) =>
          \/ journal = running
          \/ journal = Absent /\ contested # {}
    /\ (failures = 0 /\ contested = {} /\ recovery = "done"
            /\ (running = Absent \/ ~IsSet(running)))
           => journal = Absent

\* Recovery writes what the journal has that is there, while no call runs; or its keys
\* are contested.
RecoveryApart ==
    recovery = "apply" =>
        /\ IsSet(replay) /\ status[replay] \in Begun /\ left \subseteq DOMAIN batch[replay]
        /\ \/ DOMAIN batch[replay] \subseteq contested
           \/ running = Absent /\ journal = replay
        /\ failures = 0 /\ contested = {} =>
              \A k \in DOMAIN batch[replay] \ left : file[k] = Effect(replay, k)

\* Whatever a recovery and a call contend for has been noted.
RivalsNoted == Rivals \subseteq contested /\ contested \subseteq Keys

IInv == /\ TurnsInv /\ DoneIsInPlace /\ JournalIsNewest /\ JournalOfBatch /\ RecoveryApart
        /\ RivalsNoted /\ UncontestedSurvives

------------------------------------------------------------------------------
(* Facts about the data.                                                     *)

\* A batch is about keys.
LEMMA BatchKeys == \A b \in Batches \cup {Clear} : DOMAIN b \subseteq Keys
BY DEF Batches, Clear

\* Numbers and names do not meet.
LEMMA Constants ==
    /\ Calls \subseteq Nat /\ Absent \notin Calls /\ JournalFile \notin Keys
    /\ {MaxCalls, MaxCrashes, MaxFailures} \subseteq Nat
BY KeyStoreAssumption DEF Calls

\* What a call leaves of a key is a value of the key.
LEMMA EffectType == \A c \in Calls, k \in Keys : Effect(c, k) \in Calls \cup {Absent}
BY DEF Effect

\* What the types say of the call that runs and of the journal; a set() has keys.
LEMMA CallsOfState ==
    ASSUME StoreTypeOK
    PROVE  /\ running # Absent => running \in Calls
           /\ journal # Absent => journal \in Calls
           /\ replay # Absent => replay \in Calls
           /\ \A c \in Calls : /\ batch[c] \in Batches \cup {Clear}
                               /\ DOMAIN batch[c] \subseteq Keys
                               /\ IsSet(c) => DOMAIN batch[c] # {}
<1>1. \A b \in Batches : DOMAIN b # {}
  BY DEF Batches
<1> QED BY <1>1, BatchKeys DEF StoreTypeOK, IsSet

------------------------------------------------------------------------------
(* The turns of the calls.                                                   *)

\* A new store on an empty folder.
LEMMA InitTurns == Init => TurnsInv
BY Constants DEF Init, TurnsInv, StoreTypeOK, InTurn, MutexHeld, ReplaysCall

\* A call is made, has its turn, and its turn ends.
LEMMA CallTurns ==
    ASSUME TurnsInv, NEW c \in Calls,
           Call(c) \/ WriteJournal(c) \/ JournalFails(c) \/ ReadDir(c)
    PROVE  TurnsInv'
<1> USE Constants DEF TurnsInv
<1>1. CASE Call(c)
  <2>0. PICK b \in Batches \cup {Clear} : batch' = [batch EXCEPT ![c] = b]
    BY <1>1 DEF Call
  <2>1. /\ status[c] = "none" /\ \A d \in 1..(c - 1) : status[d] # "none"
        /\ status' = [status EXCEPT ![c] = "queued"]
        /\ UNCHANGED <<disk, mutex, recoveryVars, faults>>
    BY <1>1 DEF Call
  <2>2. StoreTypeOK' /\ ReplaysCall'
    BY <2>0, <2>1 DEF StoreTypeOK, ReplaysCall, disk, mutex, recoveryVars, faults
  <2>3. InTurn'
    BY <2>1 DEF InTurn, StoreTypeOK, Calls
  <2>4. running # Absent => running # c /\ batch'[running] = batch[running]
    BY <2>0, <2>1, CallsOfState DEF MutexHeld, StoreTypeOK
  <2>5. MutexHeld'
    BY <2>1, <2>4 DEF MutexHeld, StoreTypeOK, IsSet, mutex
  <2> QED BY <2>2, <2>3, <2>5
<1>2. CASE WriteJournal(c) \/ ReadDir(c)
  <2>1. /\ GetsMutex(c) /\ running' = c /\ status' = [status EXCEPT ![c] = "running"]
        /\ journal' \in {journal, c} /\ UNCHANGED <<file, batch, recoveryVars, faults>>
        /\ todo' \subseteq Keys \cup {JournalFile}
        /\ IsSet(c) => todo' \subseteq DOMAIN batch[c]
    BY <1>2, CallsOfState DEF WriteJournal, ReadDir, Runs, IsSet, disk
  <2>2. StoreTypeOK' /\ ReplaysCall'
    BY <2>1 DEF StoreTypeOK, ReplaysCall, recoveryVars, faults
  <2>3. \A d \in Calls : /\ d < c => status[d] \notin {"none", "queued", "running"}
                         /\ c < d => status[d] \in {"none", "queued"}
                         /\ status[d] # "running"
    BY <2>1 DEF InTurn, MutexHeld, GetsMutex, Calls
  <2>4. InTurn' /\ MutexHeld'
    BY <2>1, <2>3 DEF InTurn, MutexHeld, StoreTypeOK, IsSet
  <2> QED BY <2>2, <2>4
<1>3. CASE JournalFails(c)
  <2>1. /\ GetsMutex(c) /\ status' = [status EXCEPT ![c] = "failed"]
        /\ failures < MaxFailures /\ failures' = failures + 1
        /\ UNCHANGED <<disk, batch, mutex, recoveryVars, crashes>>
    BY <1>3 DEF JournalFails, Fails
  <2>2. StoreTypeOK' /\ ReplaysCall'
    BY <2>1 DEF StoreTypeOK, ReplaysCall, disk, mutex, recoveryVars
  <2>3. \A d \in Calls : /\ d < c => status[d] \notin {"none", "queued", "running"}
                         /\ c < d => status[d] \in {"none", "queued"}
                         /\ status[d] # "running"
    BY <2>1 DEF InTurn, MutexHeld, GetsMutex, Calls
  <2>4. InTurn' /\ MutexHeld'
    BY <2>1, <2>3 DEF InTurn, MutexHeld, StoreTypeOK, IsSet, mutex
  <2> QED BY <2>2, <2>4
<1> QED BY <1>1, <1>2, <1>3

\* The call that runs works and ends.
LEMMA RunTurns ==
    ASSUME TurnsInv,
           \/ \E f \in Keys \cup {JournalFile} : Apply(f)
           \/ Finish
           \/ \E k \in Keys : WriteFails(k)
    PROVE  TurnsInv'
<1> USE Constants DEF TurnsInv
<1>0. running \in Calls
  BY DEF Apply, Finish, WriteFails, StoreTypeOK
<1>1. ASSUME NEW f \in Keys \cup {JournalFile}, Apply(f) PROVE TurnsInv'
  <2>1. /\ todo' = todo \ {f} /\ journal' \in {journal, Absent}
        /\ UNCHANGED <<running, calls, recoveryVars, faults>>
    BY <1>1 DEF Apply
  <2>2. file' \in [Keys -> Calls \cup {Absent}]
    BY <1>0, <1>1, EffectType DEF Apply, StoreTypeOK
  <2>3. StoreTypeOK' /\ ReplaysCall'
    BY <2>1, <2>2 DEF StoreTypeOK, ReplaysCall, calls, recoveryVars, faults
  <2>4. InTurn' /\ MutexHeld'
    BY <2>1 DEF InTurn, MutexHeld, IsSet, calls
  <2> QED BY <2>3, <2>4
<1>2. ASSUME Finish \/ \E k \in Keys : WriteFails(k) PROVE TurnsInv'
  <2>1. PICK s \in {"acked", "failed"} :
           /\ status' = [status EXCEPT ![running] = s] /\ running' = Absent /\ todo' = {}
           /\ journal' \in {journal, Absent} /\ failures' \in 0..MaxFailures
           /\ UNCHANGED <<file, batch, recoveryVars, crashes>>
    BY <1>2 DEF Finish, WriteFails, Fails, StoreTypeOK, disk, faults
  <2>2. StoreTypeOK' /\ ReplaysCall'
    BY <1>0, <2>1 DEF StoreTypeOK, ReplaysCall, recoveryVars
  <2>3. status[running] = "running"
    BY <1>0 DEF MutexHeld
  <2>4. InTurn' /\ MutexHeld'
    BY <1>0, <2>1, <2>3 DEF InTurn, MutexHeld, StoreTypeOK
  <2> QED BY <2>2, <2>4
<1> QED BY <1>1, <1>2

\* Recovery leaves the calls and the mutex alone; a crash ends them all.
LEMMA RecoveryTurns ==
    ASSUME TurnsInv,
           ReadJournal \/ RemoveJournal \/ Crash \/ \E k \in Keys : Replay(k) \/ ReplayFails(k)
    PROVE  TurnsInv'
<1> USE Constants DEF TurnsInv
<1>1. CASE ReadJournal \/ RemoveJournal
  <2>1. /\ journal' \in {journal, Absent} /\ replay' \in {journal, Absent}
        /\ recovery' \in {"apply", "done"} /\ left' \subseteq Keys
        /\ recovery' = "apply" => replay' # Absent
        /\ UNCHANGED <<file, calls, mutex, faults>>
    BY <1>1, CallsOfState DEF ReadJournal, RemoveJournal, StoreTypeOK, disk
  <2> QED BY <2>1 DEF StoreTypeOK, InTurn, MutexHeld, ReplaysCall, IsSet, calls, mutex, faults
<1>2. ASSUME NEW k \in Keys, Replay(k) \/ ReplayFails(k) PROVE TurnsInv'
  <2>1. /\ left' \subseteq Keys /\ failures' \in 0..MaxFailures
        /\ UNCHANGED <<journal, calls, mutex, recovery, replay, crashes>>
    BY <1>2 DEF Replay, ReplayFails, Fails, StoreTypeOK, disk, faults
  <2>2. file' \in [Keys -> Calls \cup {Absent}]
    <3>1. replay \in Calls
      BY <1>2 DEF Replay, ReplayFails, ReplaysCall, StoreTypeOK
    <3>2. file' = [file EXCEPT ![k] = Effect(replay, k)] \/ file' = file
      BY <1>2 DEF Replay, ReplayFails, disk
    <3> QED BY <3>1, <3>2, EffectType DEF StoreTypeOK
  <2> QED BY <2>1, <2>2 DEF StoreTypeOK, InTurn, MutexHeld, ReplaysCall, IsSet, calls, mutex
<1>3. CASE Crash
  <2>1. /\ status' = [c \in Calls |-> IF status[c] \in {"queued", "running"}
                                      THEN "lost" ELSE status[c]]
        /\ running' = Absent /\ todo' = {} /\ recovery' = "read" /\ replay' = Absent
        /\ left' = {} /\ crashes' \in 0..MaxCrashes
        /\ UNCHANGED <<disk, batch, failures>>
    BY <1>3 DEF Crash, StoreTypeOK
  <2>2. StoreTypeOK' /\ ReplaysCall'
    BY <2>1 DEF StoreTypeOK, ReplaysCall, disk
  <2>3. InTurn' /\ MutexHeld'
    BY <2>1 DEF InTurn, MutexHeld, StoreTypeOK
  <2> QED BY <2>2, <2>3
<1> QED BY <1>1, <1>2, <1>3

\* Nothing happens.
LEMMA StutterTurns == TurnsInv /\ UNCHANGED vars => TurnsInv'
BY DEF TurnsInv, StoreTypeOK, InTurn, MutexHeld, ReplaysCall, IsSet, vars, disk, calls, mutex,
       recoveryVars, faults

\* Every step keeps the turns.
LEMMA StepTurns == TurnsInv /\ [Next]_vars => TurnsInv'
BY StutterTurns, CallTurns, RunTurns, RecoveryTurns DEF Next, Steps

\* The keys of a journal are keys.
LEMMA RivalKeys == TurnsInv => Rivals \subseteq Keys
BY CallsOfState DEF Rivals, TurnsInv, ReplaysCall

\* key-store.ts, createMutex: the types hold, one call at a time has the mutex, and calls
\* have it in the order in which they were made - also while a recovery runs beside them
\* and over crashes and writes that fail.
THEOREM CallsTakeTurns == Spec => [](TypeOK /\ InTurn /\ MutexHeld)
<1> DEFINE Typed == TurnsInv /\ contested \subseteq Keys
<1>1. Init => Typed
  BY InitTurns DEF Init
<1>2. Typed /\ [Next]_vars => Typed'
  <2>1. TurnsInv' => (Rivals \subseteq Keys)'
    BY RivalKeys, PTL
  <2> QED BY <2>1, StepTurns DEF Next, vars
<1>3. Typed => TypeOK /\ InTurn /\ MutexHeld
  BY DEF TypeOK, TurnsInv
<1> QED BY <1>1, <1>2, <1>3, PTL DEF Spec

------------------------------------------------------------------------------
(* What was acknowledged survives.                                           *)

\* The contenders of the state that a step reaches have been noted.
Noting == contested' = contested \cup Rivals'

\* A contender is a key, and noted keys stay noted.
LEMMA RivalsInv ==
    ASSUME IInv, TurnsInv', Noting
    PROVE  RivalsNoted' /\ contested \subseteq contested'
<1>1. TurnsInv' => (Rivals \subseteq Keys)'
  BY RivalKeys, PTL
<1> QED BY <1>1 DEF IInv, RivalsNoted, Noting

\* An acknowledged value stays, or is overwritten by a call that is no older.
LEMMA ValuesKept ==
    ASSUME IInv, contested \subseteq contested',
           \A d \in Calls : status[d] \in Begun =>
               status'[d] \in Begun /\ batch'[d] = batch[d],
           \A c \in Calls : status'[c] = "acked" => status[c] = "acked",
           \A k \in Keys \ contested :
               \/ file'[k] = file[k]
               \/ \E d \in Calls : /\ status[d] \in Begun /\ Touches(d, k)
                                   /\ file'[k] = Effect(d, k)
                                   /\ \A c \in Calls : status[c] = "acked" => c <= d
    PROVE  UncontestedSurvives'
<1> USE Constants
<1> SUFFICES ASSUME NEW c \in Calls, NEW k \in Keys \ contested', status[c] = "acked", Touches(c, k)
             PROVE  \E d \in c..MaxCalls : /\ status'[d] \in Begun
                                           /\ Touches(d, k)' /\ file'[k] = Effect(d, k)'
  <2>1. \A c \in Calls : status[c] = "acked" => batch'[c] = batch[c]
    BY DEF Begun
  <2> QED BY <2>1 DEF UncontestedSurvives, KeptSince, Touches, Begun
<1>1. PICK d \in c..MaxCalls : /\ status[d] \in Begun /\ Touches(d, k)
                               /\ file[k] = Effect(d, k)
  BY DEF IInv, UncontestedSurvives, KeptSince, Touches, Begun
<1>2. ASSUME NEW e \in Calls, status[e] \in Begun, Touches(e, k)
      PROVE  Touches(e, k)' /\ Effect(e, k)' = Effect(e, k)
  BY <1>2 DEF Touches, Effect
<1>3. d \in Calls
  BY DEF Calls
<1>4. CASE file'[k] = file[k]
  BY <1>1, <1>2, <1>3, <1>4
<1>5. ASSUME NEW e \in Calls, status[e] \in Begun, Touches(e, k), file'[k] = Effect(e, k),
             c <= e
      PROVE  e \in c..MaxCalls /\ status'[e] \in Begun
                /\ Touches(e, k)' /\ file'[k] = Effect(e, k)'
  BY <1>2, <1>5 DEF Calls
<1> QED BY <1>4, <1>5

\* The rest of the invariant, for the lemmas below.
Kept == DoneIsInPlace /\ JournalIsNewest /\ JournalOfBatch /\ RecoveryApart /\ UncontestedSurvives

\* A new store on an empty folder.
LEMMA InitInv == Init => IInv
<1> SUFFICES ASSUME Init PROVE IInv
  OBVIOUS
<1> USE Constants DEF Init
<1>1. DoneIsInPlace /\ JournalIsNewest /\ JournalOfBatch /\ RecoveryApart
  BY DEF DoneIsInPlace, JournalIsNewest, JournalOfBatch, RecoveryApart
<1>2. RivalsNoted /\ UncontestedSurvives
  BY DEF RivalsNoted, Rivals, UncontestedSurvives
<1> QED BY <1>1, <1>2, InitTurns DEF IInv

\* A call that runs and a recovery have noted what they contend for.
LEMMA Contended ==
    ASSUME IInv, running # Absent
    PROVE  /\ recovery = "apply" => DOMAIN batch[replay] \subseteq contested /\ contested # {}
           /\ recovery = "read" /\ journal # Absent => contested # {}
<1>1. CASE recovery = "apply"
  <2>1. replay \in Calls /\ IsSet(replay)
    BY <1>1, CallsOfState DEF IInv, TurnsInv, ReplaysCall, RecoveryApart
  <2>2. Rivals = DOMAIN batch[replay]
    BY <1>1 DEF Rivals
  <2> QED BY <1>1, <2>1, <2>2, CallsOfState DEF IInv, TurnsInv, RivalsNoted
<1>2. CASE recovery = "read" /\ journal # Absent
  <2>1. journal \in Calls /\ IsSet(journal)
    BY <1>2, CallsOfState DEF IInv, TurnsInv, JournalIsNewest
  <2>2. Rivals = DOMAIN batch[journal]
    BY <1>2 DEF Rivals
  <2> QED BY <1>2, <2>1, <2>2, CallsOfState DEF IInv, TurnsInv, RivalsNoted
<1> QED BY <1>1, <1>2

\* A call that only queues.
LEMMA CallInv ==
    ASSUME IInv, NEW c \in Calls, Call(c), contested \subseteq contested'
    PROVE  Kept'
<1> USE Constants
<1> PICK b \in Batches \cup {Clear} : batch' = [batch EXCEPT ![c] = b]
  BY DEF Call
<1>0. /\ status[c] = "none" /\ status' = [status EXCEPT ![c] = "queued"]
      /\ UNCHANGED <<disk, mutex, recoveryVars, faults>>
  BY DEF Call
<1>1. /\ running # Absent => running # c /\ running \in Calls
      /\ journal # Absent => journal # c /\ journal \in Calls
      /\ recovery = "apply" => replay # c /\ replay \in Calls
  BY <1>0, CallsOfState
     DEF IInv, TurnsInv, MutexHeld, JournalIsNewest, RecoveryApart, ReplaysCall, Begun
<1>2. \A d \in Calls : d # c => batch'[d] = batch[d] /\ status'[d] = status[d]
  BY <1>0 DEF IInv, TurnsInv, StoreTypeOK
<1>3. status'[c] = "queued"
  BY <1>0 DEF IInv, TurnsInv, StoreTypeOK
<1>4. DoneIsInPlace'
  BY <1>0, <1>1, <1>2 DEF IInv, DoneIsInPlace, IsSet, Touches, Effect, disk, mutex
<1>5. JournalIsNewest' /\ JournalOfBatch'
  BY <1>0, <1>1, <1>2, <1>3
     DEF IInv, JournalIsNewest, JournalOfBatch, IsSet, disk, mutex, recoveryVars, faults
<1>6. RecoveryApart'
  BY <1>0, <1>1, <1>2 DEF IInv, RecoveryApart, IsSet, Effect, disk, mutex, recoveryVars, faults
<1>7. UncontestedSurvives'
  BY <1>0, <1>2, <1>3, ValuesKept DEF Begun, disk
<1> QED BY <1>4, <1>5, <1>6, <1>7 DEF Kept

\* What makes c the call whose turn it is.
LEMMA TurnOf ==
    ASSUME IInv, NEW c \in Calls, GetsMutex(c)
    PROVE  \A d \in Calls : /\ d < c => status[d] \notin {"none", "queued", "running"}
                            /\ c < d => status[d] \in {"none", "queued"}
                            /\ status[d] = "acked" => d < c
                            /\ status[d] # "running"
BY Constants DEF IInv, TurnsInv, InTurn, MutexHeld, GetsMutex, Calls

\* Whoever gets the mutex during a recovery is in its way.
LEMMA RecoveryMet ==
    ASSUME running' # Absent, Noting, UNCHANGED <<recoveryVars, batch>>
    PROVE  recovery = "apply" => DOMAIN batch[replay] \subseteq contested'
BY DEF Noting, Rivals, recoveryVars

\* set() has journaled its batch.
LEMMA WriteJournalInv ==
    ASSUME IInv, NEW c \in Calls, WriteJournal(c), Noting, contested \subseteq contested'
    PROVE  Kept'
<1> USE Constants
<1>0. /\ status[c] = "queued" /\ running = Absent /\ batch[c] # Clear
      /\ running' = c /\ todo' = DOMAIN batch[c] /\ journal' = c
      /\ status' = [status EXCEPT ![c] = "running"]
      /\ UNCHANGED <<file, batch, recoveryVars, faults>>
  BY DEF WriteJournal, Runs, GetsMutex
<1>1. \A d \in Calls : status[d] = "acked" => d < c
  BY TurnOf DEF WriteJournal
<1>2. DoneIsInPlace'
  BY <1>0 DEF DoneIsInPlace, Touches, IsSet
<1>3. JournalIsNewest' /\ JournalOfBatch'
  BY <1>0, <1>1 DEF IInv, TurnsInv, StoreTypeOK, JournalIsNewest, JournalOfBatch, IsSet
<1>4. RecoveryApart'
  <2>1. recovery = "apply" => DOMAIN batch[replay] \subseteq contested' /\ DOMAIN batch[replay] # {}
    BY <1>0, RecoveryMet, CallsOfState DEF IInv, TurnsInv, ReplaysCall, RecoveryApart
  <2>2. recovery = "apply" => replay \in Calls /\ replay # c
    BY <1>0, CallsOfState DEF IInv, TurnsInv, ReplaysCall, RecoveryApart, Begun
  <2> QED BY <1>0, <2>1, <2>2
          DEF IInv, TurnsInv, StoreTypeOK, RecoveryApart, IsSet, Effect, Begun, recoveryVars, faults
<1>5. UncontestedSurvives'
  BY <1>0, ValuesKept DEF Begun, IInv, TurnsInv, StoreTypeOK
<1> QED BY <1>2, <1>3, <1>4, <1>5 DEF Kept

\* The journal could not be written: nothing has changed but the call's status.
LEMMA JournalFailsInv ==
    ASSUME IInv, NEW c \in Calls, JournalFails(c), contested \subseteq contested'
    PROVE  Kept'
<1> USE Constants
<1>0. /\ status[c] = "queued" /\ running = Absent
      /\ status' = [status EXCEPT ![c] = "failed"]
      /\ failures \in Nat /\ failures' = failures + 1
      /\ UNCHANGED <<disk, batch, mutex, recoveryVars>>
  BY DEF JournalFails, GetsMutex, Fails, IInv, TurnsInv, StoreTypeOK
<1>1. DoneIsInPlace'
  BY <1>0 DEF DoneIsInPlace, mutex
<1>2. JournalIsNewest' /\ JournalOfBatch'
  BY <1>0, CallsOfState
     DEF IInv, TurnsInv, StoreTypeOK, JournalIsNewest, JournalOfBatch, IsSet, disk, mutex
<1>3. RecoveryApart'
  BY <1>0, CallsOfState
     DEF IInv, TurnsInv, StoreTypeOK, ReplaysCall, RecoveryApart, IsSet, Begun, disk, mutex,
         recoveryVars
<1>4. UncontestedSurvives'
  BY <1>0, ValuesKept DEF Begun, IInv, TurnsInv, StoreTypeOK, disk
<1> QED BY <1>1, <1>2, <1>3, <1>4 DEF Kept

\* clear() has listed the files.
LEMMA ReadDirInv ==
    ASSUME IInv, NEW c \in Calls, ReadDir(c), Noting, contested \subseteq contested'
    PROVE  Kept'
<1> USE Constants
<1> DEFINE there == {k \in Keys : file[k] # Absent}
                    \cup (IF journal = Absent THEN {} ELSE {JournalFile})
<1>0. /\ status[c] = "queued" /\ running = Absent /\ batch[c] = Clear
      /\ running' = c /\ todo' = there
      /\ status' = [status EXCEPT ![c] = "running"]
      /\ UNCHANGED <<disk, batch, recoveryVars, faults>>
  BY DEF ReadDir, Runs, GetsMutex
<1>1. DoneIsInPlace'
  BY <1>0 DEF DoneIsInPlace, Touches, IsSet, Effect, disk
<1>2. JournalIsNewest' /\ JournalOfBatch'
  BY <1>0, CallsOfState
     DEF IInv, TurnsInv, StoreTypeOK, JournalIsNewest, JournalOfBatch, IsSet, disk, recoveryVars,
         faults
<1>3. RecoveryApart'
  <2>1. recovery = "apply" => DOMAIN batch[replay] \subseteq contested' /\ DOMAIN batch[replay] # {}
    BY <1>0, RecoveryMet, CallsOfState DEF IInv, TurnsInv, ReplaysCall, RecoveryApart
  <2>2. recovery = "apply" => replay \in Calls /\ replay # c
    BY <1>0, CallsOfState DEF IInv, TurnsInv, ReplaysCall, RecoveryApart, Begun
  <2> QED BY <1>0, <2>1, <2>2
          DEF IInv, TurnsInv, StoreTypeOK, RecoveryApart, IsSet, Effect, Begun, recoveryVars, faults
<1>4. UncontestedSurvives'
  BY <1>0, ValuesKept DEF Begun, IInv, TurnsInv, StoreTypeOK, disk
<1> QED BY <1>1, <1>2, <1>3, <1>4 DEF Kept

\* One file is written or removed: nothing acknowledged is newer than the call that runs.
LEMMA ApplyInv ==
    ASSUME IInv, NEW f \in Keys \cup {JournalFile}, Apply(f), contested \subseteq contested'
    PROVE  Kept'
<1> USE Constants
<1>0. /\ running \in Calls /\ running # Absent /\ f \in todo /\ todo' = todo \ {f}
      /\ file' = [k \in Keys |-> IF k = f THEN Effect(running, k) ELSE file[k]]
      /\ journal' = IF f = JournalFile THEN Absent ELSE journal
      /\ UNCHANGED <<running, calls, recoveryVars, faults>>
  BY CallsOfState DEF Apply, IInv, TurnsInv
<1>1. /\ status[running] = "running"
      /\ \A c \in Calls : status[c] = "acked" => c < running
  BY <1>0 DEF IInv, TurnsInv, MutexHeld, InTurn, Calls
<1>2. f \in Keys => Touches(running, f)
  BY <1>0 DEF IInv, TurnsInv, MutexHeld, Touches, IsSet
<1>3. f = JournalFile => ~IsSet(running)
  BY <1>0, CallsOfState DEF IInv, TurnsInv, MutexHeld
<1>4. DoneIsInPlace'
  BY <1>0 DEF IInv, DoneIsInPlace, Touches, Effect, IsSet, calls
<1>5. JournalIsNewest' /\ JournalOfBatch'
  BY <1>0, <1>1, <1>3
     DEF IInv, JournalIsNewest, JournalOfBatch, IsSet, calls, recoveryVars, faults
<1>6. RecoveryApart'
  BY <1>0, Contended DEF IInv, RecoveryApart, IsSet, calls, recoveryVars, faults
<1>7. UncontestedSurvives'
  BY <1>0, <1>1, <1>2, ValuesKept DEF Begun, calls, Calls
<1> QED BY <1>4, <1>5, <1>6, <1>7 DEF Kept

\* set() gives up half way and leaves its journal.
LEMMA WriteFailsInv ==
    ASSUME IInv, NEW k \in Keys, WriteFails(k), contested \subseteq contested'
    PROVE  Kept'
<1> USE Constants
<1> running \in Calls /\ status[running] = "running"
  BY CallsOfState DEF WriteFails, IInv, TurnsInv, MutexHeld
<1>0. /\ running # Absent
      /\ status' = [status EXCEPT ![running] = "failed"]
      /\ failures \in Nat /\ failures' = failures + 1
      /\ running' = Absent /\ todo' = {}
      /\ UNCHANGED <<disk, batch, recoveryVars>>
  BY DEF WriteFails, Fails, IInv, TurnsInv, StoreTypeOK
<1>1. DoneIsInPlace'
  BY <1>0 DEF DoneIsInPlace
<1>2. JournalIsNewest' /\ JournalOfBatch'
  BY <1>0, CallsOfState
     DEF IInv, TurnsInv, StoreTypeOK, JournalIsNewest, JournalOfBatch, IsSet, disk
<1>3. RecoveryApart'
  BY <1>0, Contended, CallsOfState
     DEF IInv, TurnsInv, StoreTypeOK, ReplaysCall, RecoveryApart, IsSet, Begun, recoveryVars
<1>4. UncontestedSurvives'
  BY <1>0, ValuesKept DEF Begun, IInv, TurnsInv, StoreTypeOK, disk
<1> QED BY <1>1, <1>2, <1>3, <1>4 DEF Kept

\* Everything that is not contested is in place when a call is acknowledged.
LEMMA FinishInv ==
    ASSUME IInv, Finish, contested \subseteq contested'
    PROVE  Kept'
<1> USE Constants
<1>0. /\ running \in Calls /\ running # Absent /\ todo = {}
      /\ status' = [status EXCEPT ![running] = "acked"]
      /\ running' = Absent
      /\ UNCHANGED <<file, batch, todo, recoveryVars, faults>>
  BY CallsOfState DEF Finish, IInv, TurnsInv
<1>1. journal' = Absent
  BY <1>0 DEF Finish, IInv, DoneIsInPlace, IsSet
<1>2. DoneIsInPlace' /\ JournalIsNewest' /\ JournalOfBatch'
  BY <1>0, <1>1 DEF DoneIsInPlace, JournalIsNewest, JournalOfBatch
<1>3. RecoveryApart'
  BY <1>0, Contended, CallsOfState
     DEF IInv, TurnsInv, StoreTypeOK, ReplaysCall, RecoveryApart, IsSet, Begun, recoveryVars
<1>4. UncontestedSurvives'
  <2> SUFFICES ASSUME NEW c \in Calls, NEW k \in Keys \ contested, status'[c] = "acked",
                      Touches(c, k)
               PROVE  \E d \in c..MaxCalls : /\ status'[d] \in Begun
                                             /\ Touches(d, k) /\ file[k] = Effect(d, k)
    BY <1>0 DEF UncontestedSurvives, KeptSince, Touches, Effect, Begun
  <2>1. CASE c = running
    BY <1>0, <2>1 DEF IInv, TurnsInv, StoreTypeOK, DoneIsInPlace, Begun, Calls
  <2>2. CASE c # running
    <3>1. PICK d \in c..MaxCalls : /\ status[d] \in Begun
                                   /\ Touches(d, k) /\ file[k] = Effect(d, k)
      BY <1>0, <2>2
         DEF IInv, TurnsInv, StoreTypeOK, UncontestedSurvives, KeptSince, Touches, Begun
    <3>2. status'[d] \in Begun
      BY <1>0, <3>1 DEF Begun, IInv, TurnsInv, StoreTypeOK, Calls
    <3> QED BY <3>1, <3>2
  <2> QED BY <2>1, <2>2
<1> QED BY <1>2, <1>3, <1>4 DEF Kept

\* Recovery reads the journal, if there is one.
LEMMA ReadJournalInv ==
    ASSUME IInv, ReadJournal, Noting, contested \subseteq contested'
    PROVE  Kept'
<1> USE Constants
<1>0. /\ recovery = "read" /\ replay' = journal
      /\ UNCHANGED <<disk, calls, mutex, faults>>
      /\ \/ journal = Absent /\ recovery' = "done" /\ left' = {}
         \/ journal # Absent /\ recovery' = "apply" /\ left' = DOMAIN batch[journal]
  BY DEF ReadJournal
<1>1. DoneIsInPlace' /\ JournalIsNewest'
  BY <1>0 DEF IInv, DoneIsInPlace, JournalIsNewest, IsSet, Touches, Effect, disk, calls, mutex
<1>2. JournalOfBatch'
  BY <1>0 DEF IInv, JournalOfBatch, IsSet, disk, calls, mutex, faults
<1>3. RecoveryApart'
  <2>1. journal # Absent /\ running # Absent => DOMAIN batch[journal] \subseteq contested'
    BY <1>0 DEF Noting, Rivals, calls, mutex
  <2> QED BY <1>0, <2>1
          DEF IInv, RecoveryApart, JournalIsNewest, IsSet, Begun, disk, calls, mutex
<1>4. UncontestedSurvives'
  BY <1>0, ValuesKept DEF disk, calls
<1> QED BY <1>1, <1>2, <1>3, <1>4 DEF Kept

\* Recovery writes one key: of a batch that is newer than all that was acknowledged, or
\* one that is contested.
LEMMA ReplayInv ==
    ASSUME IInv, NEW k \in Keys, Replay(k), contested \subseteq contested'
    PROVE  Kept'
<1> USE Constants
<1>0. /\ recovery = "apply" /\ k \in left /\ left' = left \ {k}
      /\ file' = [file EXCEPT ![k] = Effect(replay, k)]
      /\ UNCHANGED <<journal, calls, mutex, recovery, replay, faults>>
  BY DEF Replay
<1>1. /\ replay \in Calls /\ k \in DOMAIN batch[replay] /\ status[replay] \in Begun
      /\ k \in contested \/ (running = Absent /\ journal = replay)
  BY <1>0, CallsOfState DEF IInv, TurnsInv, ReplaysCall, RecoveryApart
<1>2. \A x \in Keys : x # k => file'[x] = file[x]
  BY <1>0 DEF IInv, TurnsInv, StoreTypeOK
<1>3. DoneIsInPlace'
  BY <1>0, <1>1, <1>2 DEF IInv, DoneIsInPlace, IsSet, Touches, Effect, calls, mutex
<1>4. JournalIsNewest' /\ JournalOfBatch'
  BY <1>0 DEF IInv, JournalIsNewest, JournalOfBatch, IsSet, calls, mutex, faults
<1>5. RecoveryApart'
  BY <1>0, <1>1, CallsOfState
     DEF IInv, TurnsInv, StoreTypeOK, RecoveryApart, IsSet, Effect, calls, mutex, faults
<1>6. UncontestedSurvives'
  <2>1. k \in contested \/ \A c \in Calls : status[c] = "acked" => c <= replay
    BY <1>1 DEF IInv, JournalIsNewest, Calls
  <2>2. file'[k] = Effect(replay, k)
    BY <1>0 DEF IInv, TurnsInv, StoreTypeOK
  <2> QED BY <1>0, <1>1, <1>2, <2>1, <2>2, ValuesKept DEF Touches, calls
<1> QED BY <1>3, <1>4, <1>5, <1>6 DEF Kept

\* Recovery gives up one key.
LEMMA ReplayFailsInv ==
    ASSUME IInv, NEW k \in Keys, ReplayFails(k), contested \subseteq contested'
    PROVE  Kept'
<1> USE Constants
<1>0. /\ recovery = "apply" /\ k \in left /\ left' = left \ {k}
      /\ failures \in Nat /\ failures' = failures + 1
      /\ UNCHANGED <<disk, calls, mutex, recovery, replay>>
  BY DEF ReplayFails, Fails, IInv, TurnsInv, StoreTypeOK
<1>1. DoneIsInPlace' /\ JournalIsNewest' /\ JournalOfBatch'
  BY <1>0 DEF IInv, DoneIsInPlace, JournalIsNewest, JournalOfBatch, IsSet, Touches, Effect, disk,
              calls, mutex
<1>2. RecoveryApart'
  BY <1>0 DEF IInv, RecoveryApart, IsSet, disk, calls, mutex
<1>3. UncontestedSurvives'
  BY <1>0, ValuesKept DEF disk, calls
<1> QED BY <1>1, <1>2, <1>3 DEF Kept

\* Recovery is over; it may have taken the journal of the call that runs.
LEMMA RemoveJournalInv ==
    ASSUME IInv, RemoveJournal, contested \subseteq contested'
    PROVE  Kept'
<1> USE Constants
<1>0. /\ recovery = "apply" /\ journal' = Absent /\ recovery' = "done"
      /\ UNCHANGED <<file, calls, mutex, faults>>
  BY DEF RemoveJournal
<1>1. DoneIsInPlace' /\ JournalIsNewest' /\ RecoveryApart'
  BY <1>0 DEF IInv, DoneIsInPlace, JournalIsNewest, RecoveryApart, IsSet, Touches, Effect, calls,
              mutex
<1>2. JournalOfBatch'
  BY <1>0, Contended DEF IInv, JournalOfBatch, mutex
<1>3. UncontestedSurvives'
  BY <1>0, ValuesKept DEF calls
<1> QED BY <1>1, <1>2, <1>3 DEF Kept

\* A restart finds the journal of whatever the process was applying.
LEMMA CrashInv ==
    ASSUME IInv, Crash, contested \subseteq contested'
    PROVE  Kept'
<1> USE Constants
<1>0. /\ status' = [c \in Calls |-> IF status[c] \in {"queued", "running"}
                                    THEN "lost" ELSE status[c]]
      /\ running' = Absent /\ recovery' = "read"
      /\ UNCHANGED <<disk, batch>>
  BY DEF Crash
<1>1. DoneIsInPlace' /\ JournalOfBatch' /\ RecoveryApart'
  BY <1>0 DEF DoneIsInPlace, JournalOfBatch, RecoveryApart
<1>2. JournalIsNewest'
  BY <1>0, CallsOfState DEF IInv, TurnsInv, JournalIsNewest, IsSet, disk
<1>3. UncontestedSurvives'
  BY <1>0, ValuesKept DEF Begun, disk
<1> QED BY <1>1, <1>2, <1>3 DEF Kept

\* Every step keeps the invariant.
LEMMA StepInv == IInv /\ [Next]_vars => IInv'
<1>1. CASE UNCHANGED vars
  BY <1>1, StutterTurns
     DEF IInv, DoneIsInPlace, JournalIsNewest, JournalOfBatch, RecoveryApart, RivalsNoted, Rivals,
         UncontestedSurvives, KeptSince, IsSet, Touches, Effect, vars, disk, calls, mutex,
         recoveryVars, faults
<1>2. ASSUME IInv, Next PROVE IInv'
  <2>1. TurnsInv' /\ Noting
    BY <1>2, StepTurns DEF IInv, Next, Noting
  <2>2. RivalsNoted' /\ contested \subseteq contested'
    BY <1>2, <2>1, RivalsInv
  <2>3. Kept'
    BY <1>2, <2>1, <2>2, CallInv, WriteJournalInv, JournalFailsInv, ReadDirInv, ApplyInv,
       WriteFailsInv, FinishInv, ReadJournalInv, ReplayInv, ReplayFailsInv, RemoveJournalInv,
       CrashInv
       DEF Next, Steps
  <2> QED BY <2>1, <2>2, <2>3 DEF IInv, Kept
<1> QED BY <1>1, <1>2

\* The invariant holds in every state.
THEOREM Invariance == Spec => []IInv
BY InitInv, StepInv, PTL DEF Spec

\* key-store.ts, set and recoverJournal: what was acknowledged survives every later
\* crash, recovery and failed write until a later call changes the key; all but the keys
\* over which a recovery and a call were in each other's way.
THEOREM Durable == Spec => []UncontestedSurvives
BY Invariance, PTL DEF IInv

------------------------------------------------------------------------------
(* The refinement.                                                           *)

\* Where the journal has no say the store is what is in the files.
LEMMA StoredAtRest == ASSUME journal = Absent, StoreTypeOK PROVE Stored = file
BY DEF Stored, StoreTypeOK

\* The two modules have the same batches.
LEMMA SameBatches == Atomic!Batches = Batches /\ Atomic!Clear = Clear
BY DEF Atomic!Batches, Atomic!Clear, Batches, Clear

\* The two modules agree on what a batch leaves of its keys.
LEMMA SameEffects ==
    ASSUME NEW c \in Calls, batch[c] \in Batches, NEW k \in DOMAIN batch[c], IsSet(c)
    PROVE  Effect(c, k) = Atomic!Effect(batch[c], c, k)
<1>1. batch[c][k] \in {"write", "delete"}
  BY DEF Batches
<1> QED BY <1>1 DEF Effect, Atomic!Effect, IsSet

\* A call with a journal or a turn is a set() with a batch.
LEMMA BatchOfSet == ASSUME StoreTypeOK, NEW c \in Calls, IsSet(c) PROVE batch[c] \in Batches
BY DEF StoreTypeOK, IsSet

\* The initial states correspond.
LEMMA InitAtomic == Init => Atomic!Init
<1> SUFFICES ASSUME Init PROVE Atomic!Init
  OBVIOUS
<1>1. Stored = file
  BY InitTurns, StoredAtRest DEF Init, TurnsInv
<1> QED BY <1>1, SameBatches DEF Init, Atomic!Init

\* A call is made.
LEMMA CallAtomic ==
    ASSUME IInv, NEW c \in Calls, Call(c)
    PROVE  Atomic!Request(c)
<1>1. /\ status[c] = "none" /\ status' = [status EXCEPT ![c] = "queued"]
      /\ \E b \in Batches \cup {Clear} : batch' = [batch EXCEPT ![c] = b]
      /\ UNCHANGED <<disk, failures>>
  BY DEF Call, faults
<1>2. /\ batch' \in [Calls -> Batches \cup {Clear}]
      /\ \A d \in Calls \ {c} : batch'[d] = batch[d]
  BY <1>1 DEF IInv, TurnsInv, StoreTypeOK
<1>3. journal # Absent => journal \in Calls /\ journal # c
  BY <1>1, CallsOfState DEF IInv, TurnsInv, JournalIsNewest
<1>4. UNCHANGED Stored
  BY <1>1, <1>2, <1>3 DEF Stored, Effect, disk
<1> QED BY <1>1, <1>2, <1>4, SameBatches DEF Atomic!Request, Atomic!values, disk

\* The rename of the journal is the moment a batch takes effect.
LEMMA WriteJournalAtomic ==
    ASSUME IInv, NEW c \in Calls, WriteJournal(c), Noting
    PROVE  Atomic!Commit(c)
<1>1. /\ status[c] = "queued" /\ running = Absent /\ IsSet(c) /\ journal' = c
      /\ status' = [status EXCEPT ![c] = "running"] /\ running' = c
      /\ UNCHANGED <<file, batch, failures, recoveryVars>>
  BY DEF WriteJournal, Runs, GetsMutex, IsSet, faults
<1>2. Atomic!MyTurn(c)
  BY <1>1, TurnOf DEF Atomic!MyTurn, WriteJournal
<1>3. batch[c] \in Batches /\ DOMAIN batch[c] # {}
  BY <1>1, BatchOfSet, CallsOfState DEF IInv, TurnsInv
<1>4. failures = 0 /\ contested' = {} => file = Stored
  <2>1. contested' = {} => recovery = "done" /\ contested = {}
    <3>1. recovery = "apply" => Rivals' = DOMAIN batch[replay] /\ DOMAIN batch[replay] # {}
      BY <1>1, Constants, CallsOfState
         DEF Rivals, IInv, TurnsInv, ReplaysCall, RecoveryApart, recoveryVars
    <3>2. recovery = "read" => Rivals' = DOMAIN batch[c]
      BY <1>1, Constants DEF Rivals, recoveryVars
    <3> QED BY <1>3, <3>1, <3>2 DEF Noting, IInv, TurnsInv, StoreTypeOK
  <2> QED BY <1>1, <2>1, StoredAtRest DEF IInv, TurnsInv, JournalOfBatch
<1>5. Stored' = [k \in Keys |-> IF k \in DOMAIN batch[c]
                                THEN Atomic!Effect(batch[c], c, k) ELSE file[k]]
  <2>1. c # Absent
    BY Constants
  <2>2. \A k \in DOMAIN batch[c] : Effect(c, k)' = Atomic!Effect(batch[c], c, k)
    BY <1>1, <1>3, SameEffects DEF Effect
  <2>3. Stored' = [k \in Keys |-> IF k \in DOMAIN batch[c] THEN Effect(c, k)' ELSE file[k]]
    BY <1>1, <2>1 DEF Stored
  <2> QED BY <2>2, <2>3
<1> QED BY <1>1, <1>2, <1>4, <1>5, SameBatches DEF Atomic!Commit, Atomic!Whole, IsSet

\* A call whose journal could not be written.
LEMMA JournalFailsAtomic ==
    ASSUME IInv, NEW c \in Calls, JournalFails(c)
    PROVE  Atomic!Fail(c)
<1>1. /\ status[c] = "queued" /\ batch[c] # Clear
      /\ status' = [status EXCEPT ![c] = "failed"] /\ failures' # 0
      /\ UNCHANGED <<disk, batch>>
  BY DEF JournalFails, GetsMutex, Fails, IInv, TurnsInv, StoreTypeOK
<1>2. Atomic!MyTurn(c)
  BY <1>1, TurnOf DEF Atomic!MyTurn, JournalFails
<1> QED BY <1>1, <1>2, SameBatches DEF Atomic!Fail, Atomic!values, Stored, Effect, disk

\* clear() begins.
LEMMA ReadDirAtomic ==
    ASSUME IInv, NEW c \in Calls, ReadDir(c)
    PROVE  Atomic!BeginClear(c)
<1>1. /\ status[c] = "queued" /\ batch[c] = Clear
      /\ status' = [status EXCEPT ![c] = "running"]
      /\ UNCHANGED <<disk, batch, failures>>
  BY DEF ReadDir, Runs, GetsMutex, faults
<1>2. Atomic!MyTurn(c)
  BY <1>1, TurnOf DEF Atomic!MyTurn, ReadDir
<1> QED BY <1>1, <1>2, SameBatches DEF Atomic!BeginClear, Atomic!values, Stored, Effect, disk

\* With one key written or removed the store changes at that key or, where the journal
\* has its say, not at all.
LEMMA OneKey ==
    ASSUME StoreTypeOK, NEW k \in Keys, NEW v, file' = [file EXCEPT ![k] = v],
           UNCHANGED <<journal, calls>>
    PROVE  IF journal # Absent /\ k \in DOMAIN batch[journal]
           THEN Stored' = Stored ELSE Stored' = [Stored EXCEPT ![k] = v]
<1>1. Stored' = [x \in Keys |-> IF journal # Absent /\ x \in DOMAIN batch[journal]
                                THEN Effect(journal, x) ELSE file'[x]]
  BY DEF Stored, Effect, calls
<1>2. CASE journal # Absent /\ k \in DOMAIN batch[journal]
  BY <1>1, <1>2 DEF Stored, StoreTypeOK
<1>3. CASE ~(journal # Absent /\ k \in DOMAIN batch[journal])
  BY <1>1, <1>3 DEF Stored, StoreTypeOK
<1> QED BY <1>2, <1>3

\* A key file of a batch that still has its journal or has lost it, a key file that
\* clear() removes, or a journal that it removes with the rest.
LEMMA ApplyAtomic ==
    ASSUME IInv, NEW f \in Keys \cup {JournalFile}, Apply(f)
    PROVE  Atomic!Steps \/ UNCHANGED <<Stored, file, failures, batch, status>>
<1> USE Constants
<1>0. /\ running \in Calls /\ running # Absent /\ f \in todo
      /\ file' = [k \in Keys |-> IF k = f THEN Effect(running, k) ELSE file[k]]
      /\ journal' = IF f = JournalFile THEN Absent ELSE journal
      /\ UNCHANGED <<calls, failures>>
  BY CallsOfState DEF Apply, IInv, TurnsInv, faults
<1>1. status[running] = "running" /\ StoreTypeOK
  BY <1>0 DEF IInv, TurnsInv, MutexHeld
<1>2. ~IsSet(running) /\ failures = 0 /\ contested = {} => journal = Absent
  BY <1>0, <1>1, Contended DEF IInv, JournalOfBatch, StoreTypeOK
<1>3. f \in Keys => /\ file' = [file EXCEPT ![f] = Effect(running, f)]
                    /\ journal' = journal
  BY <1>0, <1>1 DEF StoreTypeOK
<1>4. CASE IsSet(running)
  <2>1. f \in DOMAIN batch[running] /\ f \in Keys
    BY <1>0, <1>1, <1>4, CallsOfState DEF IInv, TurnsInv, MutexHeld
  <2>2. CASE journal = running
    <3>1. Stored[f] = Effect(running, f)
      BY <1>0, <2>1, <2>2 DEF Stored
    <3>2. Stored' = Stored
      BY <1>0, <1>1, <1>3, <2>1, <2>2, OneKey
    <3> QED BY <1>0, <1>3, <2>1, <3>1, <3>2 DEF Atomic!Steps, Atomic!Write, calls
  <2>3. CASE journal = Absent /\ contested # {}
    <3>1. Effect(running, f) = Atomic!Effect(batch[running], running, f)
      BY <1>0, <1>1, <1>4, <2>1, SameEffects, BatchOfSet
    <3>2. Stored' = [Stored EXCEPT ![f] = Effect(running, f)]
      BY <1>0, <1>1, <1>3, <2>1, <2>3, OneKey
    <3>3. Atomic!Redo(running, f)
      BY <1>0, <1>1, <1>3, <1>4, <2>1, <2>3, <3>1, <3>2, SameBatches DEF Atomic!Redo, IsSet, calls
    <3> QED BY <1>0, <2>1, <3>3 DEF Atomic!Steps
  <2> QED BY <1>0, <1>4, <2>2, <2>3 DEF IInv, JournalOfBatch
<1>5. CASE ~IsSet(running) /\ f \in Keys
  <2>1. Effect(running, f) = Absent
    BY <1>5 DEF Effect, IsSet
  <2>2. Stored' = Stored \/ Stored' = [Stored EXCEPT ![f] = Absent]
    BY <1>0, <1>1, <1>3, <1>5, <2>1, OneKey
  <2>3. failures = 0 /\ contested = {} => Stored' = [Stored EXCEPT ![f] = Absent]
    BY <1>0, <1>1, <1>2, <1>3, <1>5, <2>1, OneKey
  <2>4. Atomic!Erase(running, f)
    BY <1>0, <1>1, <1>3, <1>5, <2>1, <2>2, <2>3, SameBatches
       DEF Atomic!Erase, Atomic!Whole, calls, IsSet
  <2> QED BY <1>0, <1>5, <2>4 DEF Atomic!Steps
<1>6. CASE ~IsSet(running) /\ f = JournalFile
  <2>1. file' = file /\ journal' = Absent
    BY <1>0, <1>1, <1>6 DEF StoreTypeOK
  <2>2. Stored' = file
    BY <1>1, <2>1 DEF Stored, StoreTypeOK
  <2>3. CASE failures = 0 /\ contested = {}
    BY <1>0, <1>1, <1>2, <1>6, <2>1, <2>2, <2>3, StoredAtRest DEF calls
  <2>4. CASE ~(failures = 0 /\ contested = {})
    <3>1. Atomic!Forget
      BY <1>0, <2>1, <2>2, <2>4 DEF Atomic!Forget, Atomic!Whole, calls
    <3> QED BY <3>1 DEF Atomic!Steps
  <2> QED BY <2>3, <2>4
<1> QED BY <1>4, <1>5, <1>6

\* A batch that fails half way.
LEMMA WriteFailsAtomic ==
    ASSUME IInv, NEW k \in Keys, WriteFails(k)
    PROVE  \E c \in Calls : Atomic!Fail(c)
<1>1. /\ running \in Calls /\ running # Absent /\ batch[running] # Clear
      /\ status' = [status EXCEPT ![running] = "failed"] /\ failures' # 0
      /\ UNCHANGED <<disk, batch>>
  BY CallsOfState DEF WriteFails, Fails, IInv, TurnsInv, StoreTypeOK
<1>2. status[running] = "running"
  BY <1>1 DEF IInv, TurnsInv, MutexHeld
<1> QED BY <1>1, <1>2, SameBatches DEF Atomic!Fail, Atomic!values, Stored, Effect, disk

\* Everything that is not contested is in place when a call is acknowledged.
LEMMA FinishAtomic ==
    ASSUME IInv, Finish
    PROVE  \E c \in Calls : Atomic!Acknowledge(c)
<1> USE Constants
<1>1. /\ running \in Calls /\ running # Absent /\ todo = {}
      /\ status' = [status EXCEPT ![running] = "acked"]
      /\ UNCHANGED <<file, batch, failures>>
  BY CallsOfState DEF Finish, IInv, TurnsInv, faults
<1>2. status[running] = "running" /\ StoreTypeOK
  BY <1>1 DEF IInv, TurnsInv, MutexHeld
<1>3. \A k \in Keys \ contested : Touches(running, k) => file[k] = Effect(running, k)
  BY <1>1 DEF IInv, DoneIsInPlace
<1>4. \A k \in Keys \ contested : file[k] = Stored[k]
  <2>1. journal = Absent \/ journal = running
    BY <1>1 DEF IInv, JournalOfBatch, DoneIsInPlace
  <2> QED BY <1>3, <2>1 DEF Stored, Touches
<1>5. Stored' = file
  <2>1. journal' = Absent
    BY <1>1 DEF Finish, IInv, DoneIsInPlace, IsSet
  <2> QED BY <1>1, <1>2, <2>1 DEF Stored, StoreTypeOK
<1>6. batch[running] = Clear => \A k \in Keys \ contested : file[k] = Absent
  BY <1>3 DEF Touches, Effect
<1>7. \A k \in Keys \ contested :
          k \in DOMAIN batch[running] => file[k] = Atomic!Effect(batch[running], running, k)
  <2>1. CASE IsSet(running)
    BY <1>1, <1>2, <1>3, <2>1, SameEffects, BatchOfSet DEF Touches
  <2>2. CASE ~IsSet(running)
    BY <2>2 DEF IsSet, Clear
  <2> QED BY <2>1, <2>2
<1>8. Atomic!Acknowledge(running)
  BY <1>1, <1>2, <1>4, <1>5, <1>6, <1>7, SameBatches DEF Atomic!Acknowledge
<1> QED BY <1>1, <1>8

\* Recovery puts one more key in place, gives it up, or brings an older value back.
LEMMA ReplayAtomic ==
    ASSUME IInv, NEW k \in Keys, Replay(k) \/ ReplayFails(k)
    PROVE  Atomic!Steps
<1>1. CASE Replay(k)
  <2>1. /\ replay \in Calls /\ IsSet(replay) /\ k \in DOMAIN batch[replay] /\ StoreTypeOK
        /\ file' = [file EXCEPT ![k] = Effect(replay, k)]
        /\ UNCHANGED <<journal, calls, failures>>
    BY <1>1, CallsOfState DEF Replay, IInv, TurnsInv, ReplaysCall, RecoveryApart, faults
  <2>2. CASE k \in contested
    <3>1. Effect(replay, k) = Atomic!Effect(batch[replay], replay, k)
      BY <2>1, SameEffects, BatchOfSet
    <3>2. Stored' = Stored \/ Stored' = [Stored EXCEPT ![k] = Effect(replay, k)]
      BY <2>1, OneKey
    <3>3. Atomic!Revert(replay, k)
      BY <2>1, <2>2, <3>1, <3>2, SameBatches DEF Atomic!Revert, IsSet, calls
    <3> QED BY <2>1, <3>3 DEF Atomic!Steps
  <2>3. CASE k \notin contested
    <3>1. journal = replay /\ replay # Absent
      BY <1>1, <2>1, <2>3, Constants DEF Replay, IInv, RecoveryApart
    <3>2. Stored' = Stored /\ Stored[k] = Effect(replay, k)
      BY <2>1, <3>1, OneKey DEF Stored
    <3> QED BY <2>1, <3>2 DEF Atomic!Steps, Atomic!Write, calls
  <2> QED BY <2>2, <2>3
<1>2. CASE ReplayFails(k)
  <2>1. failures' # 0 /\ UNCHANGED <<disk, calls>>
    BY <1>2 DEF ReplayFails, Fails, IInv, TurnsInv, StoreTypeOK
  <2> QED BY <2>1 DEF Atomic!Steps, Atomic!FailLate, Atomic!values, Stored, Effect, disk, calls
<1> QED BY <1>1, <1>2

\* The journal is removed when its batch is in place, a write has failed, or recovery and
\* a call were in each other's way.
LEMMA RemoveJournalAtomic ==
    ASSUME IInv, RemoveJournal
    PROVE  Atomic!Steps \/ UNCHANGED <<Stored, file, failures, batch, status>>
<1>1. /\ recovery = "apply" /\ left = {} /\ journal' = Absent /\ StoreTypeOK
      /\ UNCHANGED <<file, calls, failures>>
  BY DEF RemoveJournal, faults, IInv, TurnsInv
<1>2. Stored' = file
  BY <1>1 DEF Stored, StoreTypeOK
<1>3. CASE failures = 0 /\ contested = {}
  <2>1. journal = replay /\ replay # Absent
    BY <1>1, <1>3, CallsOfState DEF IInv, TurnsInv, ReplaysCall, RecoveryApart
  <2>2. \A k \in DOMAIN batch[journal] : file[k] = Effect(journal, k)
    BY <1>1, <1>3, <2>1 DEF IInv, RecoveryApart
  <2>3. Stored = file
    BY <1>1, <2>2 DEF Stored, StoreTypeOK
  <2> QED BY <1>1, <1>2, <2>3 DEF calls
<1>4. CASE ~(failures = 0 /\ contested = {})
  BY <1>1, <1>2, <1>4 DEF Atomic!Steps, Atomic!Forget, Atomic!Whole, calls
<1> QED BY <1>3, <1>4

\* Recovery reads what the callers do not see.
LEMMA ReadJournalAtomic ==
    ASSUME ReadJournal
    PROVE  UNCHANGED <<Stored, file, failures, batch, status>>
BY DEF ReadJournal, disk, calls, faults, Stored, Effect

\* A crash is one of the abstract store's.
LEMMA CrashAtomic == ASSUME Crash PROVE Atomic!Crash
BY DEF Crash, Atomic!Crash, Atomic!values, Stored, Effect, disk

\* Every step is one of the abstract store's, or none.
LEMMA StepAtomic ==
    ASSUME IInv, [Next]_vars
    PROVE  [Atomic!Next]_Atomic!atomicVars
<1> DEFINE Same == UNCHANGED <<Stored, file, failures, batch, status>>
<1>1. CASE UNCHANGED vars
  BY <1>1 DEF vars, disk, calls, faults, Atomic!atomicVars, Atomic!values, Stored, Effect
<1>2. CASE Next
  <2>1. Noting /\ contested \subseteq contested'
    BY <1>2 DEF Next, Noting
  <2>2. ASSUME NEW c \in Calls, Call(c) \/ WriteJournal(c) \/ JournalFails(c) \/ ReadDir(c)
        PROVE  Atomic!Steps
    BY <2>1, <2>2, CallAtomic, WriteJournalAtomic, JournalFailsAtomic, ReadDirAtomic
       DEF Atomic!Steps
  <2>3. ASSUME Finish \/ \E k \in Keys : WriteFails(k)
        PROVE  Atomic!Steps
    BY <2>3, FinishAtomic, WriteFailsAtomic DEF Atomic!Steps
  <2>4. Atomic!Steps \/ Same
    BY <1>2, <2>2, <2>3, ApplyAtomic, ReplayAtomic, ReadJournalAtomic, RemoveJournalAtomic,
       CrashAtomic
       DEF Next, Steps, Atomic!Steps
  <2>5. Same => UNCHANGED <<Atomic!values, failures = 0, batch, status>>
    BY DEF Atomic!values
  <2> QED BY <2>1, <2>4, <2>5 DEF Atomic!Next
<1> QED BY <1>1, <1>2

\* key-store.ts:2, "transaction-safe": set() takes effect whole or not at all.
THEOREM TransactionSafe == Spec => IsAtomic
<1>1. IInv /\ [Next]_vars => [Atomic!Next]_Atomic!atomicVars
  BY StepAtomic
<1> QED BY <1>1, Invariance, InitAtomic, PTL DEF Spec, IsAtomic, Atomic!Spec
=============================================================================
