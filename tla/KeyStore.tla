------------------------------ MODULE KeyStore ------------------------------
(***************************************************************************)
(* makeCacheableSignalKeyStore (src/Auth/key-store.ts): one JSON file per  *)
(* key, a mutex around set() and clear(), and a journal file from which a  *)
(* new process recovers the batch its predecessor was applying.            *)
(*                                                                         *)
(* A step is one file-system operation that others can see.  atomicWrite   *)
(* (mkdir, write a temporary file, rename) becomes visible at the rename;  *)
(* temporary names are taken to differ.  A write may fail, as on a full    *)
(* disk; a file that is there can be removed.                              *)
(* A value is named by the call that wrote it; the journal by the call     *)
(* whose entries it holds.  The entries of a batch may come in any order.  *)
(***************************************************************************)
EXTENDS Naturals

CONSTANTS Keys, Absent,
          MaxCalls,           \* bound: calls of set and clear
          MaxCrashes,         \* bound: crashes of the process
          MaxFailures,        \* bound: writes that fail
          JournalFile         \* .key-journal.json

ASSUME KeyStoreAssumption ==
    /\ {MaxCalls, MaxCrashes, MaxFailures} \subseteq Nat
    /\ Absent \notin 1..MaxCalls
    /\ JournalFile \notin Keys

Calls == 1..MaxCalls

VARIABLES file,     \* per key: the call that wrote its file, or Absent
          journal,  \* the call whose batch the journal holds, or Absent
          batch, status,
          running,  \* the call that has the mutex, or Absent
          todo,     \* files it has still to write or to remove
          recovery, \* where recoverJournal() is
          replay,   \* the call whose journal it read, or Absent
          left,     \* entries it has still to apply
          crashes, failures,
          contested \* keys of a journal that recovery had to replay while a call ran

disk  == <<file, journal>>
calls == <<batch, status>>
mutex == <<running, todo>>
recoveryVars == <<recovery, replay, left>>
faults == <<crashes, failures>>
vars  == <<disk, calls, mutex, recoveryVars, faults, contested>>

Batches == UNION {[K -> {"write", "delete"}] : K \in (SUBSET Keys) \ {{}}}
Clear   == [k \in {} |-> "delete"]

\* The domains of the variables.
StoreTypeOK ==
    /\ file \in [Keys -> Calls \cup {Absent}]
    /\ journal \in Calls \cup {Absent}
    /\ batch \in [Calls -> Batches \cup {Clear}]
    /\ status \in [Calls -> {"none", "queued", "running", "acked", "failed", "lost"}]
    /\ running \in Calls \cup {Absent}
    /\ todo \subseteq Keys \cup {JournalFile}
    /\ recovery \in {"read", "apply", "done"}
    /\ replay \in Calls \cup {Absent}
    /\ left \subseteq Keys
    /\ crashes \in 0..MaxCrashes /\ failures \in 0..MaxFailures

TypeOK == StoreTypeOK /\ contested \subseteq Keys

\* A new store on an empty folder; its constructor has started recovery.
Init ==
    /\ file = [k \in Keys |-> Absent] /\ journal = Absent
    /\ batch = [c \in Calls |-> Clear] /\ status = [c \in Calls |-> "none"]
    /\ running = Absent /\ todo = {}
    /\ recovery = "read" /\ replay = Absent /\ left = {}
    /\ crashes = 0 /\ failures = 0 /\ contested = {}

------------------------------------------------------------------------------
(* set and clear                                                             *)

\* The call queues on the mutex, whether recovery is over or not: nothing tells the caller.
\* The keys of one batch are different files.
Call(c) ==
    /\ status[c] = "none" /\ \A d \in 1..(c - 1) : status[d] # "none"
    /\ \E b \in Batches \cup {Clear} : batch' = [batch EXCEPT ![c] = b]
    /\ status' = [status EXCEPT ![c] = "queued"]
    /\ UNCHANGED <<disk, mutex, recoveryVars, faults>>

\* Mutant: the calls do not wait for each other's turn.
AnyQueued(c) == running = Absent /\ status[c] = "queued"

\* The mutex is free and c is the first to wait for it.
GetsMutex(c) ==
    /\ running = Absent /\ status[c] = "queued"
    /\ \A d \in 1..(c - 1) : status[d] # "queued"

Runs(c, files) ==
    /\ running' = c /\ todo' = files
    /\ status' = [status EXCEPT ![c] = "running"]
    /\ UNCHANGED <<batch, recoveryVars, faults>>

\* Mutant: the batch is applied without a journal.
StartUnjournaled(c) ==
    /\ GetsMutex(c) /\ batch[c] # Clear
    /\ Runs(c, DOMAIN batch[c])
    /\ UNCHANGED disk

\* set: the journal is renamed into place before any key file is touched.
WriteJournal(c) ==
    /\ GetsMutex(c) /\ batch[c] # Clear
    /\ Runs(c, DOMAIN batch[c])
    /\ journal' = c
    /\ UNCHANGED file

\* A write fails.
Fails == failures < MaxFailures /\ failures' = failures + 1

\* The journal cannot be written: set rejects before it touched anything.
JournalFails(c) ==
    /\ GetsMutex(c) /\ batch[c] # Clear /\ Fails
    /\ status' = [status EXCEPT ![c] = "failed"]
    /\ UNCHANGED <<disk, batch, mutex, recoveryVars, crashes>>

\* clear: the files that exist now, and the journal is one of them.
ReadDir(c) ==
    /\ GetsMutex(c) /\ batch[c] = Clear
    /\ Runs(c, {k \in Keys : file[k] # Absent}
               \cup (IF journal = Absent THEN {} ELSE {JournalFile}))
    /\ UNCHANGED disk

\* What call c leaves of key k: its value, or no file.
Effect(c, k) ==
    IF batch[c] = Clear \/ batch[c][k] = "delete" THEN Absent ELSE c

Apply(f) ==
    /\ running # Absent /\ f \in todo
    /\ todo' = todo \ {f}
    /\ file' = [k \in Keys |-> IF k = f THEN Effect(running, k) ELSE file[k]]
    /\ journal' = IF f = JournalFile THEN Absent ELSE journal
    /\ UNCHANGED <<running, calls, recoveryVars, faults>>

\* A key file cannot be written: set rejects and its journal stays.
WriteFails(k) ==
    /\ running # Absent /\ k \in todo /\ batch[running] # Clear
    /\ batch[running][k] = "write" /\ Fails
    /\ status' = [status EXCEPT ![running] = "failed"]
    /\ running' = Absent /\ todo' = {}
    /\ UNCHANGED <<disk, batch, recoveryVars, crashes>>

\* set removes its journal; the promise resolves and the mutex is free.
Finish ==
    /\ running # Absent /\ todo = {}
    /\ journal' = IF batch[running] = Clear THEN journal ELSE Absent
    /\ status' = [status EXCEPT ![running] = "acked"]
    /\ running' = Absent
    /\ UNCHANGED <<file, batch, todo, recoveryVars, faults>>

------------------------------------------------------------------------------
(* recoverJournal: started by the constructor, not under the mutex.          *)

ReadJournal ==
    /\ recovery = "read"
    /\ replay' = journal
    /\ \/ journal = Absent /\ recovery' = "done" /\ left' = {}
       \/ journal # Absent /\ recovery' = "apply" /\ left' = DOMAIN batch[journal]
    /\ UNCHANGED <<disk, calls, mutex, faults>>

Replay(k) ==
    /\ recovery = "apply" /\ k \in left
    /\ left' = left \ {k}
    /\ file' = [file EXCEPT ![k] = Effect(replay, k)]
    /\ UNCHANGED <<journal, calls, mutex, recovery, replay, faults>>

\* What cannot be written again is given up.
ReplayFails(k) ==
    /\ recovery = "apply" /\ k \in left /\ batch[replay][k] = "write" /\ Fails
    /\ left' = left \ {k}
    /\ UNCHANGED <<disk, calls, mutex, recovery, replay, crashes>>

RemoveJournal ==
    /\ recovery = "apply" /\ left = {}
    /\ journal' = Absent
    /\ recovery' = "done" /\ replay' = Absent
    /\ UNCHANGED <<file, calls, mutex, left, faults>>

\* The process dies between two file operations; a new one opens the folder.
Crash ==
    /\ crashes < MaxCrashes /\ crashes' = crashes + 1
    /\ status' = [c \in Calls |-> IF status[c] \in {"queued", "running"}
                                  THEN "lost" ELSE status[c]]
    /\ running' = Absent /\ todo' = {}
    /\ recovery' = "read" /\ replay' = Absent /\ left' = {}
    /\ UNCHANGED <<disk, batch, failures>>

------------------------------------------------------------------------------

\* The keys over which recovery and the call that runs are in each other's way: those of
\* the journal that recovery has read, or is about to read.
Rivals == CASE running # Absent /\ recovery = "apply" -> DOMAIN batch[replay]
            [] running # Absent /\ recovery = "read" /\ journal # Absent -> DOMAIN batch[journal]
            [] OTHER -> {}

Steps ==
    \/ \E c \in Calls : Call(c) \/ WriteJournal(c) \/ JournalFails(c) \/ ReadDir(c)
    \/ \E f \in Keys \cup {JournalFile} : Apply(f)
    \/ Finish
    \/ \E k \in Keys : WriteFails(k) \/ Replay(k) \/ ReplayFails(k)
    \/ ReadJournal \/ RemoveJournal
    \/ Crash

Next == Steps /\ contested' = contested \cup Rivals'

Spec == Init /\ [][Next]_vars

------------------------------------------------------------------------------
(* Properties.                                                               *)

\* Key k is as call c left it, or as a later call did.
KeptSince(c, k) ==
    \E d \in c..MaxCalls :
        /\ status[d] \in {"running", "acked", "failed", "lost"}
        /\ batch[d] = Clear \/ k \in DOMAIN batch[d]
        /\ file[k] = Effect(d, k)

\* What an acknowledged call did to a key is there until a later call changes
\* the key: neither a crash, nor a recovery, nor a batch that failed half way
\* brings an older value back.
AcknowledgedSurvives ==
    \A c \in Calls, k \in Keys :
        (status[c] = "acked" /\ (batch[c] = Clear \/ k \in DOMAIN batch[c])) => KeptSince(c, k)

\* So it is with every key but those over which a recovery and a call were in each
\* other's way, whoever waits for whom.
UncontestedSurvives ==
    \A c \in Calls, k \in Keys \ contested :
        (status[c] = "acked" /\ (batch[c] = Clear \/ k \in DOMAIN batch[c])) => KeptSince(c, k)

\* The store as a restart would find it: the journal counts as applied.
Stored == [k \in Keys |-> IF journal # Absent /\ k \in DOMAIN batch[journal]
                          THEN Effect(journal, k) ELSE file[k]]

\* Batches take effect as a whole, in order, before they are acknowledged, and
\* survive crashes at any file operation, also during recovery.  Once a write has
\* failed, or recovery and a call were in each other's way, a batch may be cut short;
\* of what was acknowledged only the contested keys may be lost.
Atomic == INSTANCE AtomicKeyStore
              WITH store <- Stored, place <- file, intact <- (failures = 0)
IsAtomic == Atomic!Spec
=============================================================================
