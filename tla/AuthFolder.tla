----------------------------- MODULE AuthFolder ------------------------------
(***************************************************************************)
(* The folder of useMultiFileAuthState (src/Auth/use-multi-file-auth-      *)
(* state.ts): creds.json, the one-time pre-keys, and the process that      *)
(* loads, fills and saves them, dies, and is started again.                *)
(*                                                                         *)
(* The keys are in the store of KeyStore.tla: a batch takes effect whole   *)
(* or not at all (its IsAtomic, for a recovery that is awaited).  A file   *)
(* is an inode, since a temporary file that two saves share stays open     *)
(* under its new name: inode 0 was there when the process started, the     *)
(* others carry the number of the save that created them.                  *)
(*                                                                         *)
(* A key pair is known by the process that generated it and by its id.     *)
(***************************************************************************)
EXTENDS Integers, FiniteSets

CONSTANTS Callers,      \* calls of takePreKey
          MinCount,     \* of ensurePreKeyPool, 10
          Batch,        \* DEFAULT_PREKEY_BATCH, 30
          MaxBoots,     \* bound on the processes
          MaxUpdates,   \* bound on the updates of the credentials
          MaxTakes      \* bound on the keys taken

ASSUME AuthAssumption ==
    {MinCount, Batch, MaxBoots, MaxUpdates, MaxTakes} \subseteq Nat \ {0} /\ MinCount <= Batch

Ids == 1..(Batch * MaxBoots)
Saves == 1..MaxUpdates

VARIABLES
    boot,        \* number of the process
    pc,          \* what useMultiFileAuthState does next
    meta,        \* version in store-meta.json
    creds,       \* the credentials in memory
    link,        \* inode that creds.json names
    content,     \* contents of the inodes
    temps,       \* temporary names and their inodes
    saves,       \* calls of saveCreds, in their order
    keys,        \* pre-key files: who generated the key, 0 for none
    takers,      \* calls of takePreKey
    \* What happened, for the properties.
    owner,       \* account of the first process that came up
    published,   \* keys that a process had when it came up
    used,        \* keys that takePreKey handed out
    acked,       \* version of the newest save that ended well
    overlapped,  \* two saves of this process were under way at once
    shared       \* two saves under way had one temporary name

files == <<link, content, temps>>
history == <<owner, published, used, acked, overlapped, shared>>
vars == <<boot, pc, meta, creds, files, saves, keys, takers, history>>

SIGNAL_STORE_VERSION == 2

\* What is in creds.json: nothing at all, what is no JSON, or credentials.
Absent == [kind |-> "absent"]
Empty == [kind |-> "empty"]
Torn == [kind |-> "torn"]
Disk == content[link]

\* initAuthCreds.  me lengthens the file, version counts the updates.
InitAuthCreds(b) == [kind |-> "creds", account |-> b, next |-> 1, me |-> FALSE, version |-> 0,
                     signed |-> [keyId |-> 1, key |-> b]]
IsCreds(c) == c.kind = "creds"
NoSave == [stage |-> "none"]
UnderWay(s) == saves[s].stage \in {"called", "opened", "written"}
NoTake == [stage |-> "idle", id |-> 0, key |-> 0]
NothingPublished == [keys |-> [i \in Ids |-> 0], signed |-> [keyId |-> 0, key |-> 0]]

Init == /\ boot = 0 /\ pc = "down" /\ meta = 0 /\ creds = Absent
        /\ link = 0 /\ content = [i \in {0} \cup Saves |-> Absent] /\ temps = [n \in Saves |-> 0]
        /\ saves = [s \in Saves |-> NoSave]
        /\ keys = [i \in Ids |-> 0] /\ takers = [c \in Callers |-> NoTake]
        /\ owner = 0 /\ published = NothingPublished /\ used = {}
        /\ acked = 0 /\ overlapped = FALSE /\ shared = FALSE

------------------------------------------------------------------------------
(* The process starts.                                                       *)

Start ==
    /\ pc = "down" /\ boot < MaxBoots
    /\ boot' = boot + 1 /\ pc' = "migrate"
    /\ UNCHANGED <<meta, creds, files, saves, keys, takers, history>>

MigrateSignalStore ==
    /\ pc = "migrate" /\ pc' = "read"
    /\ meta' = IF meta >= SIGNAL_STORE_VERSION THEN meta ELSE SIGNAL_STORE_VERSION
    /\ UNCHANGED <<boot, creds, files, saves, keys, takers, history>>

\* Credentials that cannot be read are set aside, and new ones are made.
ReadCreds ==
    /\ pc = "read" /\ pc' = "pool" /\ overlapped' = FALSE
    /\ \/ /\ IsCreds(Disk)
          /\ creds' = Disk /\ acked' = Disk.version
          /\ UNCHANGED <<content, published>>
       \/ /\ ~IsCreds(Disk)
          /\ creds' = InitAuthCreds(boot) /\ acked' = 0
          /\ content' = [content EXCEPT ![link] = Absent]
          /\ published' = NothingPublished
    /\ UNCHANGED <<boot, meta, link, temps, saves, keys, takers, owner, used, shared>>

\* A signed pre-key of a week is old.  That of new credentials is not.
RotateSignedPreKey(old) ==
    IF old THEN [creds EXCEPT !.signed = [keyId |-> @.keyId + 1, key |-> boot]] ELSE creds

\* keys.get of the latest ids.
HasPool(c) ==
    c.next > MinCount /\ \A i \in (c.next - MinCount)..(c.next - 1) : keys[i] # 0

\* Mutant: a batch begins with the last id that was given.
GenerateFromLast(c) == (IF c.next = 1 THEN 1 ELSE c.next - 1)..(c.next + Batch - 1)

Generated(c) == c.next..(c.next + Batch - 1)

\* Signed pre-key and pool; what fails there is not fatal.
EnsurePreKeyPool(old, fails) ==
    /\ pc = "pool" /\ pc' = "access"
    /\ old => creds.account # boot
    /\ LET rotated == RotateSignedPreKey(old)
           batch == Generated(rotated)
       IN IF fails \/ HasPool(rotated)
          THEN creds' = rotated /\ UNCHANGED keys
          ELSE /\ keys' = [i \in Ids |-> IF i \in batch THEN boot ELSE keys[i]]
               /\ creds' = [rotated EXCEPT !.next = @ + Batch]
    /\ UNCHANGED <<boot, meta, files, saves, takers, history>>

\* saveCreds, awaited before anyone else has it: seen at its rename.
SavedAtBoot == content' = [content EXCEPT ![link] = creds] /\ UNCHANGED <<link, temps>>

AccessCreds ==
    /\ pc = "access" /\ pc' = "save"
    /\ IF Disk = Absent THEN SavedAtBoot ELSE UNCHANGED files
    /\ UNCHANGED <<boot, meta, creds, saves, keys, takers, history>>

\* The process came up: its keys may be published.
Up == /\ owner' = IF owner = 0 THEN creds.account ELSE owner
      /\ published' = [keys |-> [i \in Ids |-> IF i < creds.next /\ keys[i] # 0
                                             THEN keys[i] ELSE published.keys[i]],
                       signed |-> creds.signed]

SaveAtBoot ==
    /\ pc = "save" /\ pc' = "up"
    /\ SavedAtBoot /\ Up
    /\ UNCHANGED <<boot, meta, creds, saves, keys, takers, used, acked, overlapped, shared>>

------------------------------------------------------------------------------
(* saveCreds, as the listener of creds.update: nobody awaits it.             *)

Calls == Cardinality({s \in Saves : saves[s] # NoSave})

\* Mutant: the credentials that were loaded, not the ones of the connection.
SnapshotOfBoot(c) == [c EXCEPT !.version = content[0].version, !.me = content[0].me]

\* serializeCreds, when saveCreds is called.
Snapshot(c) == c

\* A temporary name is the millisecond: that of the call before, or a new one.
SaveCreds(s, name) ==
    /\ saves' = [saves EXCEPT ![s] = [stage |-> "called", name |-> name, inode |-> 0,
                                       snap |-> Snapshot(creds'), version |-> creds'.version]]
    /\ overlapped' = (overlapped \/ \E t \in Saves : UnderWay(t))
    /\ shared' = (shared \/ \E t \in Saves : UnderWay(t) /\ saves[t].name = name)

\* The connection changes the credentials in place and emits creds.update.
Update(me) ==
    /\ pc = "up" /\ Calls < MaxUpdates /\ creds.version < MaxUpdates
    /\ creds' = [creds EXCEPT !.version = @ + 1, !.me = me]
    /\ LET s == Calls + 1
           last == IF s = 1 THEN 1 ELSE saves[s - 1].name
       IN \E name \in {last, last + 1} \cap Saves : SaveCreds(s, name)
    /\ UNCHANGED <<boot, pc, meta, files, keys, takers, owner, published, used, acked>>

Goes(s, from, to) == /\ pc = "up" /\ saves[s].stage = from
                     /\ saves' = [saves EXCEPT ![s].stage = to]

\* The promise of a save is settled.
Settled(s, to) == /\ pc = "up" /\ saves[s].stage = "written"
                  /\ saves' = [saves EXCEPT ![s] = [stage |-> to, name |-> @.name]]

\* Mutant: the file is written in its place.
OpenInPlace(s) ==
    /\ pc = "up" /\ saves[s].stage = "called"
    /\ saves' = [saves EXCEPT ![s].stage = "opened", ![s].inode = link]
    /\ content' = [content EXCEPT ![link] = Empty]
    /\ UNCHANGED <<boot, pc, meta, creds, link, temps, keys, takers, history>>

\* writeFile opens and truncates, a file of that name if there is one.
OpenTemp(s) ==
    /\ pc = "up" /\ saves[s].stage = "called"
    /\ LET name == saves[s].name
           inode == IF temps[name] = 0 THEN s ELSE temps[name]
       IN /\ saves' = [saves EXCEPT ![s].stage = "opened", ![s].inode = inode]
          /\ temps' = [temps EXCEPT ![name] = inode]
          /\ content' = [content EXCEPT ![inode] = Empty]
    /\ UNCHANGED <<boot, pc, meta, creds, link, keys, takers, history>>

\* What is longer keeps its end.
Overwritten(old, new) ==
    IF ~new.me /\ (old = Torn \/ (IsCreds(old) /\ old.me)) THEN Torn ELSE new

WriteTemp(s) ==
    /\ Goes(s, "opened", "written")
    /\ content' = [content EXCEPT ![saves[s].inode] = Overwritten(@, saves[s].snap)]
    /\ UNCHANGED <<boot, pc, meta, creds, link, temps, keys, takers, history>>

Rename(s) ==
    /\ Settled(s, "saved") /\ temps[saves[s].name] # 0
    /\ link' = temps[saves[s].name] /\ temps' = [temps EXCEPT ![saves[s].name] = 0]
    /\ acked' = IF acked > saves[s].version THEN acked ELSE saves[s].version
    /\ UNCHANGED <<boot, pc, meta, creds, content, keys, takers, owner, published, used, overlapped, shared>>

\* Another save has renamed the file: this one rejects.
RenameFails(s) ==
    /\ Settled(s, "failed") /\ temps[saves[s].name] = 0
    /\ UNCHANGED <<boot, pc, meta, creds, files, keys, takers, history>>

------------------------------------------------------------------------------
(* takePreKey.                                                               *)

TakeReads(c, id) ==
    /\ pc = "up" /\ takers[c] = NoTake /\ keys[id] # 0 /\ Cardinality(used) < MaxTakes
    /\ takers' = [takers EXCEPT ![c] = [stage |-> "read", id |-> id, key |-> keys[id]]]
    /\ UNCHANGED <<boot, pc, meta, creds, files, saves, keys, history>>

\* Mutant: the key is handed out and not deleted.
TakeKeeps(c) ==
    /\ pc = "up" /\ takers[c].stage = "read"
    /\ takers' = [takers EXCEPT ![c] = NoTake]
    /\ used' = used \cup {<<takers[c].id, takers[c].key>>}
    /\ UNCHANGED <<boot, pc, meta, creds, files, saves, keys, owner, published, acked, overlapped, shared>>

TakeDeletes(c) ==
    /\ pc = "up" /\ takers[c].stage = "read"
    /\ keys' = [keys EXCEPT ![takers[c].id] = 0]
    /\ takers' = [takers EXCEPT ![c] = NoTake]
    /\ used' = used \cup {<<takers[c].id, takers[c].key>>}
    /\ UNCHANGED <<boot, pc, meta, creds, files, saves, owner, published, acked, overlapped, shared>>

------------------------------------------------------------------------------

\* The process ends, at any moment.  Temporary names of its own are not used again.
Crash ==
    /\ pc # "down" /\ pc' = "down"
    /\ creds' = Absent /\ takers' = [c \in Callers |-> NoTake]
    /\ saves' = [s \in Saves |-> NoSave] /\ temps' = [n \in Saves |-> 0]
    /\ link' = 0 /\ content' = [i \in {0} \cup Saves |-> IF i = 0 THEN Disk ELSE Absent]
    /\ UNCHANGED <<boot, meta, keys, history>>

Next == \/ Start \/ MigrateSignalStore \/ ReadCreds \/ AccessCreds \/ SaveAtBoot \/ Crash
        \/ \E old, fails \in BOOLEAN : EnsurePreKeyPool(old, fails)
        \/ \E me \in BOOLEAN : Update(me)
        \/ \E s \in Saves : OpenTemp(s) \/ WriteTemp(s) \/ Rename(s) \/ RenameFails(s)
        \/ \E c \in Callers : TakeDeletes(c) \/ \E id \in Ids : TakeReads(c, id)

Spec == Init /\ [][Next]_vars

------------------------------------------------------------------------------
(* Properties.                                                               *)

\* use-multi-file-auth-state.ts:13, the temporary file and its rename: once a process
\* came up with an account, creds.json holds credentials of that account at every
\* moment, in the middle of every save and after every crash, as long as two saves
\* under way never had the same temporary name.  (With the same name, which is that
\* of the millisecond, the file may be empty or torn, and is then set aside.)
AccountKept ==
    (owner # 0 /\ ~shared) => (IsCreds(Disk) /\ Disk.account = owner)

\* saveCreds: credentials that were current when a save was called, and the save has
\* ended well, are in creds.json or newer ones are, after a crash too, unless two
\* saves of the process overlapped; only then an older version may come last.
AcknowledgedCredsKept ==
    ~overlapped /\ IsCreds(Disk) /\ owner # 0 => Disk.version >= acked

\* ensurePreKeyPool and rotateSignedPreKey, with a crash between the keys and the
\* credentials that count them: a key that was once published under its id may be
\* deleted, but no other key ever takes its id, of the account's life.
PublishedKeysKept ==
    /\ \A i \in Ids : published.keys[i] # 0 => keys[i] \in {0, published.keys[i]}
    /\ IsCreds(creds) => \/ creds.signed.keyId > published.signed.keyId
                         \/ creds.signed = published.signed

\* takePreKey: a key that was handed out is never found again, by any later call of
\* this or of a later process.  (Calls that overlap may both have it.)
OneTimeKey ==
    [][\A c \in Callers : takers[c] = NoTake /\ takers'[c] # NoTake
          => <<takers'[c].id, takers'[c].key>> \notin used]_vars
=============================================================================
