-------------------------- MODULE AuthFolderProofs --------------------------
(***************************************************************************)
(* The properties of AuthFolder, for any number of processes, of saves     *)
(* under way at once and of callers, and any size of a batch.              *)
(*                                                                         *)
(* What a process writes is its own credentials, and every version of them *)
(* covers the keys that were published.  A temporary file is only safe     *)
(* while its name is of one save: the invariant says who owns which file,  *)
(* as long as no two saves share a name or no two are under way at once.   *)
(***************************************************************************)
EXTENDS AuthFolder, FiniteSetTheorems, TLAPS

Inodes == {0} \cup Saves

SignedKeys  == [keyId : Nat, key : Nat]
Credentials == [kind : {"creds"}, account : Nat, next : Nat, me : BOOLEAN, version : Nat,
                signed : SignedKeys]
Contents    == {Absent, Empty, Torn} \cup Credentials

\* A save that is under way, and one that has ended.
Pending == [stage : {"called", "opened", "written"}, name : Saves, inode : Inodes,
            snap : Credentials, version : Nat]
Ended   == [stage : {"saved", "failed"}, name : Saves]

Booting == {"migrate", "read", "pool"}
Loaded  == {"pool", "access", "save", "up"}

Types ==
    /\ boot \in Nat /\ pc \in {"down"} \cup Booting \cup Loaded
    /\ IF pc \in Loaded THEN creds \in Credentials ELSE creds = Absent
    /\ link \in Inodes /\ content \in [Inodes -> Contents] /\ temps \in [Saves -> Inodes]
    /\ saves \in [Saves -> {NoSave} \cup Pending \cup Ended]
    /\ keys \in [Ids -> Nat]
    /\ takers \in [Callers -> {NoTake} \cup [stage : {"read"}, id : Ids, key : Nat \ {0}]]
    /\ owner \in Nat /\ acked \in Nat /\ overlapped \in BOOLEAN /\ shared \in BOOLEAN
    /\ published \in [keys : [Ids -> Nat], signed : SignedKeys]
    /\ used \subseteq Ids \X (Nat \ {0})

\* Before a process is up it has neither saves nor takes, and creds.json is the only file.
Quiet ==
    pc # "up" => /\ link = 0 /\ \A s \in Saves : content[s] = Absent /\ temps[s] = 0 /\ saves[s] = NoSave
                 /\ \A c \in Callers : takers[c] = NoTake

\* The calls of saveCreds have the numbers from 1 on.
Numbered == \E m \in 0..MaxUpdates : \A s \in Saves : saves[s] # NoSave <=> s <= m

\* Credentials that count every published key, and are those of the account.
Proper(c) ==
    /\ \A i \in Ids : published.keys[i] # 0 => i < c.next
    /\ c.signed.keyId > published.signed.keyId \/ c.signed = published.signed
    /\ owner # 0 /\ ~shared => c.account = owner

AllProper ==
    /\ \A i \in Inodes : IsCreds(content[i]) => Proper(content[i])
    /\ \A s \in Saves : UnderWay(s) => Proper(saves[s].snap)
    /\ pc \in Loaded => Proper(creds)

\* There are credentials once a process was up.
Kept == owner # 0 /\ ~shared => IsCreds(Disk)

\* Each save that has a file has one of its own, which holds nothing or what it saves.
OwnNames == \A s, t \in Saves : UnderWay(s) /\ UnderWay(t) /\ s # t => saves[s].name # saves[t].name
OwnFiles == \A s \in Saves : saves[s].stage \in {"opened", "written"} =>
                /\ saves[s].inode = s /\ temps[saves[s].name] = s
                /\ content[s] = IF saves[s].stage = "opened" THEN Empty ELSE saves[s].snap
NoOtherTemps == \A n \in Saves : temps[n] # 0 =>
                    saves[temps[n]].stage \in {"opened", "written"} /\ saves[temps[n]].name = n
LinkSaved == link # 0 => saves[link].stage = "saved"

FilesOwned ==
    pc = "up" /\ (~overlapped \/ ~shared) => OwnNames /\ OwnFiles /\ NoOtherTemps /\ LinkSaved

\* Which versions there are.
Versions ==
    /\ pc \in {"pool", "access", "save"} => creds.version = acked
    /\ pc = "up" => acked <= creds.version
    /\ \A s \in Saves : UnderWay(s) =>
          saves[s].snap.version = saves[s].version /\ saves[s].version <= creds.version
    /\ ~overlapped =>
          /\ IsCreds(Disk) => Disk.version >= acked
          /\ \A s, t \in Saves : UnderWay(s) /\ UnderWay(t) => s = t
          /\ \A s \in Saves : UnderWay(s) => acked <= saves[s].version

\* Keys are those of processes up to this one, and a process generates only once.
Generations ==
    /\ \A i \in Ids : keys[i] <= boot /\ (pc \in Booting => keys[i] < boot)
    /\ \A i \in Ids, k \in Nat : <<i, k>> \in used =>
          keys[i] # k /\ k <= boot /\ (pc \in Booting => k < boot)
    /\ \A c \in Callers : takers[c] # NoTake => takers[c].key <= boot

\* No other key has taken the place of a published one.
InPlace == \A i \in Ids : published.keys[i] # 0 => keys[i] \in {0, published.keys[i]}

IInv == /\ Types /\ Quiet /\ Numbered /\ AllProper /\ Kept
        /\ FilesOwned /\ Versions /\ Generations /\ InPlace

------------------------------------------------------------------------------
(* The data.                                                                 *)

LEMMA Sizes ==
    /\ \A s \in Saves : s \in Nat /\ s # 0
    /\ \A i \in Ids : i \in Nat /\ i # 0
    /\ Batch \in Nat /\ MinCount \in Nat /\ MaxUpdates \in Nat /\ 0 \notin Saves
BY AuthAssumption DEF Saves, Ids

\* What is a credentials file, and what is not.
LEMMA Kinds ==
    /\ ~IsCreds(Absent) /\ ~IsCreds(Empty) /\ ~IsCreds(Torn)
    /\ \A c \in Contents : IsCreds(c) <=> c \in Credentials
    /\ \A c \in Credentials : IsCreds(c) /\ c \in Contents /\ c # Absent
BY DEF IsCreds, Absent, Empty, Torn, Contents, Credentials

LEMMA NewCreds ==
    ASSUME NEW b \in Nat
    PROVE  /\ InitAuthCreds(b) \in Credentials /\ InitAuthCreds(b).account = b
           /\ InitAuthCreds(b).version = 0 /\ InitAuthCreds(b).signed.keyId = 1
BY DEF InitAuthCreds, Credentials, SignedKeys

\* The same, whatever me is.
LEMMA UpdatedRecord ==
    ASSUME NEW Mes, NEW me \in Mes,
           NEW c \in [kind : {"creds"}, account : Nat, next : Nat, me : Mes, version : Nat,
                      signed : SignedKeys]
    PROVE  LET d == [c EXCEPT !.version = @ + 1, !.me = me]
           IN /\ d \in [kind : {"creds"}, account : Nat, next : Nat, me : Mes, version : Nat,
                         signed : SignedKeys]
              /\ d.account = c.account /\ d.next = c.next
              /\ d.signed = c.signed /\ d.version = c.version + 1 /\ c.version \in Nat
<1> DEFINE Records == [kind : {"creds"}, account : Nat, next : Nat, me : Mes, version : Nat,
                       signed : SignedKeys]
           e == [c EXCEPT !.version = @ + 1]
           d == [c EXCEPT !.version = @ + 1, !.me = me]
<1>1. /\ e \in Records /\ e.account = c.account /\ e.next = c.next
      /\ e.signed = c.signed /\ e.version = c.version + 1 /\ c.version \in Nat
  OBVIOUS
<1>2. d = [e EXCEPT !.me = me]
  OBVIOUS
<1> HIDE DEF d, e
<1> QED BY <1>1, <1>2 DEF d

\* An update leaves the account, its keys and what counts them alone.
LEMMA UpdatedCreds ==
    ASSUME NEW c \in Credentials, NEW me \in BOOLEAN
    PROVE  LET d == [c EXCEPT !.version = @ + 1, !.me = me]
           IN /\ d \in Credentials /\ d.account = c.account /\ d.next = c.next
              /\ d.signed = c.signed /\ d.version = c.version + 1 /\ c.version \in Nat
BY UpdatedRecord, Zenon DEF Credentials

\* A rotation gives the signed key a new id.
LEMMA RotatedCreds ==
    ASSUME creds \in Credentials, boot \in Nat, NEW old \in BOOLEAN
    PROVE  LET d == RotateSignedPreKey(old)
           IN /\ d \in Credentials /\ d.account = creds.account /\ d.next = creds.next
              /\ d.version = creds.version /\ creds.signed.keyId \in Nat
              /\ d.signed = creds.signed \/ d.signed.keyId = creds.signed.keyId + 1
<1>1. creds.signed \in SignedKeys
  BY DEF Credentials
<1>2. /\ creds.signed.keyId \in Nat
      /\ [keyId |-> creds.signed.keyId + 1, key |-> boot] \in SignedKeys
  BY <1>1 DEF SignedKeys
<1>3. CASE old
  <2> DEFINE t == [keyId |-> creds.signed.keyId + 1, key |-> boot]
  <2>1. t \in SignedKeys /\ t.keyId = creds.signed.keyId + 1
    BY <1>2
  <2>2. RotateSignedPreKey(old) = [creds EXCEPT !.signed = t]
    BY <1>3 DEF RotateSignedPreKey
  <2> HIDE DEF t
  <2>3. LET d == [creds EXCEPT !.signed = t]
        IN /\ d \in Credentials /\ d.account = creds.account /\ d.next = creds.next
           /\ d.version = creds.version /\ d.signed = t
    BY <2>1 DEF Credentials
  <2> QED BY <1>2, <2>1, <2>2, <2>3
<1>4. CASE ~old
  BY <1>2, <1>4 DEF RotateSignedPreKey
<1> QED BY <1>3, <1>4

\* A batch raises the next id.
LEMMA CountedCreds ==
    ASSUME NEW c \in Credentials
    PROVE  LET d == [c EXCEPT !.next = @ + Batch]
           IN /\ d \in Credentials /\ d.account = c.account /\ d.next = c.next + Batch
              /\ d.signed = c.signed /\ d.version = c.version /\ c.next \in Nat
BY Sizes DEF Credentials

\* Credentials that count more, or whose signed key is newer, are as proper.
LEMMA StaysProper ==
    ASSUME Types, NEW c \in Credentials, NEW d \in Credentials, Proper(c),
           d.account = c.account, d.next >= c.next,
           d.signed = c.signed \/ d.signed.keyId = c.signed.keyId + 1
    PROVE  Proper(d)
<1>1. c.signed.keyId \in Nat /\ published.signed.keyId \in Nat
  BY DEF Types, Credentials, SignedKeys
<1>2. c.next \in Nat /\ d.next \in Nat
  BY DEF Credentials
<1>3. \A i \in Ids : published.keys[i] # 0 => i < d.next
  BY <1>2, Sizes DEF Proper
<1>4. d.signed.keyId > published.signed.keyId \/ d.signed = published.signed
  BY <1>1 DEF Proper
<1> QED BY <1>3, <1>4 DEF Proper

\* Nothing is under way before a process is up.
LEMMA NothingUnderWay ==
    ASSUME Quiet, pc # "up"
    PROVE  /\ \A s \in Saves : ~UnderWay(s)
           /\ link = 0 /\ Disk = content[0]
BY DEF Quiet, UnderWay, NoSave, Disk

------------------------------------------------------------------------------
(* A process starts.                                                         *)

LEMMA InitInv == Init => IInv
<1> SUFFICES ASSUME Init PROVE IInv
  OBVIOUS
<1>1. /\ boot = 0 /\ pc = "down" /\ creds = Absent /\ link = 0
      /\ content = [i \in Inodes |-> Absent] /\ temps = [n \in Saves |-> 0]
      /\ saves = [s \in Saves |-> NoSave] /\ keys = [i \in Ids |-> 0]
      /\ takers = [c \in Callers |-> NoTake] /\ owner = 0 /\ published = NothingPublished
      /\ used = {} /\ acked = 0 /\ overlapped = FALSE /\ shared = FALSE
  BY DEF Init, Inodes
<1>2. /\ published \in [keys : [Ids -> Nat], signed : SignedKeys]
      /\ \A i \in Ids : published.keys[i] = 0
  BY <1>1 DEF NothingPublished, SignedKeys
<1>3. Types
  <2>1. content \in [Inodes -> Contents] /\ link \in Inodes /\ temps \in [Saves -> Inodes]
    BY <1>1 DEF Inodes, Contents
  <2>2. saves \in [Saves -> {NoSave} \cup Pending \cup Ended]
    BY <1>1
  <2>3. takers \in [Callers -> {NoTake} \cup [stage : {"read"}, id : Ids, key : Nat \ {0}]]
    BY <1>1
  <2>4. overlapped \in BOOLEAN /\ shared \in BOOLEAN
    BY <1>1, Zenon
  <2>5. keys \in [Ids -> Nat] /\ boot \in Nat /\ owner \in Nat /\ acked \in Nat
    BY <1>1
  <2>6. pc \in {"down"} \cup Booting \cup Loaded /\ pc \notin Loaded
    BY <1>1 DEF Loaded
  <2> QED BY <1>1, <1>2, <2>1, <2>2, <2>3, <2>4, <2>5, <2>6 DEF Types
<1>4. \A i \in Inodes : ~IsCreds(content[i])
  BY <1>1, Kinds
<1>5. \A s \in Saves : ~UnderWay(s)
  BY <1>1 DEF UnderWay, NoSave
<1>6. Quiet
  BY <1>1, Sizes DEF Quiet, Inodes
<1>7. Numbered
  BY <1>1, Sizes DEF Numbered
<1>8. AllProper /\ Kept /\ FilesOwned
  BY <1>1, <1>4, <1>5 DEF AllProper, Kept, FilesOwned, Loaded
<1>9. Versions
  BY <1>1, <1>4, <1>5 DEF Versions, Disk, Inodes
<1>10. Generations /\ InPlace
  BY <1>1, <1>2 DEF Generations, InPlace, Booting
<1> QED BY <1>3, <1>6, <1>7, <1>8, <1>9, <1>10 DEF IInv

LEMMA StartInv ==
    ASSUME IInv, Start
    PROVE  IInv'
<1>1. /\ pc = "down" /\ boot' = boot + 1 /\ pc' = "migrate"
      /\ UNCHANGED <<creds, link, content, temps, saves, keys, takers, owner, published, used,
                     acked, overlapped, shared>>
  BY DEF Start, files, history
<1>2. /\ boot \in Nat /\ pc \notin Loaded /\ pc' \notin Loaded /\ pc' \in Booting /\ keys \in [Ids -> Nat]
      /\ \A c \in Callers : takers[c] = NoTake
      /\ \A s \in Saves : ~UnderWay(s)
  BY <1>1, NothingUnderWay DEF IInv, Types, Quiet, Loaded, Booting
<1>3. Types'
  BY <1>1, <1>2 DEF IInv, Types
<1>4. Quiet' /\ Numbered' /\ Kept'
  BY <1>1 DEF IInv, Quiet, Numbered, Kept, Disk
<1>5. AllProper' /\ FilesOwned'
  BY <1>1, <1>2 DEF IInv, AllProper, FilesOwned, Proper, UnderWay
<1>6. Versions'
  BY <1>1, <1>2 DEF IInv, Versions, UnderWay, Disk
<1>7. Generations'
  BY <1>1, <1>2 DEF IInv, Generations
<1>8. InPlace'
  BY <1>1 DEF IInv, InPlace
<1> QED BY <1>3, <1>4, <1>5, <1>6, <1>7, <1>8 DEF IInv

LEMMA MigrateSignalStoreInv ==
    ASSUME IInv, MigrateSignalStore
    PROVE  IInv'
<1>1. /\ pc = "migrate" /\ pc' = "read"
      /\ UNCHANGED <<boot, creds, link, content, temps, saves, keys, takers, owner, published, used,
                     acked, overlapped, shared>>
  BY DEF MigrateSignalStore, files, history
<1>2. /\ pc \notin Loaded /\ pc' \notin Loaded /\ pc \in Booting /\ pc' \in Booting
      /\ \A s \in Saves : ~UnderWay(s)
  BY <1>1, NothingUnderWay DEF IInv, Loaded, Booting
<1>3. Types'
  BY <1>1, <1>2 DEF IInv, Types
<1>4. Quiet' /\ Numbered' /\ Kept'
  BY <1>1 DEF IInv, Quiet, Numbered, Kept, Disk
<1>5. AllProper' /\ FilesOwned'
  BY <1>1, <1>2 DEF IInv, AllProper, FilesOwned, Proper, UnderWay
<1>6. Versions'
  BY <1>1, <1>2 DEF IInv, Versions, UnderWay, Disk
<1>7. Generations'
  BY <1>1, <1>2 DEF IInv, Generations
<1>8. InPlace'
  BY <1>1 DEF IInv, InPlace
<1> QED BY <1>3, <1>4, <1>5, <1>6, <1>7, <1>8 DEF IInv

\* The credentials of creds.json, or new ones when there are none that can be read.
LEMMA ReadCredsInv ==
    ASSUME IInv, ReadCreds
    PROVE  IInv'
<1>1. /\ pc = "read" /\ pc' = "pool" /\ overlapped' = FALSE
      /\ UNCHANGED <<boot, link, temps, saves, keys, takers, owner, used, shared>>
  BY DEF ReadCreds
<1>2. /\ pc \notin Loaded /\ pc' \in Loaded /\ pc \in Booting /\ pc' \in Booting
      /\ pc # "up" /\ pc' # "up" /\ pc' \in {"pool", "access", "save"}
  BY <1>1 DEF Loaded, Booting
<1>3. /\ \A s \in Saves : ~UnderWay(s)
      /\ link = 0 /\ Disk = content[0] /\ Disk' = content'[0]
      /\ content \in [Inodes -> Contents] /\ boot \in Nat /\ 0 \in Inodes
  BY <1>1, <1>2, NothingUnderWay DEF IInv, Types, Disk, Inodes
<1>4. \A s \in Saves : ~UnderWay(s)'
  BY <1>1, <1>3 DEF UnderWay
\* Either way.
<1>5. /\ creds' \in Credentials /\ acked' \in Nat /\ creds'.version = acked'
      /\ content' \in [Inodes -> Contents] /\ \A s \in Saves : content'[s] = content[s]
      /\ published' \in [keys : [Ids -> Nat], signed : SignedKeys]
      /\ Proper(creds)'
      /\ IsCreds(content'[0]) => content'[0] = creds' /\ Proper(content[0])'
      /\ Kept' /\ InPlace'
  <2>1. CASE IsCreds(Disk)
    <3>1. creds' = Disk /\ acked' = Disk.version /\ UNCHANGED <<content, published>>
      BY <2>1 DEF ReadCreds
    <3>2. Disk \in Credentials /\ Disk.version \in Nat
      BY <1>3, <2>1, Kinds DEF Credentials
    <3>3. Proper(Disk) /\ Proper(creds)' /\ Proper(content[0])'
      BY <1>1, <1>3, <2>1, <3>1 DEF IInv, AllProper, Proper
    <3>4. Kept' /\ InPlace'
      BY <1>1, <1>3, <3>1 DEF IInv, Kept, InPlace
    <3>5. published \in [keys : [Ids -> Nat], signed : SignedKeys]
      BY DEF IInv, Types
    <3> QED BY <1>3, <3>1, <3>2, <3>3, <3>4, <3>5
  <2>2. CASE ~IsCreds(Disk)
    <3>1. /\ creds' = InitAuthCreds(boot) /\ acked' = 0
          /\ content' = [content EXCEPT ![0] = Absent] /\ published' = NothingPublished
      BY <1>3, <2>2 DEF ReadCreds
    <3>2. /\ published' \in [keys : [Ids -> Nat], signed : SignedKeys]
          /\ \A i \in Ids : published'.keys[i] = 0
          /\ published'.signed.keyId = 0
      BY <3>1 DEF NothingPublished, SignedKeys
    <3>3. owner = 0 \/ shared
      BY <2>2 DEF IInv, Kept
    <3>4. Proper(creds)'
      BY <1>1, <1>3, <3>1, <3>2, <3>3, NewCreds DEF Proper
    <3>5. /\ content' \in [Inodes -> Contents] /\ content'[0] = Absent
          /\ \A s \in Saves : content'[s] = content[s]
      BY <1>3, <3>1, Sizes DEF Contents, Inodes
    <3>6. Kept' /\ InPlace'
      BY <1>1, <3>2, <3>3 DEF Kept, InPlace
    <3> QED BY <1>3, <3>1, <3>2, <3>4, <3>5, <3>6, NewCreds, Kinds
  <2> QED BY <2>1, <2>2
<1>6. Types'
  BY <1>1, <1>2, <1>5 DEF IInv, Types
<1>7. Quiet' /\ Numbered'
  BY <1>1, <1>2, <1>5 DEF IInv, Quiet, Numbered
<1>8. \A s \in Saves : ~IsCreds(content'[s])
  BY <1>2, <1>7, Kinds DEF Quiet
<1>9. AllProper'
  BY <1>4, <1>5, <1>8 DEF AllProper, Inodes
<1>10. FilesOwned'
  BY <1>2 DEF FilesOwned
<1>11. Versions'
  <2>1. IsCreds(Disk)' => Disk'.version >= acked'
    BY <1>3, <1>5
  <2> QED BY <1>2, <1>4, <1>5, <2>1 DEF Versions
<1>12. Generations'
  BY <1>1, <1>2 DEF IInv, Generations
<1> QED BY <1>5, <1>6, <1>7, <1>9, <1>10, <1>11, <1>12 DEF IInv

\* A new signed key has a new id, and a batch takes ids that nothing published has.
LEMMA EnsurePreKeyPoolInv ==
    ASSUME IInv, NEW old \in BOOLEAN, NEW fails \in BOOLEAN, EnsurePreKeyPool(old, fails)
    PROVE  IInv'
<1> DEFINE rotated == RotateSignedPreKey(old)
<1>1. /\ pc = "pool" /\ pc' = "access"
      /\ UNCHANGED <<boot, link, content, temps, saves, takers, owner, published, used, acked,
                     overlapped, shared>>
  BY DEF EnsurePreKeyPool, files, history
<1>2. /\ pc \in Loaded /\ pc' \in Loaded /\ pc \in Booting /\ pc' \notin Booting
      /\ pc # "up" /\ pc' # "up" /\ pc \in {"pool", "access", "save"}
      /\ pc' \in {"pool", "access", "save"}
  BY <1>1 DEF Loaded, Booting
<1>3. /\ \A s \in Saves : ~UnderWay(s) /\ ~UnderWay(s)'
      /\ creds \in Credentials /\ boot \in Nat /\ Proper(creds) /\ creds.version = acked
      /\ keys \in [Ids -> Nat]
  BY <1>1, <1>2, NothingUnderWay DEF IInv, Types, AllProper, Versions, UnderWay
<1>4. /\ rotated \in Credentials /\ rotated.account = creds.account /\ rotated.next = creds.next
      /\ rotated.version = creds.version
      /\ rotated.signed = creds.signed \/ rotated.signed.keyId = creds.signed.keyId + 1
  BY <1>3, RotatedCreds
<1>5. \/ creds' = rotated /\ keys' = keys
      \/ /\ creds' = [rotated EXCEPT !.next = @ + Batch]
         /\ keys' = [i \in Ids |-> IF i \in Generated(rotated) THEN boot ELSE keys[i]]
  BY DEF EnsurePreKeyPool
<1> HIDE DEF rotated
\* The credentials.
<1>6. /\ creds' \in Credentials /\ creds'.account = creds.account /\ creds'.next >= creds.next
      /\ creds'.version = creds.version
      /\ creds'.signed = creds.signed \/ creds'.signed.keyId = creds.signed.keyId + 1
  <2>1. creds.next \in Nat
    BY <1>3 DEF Credentials
  <2>2. CASE creds' = rotated
    BY <1>4, <2>1, <2>2
  <2>3. CASE creds' = [rotated EXCEPT !.next = @ + Batch]
    <3>1. /\ creds' \in Credentials /\ creds'.account = rotated.account
          /\ creds'.next = rotated.next + Batch /\ creds'.signed = rotated.signed
          /\ creds'.version = rotated.version
      BY <1>4, <2>3, CountedCreds
    <3> QED BY <1>4, <2>1, <3>1, Sizes
  <2> QED BY <1>5, <2>2, <2>3
<1>7. Proper(creds')
  BY <1>3, <1>6, StaysProper DEF IInv
<1>8. Proper(creds)' /\ AllProper'
  BY <1>1, <1>2, <1>3, <1>7 DEF IInv, AllProper, Proper
\* The keys.
<1>9. /\ keys' \in [Ids -> Nat]
      /\ \A i \in Ids : keys'[i] = keys[i] \/ (keys'[i] = boot /\ published.keys[i] = 0)
  <2>1. CASE keys' = keys
    BY <1>3, <2>1
  <2>2. CASE keys' = [i \in Ids |-> IF i \in Generated(rotated) THEN boot ELSE keys[i]]
    <3>1. keys' \in [Ids -> Nat]
      BY <1>3, <2>2
    <3>2. ASSUME NEW i \in Ids, i \in Generated(rotated)
          PROVE  published.keys[i] = 0
      <4>1. creds.next \in Nat /\ i >= creds.next /\ i \in Nat
        BY <1>3, <1>4, <3>2, Sizes DEF Generated, Credentials
      <4>2. ~(i < creds.next)
        BY <4>1
      <4> QED BY <1>3, <4>2 DEF Proper
    <3> QED BY <2>2, <3>1, <3>2
  <2> QED BY <1>5, <2>1, <2>2
<1>10. InPlace'
  BY <1>1, <1>9 DEF IInv, InPlace
<1>11. Generations'
  <2>1. \A i \in Ids : keys'[i] <= boot
    BY <1>3, <1>9 DEF IInv, Generations
  <2>2. ASSUME NEW i \in Ids, NEW k \in Nat, <<i, k>> \in used
        PROVE  keys'[i] # k /\ k <= boot
    <3>1. keys[i] # k /\ k < boot
      BY <1>2, <2>2 DEF IInv, Generations
    <3> QED BY <1>3, <1>9, <3>1
  <2> QED BY <1>1, <1>2, <2>1, <2>2 DEF IInv, Generations
<1>12. Types'
  BY <1>1, <1>2, <1>6, <1>9 DEF IInv, Types
<1>13. Quiet' /\ Numbered' /\ Kept' /\ FilesOwned'
  BY <1>1, <1>2 DEF IInv, Quiet, Numbered, Kept, Disk, FilesOwned
<1>14. Versions'
  BY <1>1, <1>2, <1>3, <1>6 DEF IInv, Versions, Disk
<1> QED BY <1>8, <1>10, <1>11, <1>12, <1>13, <1>14 DEF IInv

\* Credentials that are saved before a process is up.
LEMMA SavedAtBootKeeps ==
    ASSUME IInv, pc \in {"access", "save"}, SavedAtBoot
    PROVE  /\ content' \in [Inodes -> Contents] /\ content'[0] = creds
           /\ \A s \in Saves : content'[s] = content[s]
           /\ UNCHANGED <<link, temps>> /\ link = 0
           /\ creds \in Credentials /\ IsCreds(creds) /\ Proper(creds) /\ creds.version = acked
           /\ acked \in Nat
<1>1. pc # "up" /\ pc \in Loaded
  BY DEF Loaded
<1>2. /\ link = 0 /\ creds \in Credentials /\ Proper(creds) /\ content \in [Inodes -> Contents]
      /\ creds.version = acked /\ acked \in Nat
  BY <1>1 DEF IInv, Quiet, Types, AllProper, Versions
<1>3. content' = [content EXCEPT ![0] = creds] /\ UNCHANGED <<link, temps>>
  BY <1>2 DEF SavedAtBoot
<1>4. creds \in Contents /\ IsCreds(creds)
  BY <1>2, Kinds
<1>5. 0 \in Inodes /\ \A s \in Saves : s \in Inodes /\ s # 0
  BY Sizes DEF Inodes
<1> QED BY <1>2, <1>3, <1>4, <1>5

LEMMA AccessCredsInv ==
    ASSUME IInv, AccessCreds
    PROVE  IInv'
<1>1. /\ pc = "access" /\ pc' = "save"
      /\ UNCHANGED <<boot, creds, saves, keys, takers, owner, published, used, acked,
                     overlapped, shared>>
  BY DEF AccessCreds, history
<1>2. /\ pc \in Loaded /\ pc' \in Loaded /\ pc \notin Booting /\ pc' \notin Booting
      /\ pc # "up" /\ pc' # "up" /\ pc \in {"access", "save"}
      /\ pc' \in {"pool", "access", "save"} /\ pc \in {"pool", "access", "save"}
  BY <1>1 DEF Loaded, Booting
<1>3. \A s \in Saves : ~UnderWay(s) /\ ~UnderWay(s)'
  BY <1>1, <1>2, NothingUnderWay DEF IInv, UnderWay
<1>4. /\ UNCHANGED <<link, temps>> /\ link = 0
      /\ content' \in [Inodes -> Contents] /\ \A s \in Saves : content'[s] = content[s]
      /\ content'[0] = content[0] \/ content'[0] = creds
      /\ creds \in Credentials /\ IsCreds(creds) /\ Proper(creds) /\ creds.version = acked
      /\ acked \in Nat
  <2>1. SavedAtBoot \/ UNCHANGED <<link, content, temps>>
    BY DEF AccessCreds, files
  <2>2. CASE SavedAtBoot
    BY <1>2, <2>2, SavedAtBootKeeps
  <2>3. CASE UNCHANGED <<link, content, temps>>
    BY <1>2, <2>3, Kinds DEF IInv, Types, Quiet, AllProper, Versions
  <2> QED BY <2>1, <2>2, <2>3
<1>5. Disk = content[0] /\ Disk' = content'[0]
  BY <1>4 DEF Disk
<1>6. Types'
  BY <1>1, <1>2, <1>4 DEF IInv, Types
<1>7. Quiet' /\ Numbered'
  BY <1>1, <1>2, <1>4 DEF IInv, Quiet, Numbered
<1>8. AllProper'
  <2>1. \A c : Proper(c) => Proper(c)'
    BY <1>1 DEF Proper
  <2>2. ASSUME NEW i \in Inodes, IsCreds(content'[i])
        PROVE  Proper(content[i])'
    <3>1. Proper(content'[i])
      <4>1. CASE i = 0
        BY <1>4, <2>2, <4>1 DEF IInv, AllProper, Inodes
      <4>2. CASE i \in Saves
        BY <1>4, <2>2, <4>2 DEF IInv, AllProper
      <4> QED BY <4>1, <4>2 DEF Inodes
    <3> QED BY <1>1, <3>1 DEF Proper
  <2>3. Proper(creds)'
    BY <1>1, <1>4 DEF Proper
  <2> QED BY <1>3, <2>2, <2>3 DEF AllProper
<1>9. Kept' /\ FilesOwned'
  BY <1>1, <1>2, <1>4, <1>5 DEF IInv, Kept, FilesOwned
<1>10. Versions'
  BY <1>1, <1>2, <1>3, <1>4, <1>5 DEF IInv, Versions
<1>11. Generations' /\ InPlace'
  BY <1>1, <1>2 DEF IInv, Generations, InPlace
<1> QED BY <1>6, <1>7, <1>8, <1>9, <1>10, <1>11 DEF IInv

\* What is published now has the ids that the credentials count.
LEMMA SaveAtBootInv ==
    ASSUME IInv, SaveAtBoot
    PROVE  IInv'
<1> USE DEF OwnNames, OwnFiles, NoOtherTemps, LinkSaved
<1>1. /\ pc = "save" /\ pc' = "up" /\ SavedAtBoot
      /\ UNCHANGED <<boot, creds, saves, keys, takers, used, acked, overlapped, shared>>
      /\ owner' = IF owner = 0 THEN creds.account ELSE owner
      /\ published' = [keys |-> [i \in Ids |-> IF i < creds.next /\ keys[i] # 0
                                              THEN keys[i] ELSE published.keys[i]],
                       signed |-> creds.signed]
  BY DEF SaveAtBoot, Up
<1>2. /\ pc \in Loaded /\ pc' \in Loaded /\ pc \notin Booting /\ pc' \notin Booting
      /\ pc # "up" /\ pc \in {"access", "save"} /\ pc' \notin {"pool", "access", "save"}
  BY <1>1 DEF Loaded, Booting
<1>3. \A s \in Saves : ~UnderWay(s) /\ ~UnderWay(s)'
  BY <1>1, <1>2, NothingUnderWay DEF IInv, UnderWay
<1>4. /\ content' \in [Inodes -> Contents] /\ content'[0] = creds
      /\ \A s \in Saves : content'[s] = content[s]
      /\ UNCHANGED <<link, temps>> /\ link = 0
      /\ creds \in Credentials /\ IsCreds(creds) /\ Proper(creds) /\ creds.version = acked
      /\ acked \in Nat
  BY <1>1, <1>2, SavedAtBootKeeps
<1>5. Disk' = creds
  BY <1>4 DEF Disk
<1>6. /\ published'.signed = creds.signed
      /\ published' \in [keys : [Ids -> Nat], signed : SignedKeys]
      /\ \A i \in Ids : published'.keys[i] = IF i < creds.next /\ keys[i] # 0
                                             THEN keys[i] ELSE published.keys[i]
  <2> DEFINE all == [i \in Ids |-> IF i < creds.next /\ keys[i] # 0
                                   THEN keys[i] ELSE published.keys[i]]
  <2>1. keys \in [Ids -> Nat] /\ published.keys \in [Ids -> Nat] /\ creds.signed \in SignedKeys
    BY <1>4 DEF IInv, Types, Credentials
  <2>2. all \in [Ids -> Nat]
    BY <2>1
  <2>3. /\ published'.signed = creds.signed /\ published'.keys = all
        /\ published' \in [keys : [Ids -> Nat], signed : SignedKeys]
    <3>1. published' = [keys |-> all, signed |-> creds.signed]
      BY <1>1
    <3> HIDE DEF all
    <3> QED BY <2>1, <2>2, <3>1
  <2> QED BY <2>3
<1>7. Proper(creds)'
  <2>1. \A i \in Ids : published'.keys[i] # 0 => i < creds.next
    BY <1>4, <1>6 DEF Proper
  <2>2. owner' # 0 /\ ~shared => creds.account = owner'
    BY <1>1, <1>4 DEF Proper
  <2> QED BY <1>1, <1>6, <2>1, <2>2 DEF Proper
<1>8. Types'
  <2>1. owner' \in Nat
    BY <1>1, <1>4 DEF IInv, Types, Credentials
  <2> QED BY <1>1, <1>2, <1>4, <1>6, <2>1 DEF IInv, Types
<1>9. Quiet' /\ Numbered'
  BY <1>1 DEF IInv, Quiet, Numbered
<1>10. AllProper'
  <2>1. ASSUME NEW i \in Inodes, IsCreds(content'[i])
        PROVE  Proper(content[i])'
    <3>1. i \notin Saves
      BY <1>2, <1>4, <2>1, Kinds DEF IInv, Quiet
    <3>2. content'[i] = creds'
      BY <1>1, <1>4, <3>1 DEF Inodes
    <3> QED BY <1>7, <3>2 DEF Proper
  <2> QED BY <1>3, <1>7, <2>1 DEF AllProper
<1>11. Kept'
  BY <1>4, <1>5 DEF Kept
<1>12. FilesOwned'
  <2>1. /\ \A s \in Saves : saves'[s].stage = "none" /\ temps'[s] = 0
        /\ link' = 0
    BY <1>1, <1>2, <1>4 DEF IInv, Quiet, NoSave
  <2> QED BY <1>3, <2>1 DEF FilesOwned
<1>13. Versions'
  BY <1>1, <1>2, <1>3, <1>4, <1>5 DEF Versions
<1>14. Generations'
  BY <1>1, <1>2 DEF IInv, Generations
<1>15. InPlace'
  BY <1>1, <1>4, <1>6 DEF IInv, InPlace, Proper
<1> QED BY <1>8, <1>9, <1>10, <1>11, <1>12, <1>13, <1>14, <1>15 DEF IInv

\* Only what creds.json names is found by the next process.
LEMMA CrashInv ==
    ASSUME IInv, Crash
    PROVE  IInv'
<1>1. /\ pc' = "down" /\ creds' = Absent /\ takers' = [c \in Callers |-> NoTake]
      /\ saves' = [s \in Saves |-> NoSave] /\ temps' = [n \in Saves |-> 0]
      /\ link' = 0 /\ content' = [i \in Inodes |-> IF i = 0 THEN Disk ELSE Absent]
      /\ UNCHANGED <<boot, keys, owner, published, used, acked, overlapped, shared>>
  BY DEF Crash, history, Inodes
<1>2. pc' \notin Loaded /\ pc' \notin Booting /\ pc' # "up" /\ pc' \notin {"pool", "access", "save"}
  BY <1>1 DEF Loaded, Booting
<1>3. Disk \in Contents /\ 0 \in Inodes /\ \A s \in Saves : s \in Inodes /\ s # 0
  BY Sizes DEF IInv, Types, Disk, Inodes
<1>4. /\ content' \in [Inodes -> Contents] /\ content'[0] = Disk /\ Disk' = Disk
      /\ \A s \in Saves : content'[s] = Absent
  BY <1>1, <1>3 DEF Contents, Disk
<1>5. \A s \in Saves : ~UnderWay(s)'
  BY <1>1 DEF UnderWay, NoSave
<1>6. Types'
  <2>1. takers' \in [Callers -> {NoTake} \cup [stage : {"read"}, id : Ids, key : Nat \ {0}]]
    BY <1>1
  <2>2. saves' \in [Saves -> {NoSave} \cup Pending \cup Ended]
    BY <1>1
  <2>3. temps' \in [Saves -> Inodes] /\ link' \in Inodes
    BY <1>1, <1>3
  <2> QED BY <1>1, <1>2, <1>4, <2>1, <2>2, <2>3 DEF IInv, Types
<1>7. Quiet' /\ Numbered'
  BY <1>1, <1>4, Sizes DEF Quiet, Numbered
<1>8. AllProper'
  <2>1. ASSUME NEW i \in Inodes, IsCreds(content'[i])
        PROVE  Proper(content[i])'
    <3>1. content'[i] = content[link] /\ link \in Inodes
      BY <1>4, <2>1, Kinds DEF IInv, Types, Inodes, Disk
    <3> QED BY <1>1, <2>1, <3>1 DEF IInv, AllProper, Proper
  <2> QED BY <1>2, <1>5, <2>1 DEF AllProper
<1>9. Kept' /\ FilesOwned'
  BY <1>1, <1>2, <1>4 DEF IInv, Kept, FilesOwned
<1>10. Versions'
  BY <1>1, <1>2, <1>4, <1>5 DEF IInv, Versions
<1>11. Generations' /\ InPlace'
  BY <1>1, <1>2 DEF IInv, Generations, InPlace
<1> QED BY <1>6, <1>7, <1>8, <1>9, <1>10, <1>11 DEF IInv

------------------------------------------------------------------------------
(* Saves.                                                                    *)

\* A call of saveCreds is the next one, of what the update has made.
LEMMA Called ==
    ASSUME IInv, NEW me \in BOOLEAN, Update(me)
    PROVE  /\ pc = "up" /\ creds' = [creds EXCEPT !.version = @ + 1, !.me = me]
           /\ UNCHANGED <<boot, pc, link, content, temps, keys, takers, owner, published, used, acked>>
           /\ \E s \in Saves, name \in Saves, m \in 0..MaxUpdates :
                 /\ s = m + 1 /\ m + 1 \in 0..MaxUpdates
                 /\ \A t \in Saves : saves[t] # NoSave <=> t <= m
                 /\ SaveCreds(s, name)
<1> DEFINE s == Calls + 1
           last == IF s = 1 THEN 1 ELSE saves[s - 1].name
<1>1. /\ pc = "up" /\ creds' = [creds EXCEPT !.version = @ + 1, !.me = me]
      /\ UNCHANGED <<boot, pc, link, content, temps, keys, takers, owner, published, used, acked>>
      /\ Calls < MaxUpdates /\ \E name \in {last, last + 1} \cap Saves : SaveCreds(s, name)
  BY DEF Update, files
<1>2. PICK m \in 0..MaxUpdates : \A t \in Saves : saves[t] # NoSave <=> t <= m
  BY DEF IInv, Numbered
<1>3. Calls = m
  <2>1. m \in Nat
    OBVIOUS
  <2>2. {t \in Saves : saves[t] # NoSave} = 1..m
    BY <1>2, Sizes DEF Saves
  <2>3. Cardinality(1..m) = m
    <3>1. Cardinality(1..m) = IF 1 > m THEN 0 ELSE m - 1 + 1
      BY <2>1, FS_Interval
    <3> QED BY <2>1, <3>1
  <2> QED BY <2>2, <2>3 DEF Calls
<1>4. s = m + 1 /\ s \in Saves /\ m + 1 \in 0..MaxUpdates
  BY <1>1, <1>3, Sizes DEF Saves
<1> HIDE DEF s, last
<1>5. PICK name \in Saves : SaveCreds(s, name)
  BY <1>1
<1> QED BY <1>1, <1>2, <1>4, <1>5

\* The name of a save that is called has no file yet, or that save has no name of its own.
LEMMA UpdateInv ==
    ASSUME IInv, NEW me \in BOOLEAN, Update(me)
    PROVE  IInv'
<1> USE DEF OwnNames, OwnFiles, NoOtherTemps, LinkSaved
<1>1. /\ pc = "up" /\ creds' = [creds EXCEPT !.version = @ + 1, !.me = me]
      /\ UNCHANGED <<boot, pc, link, content, temps, keys, takers, owner, published, used, acked>>
  BY Called
<1>2. PICK s \in Saves, name \in Saves, m \in 0..MaxUpdates :
         /\ s = m + 1 /\ m + 1 \in 0..MaxUpdates
         /\ \A t \in Saves : saves[t] # NoSave <=> t <= m
         /\ SaveCreds(s, name)
  BY Called
<1>3. pc \in Loaded /\ pc \notin Booting /\ pc \notin {"pool", "access", "save"}
  BY <1>1 DEF Loaded, Booting
<1>4. creds \in Credentials
  BY <1>3 DEF IInv, Types
<1>5. /\ creds' \in Credentials /\ creds'.account = creds.account /\ creds'.next = creds.next
      /\ creds'.signed = creds.signed /\ creds'.version = creds.version + 1
      /\ creds.version \in Nat /\ creds.next \in Nat
  <2>1. creds.next \in Nat
    BY <1>4 DEF Credentials
  <2> QED BY <1>1, <1>4, <2>1, UpdatedCreds
<1> DEFINE w == [stage |-> "called", name |-> name, inode |-> 0, snap |-> creds',
                 version |-> creds'.version]
<1>6. /\ saves' = [saves EXCEPT ![s] = w]
      /\ overlapped' = (overlapped \/ \E t \in Saves : UnderWay(t))
      /\ shared' = (shared \/ \E t \in Saves : UnderWay(t) /\ saves[t].name = name)
  BY <1>2 DEF SaveCreds, Snapshot
<1>7. /\ w \in Pending /\ w # NoSave /\ w.stage = "called" /\ w.name = name /\ w.snap = creds'
      /\ w.version = creds'.version
  <2>1. creds'.version \in Nat /\ 0 \in Inodes
    BY <1>5 DEF Inodes
  <2> QED BY <1>5, <2>1 DEF Pending, NoSave
<1> HIDE DEF w
<1>8. /\ saves' \in [Saves -> {NoSave} \cup Pending \cup Ended] /\ saves'[s] = w
      /\ \A t \in Saves : t # s => saves'[t] = saves[t]
  BY <1>6, <1>7 DEF IInv, Types
<1>9. /\ saves[s] = NoSave /\ ~UnderWay(s) /\ UnderWay(s)'
      /\ saves[s].stage = "none"
      /\ \A t \in Saves : t # s => (UnderWay(t)' <=> UnderWay(t))
  <2>1. saves[s] = NoSave
    BY <1>2, Sizes
  <2> QED BY <1>7, <1>8, <2>1 DEF UnderWay, NoSave
<1>10. /\ overlapped' \in BOOLEAN /\ shared' \in BOOLEAN
       /\ ~overlapped' => ~overlapped /\ \A t \in Saves : ~UnderWay(t)
       /\ ~shared' => ~shared /\ \A t \in Saves : UnderWay(t) => saves[t].name # name
  BY <1>6, Zenon
<1>11. \A c : Proper(c) => Proper(c)'
  BY <1>1, <1>10 DEF Proper
<1>12. Proper(creds) /\ Proper(creds') /\ Proper(creds)'
  <2>1. Proper(creds)
    BY <1>3 DEF IInv, AllProper
  <2>2. Proper(creds')
    BY <1>4, <1>5, <2>1, StaysProper DEF IInv
  <2> QED BY <1>1, <1>10, <2>1, <2>2 DEF Proper
<1>13. Types'
  BY <1>1, <1>3, <1>5, <1>8, <1>10 DEF IInv, Types
<1>14. Quiet'
  BY <1>1 DEF Quiet
<1>15. Numbered'
  <2>1. \A t \in Saves : saves'[t] # NoSave <=> t <= m + 1
    <3> TAKE t \in Saves
    <3>1. t \in Nat
      BY Sizes
    <3> QED BY <1>2, <1>7, <1>8, <3>1
  <2> QED BY <1>2, <2>1 DEF Numbered
<1>16. AllProper'
  <2>1. ASSUME NEW i \in Inodes, IsCreds(content'[i])
        PROVE  Proper(content[i])'
    <3>1. Proper(content[i])
      BY <1>1, <2>1 DEF IInv, AllProper
    <3> QED BY <1>1, <1>10, <3>1 DEF Proper
  <2>2. ASSUME NEW t \in Saves, UnderWay(t)'
        PROVE  Proper(saves[t].snap)'
    <3>1. Proper(saves'[t].snap)
      BY <1>7, <1>8, <1>9, <1>12, <2>2 DEF IInv, AllProper
    <3> QED BY <1>1, <1>10, <3>1 DEF Proper
  <2> QED BY <1>12, <2>1, <2>2 DEF AllProper
<1>17. Kept'
  BY <1>1, <1>10 DEF IInv, Kept, Disk
<1>18. FilesOwned'
  <2> SUFFICES ASSUME ~overlapped' \/ ~shared'
               PROVE  FilesOwned'
    BY DEF FilesOwned
  <2>1. ~overlapped \/ ~shared
    BY <1>10
  <2>2. OwnNames /\ OwnFiles /\ NoOtherTemps /\ LinkSaved
    BY <1>1, <2>1 DEF IInv, FilesOwned
  <2>3. \A t \in Saves : UnderWay(t) => saves[t].name # name
    BY <1>10
  <2>4. OwnNames'
    BY <1>7, <1>8, <1>9, <2>2, <2>3
  <2>5. \A t \in Saves : saves'[t].stage \in {"opened", "written"} =>
              /\ saves'[t].inode = t /\ temps'[saves'[t].name] = t
              /\ content'[t] = IF saves'[t].stage = "opened" THEN Empty ELSE saves'[t].snap
    BY <1>1, <1>7, <1>8, <2>2
  <2>6. ASSUME NEW n \in Saves, temps'[n] # 0
        PROVE  saves'[temps'[n]].stage \in {"opened", "written"} /\ saves'[temps'[n]].name = n
    <3>1. saves[temps[n]].stage \in {"opened", "written"} /\ saves[temps[n]].name = n
      BY <1>1, <2>2, <2>6
    <3>2. temps[n] \in Saves /\ temps[n] # s
      BY <1>1, <1>9, <2>6, <3>1 DEF IInv, Types, Inodes
    <3> QED BY <1>1, <1>8, <3>1, <3>2
  <2>7. LinkSaved'
    <3>1. link' = link /\ (link # 0 => link \in Saves /\ link # s)
      BY <1>1, <1>9, <2>2 DEF IInv, Types, Inodes
    <3> QED BY <1>8, <2>2, <3>1
  <2> QED BY <2>4, <2>5, <2>6, <2>7 DEF FilesOwned
<1>19. Versions'
  <2>1. acked \in Nat /\ acked <= creds.version
    BY <1>1 DEF IInv, Types, Versions
  <2>2. ASSUME NEW t \in Saves, UnderWay(t)'
        PROVE  saves'[t].snap.version = saves'[t].version /\ saves'[t].version <= creds'.version
    <3>1. CASE t = s
      BY <1>5, <1>7, <1>8, <3>1
    <3>2. CASE t # s
      <4>1. UnderWay(t) /\ saves[t] \in Pending /\ saves'[t] = saves[t]
        BY <1>8, <1>9, <2>2, <3>2 DEF IInv, Types, UnderWay, NoSave, Ended
      <4>2. saves[t].version \in Nat /\ saves[t].snap.version = saves[t].version
            /\ saves[t].version <= creds.version
        BY <4>1 DEF IInv, Versions, Pending
      <4> QED BY <1>5, <4>1, <4>2
    <3> QED BY <3>1, <3>2
  <2>3. ~overlapped' => /\ IsCreds(Disk) => Disk.version >= acked
                        /\ \A t \in Saves : UnderWay(t)' => t = s
    BY <1>9, <1>10 DEF IInv, Versions
  <2>4. acked <= saves'[s].version /\ acked <= creds'.version
    BY <1>5, <1>7, <1>8, <2>1
  <2> QED BY <1>1, <1>3, <2>2, <2>3, <2>4 DEF Versions, Disk
<1>20. Generations' /\ InPlace'
  BY <1>1 DEF IInv, Generations, InPlace
<1> QED BY <1>13, <1>14, <1>15, <1>16, <1>17, <1>18, <1>19, <1>20 DEF IInv

\* What every step of a save leaves of the invariant: it makes no credentials that
\* are not those of a save, and no save out of nothing.
LEMMA SaveMoves ==
    ASSUME IInv, pc = "up", NEW s \in Saves, UnderWay(s),
           NEW w \in Pending \cup Ended, saves' = [saves EXCEPT ![s] = w],
           w \in Pending => w.snap = saves[s].snap,
           UNCHANGED <<boot, pc, creds, keys, takers, owner, published, used, overlapped, shared>>,
           content' \in [Inodes -> Contents], link' \in Inodes, temps' \in [Saves -> Inodes],
           acked' \in Nat,
           \A i \in Inodes : IsCreds(content'[i]) =>
               content'[i] = content[i] \/ content'[i] = saves[s].snap
    PROVE  Types' /\ Quiet' /\ Numbered' /\ AllProper' /\ Generations' /\ InPlace'
<1>1. w # NoSave /\ saves[s] # NoSave
  BY DEF NoSave, Pending, Ended, UnderWay
<1>2. /\ saves' \in [Saves -> {NoSave} \cup Pending \cup Ended] /\ saves'[s] = w
      /\ \A t \in Saves : t # s => saves'[t] = saves[t]
  BY DEF IInv, Types
<1>3. Types'
  BY <1>2 DEF IInv, Types
<1>4. Quiet'
  BY DEF Quiet
<1>5. Numbered'
  BY <1>1, <1>2 DEF IInv, Numbered
<1>6. AllProper'
  <2>1. \A c : Proper(c) => Proper(c)'
    BY DEF Proper
  <2>2. ASSUME NEW i \in Inodes, IsCreds(content'[i])
        PROVE  Proper(content[i])'
    <3>1. Proper(content'[i])
      BY <2>2 DEF IInv, AllProper
    <3> QED BY <3>1 DEF Proper
  <2>3. ASSUME NEW t \in Saves, UnderWay(t)'
        PROVE  Proper(saves[t].snap)'
    <3>1. Proper(saves'[t].snap)
      <4>1. CASE t = s
        <5>1. w \in Pending
          BY <1>2, <2>3, <4>1 DEF UnderWay, Ended
        <5> QED BY <1>2, <4>1, <5>1 DEF IInv, AllProper
      <4>2. CASE t # s
        BY <1>2, <2>3, <4>2 DEF IInv, AllProper, UnderWay
      <4> QED BY <4>1, <4>2
    <3> QED BY <3>1 DEF Proper
  <2>4. pc \in Loaded => Proper(creds)'
    BY DEF IInv, AllProper, Proper
  <2> QED BY <2>2, <2>3, <2>4 DEF AllProper
<1>7. Generations' /\ InPlace'
  BY DEF IInv, Generations, InPlace
<1> QED BY <1>3, <1>4, <1>5, <1>6, <1>7

\* A save that is under way.
LEMMA PendingSave ==
    ASSUME Types, NEW s \in Saves, UnderWay(s)
    PROVE  /\ saves[s] \in Pending /\ saves[s].name \in Saves /\ saves[s].inode \in Inodes
           /\ saves[s].snap \in Credentials /\ saves[s].version \in Nat
<1>1. saves[s] \in {NoSave} \cup Pending \cup Ended
  BY DEF Types
<1>2. saves[s] \in Pending
  BY <1>1 DEF UnderWay, NoSave, Ended
<1> QED BY <1>2 DEF Pending

\* A save after its file is opened.
LEMMA OpenedSave ==
    ASSUME NEW v \in Pending, NEW inode \in Inodes
    PROVE  LET w == [v EXCEPT !.stage = "opened", !.inode = inode]
           IN /\ w \in Pending /\ w.stage = "opened" /\ w.inode = inode
              /\ w.name = v.name /\ w.snap = v.snap /\ w.version = v.version
<1> DEFINE u == [v EXCEPT !.stage = "opened"]
           w == [v EXCEPT !.stage = "opened", !.inode = inode]
<1>1. /\ u \in Pending /\ u.stage = "opened"
      /\ u.name = v.name /\ u.snap = v.snap /\ u.version = v.version
  BY DEF Pending
<1>2. w = [u EXCEPT !.inode = inode]
  BY DEF Pending
<1> HIDE DEF u, w
<1>3. /\ w \in Pending /\ w.stage = "opened" /\ w.inode = inode
      /\ w.name = v.name /\ w.snap = v.snap /\ w.version = v.version
  BY <1>1, <1>2 DEF Pending
<1> QED BY <1>3 DEF w

\* The versions, when the file is not touched and nobody calls.
LEMMA VersionsKept ==
    ASSUME IInv, pc = "up", NEW s \in Saves, UnderWay(s),
           UNCHANGED <<pc, creds, acked, overlapped>>,
           \A t \in Saves : t # s => saves'[t] = saves[t],
           UnderWay(s)' => /\ saves'[s].snap = saves[s].snap
                           /\ saves'[s].version = saves[s].version,
           ~overlapped => Disk' = Disk
    PROVE  Versions'
<1>1. pc \notin {"pool", "access", "save"}
  OBVIOUS
<1>2. \A t \in Saves : UnderWay(t)' => /\ UnderWay(t) /\ saves'[t].snap = saves[t].snap
                                       /\ saves'[t].version = saves[t].version
  BY DEF UnderWay
<1> QED BY <1>1, <1>2 DEF IInv, Versions

\* open and truncate.
LEMMA OpenTempInv ==
    ASSUME IInv, NEW s \in Saves, OpenTemp(s)
    PROVE  IInv'
<1> USE DEF OwnNames, OwnFiles, NoOtherTemps, LinkSaved
<1> DEFINE name == saves[s].name
           inode == IF temps[name] = 0 THEN s ELSE temps[name]
           w == [saves[s] EXCEPT !.stage = "opened", !.inode = inode]
<1>1. /\ pc = "up" /\ saves[s].stage = "called"
      /\ temps' = [temps EXCEPT ![name] = inode]
      /\ content' = [content EXCEPT ![inode] = Empty]
      /\ UNCHANGED <<boot, pc, creds, link, keys, takers, owner, published, used, acked, overlapped, shared>>
  BY DEF OpenTemp, history
<1>2. UnderWay(s)
  BY <1>1 DEF UnderWay
<1>3. /\ saves[s] \in Pending /\ name \in Saves
      /\ temps \in [Saves -> Inodes] /\ content \in [Inodes -> Contents] /\ link \in Inodes
      /\ saves \in [Saves -> {NoSave} \cup Pending \cup Ended]
  BY <1>2, PendingSave DEF IInv, Types
<1>4. inode \in Saves /\ inode \in Inodes /\ inode # 0
  BY <1>3, Sizes DEF Inodes
<1>5. saves' = [saves EXCEPT ![s] = w]
  BY <1>3 DEF OpenTemp
<1> HIDE DEF name, inode
<1>6. /\ w \in Pending /\ w.stage = "opened" /\ w.inode = inode
      /\ w.name = name /\ w.snap = saves[s].snap /\ w.version = saves[s].version
  BY <1>3, <1>4, OpenedSave DEF name
<1> HIDE DEF w
<1>7. /\ saves'[s] = w /\ \A t \in Saves : t # s => saves'[t] = saves[t]
      /\ temps' \in [Saves -> Inodes] /\ temps'[name] = inode
      /\ \A n \in Saves : n # name => temps'[n] = temps[n]
      /\ content' \in [Inodes -> Contents] /\ content'[inode] = Empty
      /\ \A i \in Inodes : i # inode => content'[i] = content[i]
  BY <1>1, <1>3, <1>4, <1>5 DEF Contents
<1>8. Types' /\ Quiet' /\ Numbered' /\ AllProper' /\ Generations' /\ InPlace'
  <2>1. \A i \in Inodes : IsCreds(content'[i]) => content'[i] = content[i]
    BY <1>7, Kinds
  <2>2. acked' \in Nat
    BY <1>1 DEF IInv, Types
  <2> QED BY <1>1, <1>2, <1>3, <1>5, <1>6, <1>7, <2>1, <2>2, SaveMoves
\* Its name is its own, so nobody has a file of that name.
<1>9. ASSUME ~overlapped \/ ~shared
      PROVE  /\ inode = s /\ link # s /\ Disk' = Disk
             /\ OwnNames /\ OwnFiles /\ NoOtherTemps /\ LinkSaved
  <2>1. OwnNames /\ OwnFiles /\ NoOtherTemps /\ LinkSaved
    BY <1>1, <1>9 DEF IInv, FilesOwned
  <2>2. temps[name] = 0
    <3> SUFFICES ASSUME temps[name] # 0 PROVE FALSE
      OBVIOUS
    <3> DEFINE t == temps[name]
    <3>1. t \in Saves /\ saves[t].stage \in {"opened", "written"} /\ saves[t].name = name
      BY <1>3, <2>1 DEF Inodes
    <3>2. UnderWay(t) /\ t # s
      BY <1>1, <3>1 DEF UnderWay
    <3> QED BY <1>2, <2>1, <3>1, <3>2 DEF name
  <2>3. inode = s
    BY <2>2 DEF inode
  <2>4. link # s
    BY <1>1, <1>4, <2>1, <2>3
  <2>5. Disk' = Disk
    BY <1>1, <1>3, <1>7, <2>3, <2>4 DEF Disk
  <2> QED BY <2>1, <2>3, <2>4, <2>5
<1>10. Kept'
  BY <1>1, <1>9 DEF IInv, Kept
<1>11. FilesOwned'
  <2> SUFFICES ASSUME ~overlapped' \/ ~shared'
               PROVE  FilesOwned'
    BY DEF FilesOwned
  <2>0. ~overlapped \/ ~shared
    BY <1>1
  <2>1. /\ inode = s /\ link # s
        /\ OwnNames /\ OwnFiles /\ NoOtherTemps /\ LinkSaved
    BY <1>9, <2>0
  <2>2. \A t \in Saves : (UnderWay(t)' <=> UnderWay(t)) /\ saves'[t].name = saves[t].name
    BY <1>2, <1>6, <1>7 DEF UnderWay, name
  <2>3. OwnNames'
    BY <2>1, <2>2
  <2>4. ASSUME NEW t \in Saves, saves'[t].stage \in {"opened", "written"}
        PROVE  /\ saves'[t].inode = t /\ temps'[saves'[t].name] = t
               /\ content'[t] = IF saves'[t].stage = "opened" THEN Empty ELSE saves'[t].snap
    <3>1. CASE t = s
      BY <1>6, <1>7, <2>1, <3>1
    <3>2. CASE t # s
      <4>1. UnderWay(t) /\ saves[t].stage \in {"opened", "written"}
        BY <1>7, <2>4, <3>2 DEF UnderWay
      <4>2. saves[t].name # name /\ saves[t].name \in Saves /\ t \in Inodes
        BY <1>2, <1>7, <2>1, <3>2, <4>1, PendingSave DEF name, IInv, Inodes
      <4> QED BY <1>7, <2>1, <3>2, <4>1, <4>2
    <3> QED BY <3>1, <3>2
  <2>5. ASSUME NEW n \in Saves, temps'[n] # 0
        PROVE  saves'[temps'[n]].stage \in {"opened", "written"} /\ saves'[temps'[n]].name = n
    <3>1. CASE n = name
      BY <1>6, <1>7, <2>1, <3>1
    <3>2. CASE n # name
      <4>1. temps'[n] = temps[n] /\ temps[n] # 0
        BY <1>7, <2>5, <3>2
      <4>2. /\ saves[temps[n]].stage \in {"opened", "written"} /\ saves[temps[n]].name = n
            /\ temps[n] \in Saves /\ temps[n] # s
        BY <1>1, <1>3, <2>1, <4>1 DEF Inodes
      <4> QED BY <1>7, <4>1, <4>2
    <3> QED BY <3>1, <3>2
  <2>6. LinkSaved'
    BY <1>1, <1>3, <1>7, <2>1 DEF Inodes
  <2> QED BY <2>3, <2>4, <2>5, <2>6 DEF FilesOwned
<1>12. Versions'
  BY <1>1, <1>2, <1>6, <1>7, <1>9, VersionsKept
<1> QED BY <1>8, <1>10, <1>11, <1>12 DEF IInv

\* Written into a file of its own, what is saved is what the file holds.
LEMMA WriteTempInv ==
    ASSUME IInv, NEW s \in Saves, WriteTemp(s)
    PROVE  IInv'
<1> USE DEF OwnNames, OwnFiles, NoOtherTemps, LinkSaved
<1> DEFINE inode == saves[s].inode
           w == [saves[s] EXCEPT !.stage = "written"]
           put == Overwritten(content[inode], saves[s].snap)
<1>1. /\ pc = "up" /\ saves[s].stage = "opened"
      /\ content' = [content EXCEPT ![inode] = put]
      /\ UNCHANGED <<boot, pc, creds, link, temps, keys, takers, owner, published, used, acked,
                     overlapped, shared>>
  BY DEF WriteTemp, Goes, history
<1>2. UnderWay(s)
  BY <1>1 DEF UnderWay
<1>3. /\ saves[s] \in Pending /\ inode \in Inodes /\ saves[s].snap \in Credentials
      /\ temps \in [Saves -> Inodes] /\ content \in [Inodes -> Contents] /\ link \in Inodes
      /\ saves \in [Saves -> {NoSave} \cup Pending \cup Ended]
  BY <1>2, PendingSave DEF IInv, Types
<1>4. saves' = [saves EXCEPT ![s] = w]
  BY <1>3 DEF WriteTemp, Goes
<1>5. /\ put \in Contents
      /\ IsCreds(put) => put = saves[s].snap
      /\ content[inode] = Empty => put = saves[s].snap
  BY <1>3, Kinds DEF Overwritten, Contents, Torn, Empty, IsCreds
<1> HIDE DEF inode, put
<1>6. /\ w \in Pending /\ w.stage = "written" /\ w.inode = inode
      /\ w.name = saves[s].name /\ w.snap = saves[s].snap /\ w.version = saves[s].version
  BY <1>3 DEF Pending, inode
<1> HIDE DEF w
<1>7. /\ saves'[s] = w /\ \A t \in Saves : t # s => saves'[t] = saves[t]
      /\ content' \in [Inodes -> Contents] /\ content'[inode] = put
      /\ \A i \in Inodes : i # inode => content'[i] = content[i]
  BY <1>1, <1>3, <1>4, <1>5
<1>8. Types' /\ Quiet' /\ Numbered' /\ AllProper' /\ Generations' /\ InPlace'
  <2>1. \A i \in Inodes : IsCreds(content'[i]) =>
            content'[i] = content[i] \/ content'[i] = saves[s].snap
    BY <1>5, <1>7
  <2>2. acked' \in Nat /\ temps' \in [Saves -> Inodes] /\ link' \in Inodes
    BY <1>1 DEF IInv, Types
  <2> QED BY <1>1, <1>2, <1>4, <1>6, <1>7, <2>1, <2>2, SaveMoves
<1>9. ASSUME ~overlapped \/ ~shared
      PROVE  /\ inode = s /\ link # s /\ Disk' = Disk /\ content[s] = Empty
             /\ OwnNames /\ OwnFiles /\ NoOtherTemps /\ LinkSaved
  <2>1. OwnNames /\ OwnFiles /\ NoOtherTemps /\ LinkSaved
    BY <1>1, <1>9 DEF IInv, FilesOwned
  <2>2. inode = s /\ content[s] = Empty
    BY <1>1, <2>1 DEF inode
  <2>3. link # s
    BY <1>1, <2>1, Sizes
  <2>4. Disk' = Disk
    BY <1>1, <1>3, <1>7, <2>2, <2>3 DEF Disk
  <2> QED BY <2>1, <2>2, <2>3, <2>4
<1>10. Kept'
  BY <1>1, <1>9 DEF IInv, Kept
<1>11. FilesOwned'
  <2> SUFFICES ASSUME ~overlapped' \/ ~shared'
               PROVE  FilesOwned'
    BY DEF FilesOwned
  <2>0. ~overlapped \/ ~shared
    BY <1>1
  <2>1. /\ inode = s /\ link # s /\ content[s] = Empty
        /\ OwnNames /\ OwnFiles /\ NoOtherTemps /\ LinkSaved
    BY <1>9, <2>0
  <2>2. \A t \in Saves : /\ UnderWay(t)' <=> UnderWay(t)
                         /\ saves'[t].name = saves[t].name
                         /\ (saves[t].stage \in {"opened", "written"}
                             <=> saves'[t].stage \in {"opened", "written"})
    BY <1>1, <1>6, <1>7 DEF UnderWay
  <2>3. OwnNames'
    BY <2>1, <2>2
  <2>4. ASSUME NEW t \in Saves, saves'[t].stage \in {"opened", "written"}
        PROVE  /\ saves'[t].inode = t /\ temps'[saves'[t].name] = t
               /\ content'[t] = IF saves'[t].stage = "opened" THEN Empty ELSE saves'[t].snap
    <3>1. CASE t = s
      BY <1>1, <1>5, <1>6, <1>7, <2>1, <3>1
    <3>2. CASE t # s
      BY <1>1, <1>7, <2>1, <2>4, <3>2 DEF Inodes
    <3> QED BY <3>1, <3>2
  <2>5. ASSUME NEW n \in Saves, temps'[n] # 0
        PROVE  saves'[temps'[n]].stage \in {"opened", "written"} /\ saves'[temps'[n]].name = n
    <3>1. temps[n] \in Saves /\ temps'[n] = temps[n]
      BY <1>1, <1>3, <2>5 DEF Inodes
    <3> QED BY <2>1, <2>2, <2>5, <3>1
  <2>6. LinkSaved'
    BY <1>1, <1>3, <1>7, <2>1 DEF Inodes
  <2> QED BY <2>3, <2>4, <2>5, <2>6 DEF FilesOwned
<1>12. Versions'
  BY <1>1, <1>2, <1>6, <1>7, <1>9, VersionsKept
<1> QED BY <1>8, <1>10, <1>11, <1>12 DEF IInv

\* A save that has ended.
LEMMA EndedSave ==
    ASSUME NEW name \in Saves, NEW to \in {"saved", "failed"}
    PROVE  LET w == [stage |-> to, name |-> name]
           IN w \in Ended /\ w.stage = to /\ w.name = name /\ w \notin Pending
BY DEF Ended, Pending

\* creds.json names the file that was written last.
LEMMA RenameInv ==
    ASSUME IInv, NEW s \in Saves, Rename(s)
    PROVE  IInv'
<1> USE DEF OwnNames, OwnFiles, NoOtherTemps, LinkSaved
<1> DEFINE name == saves[s].name
           w == [stage |-> "saved", name |-> name]
<1>1. /\ pc = "up" /\ saves[s].stage = "written" /\ temps[name] # 0
      /\ link' = temps[name] /\ temps' = [temps EXCEPT ![name] = 0]
      /\ acked' = IF acked > saves[s].version THEN acked ELSE saves[s].version
      /\ UNCHANGED <<boot, pc, creds, content, keys, takers, owner, published, used, overlapped, shared>>
  BY DEF Rename, Settled
<1>2. UnderWay(s)
  BY <1>1 DEF UnderWay
<1>3. /\ saves[s] \in Pending /\ name \in Saves /\ saves[s].snap \in Credentials
      /\ saves[s].version \in Nat /\ acked \in Nat
      /\ temps \in [Saves -> Inodes] /\ content \in [Inodes -> Contents] /\ link \in Inodes
      /\ saves \in [Saves -> {NoSave} \cup Pending \cup Ended]
  BY <1>2, PendingSave DEF IInv, Types
<1>4. saves' = [saves EXCEPT ![s] = w]
  BY <1>3 DEF Rename, Settled
<1> HIDE DEF name
<1>5. w \in Ended /\ w.stage = "saved" /\ w.name = name /\ w \notin Pending
  BY <1>3, EndedSave
<1> HIDE DEF w
<1>6. /\ saves'[s] = w /\ \A t \in Saves : t # s => saves'[t] = saves[t]
      /\ temps' \in [Saves -> Inodes] /\ temps'[name] = 0
      /\ \A n \in Saves : n # name => temps'[n] = temps[n]
      /\ link' \in Inodes /\ acked' \in Nat
  <2>1. 0 \in Inodes
    BY DEF Inodes
  <2> QED BY <1>1, <1>3, <1>4, <2>1
<1>7. Types' /\ Quiet' /\ Numbered' /\ AllProper' /\ Generations' /\ InPlace'
  BY <1>1, <1>2, <1>3, <1>4, <1>5, <1>6, SaveMoves
<1>8. ~UnderWay(s)' /\ \A t \in Saves : t # s => (UnderWay(t)' <=> UnderWay(t))
  BY <1>5, <1>6 DEF UnderWay
<1>9. ASSUME ~overlapped \/ ~shared
      PROVE  /\ link' = s /\ Disk' = saves[s].snap
             /\ OwnNames /\ OwnFiles /\ NoOtherTemps
  <2>1. OwnNames /\ OwnFiles /\ NoOtherTemps
    BY <1>1, <1>9 DEF IInv, FilesOwned
  <2>2. temps[name] = s /\ content[s] = saves[s].snap
    BY <1>1, <2>1 DEF name
  <2>3. Disk' = saves[s].snap
    BY <1>1, <2>2 DEF Disk
  <2> QED BY <1>1, <2>1, <2>2, <2>3
<1>10. Kept'
  BY <1>1, <1>3, <1>9, Kinds DEF Kept
<1>11. FilesOwned'
  <2> SUFFICES ASSUME ~overlapped' \/ ~shared'
               PROVE  FilesOwned'
    BY DEF FilesOwned
  <2>0. ~overlapped \/ ~shared
    BY <1>1
  <2>1. /\ link' = s
        /\ OwnNames /\ OwnFiles /\ NoOtherTemps
    BY <1>9, <2>0
  <2>2. OwnNames'
    BY <1>6, <1>8, <2>1
  <2>3. ASSUME NEW t \in Saves, saves'[t].stage \in {"opened", "written"}
        PROVE  /\ saves'[t].inode = t /\ temps'[saves'[t].name] = t
               /\ content'[t] = IF saves'[t].stage = "opened" THEN Empty ELSE saves'[t].snap
    <3>1. t # s /\ saves'[t] = saves[t]
      BY <1>5, <1>6, <2>3
    <3>2. UnderWay(t)
      BY <2>3, <3>1 DEF UnderWay
    <3>3. saves[t].name # name /\ saves[t].name \in Saves
      BY <1>2, <2>1, <3>1, <3>2, PendingSave DEF name, IInv
    <3> QED BY <1>1, <1>6, <2>1, <2>3, <3>1, <3>3
  <2>4. ASSUME NEW n \in Saves, temps'[n] # 0
        PROVE  saves'[temps'[n]].stage \in {"opened", "written"} /\ saves'[temps'[n]].name = n
    <3>1. n # name /\ temps'[n] = temps[n] /\ temps[n] # 0
      BY <1>6, <2>4
    <3>2. /\ saves[temps[n]].stage \in {"opened", "written"} /\ saves[temps[n]].name = n
          /\ temps[n] \in Saves
      BY <1>3, <2>1, <3>1 DEF Inodes
    <3>3. temps[n] # s
      BY <3>1, <3>2 DEF name
    <3> QED BY <1>6, <3>1, <3>2, <3>3
  <2>5. LinkSaved'
    BY <1>5, <1>6, <2>1
  <2> QED BY <2>2, <2>3, <2>4, <2>5 DEF FilesOwned
<1>12. Versions'
  <2>1. /\ saves[s].snap.version = saves[s].version /\ saves[s].version <= creds.version
        /\ acked <= creds.version
    BY <1>1, <1>2 DEF IInv, Versions
  <2>2. acked' <= creds'.version
    BY <1>1, <1>3, <2>1
  <2>3. ASSUME NEW t \in Saves, UnderWay(t)'
        PROVE  /\ UnderWay(t) /\ saves'[t] = saves[t]
               /\ saves'[t].snap.version = saves'[t].version
               /\ saves'[t].version <= creds'.version
    <3>1. t # s /\ UnderWay(t) /\ saves'[t] = saves[t]
      BY <1>6, <1>8, <2>3
    <3> QED BY <1>1, <3>1 DEF IInv, Versions
  <2>4. ASSUME ~overlapped'
        PROVE  /\ Disk'.version >= acked' /\ \A t \in Saves : ~UnderWay(t)'
    <3>1. /\ ~overlapped /\ Disk' = saves[s].snap
      BY <1>1, <1>9, <2>4
    <3>2. acked <= saves[s].version /\ \A t \in Saves : UnderWay(t) => t = s
      BY <1>2, <3>1 DEF IInv, Versions
    <3>3. acked' = saves[s].version
      BY <1>1, <1>3, <3>2
    <3> QED BY <1>3, <1>8, <2>1, <3>1, <3>2, <3>3
  <2> QED BY <1>1, <2>2, <2>3, <2>4 DEF Versions
<1> QED BY <1>7, <1>10, <1>11, <1>12 DEF IInv

\* Only a save that shared its name finds no file to rename.
LEMMA RenameFailsInv ==
    ASSUME IInv, NEW s \in Saves, RenameFails(s)
    PROVE  IInv'
<1> USE DEF OwnNames, OwnFiles, NoOtherTemps, LinkSaved
<1> DEFINE name == saves[s].name
           w == [stage |-> "failed", name |-> name]
<1>1. /\ pc = "up" /\ saves[s].stage = "written" /\ temps[name] = 0
      /\ UNCHANGED <<boot, pc, creds, link, content, temps, keys, takers, owner, published, used,
                     acked, overlapped, shared>>
  BY DEF RenameFails, Settled, files, history
<1>2. UnderWay(s)
  BY <1>1 DEF UnderWay
<1>3. /\ saves[s] \in Pending /\ name \in Saves
      /\ saves \in [Saves -> {NoSave} \cup Pending \cup Ended]
  BY <1>2, PendingSave DEF IInv, Types
<1>4. saves' = [saves EXCEPT ![s] = w]
  BY <1>3 DEF RenameFails, Settled
<1>5. w \in Ended /\ w.stage = "failed" /\ w.name = name /\ w \notin Pending
  BY <1>3, EndedSave
<1>6. overlapped /\ shared
  <2> SUFFICES ASSUME ~overlapped \/ ~shared PROVE FALSE
    BY DEF IInv, Types
  <2>1. temps[name] = s
    BY <1>1 DEF IInv, FilesOwned
  <2> QED BY <1>1, <2>1, Sizes
<1> HIDE DEF name, w
<1>7. saves'[s] = w /\ \A t \in Saves : t # s => saves'[t] = saves[t]
  BY <1>3, <1>4
<1>8. Types' /\ Quiet' /\ Numbered' /\ AllProper' /\ Generations' /\ InPlace'
  <2>1. /\ content' \in [Inodes -> Contents] /\ link' \in Inodes /\ temps' \in [Saves -> Inodes]
        /\ acked' \in Nat
    BY <1>1 DEF IInv, Types
  <2> QED BY <1>1, <1>2, <1>4, <1>5, <2>1, SaveMoves
<1>9. Kept' /\ FilesOwned'
  BY <1>1, <1>6 DEF IInv, Kept, FilesOwned, Disk
<1>10. Versions'
  <2>1. ~UnderWay(s)'
    BY <1>5, <1>7 DEF UnderWay
  <2> QED BY <1>1, <1>2, <1>6, <1>7, <2>1, VersionsKept
<1> QED BY <1>8, <1>9, <1>10 DEF IInv

------------------------------------------------------------------------------
(* Takes.                                                                    *)

\* What a take leaves alone.
LEMMA TakesKeep ==
    ASSUME IInv, pc = "up",
           UNCHANGED <<boot, pc, creds, link, content, temps, saves, owner, published, acked,
                       overlapped, shared>>
    PROVE  Quiet' /\ Numbered' /\ AllProper' /\ Kept' /\ FilesOwned' /\ Versions'
<1> USE DEF OwnNames, OwnFiles, NoOtherTemps, LinkSaved
<1>1. Quiet' /\ Numbered' /\ Kept'
  BY DEF IInv, Quiet, Numbered, Kept, Disk
<1>2. AllProper'
  BY DEF IInv, AllProper, Proper, UnderWay
<1>3. FilesOwned'
  BY DEF IInv, FilesOwned, UnderWay
<1>4. Versions'
  BY DEF IInv, Versions, UnderWay, Disk
<1> QED BY <1>1, <1>2, <1>3, <1>4

LEMMA TakeReadsInv ==
    ASSUME IInv, NEW c \in Callers, NEW id \in Ids, TakeReads(c, id)
    PROVE  IInv'
<1> DEFINE w == [stage |-> "read", id |-> id, key |-> keys[id]]
<1>1. /\ pc = "up" /\ takers[c] = NoTake /\ keys[id] # 0
      /\ takers' = [takers EXCEPT ![c] = w]
      /\ UNCHANGED <<boot, pc, creds, link, content, temps, saves, keys, owner, published, used,
                     acked, overlapped, shared>>
  BY DEF TakeReads, files, history
<1>2. w \in [stage : {"read"}, id : Ids, key : Nat \ {0}] /\ w.key = keys[id]
  BY <1>1 DEF IInv, Types
<1> HIDE DEF w
<1>3. /\ takers' \in [Callers -> {NoTake} \cup [stage : {"read"}, id : Ids, key : Nat \ {0}]]
      /\ takers'[c] = w /\ \A d \in Callers : d # c => takers'[d] = takers[d]
  BY <1>1, <1>2 DEF IInv, Types
<1>4. Types'
  BY <1>1, <1>3 DEF IInv, Types
<1>5. Generations' /\ InPlace'
  BY <1>1, <1>2, <1>3 DEF IInv, Generations, InPlace
<1> QED BY <1>1, <1>4, <1>5, TakesKeep DEF IInv

LEMMA TakeDeletesInv ==
    ASSUME IInv, NEW c \in Callers, TakeDeletes(c)
    PROVE  IInv'
<1> DEFINE id == takers[c].id
           key == takers[c].key
<1>1. /\ pc = "up" /\ takers[c].stage = "read"
      /\ keys' = [keys EXCEPT ![id] = 0] /\ takers' = [takers EXCEPT ![c] = NoTake]
      /\ used' = used \cup {<<id, key>>}
      /\ UNCHANGED <<boot, pc, creds, link, content, temps, saves, owner, published, acked,
                     overlapped, shared>>
  BY DEF TakeDeletes, files
<1>2. /\ takers \in [Callers -> {NoTake} \cup [stage : {"read"}, id : Ids, key : Nat \ {0}]]
      /\ keys \in [Ids -> Nat] /\ used \subseteq Ids \X (Nat \ {0})
  BY DEF IInv, Types
<1>3. id \in Ids /\ key \in Nat \ {0} /\ key <= boot /\ pc \notin Booting
  <2>1. takers[c] # NoTake
    BY <1>1 DEF NoTake
  <2> QED BY <1>1, <1>2, <2>1 DEF IInv, Generations, Booting
<1> HIDE DEF id, key
<1>4. /\ keys' \in [Ids -> Nat] /\ keys'[id] = 0 /\ \A i \in Ids : i # id => keys'[i] = keys[i]
      /\ takers' \in [Callers -> {NoTake} \cup [stage : {"read"}, id : Ids, key : Nat \ {0}]]
      /\ \A d \in Callers : takers'[d] = takers[d] \/ takers'[d] = NoTake
      /\ used' \subseteq Ids \X (Nat \ {0})
  BY <1>1, <1>2, <1>3
<1>5. Types'
  BY <1>1, <1>4 DEF IInv, Types
<1>6. Generations'
  <2>1. ASSUME NEW i \in Ids, NEW k \in Nat, <<i, k>> \in used'
        PROVE  keys'[i] # k /\ k <= boot
    <3>1. k # 0
      BY <1>4, <2>1
    <3>2. CASE <<i, k>> = <<id, key>>
      BY <1>3, <1>4, <3>1, <3>2
    <3>3. CASE <<i, k>> \in used
      BY <1>4, <3>1, <3>3 DEF IInv, Generations
    <3> QED BY <1>1, <2>1, <3>2, <3>3
  <2>2. \A i \in Ids : keys'[i] <= boot
    BY <1>4 DEF IInv, Generations, Types
  <2> QED BY <1>1, <1>3, <1>4, <2>1, <2>2 DEF IInv, Generations
<1>7. InPlace'
  BY <1>1, <1>4 DEF IInv, InPlace
<1> QED BY <1>1, <1>5, <1>6, <1>7, TakesKeep DEF IInv

------------------------------------------------------------------------------
(* The theorems.                                                             *)

LEMMA NextInv == IInv /\ [Next]_vars => IInv'
<1> SUFFICES ASSUME IInv, [Next]_vars PROVE IInv'
  OBVIOUS
<1> USE DEF OwnNames, OwnFiles, NoOtherTemps, LinkSaved
<1>1. CASE UNCHANGED vars
  <2>1. UNCHANGED <<boot, pc, creds, link, content, temps, saves, keys, takers, owner, published, used,
                    acked, overlapped, shared>>
    BY <1>1 DEF vars, files, history
  <2>2. Types'
    BY <2>1 DEF IInv, Types
  <2>3. Quiet' /\ Numbered' /\ Kept' /\ Generations' /\ InPlace'
    BY <2>1 DEF IInv, Quiet, Numbered, Kept, Disk, Generations, InPlace
  <2>4. AllProper' /\ FilesOwned' /\ Versions'
    <3>1. AllProper'
      BY <2>1 DEF IInv, AllProper, Proper, UnderWay
    <3>2. FilesOwned'
      BY <2>1 DEF IInv, FilesOwned, UnderWay
    <3>3. Versions'
      BY <2>1 DEF IInv, Versions, UnderWay, Disk
    <3> QED BY <3>1, <3>2, <3>3
  <2> QED BY <2>2, <2>3, <2>4 DEF IInv
<1>2. CASE Next
  BY <1>2, StartInv, MigrateSignalStoreInv, ReadCredsInv, EnsurePreKeyPoolInv, AccessCredsInv,
     SaveAtBootInv, CrashInv, UpdateInv, OpenTempInv, WriteTempInv, RenameInv, RenameFailsInv,
     TakeReadsInv, TakeDeletesInv DEF Next
<1> QED BY <1>1, <1>2

\* In every reachable state, in memory and on disk.
THEOREM Invariance == Spec => []IInv
BY InitInv, NextInv, PTL DEF Spec

\* Every file, save, key and call is one of those the module speaks of, whatever was
\* interrupted: no torn file is ever taken for credentials.
THEOREM AuthTypeCorrect == Spec => []Types
BY Invariance, PTL DEF IInv

\* saveCreds never leaves a process that starts without the account's credentials.
THEOREM NeverANewAccount == Spec => []AccountKept
<1>1. IInv => AccountKept
  BY DEF IInv, Types, Kept, AllProper, Proper, Disk, AccountKept
<1> QED BY Invariance, <1>1, PTL

\* A save that ended well is not undone.
THEOREM NoSaveUndone == Spec => []AcknowledgedCredsKept
<1>1. IInv => AcknowledgedCredsKept
  BY DEF IInv, Versions, AcknowledgedCredsKept
<1> QED BY Invariance, <1>1, PTL

\* Neither a batch nor a rotation gives an id of the account to another key.
THEOREM NoIdReused == Spec => []PublishedKeysKept
<1>1. IInv => PublishedKeysKept
  <2> SUFFICES ASSUME IInv PROVE PublishedKeysKept
    OBVIOUS
  <2>1. IsCreds(creds) => Proper(creds)
    BY Kinds DEF IInv, Types, AllProper
  <2> QED BY <2>1 DEF IInv, InPlace, Proper, PublishedKeysKept
<1> QED BY Invariance, <1>1, PTL

\* A key that takePreKey handed out is not handed out to a later call.
THEOREM HandedOutOnce == Spec => OneTimeKey
<1>1. IInv /\ [Next]_vars =>
        [\A c \in Callers : takers[c] = NoTake /\ takers'[c] # NoTake
           => <<takers'[c].id, takers'[c].key>> \notin used]_vars
  <2> SUFFICES ASSUME IInv, Next, NEW c \in Callers, takers[c] = NoTake, takers'[c] # NoTake
               PROVE  <<takers'[c].id, takers'[c].key>> \notin used
    OBVIOUS
  <2>1. PICK d \in Callers, id \in Ids : TakeReads(d, id)
    <3>1. takers' # takers
      OBVIOUS
    <3>2. takers' # [e \in Callers |-> NoTake]
      OBVIOUS
    <3>3. \A e \in Callers : ~TakeDeletes(e)
      <4> SUFFICES ASSUME NEW e \in Callers, TakeDeletes(e) PROVE FALSE
        OBVIOUS
      <4>1. takers' = [takers EXCEPT ![e] = NoTake] /\ takers \in [Callers -> {NoTake} \cup [stage : {"read"}, id : Ids, key : Nat \ {0}]]
        BY DEF TakeDeletes, IInv, Types
      <4> QED BY <4>1
    <3> QED BY <3>1, <3>2, <3>3 DEF Next, Start, MigrateSignalStore, ReadCreds, AccessCreds,
               SaveAtBoot, Crash, EnsurePreKeyPool, Update, OpenTemp, WriteTemp, Rename, RenameFails
  <2>2. d = c /\ takers'[c] = [stage |-> "read", id |-> id, key |-> keys[id]]
    BY <2>1 DEF TakeReads, IInv, Types
  <2>3. keys[id] \in Nat
    BY DEF IInv, Types
  <2>4. <<id, keys[id]>> \notin used
    BY <2>3 DEF IInv, Generations
  <2> QED BY <2>2, <2>4
<1> QED BY Invariance, <1>1, PTL DEF Spec, OneTimeKey
=============================================================================
