# A verification project for baileys

TLA+ models of the parts of this WhatsApp Web client that carry its state: pairing,
connection and reconnection, the WebSocket transport, the binary nodes on it, the
Noise and the Signal sessions, sending and receiving of messages, the journaled key
store and the folder of the credentials. Paths below are the repository's own (`src/Socket/connection.ts`); `PROJECT.json` names
the lines every definition stands for.

- [The system](#the-system)
- [The modules](#the-modules)
- [The runs](#the-runs)
- [Fairness](#fairness)
- [What is proved](#what-is-proved)
- [Where the code and its comments disagree](#where-the-code-and-its-comments-disagree)
- [What is left out](#what-is-left-out)
- [Plan](#plan)

## The system

`makeWASocket` (`src/Socket/socket.ts`) creates the controllers below and starts the
connection. There is one JavaScript thread: a handler runs to its next `await`, and
what interleaves is timers, WebSocket events, continuations of promises, calls of
the socket's user, and the listeners of the events a handler emits, which run at
once and may call back into the socket.

| component (source) | state | operations | what makes it correct |
|---|---|---|---|
| pairing controller (`Socket/pairing-controller.ts`) | active flow, map from IQ id to flow, per flow: attempt, ids, active id, two timers | `requestCode`, `runAttempt`, `onPayload`, `isActiveIq`, `cancelAll`, timers | one pairing at a time, nothing left of a finished flow, a code answers an IQ of its own call, every call settles |
| connection controller (`Socket/connection.ts`) | phase, session, generation, waiters for readiness, `state.connection`, credentials | `start`, `connectOnce`, `onOpen`, `onMessage`, `onHandshakeBytes`, `handleDecrypted`, `onClose`, `requestPairingCode`, `logout`, `stop` | a session never outlives its socket, nothing reconnects after a stop, no waiter is forgotten, "open" means logged in |
| reconnect manager (`Socket/reconnect-manager.ts`) | generation, attempt counter, cancelled | `beginConnect`, `onClose`, `markOpen`, `cancel` | a drop within the retry budget is retried, a stop never is |
| event buffer and emitter (`Events/`) | queue, enabled; listeners | `start`, `stop`, `push`, `flush`, `clear`; `emit` | listeners are told everything, in order, and memory stays bounded |
| login lifecycle (`Socket/login-lifecycle.ts`, `Protocol/pairing.ts`, `Protocol/handler.ts`) | none | what is learnt from a stanza | nobody is logged in, logged out or paired by a stanza that does not say so |
| transport (`Socket/transport.ts`) | current socket, its id, `connecting`, `intentionalClose`, handshake timer, ping loop, pong timer | `connect`, `close`, WebSocket events, timers | one socket at a time, no timer acts on a successor, a silent peer is noticed |
| IQ controller (`Socket/iq-controller.ts`) | waiters with timers | `query`, `onPayload`, `cancelAll` | every query ends |
| message engine (`Messages/engine.ts`, `ack.ts`, `dedup.ts`, `retry.ts`) | ACK waiters, deduplication window, per send: attempt and sealing session | `sendMessage`, `sendReaction`, `handlePayload`, `dispose` | a promise tells the truth about the wire, a message is announced once, its effects only after it was sent, every send ends |
| binary nodes (`WABinary/`) | none | `encodeBinaryNode`, `decodeBinaryNode` | a stanza is read as it was meant, one that is cut off is refused |
| Noise (`Noise/`) | symmetric state of each side; per session two nonces and a read buffer | three handshake messages, the certificate, `seal`, `open` | both sides agree on the keys, a server is refused for a cause, no nonce is used twice, no frame gets stuck |
| Signal session (`Signal/session.ts`) | counters of the chains, keys of skipped messages | `signalEncrypt`, `signalDecrypt`, initiate, respond | nothing is decrypted twice, the keys of missing messages are kept, their number is bounded |
| key store (`Auth/key-store.ts`) | key files, journal, mutex, recovery | `set`, `get`, `clear`, recovery at construction | a batch is atomic and survives a crash once acknowledged, and a failing write costs no other batch |
| credentials (`Auth/use-multi-file-auth-state.ts`) | `creds.json`, the object in memory | `saveCreds`, load | saved credentials are whole and the newest, the account is not lost |
| Signal pre-keys and records (`Signal/prekeys.ts`) | one-time keys, `creds.nextPreKeyId`, the signed pre-key | generate, rotate, take | a published key keeps its id, a one-time key is used once |
| builders, protobuf, groups, contacts, media, utilities | none of their own | conversions, HTTP transfer | outside this project |

How they interact: the socket facade calls connection, message engine and IQ
controller. The connection calls the transport and receives its events; it feeds
every decrypted node to the pairing controller, the IQ controller and the message
engine, in that order, asks the reconnect manager what to do about a close, and
emits its updates through the buffer. The message engine seals with the Noise
session of the connection and sends on the transport. The key store is shared by
whatever holds Signal state and lives through crashes of the process.

The hard behaviours are listed line by line in `PROJECT.json` ("hazards"). The ones
this project was built around: overlapping pairing calls whose answers arrive late;
drops in the middle of a handshake, of a pairing or of a send; listeners that call
`end()` or `logout()` half way through a handler; a reconnect task asleep while
the user logs out; a retry on a new connection; a crash between any two file
operations, also during the recovery of an earlier crash; writes that fail; saves
that overlap; lost, repeated, reordered and cut off messages.

## The modules

Everything here is written so that a handler, with every call it makes, is one
action. Where a handler emits an event in the middle, the listeners may call back,
and the action is cut there.

**`PairingController`** - `createPairingController`, whole. The variables are those of
the code: `active` (`activeFlow`), `iqToFlow`, and per request the `ActiveFlow` object
(`flow`); `outcome` and `code` are the promise, `sent` records the IQs the transport took.
`RequestCode`, `RunAttempt`, `OnPayload`, `CancelAll`, `WindowElapsed`, `RetryDue` and
`OverallTimeout` are the functions of the same meaning; `CleanupFlow` and the two
`Settle` operators are the helpers they share. The overall timer is "due" between the
moment the deadline passes and the moment the timer runs, since `runAttempt` reads the
clock itself. The IQ id of attempt n of request r is `<<r, n>>`: ids are taken to be
collision free. The module is an open one: `PairingSpec` puts the controller under an arbitrary
caller, transport and server, `Connection` composes it with the real ones.

**`PairingPromise`** - what a caller of `requestCode` may rely on, without timers, maps or
windows: one holder, IQs in increasing order, an answer to one of its own IQs or an
error. `PairingController` implements it with `holder <- active` (`KeepsPromise`).

**`Connection`** - `createConnectionController` composed with `PairingController` (it extends it
and shares its variables), **`EventBuffer`** and **`ReconnectManager`** (operators on the state of
those parts) and **`LoginLifecycle`**. Its variables and actions follow the code's names.

- *Cut handlers.* `k` names the code that runs next, `work` is the loop variable
  (decrypted nodes or flushed events still to be handled) and `listening` says that listeners
  of the event just emitted are running and may call `end`, `logout` or `requestPairingCode`
  (`Reentrant`). Everything else waits until the handler is finished. `logout()` emits
  `creds.update` just before it stops; both are one action.
- *Microtasks.* `Resume` is the continuation of `await waitForPairingReady()`. Timers and
  close events wait for it (`Macrotask`), but the ws library may deliver several messages in
  one tick, so messages do not.
- *Transport.* Only the state of the current socket is kept, as `Link` has it (see there). "closing" is a socket that is not
  OPEN any more and whose close event has not been delivered; messages received before the drop
  may still be delivered then. A socket the code closes itself reports nothing, as
  `transport.close()` removes the listeners.
- *Generations.* `activeGen` is assigned together with the manager's generation, so it is
  `rm.generation`. The branches for a stale generation and for a second concurrent connect
  cannot be reached under the calls the code makes.
- *Credentials* are `registered` and `pairingCode` (the IQ whose code was saved).
- *Left out:* the keep-alive timer (it logs), `lastDisconnect`, pieces of the handshake bytes
  (`NoiseSession` has them), the length of delays, exceptions thrown by listeners.
  `start()` runs inside `makeWASocket`, before there can be a listener.

**`LoginLifecycle`** - what the connection learns from a stanza: `walkPairing`, `parseProtocolPayload`,
`detectDisconnectFromPayload` and `applyPairSuccess`, as functions of the tree. The handlers parse a payload again
and again, always to the same result, so `Parsed` takes it once and `Connection` works on the record of what it
found. The walk of the code, which carries a result along, is a statement about the nodes of the tree in the order of the
document (`Descendants`): a code is anywhere in it, the id is that of its last iq. The walk itself (`Walk`, of at most
`MaxNodes` steps) is a recursive function, not a recursive operator, so that the connection can be proved about.

**`Stanza`** - the tree of a stanza and `getBinaryNodeAttr`, `getBinaryNodeChild` and `getBinaryNodeChildren`. Here and in
`LoginLifecycle` names and values are strings, in `BinaryNode` they are sequences of bytes.

**`MCConnection`** gives the stanzas a server may send, for the runs: codes as attributes and as contents, with and
without separators, beside texts that are none; disconnects of each of the three shapes; pair-success with and without a device.

**`BinaryNode`** - `encodeBinaryNode` and `decodeBinaryNode`, as recursive operators on sequences of bytes, with a
network that delivers the whole stanza or a beginning of it. A byte has `Half * Half` values, so the limits of the length
classes (256, 1048576 in the code) are within reach of a small instance. The encoder's rounding, its length classes and its
splitting of JIDs are those of the code; the decoder also reads what this encoder never writes (tokens, packed digits).
Strings are of characters of one byte. **`MCBinaryNode`** gives the nodes, and what another encoder may write.

**`Transport`** - `createTransport` with its handshake timer, ping loop and pong watchdog, composed
with **`IqController`** (`query`, answers, timers). Sockets are numbered as `socketId` does; each has
a state, and `silent` marks a peer that is gone without a word. `PongBeforePing` says that the
pong timeout (10 s) is shorter than the ping interval (25 s by default).

**`Link`** - what the parts above a connection may rely on, in six steps: a WebSocket is dialled, opens, gets its session by a
handshake, drops, closes, or is given up by the code; there is one at a time, numbered upwards, and a session belongs to the WebSocket whose
handshake made it. Two modules implement it, with their own variables for those three: `Connection`
(`ImplementsLink`, a property of the run `ConnLife`) and `Transport` (with no session, `TransportLink` in `TransportProofs`). `Messaging` is
checked over it: its connection takes the steps of `Link`, so that what is shown of the message engine holds over whatever
implements it. `Messaging` asks two things more, both of which the code sees to: nothing is dialled after `end()`, and a close event is a
macrotask.

**`NoiseSession`** - the Noise XX handshake with WhatsApp's additional mixing of the client's static
key, client and responder, and the two sessions it makes. Cryptography is symbolic: a key is the
sequence of what was mixed into it, and decryption succeeds with the key, nonce and hash of the
encryption. A plaintext is numbered by how many its party has encrypted, not by the nonce, so that a nonce used
twice shows as two ciphertexts. The stream from the server is cut into pieces of any size (two units per frame, so a
piece may end inside one), the WebSocket may be lost, and the server may know an outdated key of the client.
The certificate is checked as `validateNoiseCertificate` does: whether it can be parsed, has expired, is signed by one of the
trusted keys, and which of these outcomes the handshake rejects (only that of a signature that is not valid).

**`Messaging`** - the message engine over a `Link`: `sendMessage` with `withRetry`, the ACK waiters, receipts,
incoming messages, the deduplication window, `dispose`. A frame remembers the session that sealed
it and the socket that carried it; the server decrypts it when they belong together. The continuations of the
two awaits in `sendRaw` are actions of their own ("handed" and "acked" are the stages before them): `end()` may come
before the waiter is registered, and later receipts before an ACK is announced.
`forgotten` counts how often the window lost a message (evicted, expired, or emptied by `dispose`), and
`effects` the events that a reaction, a deletion or an edit causes besides its announcement: on arrival, and for a
reaction of one's own in the continuation of `sendReaction`.
The code's encryption step is left out because `socket.ts` passes no Signal session to the engine.

**`SignalSession`** - `signalEncrypt` and `signalDecrypt` of one direction (both sides run the same
code): counters, `skippedKeys`, a new key agreement by the initiator and the responder. The
sender's ratchet key never changes inside a session, as `signalEncrypt` never replaces it, so the
branch for a new ratchet key is met only by messages of another agreement, whose decryption
fails without changing the session.

**`KeyStore`** - `makeCacheableSignalKeyStore`: one action per file operation that can be seen after a crash
(`atomicWrite` becomes visible at its rename), the mutex as a queue of calls, the journal, and
recovery. A crash may happen anywhere, in recovery as well, and starts recovery anew. A write may fail: of the journal
(nothing has happened yet), of a key file (the rest of the batch stays in the journal until the next batch overwrites
it), or in recovery (which gives up and leaves the journal). Calls are made at any time, also beside a recovery, which the
store neither awaits nor lets a caller await. Where the two are in each other's way is noted: `Rivals` are the keys of the journal
that recovery has read, or is about to read, while a call has the mutex, and `contested` collects them. It is a history
variable: no action looks at it.

**`MCKeyStore`** adds the symmetry of the keys for TLC.

**`AtomicKeyStore`** - what a user of the store would like to know: calls take effect one after
the other in the order they were made, a batch at one instant and before it is
acknowledged; `clear()` removes the keys one at a time. `store` is what is promised and `place` what is in the key
files. A write that fails ends its call, and what is then not in place may be forgotten later, but only that.
`KeyStore` implements it with the store seen through the journal: a key of the batch in a complete journal
already has its new value. A contested key may go back to an older batch (`Revert`), and once there is one, a batch may be
cut short as after a failed write; of what was acknowledged only contested keys are lost.

**`AuthFolder`** - `useMultiFileAuthState` and the pre-keys: the process starts, migrates, loads `creds.json` or sets it
aside, rotates the signed pre-key, fills the pool, saves, and comes up; then credentials are saved whenever the connection changes
them, and one-time keys are taken. `saveCreds` is three file operations, none of them awaited by anybody, and its
temporary name is the millisecond of the call, so files are inodes (`link`, `content`, `temps`): a file that
two saves have opened stays open when one of them renames it. The process may die anywhere and the next one starts from the
files. The store of the keys is taken as atomic, which is what `KeyStore` shows of keys that are not contested: here its recovery is awaited.

**`PairingControllerProofs`**, **`SignalSessionProofs`**, **`TransportProofs`**, **`KeyStoreProofs`**, **`MessagingProofs`**,
**`NoiseSessionProofs`**, **`AuthFolderProofs`**, **`ConnectionProofs`** - the theorems.

Definitions under a comment that begins with "Mutant" are not part of the models: each is a
plausible mistake in the definition that follows, and replacing that definition by it
violates the property named in `PROJECT.json`. They show that the properties can fail.

## The runs

| run | asks | bounds | states |
|---|---|---|---|
| `Pairing` | is the bookkeeping consistent, does the controller implement `PairingPromise`, does every call settle | 3 calls, 3 attempts (the default) | 22 k |
| `ConnLife` | drops, failed handshakes, reconnects, logouts, re-entrant listeners; is the connection a `Link`, is nothing held back on an open WebSocket, does every pairing call end, is every drop within the budget retried | 1 pairing call, 2 retries, 5 connections, 2 stanzas per message | 52 k |
| `ConnPairing` | two pairing calls with retries against all pairing and logout stanzas | 2 calls, 2 attempts, 2 connections | 150 k |
| `ConnSavedCode` | finding: the code is not saved | 1 call, 1 attempt | |
| `KeyStore` | is the store atomic and durable | 2 keys (symmetric), 3 calls at any time, 1 failing write, 2 crashes | 1.65 M |
| `KeyStoreRace` | finding: recovery overwrites an acknowledged value | as before, no write fails | |
| `AuthFolder` | is the account kept, are acknowledged credentials kept, are keys published and used once | 3 processes, 2 saves and 2 calls of `takePreKey` at once, batches of 2 | 1.75 M |
| `Messaging` | does a promise tell the truth, is a message announced once, do effects follow the send, does every send end | 1 reaction out, 1 message in, 3 attempts, 2 connections, window of 1 | 492 k |
| `Transport` | one socket, no stale timer, a silent peer noticed, every query ends | 1 query, 4 socket ids | 26 k |
| `BinaryNode` | is a stanza read as it was meant, is a cut one refused | bytes of 4 values, strings up to 36, lists up to 6, depth 3 | 35 k |
| `NoiseSession` | agreement, certificates, nonces, gaps, stuck frames | 3 frames each way | 5.7 k |
| `SignalSession` | replay, kept keys, bound on skipping | 2 agreements, 5 counters, `MAX_SKIP` 1 | 1 M |

Why the bounds are enough:

- *Pairing:* with three calls one may hold the lock, one be refused and one come after; three
  attempts are the code's default and give a first, a middle and a last attempt, which is all
  `runAttempt` distinguishes. The theorems below hold without the bound.
- *Connection:* `MaxGen` bounds the connections the network may end. Two retries are a first and a last one;
  five generations use the budget up, reset it by an open, and use it again. Two stanzas in one
  message show what a stanza does to its successor. `StopIsFinal` and `OpenMeansLoggedIn` are checked
  with one stanza per message and without re-entrant listeners, for a reason: a listener of `creds.update`
  that logs out in the middle of pair-success has the code announce "open" on a stopped socket. The
  buffer's capacity (500) is not reached: `EventsReachListeners` shows that it never is with the
  retries that are configured, the queue holding at most two events per retry and one. `NoForgottenWaiter` speaks of
  a connection that has not been stopped: what a listener and several stanzas in one message do to a stopped one is told under
  [What is proved](#what-is-proved).
- *KeyStore:* two keys make a batch that can be torn; of three calls one is acknowledged, one hit by a
  crash and one made after it; the second crash can hit the recovery of the first, and the failing write can be any of
  them, in recovery too. The keys are symmetric: no definition tells one from the other. Temporary names differ, and `set({})`, which touches no key
and can only remove the journal of a failed batch, is left out.
- *AuthFolder:* the first process makes the account, the second one finds what a crash of the first left, and the third what a
  crash of the second did to that. Two saves are enough to overlap and to share a name. `MinCount` 1 and batches of two
  keys let the pool be used up and filled again.
- *BinaryNode:* with `Half` = 2 the limits are at 4 (strings and lists) and at 32 (strings): strings of 0, 1, 3, 4, 31, 32, 33 and more
  bytes and lists of 0 to 6 nodes are on both sides of them; a stanza is cut at every byte. The rules do
  not depend on `Half` otherwise.
- *Messaging:* a window of 1 is full with the second message; two connections suffice for a frame
  sealed on one and sent on the next; one receipt of each type, no message announced more than twice and
  no effect more than `MaxEffects` times.
- *Transport:* four ids are two sockets with a close between them and one more (every connect and
  every close takes an id). With `PongBeforePing` FALSE, TLC finds `SilentSocketIsDropped` violated: each
  ping re-arms the pong timeout, so with `keepAliveIntervalMs` of 10 s or less it never expires.
- *SignalSession:* with a limit of 1 a gap of two is allowed and a gap of three is refused; five
  counters allow a second gap after the first was filled; the old agreement's
  messages arrive after the new one. The theorems hold for any limits.

The type invariants (`TypeOK`, `PairingTypeOK`) document the domains of the variables. They are not among the properties of
the runs; those of `PairingController`, `Connection`, `SignalSession`, `Transport`, `KeyStore` and `Messaging` are proved, and for
`AuthFolder` the one that its proof needs (`Types`). For `NoiseSession` the proof has the six points below instead.

Deadlock is not checked where the bounded supply of calls, crashes, processes, frames or sockets may be used
up (`KeyStore`, `KeyStoreRace`, `AuthFolder`, `Messaging`, `Transport`, `BinaryNode`, `NoiseSession`, `SignalSession`): the system
really rests then. In the pairing and connection runs it is checked.

## Fairness

Only what the runtime guarantees is assumed.

- An armed timer fires, a pending close event is delivered, a continuation runs: weak fairness of those
  actions, in each module.
- In `Connection` a message disables timers and close events while it is handled. The event
  loop visits its timers phase between polls whatever arrives, so these have strong fairness there.
- Nothing is assumed of the network, the server or the user: no message need arrive, no answer be
  given, no drop happen. `EveryRequestSettles`, `EveryCallEnds`, `EverySendEnds` and `EveryQueryEnds`
  therefore rest on the timers alone.
- `DropIsRetried` leaves out two cases in which the code does not retry: the connect timer of `start()` fires
  between a drop and its close event (`transport.close()` then suppresses the event), and
  a hello that arrives in that gap fails the handshake, which closes without a retry.
- `KeyStore`, `AuthFolder`, `BinaryNode`, `NoiseSession` and `SignalSession` claim safety only.

## What is proved

By TLAPS, for every value of the constants.

**`PairingControllerProofs`**, from `PairingAssumption` (at least one attempt; `None` is neither a request
nor an IQ). `Requests` may be infinite. The invariants that TLC checks are not inductive by themselves; `IInv`
strengthens them with: flows other than the active one are blank (`OtherFlowsBlank`), the active flow
has begun and has its overall timer (`ActiveFlowRuns`), its ids are its own, none beyond the current
attempt (`IdsOfActiveFlow`), the awaited IQ is that of the current attempt and was sent, and none is awaited only
when the current attempt could not be sent (`ActiveIqIsCurrent`), and what was sent belongs to a call that was made
and, for the flow in progress, is among its ids (`SentIdsKnown`). The step lemma (`StepShape`) first brings every action into one of five shapes
- an attempt, a refusal, a settlement of the active flow, the deadline, a stutter - and each conjunct is
then preserved shape by shape. From `IInv` follow

- `PairingTypeCorrect`, `OnePairingAtATime`, `FullCleanup`, `CodesAnswerOwnIqs`, `AttemptsAreSequential`
  (invariants; `FullCleanup` covers the timers, too);
- `NewestAttempt` (action property): while every send succeeds only the newest attempt resolves a call;
- `ControllerKeepsPromise`: the controller implements `PairingPromise`, the initial state and every step.

**`SignalSessionProofs`**, from `SignalAssumption` of `SignalSession`: the limits are natural numbers with
at least one session and one counter. The inductive invariant joins the checked invariants with two more: only
messages behind the receiver's counter have been decrypted (`PastOnly`), and the network carries only what was
sent, of agreements the sender has made (`SentOnly`). From it follow `SignalTypeCorrect`, `NoReplay`, `ExactKeys`, `BoundedSkipping`
(with cardinalities, from the library's theorems on finite sets) and `ReceiverBehind`.

**`TransportProofs`**, from `TransportAssumption` (any number of sockets, any queries, either order of the two periods).
`SingleSocket` is inductive on top of the types, because every handler of a socket asks `IsStale` first. For the action
property the invariant adds that an intended close has given up its socket (`IntentionalHasNoSocket`): a close event that is
let past `IsStale` then finds the flag unset. From it follow `TransportTypeCorrect`, `OneSocket` and `DropsAreReported`, and
`TransportIsLink`: the transport implements `Link`. The WebSocket of the link is the one the transport holds, its number the
`socketId`, and since the transport knows nothing of sessions there is none; `CurrentIsUp` says in which states the WebSocket it holds can be, and with it
every step is one of `Link` or a stutter.

**`KeyStoreProofs`**, from `KeyStoreAssumption` (any keys, calls, crashes and failing writes) and nothing else: the calls need not
await a recovery. The invariant says what the journal is good for, and what keeps a recovery from doing harm: the calls take their turns
(`InTurn`, `MutexHeld`); what was taken off the list of files to do is in place (`DoneIsInPlace`); a batch being applied has its
journal, unless a recovery removed it, and without failing writes and late recoveries there is no other (`JournalOfBatch`); nothing newer than a
journal was acknowledged (`JournalIsNewest`); and the journal that a recovery has read is the one that is there, with no call running, or
else its keys are contested (`RecoveryApart`, `RivalsNoted`). From it follow

- `Durable`: what was acknowledged is there until a later call changes it, of every key that is not contested;
- `TransactionSafe`, a refinement proof with one step per action: `KeyStore` implements `AtomicKeyStore`;
- `CallsTakeTurns`: the types, the turns of the calls and the mutex.

The exception is needed: `KeyStoreRace` is the run in which a contested key loses what was acknowledged. By `Durable` there is no other
way to lose it, and by `CallsTakeTurns` it never comes from two calls at once.

**`MessagingProofs`**, from `MessagingAssumption` (any messages, at least one attempt, a window of at least one). The
announcements are counted - each is in the window or was forgotten since (`AnnouncementsCounted`), with no key in the window
twice (`WindowDistinct`) - and each stage of a send says how many attempts were made (`StageOfAttempt`) and whether there is one
frame on the wire or none (`OneFrame`). From it follow `MessagingTypeCorrect`, `AnnouncedOncePerWindow`, `SentOnce` and
`EffectsOnlyAfterSend`, and `FirstAttemptIsReadable`: a frame sent at the first attempt is sealed with the session of the WebSocket
that carries it. It rests on what `Link` promises (`SessionOfSocket`) and says exactly as much as is true: a retry keeps the session of the first
attempt, and of retried frames TLC finds that the server cannot read them after a reconnect.

**`NoiseSessionProofs`**, from `NoiseAssumption` (any number of frames, either treatment of the certificate). Both handshakes are
functions of what each party knows, so every reachable state is at one of six points (`New`, `Greeted`, `Answered`, `GaveUp`,
`Finishing`, `Up`), and the invariant says at each of them what was encrypted so far (`Made`), what is under way, and what each
party will accept. At the last point `Stream` accounts for every unit the server sent: opened, kept for the rest of its frame, or
under way. From it follow `NoNonceTwice`, `BothAgree`, `FailsForCause`, `ServerCanOpen` and `AllDelivered`. These are facts about
the protocol with symbolic cryptography, as the runs are.

**`AuthFolderProofs`**, from `AuthAssumption` (a batch is at least the minimum; any number of processes, saves, takes and
callers). The invariant says that every version of the credentials that is anywhere - on disk, in a temporary file, in a save under
way, in memory - counts every published key and is of the account (`AllProper`); that each save owns its file unless two under way
shared a name (`FilesOwned`); which versions there are (`Versions`); and that the keys of a process are of its own
generation (`Generations`), so that none takes the place of a published one (`InPlace`). From it follow `AuthTypeCorrect`, `NeverANewAccount`,
`NoSaveUndone`, `NoIdReused` and the action property `HandedOutOnce`.

**`ConnectionProofs`**, from the assumptions of `Connection` and its parts: at least one attempt, stanza per message and
connection, a buffer of at least one, any number of retries, and `StanzaAssumption` - the stanzas are within the bound of `Walk`,
and the server does not know the id of an IQ it was not sent. What a handler finds after an emission is what it left, or a
socket that a listener has ended; the invariant (`CInv`) says so by tying the point where the handler was cut (`k`) to the phase
(`PhaseOfStage`), the phase to the session and the WebSocket (`SessionOfPhase`, `NoLinkYet`), and the
handler's work to the nodes the server could send (`WorkOfStage`). Beside that the buffer is empty except between a
close and the next open, and then holds two events per retry (`HeldBack`), the connect timer and the
time before `start()` have their place (`FirstConnect`, `BeforeStart`), and a registration leaves no pairing
(`RegisteredAlone`). The pairing controller's `IInv` is a part of it: `PairingSteps` shows that
every action of the connection is a step of `PairingNext` or leaves the controller alone, so `IInv` is preserved by the lemma
already proved of the controller. There is one lemma per action, or per few that are alike. From `CInv` follow, with listeners
that call back or not,

- `ConnectionTypeCorrect`, `SessionOfItsSocket`, `NothingHeldBack`, `RegisteredHasNoPairing` (invariants);
- `NobodyIsForgotten` and `OpenWhileRunning`: as long as the connection is not stopped, no pairing call waits in vain and
  `OpenMeansLoggedIn` holds. The invariant says more then (`RunningInvariance`): the phase tells which handler was cut (`PhaseIsStage`),
  who waits can still be woken (`WaitersHope`), an open connection is registered (`OpenIsRegistered`); and a stop is for good
  (`StopStays`), so that these need only be preserved by steps after which the connection still runs;
- `DownOnceStopped`: a stopped connection has neither a WebSocket nor a connect timer;
- `StopStaysFinal` (action property): `end()` and `logout()` between handlers put the connection down at once - "close", its listeners told,
  no call waiting - and a stopped connection that is down stays so, whatever timers, reconnect tasks and calls are still to come;
- `NothingConnectsOnceStopped` (action property);
- `PairingInside`: every step of the connection is a step of the pairing controller or a stutter, so that the safety proved of the controller
  holds of the one inside. `PairingKeptInside` says it of its invariants, `NewestAttemptInside` and `PromiseKeptInside` of its
  action property and of `PairingPromise`: the lemmas on one step of the controller are applied to the steps of the connection;
- `ConnectionIsLink`: the connection implements `Link`, step by step. Together with `TransportIsLink` and the theorems of
  `MessagingProofs`, which hold over any `Link`, this makes the abstraction that the message engine is checked on a proved one.

None of these has a hypothesis about listeners or about the number of stanzas in a message. What they do not say is that a stop made in the
middle of a handler is final, because it is not: a listener may end the socket half way through a WebSocket message, the stanzas
that follow in it are handled all the same, and a pair-success among them (or a success of a registered account) announces "open" on the stopped
socket; so does a pair-success behind a logged-out disconnect. A pairing call that a listener then makes while a later stanza logs the
account out waits for a readiness that will not come, until its own timer ends it. That is why `NobodyIsForgotten` and `OpenWhileRunning` speak of a connection
that has not been stopped, and `StopStaysFinal` of one that is down. `OpenMeansLoggedIn` and `StopIsFinal` of every state are
only model-checked, in `ConnPairing`, where listeners do not call back and a message is one stanza; with `Reentrant` TRUE TLC finds
each of them violated.

Each inductive invariant was checked by TLC on the instance of its run. Only model-checked, not proved:

- every liveness property: out of the prover's reach, as is ENABLED;
- `BinaryNode`, recursive over its data: what an encoder and a decoder do to every tree is an induction over data.

## Where the code and its comments disagree

Shown by a run:

1. `ConnSavedCode`: `Socket/connection.ts:234` says the pairing code is persisted when the answer matches the
   active attempt. `handleDecrypted` lets the pairing controller settle the flow first (line 202), and then no
   IQ is active: the code is never saved (line 241).
2. `KeyStoreRace`: the store is "transaction-safe" (`Auth/key-store.ts:2`), but the constructor's recovery runs unawaited and
   outside the mutex (line 97): a value acknowledged meanwhile is overwritten by the older journal.
   `useMultiFileAuthState` makes such a call at once.

Seen while modelling, and kept in the models as the code has it:

- `buildIq` and most builders of `Protocol/iq.ts` give one node, not a list, as the content, which `WABinary/types.ts:9`
  allows. `WABinary/encode.ts:145` writes it as the text "[object Object]", although line 9 calls the encoder "sufficient for the
  stanzas built by Protocol/": queries for groups and contacts leave without what they ask for. `WriteContent` has the case and the
  run has such nodes; `RoundTrip` excepts them (`OnlyLists`), and without the exception TLC finds it violated by the first of them.
- `Events/buffer.ts:2` says the buffer is there "so listeners don't miss updates". `onClose` buffers the close, and when
  no retry follows it only stops the buffer, so the last close is never emitted (`Socket/connection.ts:452`).
- A listener that ends the socket while the buffer is flushed is told "close" past the buffer, and then the older events that
  the flush still has (`Events/buffer.ts:35`).
- After a failed send no IQ is active, and then the late answer to an expired attempt settles the call
  (`Socket/pairing-controller.ts:164`; the comment above it speaks of stale answers being ignored).
- A dropped WebSocket does not cancel the pairing flow (`Socket/connection.ts:421`): it ends by its timers or by an
  answer on the next connection.
- A retried send is sealed with the session of its first attempt, also when a new connection has replaced
  it (`Messages/engine.ts:187`).
- A logged-out disconnect closes the transport without resetting the link, so session and phase survive it
  (`Socket/connection.ts:225`).
- Every IQ of type error is classified as a disconnect, the error answer to an ordinary query included
  (`Socket/login-lifecycle.ts:46`).
- `onClose` of the reconnect manager is never given a disconnect by its only caller, so the branch for a banned
  account is dead (`Socket/reconnect-manager.ts:129`); `markOpen` resets the attempts at the bare
  WebSocket open, so a server that accepts and drops at once is retried without end (line 100).
- Any eight letters or digits are a pairing code, in any of five attributes or as a whole content, anywhere in the stanza
  (`Protocol/pairing.ts:225`); the first one counts.
- Two `saveCreds` that overlap may end with the older credentials in `creds.json`; two in the same millisecond share a temporary
  name and may leave it empty or torn (`Auth/use-multi-file-auth-state.ts:14`). The next process then sets it aside as
  `.bak` and makes a new account (line 34).
- Two calls of `takePreKey` that overlap may both get the key (`Signal/prekeys.ts:114`).
- Of all that can be wrong with the server's certificate, only a signature that is not valid rejects the handshake; a
  certificate that has expired, cannot be parsed, or has no trusted key to be checked against is accepted (`Noise/wa-noise.ts:198`).
- A deletion or an edit of one's own causes no event but its announcement, a reaction does (`Messages/engine.ts:366`).
- The text of a group's description is read only when it is a string (`Groups/parse.ts:45`), but what comes over the wire is bytes
  (`WABinary/decode.ts:177`).
- When an ACK and a later receipt arrive together, the continuation of the send announces the status of the ACK last
  (`Messages/engine.ts:201`): a message that was "read" is "sent" again (`AckContinuation`).
- Two sends with one message id share a waiter, and the first promise is never settled (`Messages/ack.ts:128`).

## What is left out

- Protobuf, message construction and the builders of the stanzas: conversions without state.
- Groups, contacts, presence and chat-state calls: each sends one IQ or node.
- Media: encryption and HTTP transfer.
- Signal encryption in the message engine, for which the socket passes no session, and with it `KAGUNEX_STRICT_SEND`;
  session records, their recovery and the identity store, which nothing under `src/` calls.
- In `AuthFolder`: errors other than a missing file when `creds.json` is read, the time of day (a signed pre-key may be old at
  any start), and `session-meta.json`, a best-effort note of the last connection.
- `get()` of the key store changes nothing and promises no consistent read.
- `clear()` of the key store removes every .json file of the folder, `creds.json` with them (`Auth/key-store.ts:161`). Nothing under `src/`
  calls it: `KeyStore` has it for the keys and the journal, `AuthFolder` does not have it.
- In `AuthFolder` a `writeFile` of `saveCreds` does not fail; and listeners that throw are nowhere.
- `terminate()` of the transport, which nothing calls.
- `LifePayloads` has no pair-success, to keep the run with re-entrant listeners small; the theorems of `ConnectionProofs` are about any stanzas.
- In `Messaging` a WebSocket message is one stanza: those behind one whose listener called `end()` are left out.

## Plan

Done: `PairingController` with `PairingPromise`, `Connection` with its parts and the stanzas as trees, `KeyStore` with failing
writes and `AtomicKeyStore`, `AuthFolder`, `Messaging` with the effects, `Transport` with `IqController`, `Link` between them, `BinaryNode`,
`SignalSession`, `NoiseSession` with the certificate; the safety proofs of all of them but `BinaryNode`, and the refinements of `PairingPromise`,
`AtomicKeyStore` and `Link`.

Next:

1. Session records: a session that is saved after its message was sent, with a crash in between, on top of `SignalSession`.
2. `AuthFolder` over `AtomicKeyStore` instead of a store that is atomic by construction.
3. Messages of several stanzas in `Messaging`, with a listener that ends the socket between two of them.
