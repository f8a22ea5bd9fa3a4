# A verification project for whatsappd

whatsappd runs WhatsApp accounts as services: a *session* keeps one linked
device connected, an *account runtime* owns an account and records what its
session observes, *clients* follow the record and submit operations against it.
These TLA+ modules model that core, TLC checks them on small instances, and
TLAPS proves all safety properties and refinements among them for instances of
every size.

Paths below are relative to `src/packages/whatsappd/src/` unless they begin with
`docs/`, `tests/` or `examples/`.

## 1. The system

| part | state | operations | talks to |
|---|---|---|---|
| Connection machine (`machine.ts`, `errors.ts`) | none: a reducer over `Status` | `transition`, `classifyDisconnect` | the session |
| Session (`session.ts`, `subscription.ts`) | status, supervisor, serial event pipeline, timers, the socket | `start`, `stop`, `send`, `markRead`, `requestHistory`, `subscribe` | socket (events, `end()`), credential store, subscribed handlers (awaited) |
| Baileys adapter (`baileys/*`) | event queue, chain of credential saves | `openSocket`, `end`, mappers | WhatsApp, the credential store |
| Credential storage (`stores/*`, `baileys/auth-state.ts`) | one set of credentials per account | `read`, `write`, `clear` | disk or database |
| Database client (`stores/libsql.ts`, `runtime/libsql-transaction.ts`) | connection, queue of writers per process | `run`, `close` | SQLite's locks |
| Account runtime (`runtime/runtime.ts`) | lease, heartbeat, session, teardown, terminal frame | `start`, `stop`, `renew`, observation handlers | lease store, mirror, session, clients (frames) |
| Lease store, mirror (`runtime/memory.ts`, `runtime/libsql.ts`) | leases and fencing tokens; revisions, records, accepted batches | `acquire`, `renew`, `release`; `claim`, `accept`, `read` | runtimes of several processes |
| Projection (`runtime/projection.ts`) | none: a fold of a batch over records | `projectCurrentMirror` | the mirror |
| Operation store (`runtime/memory.ts`, `runtime/libsql-operations.ts`) | receipts with status, attempt, lease, sequence | `submit`, `claim`, `start`, `release`, `fail`, `succeed`, `unknown`, `acknowledge`, `recoveryDelay` | executors and clients, which subscribe to its changes |
| Operation executor (`runtime/operation-executor.ts`) | online flag, drain, rerun flag, recovery timer | `setOnline`, `wake`, `stop` | operation store, session |
| Client (`runtime/client.ts`, `client-operations.ts`) | records, chat buffers with cursors, receipts, waits, live observations, deliveries under way | `messages.get/older`, `operations.*`, `presence`, `subscribe`, `close` | runtime frames, mirror, operation store, media store |
| Media (`runtime/media.ts`, `file-media.ts`) | objects by digest | `write`, `open` | disk |
| Web example (`examples/web/src/lib/whatsapp-*.ts`) | application: revision, page reads; browser: view, selection, requests | reload, select, command | client, browser |
| Pacing (`pacer.ts`), React binding, other examples, registry, documentation site | | | |

What is hard in this code is not its data but its awaits. Everything runs on one
event loop per process, so two calls interleave exactly where one of them waits;
the processes that share a database interleave anywhere, crash, and hold leases
that lapse while they are not looking. The hazards in `PROJECT.json` name the
lines; in short:

* an operation may reach WhatsApp once, though executors overlap and crash
  (ADR-0023: "never retried under the same operation identity");
* an account is consumed by one runtime at a time, though leases lapse while
  their holder sleeps (ADR-0009), and a stop may land at each await of a startup;
* a session reports one failure of several that happen together (ADR-0021),
  awaits its handlers (ADR-0013), and leaves nothing alive behind `stop()`;
* a client may miss patches, and must neither skip one nor stay behind
  (ADR-0011), while pages it asked for land late;
* one person has several addresses, which come to be known as one in any order
  and any number of steps; a patch is three lists that do not say in which order
  its batch joined, removed and re-pointed contacts, and whoever applies it must
  end where the mirror ended (ADR-0022, ADR-0030), also from the log of accepted
  batches, of which some were written by an earlier version; updates come before
  their message;
* a submission may commit and its answer be lost; a wait may begin while the
  client closes; media must be on the disk before the receipt that names it;
* what is said of presence decays with time and with the claim it was observed
  under, while listeners page, come and go, stop the runtime and close the client
  from inside a delivery;
* files are replaced and removed one operation at a time, in a process that may
  die between any two; SQLite's waits stop the event loop that would end them.

## 2. The modules

| module | models | size of its step |
|---|---|---|
| `OperationStore` | the receipts of an account and every operation on them | one store transaction |
| `OperationExecution` | executors of several runtimes over one store; EXTENDS `OperationStore` | the code between two awaits |
| `OperationReceipt` | the abstract contract of an operation | a change of the receipt, or the request |
| `OperationProofs` | theorems about `OperationExecution` | |
| `AccountBackend` | lease store and fencing of the mirror | one backend call |
| `AccountRuntime` | runtimes competing for one account; EXTENDS `AccountBackend` | the code between two awaits |
| `AccountProofs` | theorems about `AccountRuntime` | |
| `ConnectionMachine` | the reducer, as operators | |
| `Session` | supervisor, pipeline, timers, `stop()`, the socket and its saves; EXTENDS `ConnectionMachine` | the code between two awaits |
| `CredentialStore` | abstractly, the entries a session's credentials are | one call, a clear in two |
| `FileCredentials` | the credential store in files | one file operation |
| `SocketEvents` | which events of the protocol library become session events, and by whom | one event of the library |
| `SessionProofs` | theorems about `Session` and `SocketEvents` | |
| `ClientMirror` | the mirror's revisions, the frame loop, the client and its chat | the code between two awaits |
| `ClientOperations` | creation, calls, waits, acknowledgement and close of a client; EXTENDS `MediaStore` | the code between two awaits |
| `MediaStore` | the media store in files, as operators | one file operation |
| `ClientProofs` | theorems about `ClientMirror` and `ClientOperations` | |
| `LiveObservations` | presence, its expiry, and the deliveries to listeners | a commit, or one listener's turn |
| `Transcript` | the view of one chat with the sends beside its messages | the code between two awaits |
| `WebClient` | browser and application of the web example | a message or an answer between them |
| `ShownProofs` | theorems about `LiveObservations`, `Transcript` and `WebClient` | |
| `ContactProjection`, `MessageProjection` | the projection of one observation, as operators on the mirror and the patch | |
| `Projection` | a mirror, the batch projected over it and a follower of the patches; EXTENDS both | an event, or a transaction |
| `MirrorLog` | the rows of accepted batches and who reads them from the first on; EXTENDS `Projection` | as `Projection` |
| `AddressResolution` | abstractly, contacts as classes of addresses | an observation, or a batch accepted or refused |
| `ProjectionProofs` | theorems about `Projection` and `MirrorLog` | |
| `LibsqlClient` | clients of one database file, their queues, opening and close | the code between two awaits |
| `StorageProofs` | theorems about `LibsqlClient` and `FileCredentials` | |
| `LibsqlTables` | lease store and fencing as tables; implements `AccountBackend` | one statement, or the end of a transaction |
| `TablesProofs` | the theorem about `LibsqlTables` | |
| `MCOperations`, `MCAccount`, `MCLiveness`, `MCSession`, `MCClient`, `MCShown`, `MCProjection`, `MCStorage` | instances for TLC | |

Modules that interact are composed by EXTENDS (executors over their store, the
session over its machine, client operations over the media store, the log over the
projection) or by what one promises and another relies on: `LibsqlTables` implements
the `AccountBackend` over which `AccountRuntime` runs, `OperationStore` and
`OperationExecution` together implement the `OperationReceipt` that
`ClientOperations` moves along, `FileCredentials` implements the `CredentialStore`
whose single write and clear `Session` uses. Where an MC module holds several
components, TLC looks at them *one at a time*: the first state chooses one and the
others stay in theirs. It is no composition; it checks in one run what concerns
parts that have no state in common.

An operator whose comment begins "A ... that ..." and which nothing refers to
(`RequeueEveryLapse`, `OpenedRegardless`, `FilledOver`, `RecordedAliases`, ...) is a
*wrong variant* of the definition below it: the bug that a property is there to catch.
Put in the place of that definition it makes TLC report the property violated. The list
is under `mutants` in `PROJECT.json`.

### Operations

`status`, `attempt`, `remaining` (what is left of a lease), `sequence` and
`acknowledged` are the fields of a receipt; the revision, which only counts
changes, is left out. An executor is a program counter `pc` along `drain()` and
`execute()`, with the `job` and attempt id (`token`) it holds in locals, the
`rerun` flag and the `retry` timer. `link` merges what the executor asks of its
runtime (`online`, `config.stopped()`, `config.session()`): offline, online,
stopped for good, dead. A store call and the announcement of its change are one
step (`Commit`); nothing of this component runs in the microtask between them.
Who hears an announcement is `Listening`: with `SharedProcess` every runtime,
otherwise only the one through which the change was made, for stores of separate
processes share a database and not their listeners. `invocations` is a history
variable: how often the Session was asked.

A crash leaves the store and nothing else. A Session call that throws or hangs may
have reached WhatsApp, so `Return` goes either way. A store call that rejects may
have committed: the commit is one action and `DrainRejected` may follow it.

### Account ownership

One clock, `now`, is shared by runtimes and backend. A runtime's `startup` is
where `open()` waits; `ticket` the lease in its local before it is recorded.
`teardown` holds what `release()` took before its first await, once for `halt()`
and once for a failed startup, which may overlap. `renewal` is the renewal in
flight with the answer it will find. `handler` is the observation being handled:
one at a time, as the session's pipeline delivers them. `abandoned` is a history
variable: claims whose runtime crashed or was denied the answer of the store.
A lease that lapsed is dropped by the memory store and kept by libSQL; no method
tells the two apart. `halt()` also waits for the executor's drain; `Close` may
come arbitrarily late, so this is covered except in `StopSettles`, which assumes
that drains settle.

### Session

`line` is the serial pipeline: the steps asked for by the event being handled,
followed by what timers have queued; `awaiting` says what its head waits for
(handlers, the wipe, the pairing code). `pc` is the supervisor between its awaits.
`fault` is the first rejection of the pipeline. A run fails with a kind:
subscriber, teardown, run, or the marked processing failure. `writes` counts the
saves chained on the socket and not yet made, `stored` what the store holds.
Timers are macrotasks: none fires between an event and its being taken.
Unregistered credentials count as none. A status announced anew in the same
phase (another QR, another progress) is a move; a progress that repeats the same
number is taken to be one too, which only adds an await. No credential update is
expected from a socket whose `end()` has returned. `stop()` waits for the `end()`
of the socket it found; where it was called while another was opening, the
model waits for that of the latest.

### Mirror and client

Content is abstracted to versions: the revision that last changed a key, and
`log` says what each revision changed. A message and its chat summary change
together, so `records` (what snapshots carry) and `chat.rows` (messages, only in
retained chats) use the same keys. Keys are ordered, newest highest, as
(timestamp, id) orders messages. `queued` are frames heard by `durableFrames` and
not consumed; yielding a frame and committing it to the client is one step.
`chat.number` is the identity of the retained entry: `reset()` makes another.
`reads` are pages in flight. `writer` tells whether the runtime publishes what is
committed: before it claimed the account and after it lost it, others write and
it publishes nothing, which is how gaps arise. A commit whose answer is lost
(`Lose`) is another. The runtime has at most one commit not yet published, since
the session delivers serially; the overlap of a last observation with the stamp
of a teardown is left out. Other chats do not interact with this part; receipts,
live frames and the view of a chat have modules of their own.

### Client operations and media

`history` is what the store holds: for each operation its receipts in the order of
their revisions, moved along by executors of this process, which announce it
here, and of others, which do not. A copy of a receipt is the number of its
revision. `phase` is the life of the client: it subscribes, asks for the first
list, holds back in `early` what it hears meanwhile, is open, closes. `told` is a
history variable, the newest copy the client was given by any way. A call is at a
`stage`: staging (`MediaStore`, one file operation per step), submitted, committed,
looking for its receipt after a rejection, done. Validation and normalisation of
inputs, and the wording of errors, are left out. An executor is one `Move` here,
because which verdict comes makes no difference to the client.

`MediaStore` says of each object whether it is whole and whether its directory
entry is on the disk. A crash of the process leaves files as they are, a loss of
power may take away names and bytes that were not synced. Digests are contents:
two objects with the same name have the same bytes.

### Live observations, transcript, web example

`claim` is the runtime's, with its expiry, and `observed` the frame held for each
address. `deliveries` is the stack of deliveries under way, each with the basis it
was sampled from and the listeners it is still due to: those there were when it began,
called in the order they were added unless they were removed since. A delivery is
synchronous, so inside one only the clock moves and only a listener acts: it pages
(a delivery inside the delivery), closes the client, adds or removes listeners, or
calls `runtime.stop()`, which clears the claim before it returns (`StopsRuntime`:
`halt()` and `release()` up to the first await), so that `claim` changes between two
calls of one delivery. The terminal frame of a runtime that was stopped comes later.
`frames` and `over` are history variables for `LatestTruthIsSaid`. A startup that
`stop()` overtakes while it acquires gives the claim it is granted back at once and
has no Session under it; it is left out.

`Transcript` keeps for each send its receipt in the store, the client's copy, its
echo in the mirror and whether that has reached the client; `entry` is the retained
chat with the view built for it. `WebClient` abstracts what is shown to two moments
of the application, when the records were read and when the answer was made; the
view going back to an earlier one would be seen by a user as a message vanishing.

### Adapter

An act is a message, or an edit, revocation, reaction or vote about one. Each is an
envelope; the library hands envelopes over live or as a sync, and says of a live
edit, revocation or reaction by an event of its own, too. `recent` is the list of
envelopes remembered for the keys of polls, `done` says that the queue is closed.
What an act contains is left out.

### Credentials, database

`FileCredentials` has the state file, the legacy files, and the calls of one store
in the order in which `serialize()` lets them go, each a chain of file operations
that may fail; removals of a clear run all at a time and go on after it has failed.
Callers of one process, one store. `LibsqlClient` has the calls of several clients
in two processes, the queue of each process, the journal mode, and SQLite's lock
with its wait, which stops the event loop. `LibsqlTables` has the rows and, for
each holder, the call and what its transaction has read.

### Projection

A state under projection is `[now, patch]`: the overlay of `projectionState()`
over the stored records, and what `upserts`, `deletes` and `aliases` hold. Of the
lists only what they amount to is kept: the last upsert of a record, the set of
deletes with what they free, the last alias of an address; that the order inside
them does not matter otherwise is what `FollowerIsCurrent` shows, for `Patched`
applies them as the client does, list by list. `owner` is Address Resolution, a
contact without addresses does not exist. The fields of a contact other than its
addresses and its last-seen are merged alike, and are one `profile`. The
projection relates no two chats and no two messages, so the model has one group
chat and one message in it; a chat that is no group has no step that this one has
not, and the follower has the chat open. The contents are a text and a poll: the
others differ in what they carry. Chats, contacts, messages and updates of a
conversation sync are projected one after another and are events here; a sync is
a batch. A batch is refused as a whole, for an event that is not known, a stale
claim or a store that fails. `accept()` is serialised per account, so nothing
happens between two events of a batch.

`MirrorLog` adds a consumer that reads the stored batches from the first on. A row
is written by this version, with its list of aliases, or by the one before, without
it and without what deletes free; `LogAccept` chooses. `named` keeps what the
decoder derives from the upserts of a patch, of which `Projection` keeps only the
last of each contact. The rows' JSON, and the decoders that read each field back
as it was written, are left out.

## 3. The runs

| run | instance | states | shows |
|---|---|---|---|
| `operations_safety` | 2 operations, 2 runtimes in two processes, 4 attempt ids, TTL 2 | 1.2 M | `AtMostOneInvocation`, `ReceiptTellsTheTruth`, and `ImplementsReceipt`: the abstract contract, at most one request and no verdict taken back |
| `liveness` | 1 operation, 2 runtimes of one process; 1 holder of the account | 0.2 M | `EverythingSettles`, `StopSettles`, `LostLeaseCloses` |
| `account_safety` | 2 runtimes, TTL 1, a lapse and a takeover | 1.4 M | `HeldIsRemembered`, `NothingIsLeft`, `DeathIsVisible`, `SuccessorIsFenced` |
| `shown` | 2 addresses, 2 listeners ever added, 2 observations; 2 sends, 1 snapshot; 2 chats, 1 command, 4 announcements | 1.9 M | `LatestTruthIsSaid`, `OneBurstOneValue`; `EverySendIsShownOnce`; `ViewNeverGoesBack` |
| `session` | QR and pairing code, attempts to 1, 2 events queued before the close, 2 saves; 2 messages, 3 envelopes, 2 to a payload | 0.4 M | `StoppedMeansQuiet`, `OneWriter`, `FinalIsFinal`, `HandlerFailureWins`, `StopSettles`, `LossIsNoticed`; `EachActIsToldOnce` |
| `client` | 3 messages, pages of 2, 4 revisions; 1 operation under one key, 3 calls, 2 with media, 1 crash | 0.5 M | `ViewIsARevision`, `NeverBehind`, `NoHole`, `CatchesUp`, `ClosureIsHeard`; `NothingMissed`, `WaitSettles`, `MediaOutlivesPower` |
| `projection` | 3 addresses, batches of 2, 3 instants, 2 updates waiting, rows of two versions | 41 k | `OneOwner`, `FollowerIsCurrent`, `ReplayReachesTheMirror`, `ImplementsResolution`, `LateMessageLosesNothing`, `NothingComesBack` |
| `storage` | 2 keys, 2 values, 2 callers, 1 crash; 3 clients in 2 processes, 2 calls; 2 holders, 2 leases, 2 batches | 0.2 M | `ImplementsCredentials`; `NobodyBlocksItsOwnProcess`, `CloseOutlivesWork`, `EverythingReturns`; `ImplementsBackend` |
| `account_stale_renewal` | 1 runtime | | violated: `StaleRenewalIsIgnored` |
| `session_wipe` | pairing code, attempts to 1, 2 events queued, 2 saves | | violated: `LoggedOutMeansGone` |
| `session_rejection` | as `session`, QR only, 1 save | | violated: `RejectionSettles` |
| `adapter_reactor` | as `session` | | violated: `ReactorIsTold` |

*Bounds.* Attempt ids are opaque, so only distinctness matters: with two operations and
two executors at most four are alive, and the least unused one stands for any fresh one.
A TTL of 2 lets a lease be full, running and lapsed, a TTL of 1 separates in force from
lapsed. Two runtimes are enough for every race between a predecessor and a successor;
runtimes are interchangeable, and so are operations except for their sequence, which is
part of the state; the symmetry sets are used only where no temporal property is
checked. `MaxIssued`, `MaxTime`, `MaxBatches` bound `account_safety` so that a lease can
lapse and be taken over while its holder is still winding down. `MaxAttempt` bounds a
retry counter of which only zero and growing are told apart. `MaxQueued` 2 lets two
events of any kind wait, with the close behind them, `MaxWrites` 2 lets a save wait
behind another. `MaxRevision` 4 is the least with a patch queued behind a gap that is
not the last. Two calls with the same media write one object at a time, and a third asks
for another content under the same key; one operation has all the races of one receipt,
and operations do not interact in a client. `MaxDepth` 2 is a delivery inside a
delivery; two listeners are one that acts and one that reads after it, or is added by it
and hears of the inner delivery only. Two sends let one be echoed and the other not, and
a page hold either. Two clients of one process and one of another are the least with a
line that is shared and one that is not. `RecentCap` 2 with three envelopes lets the key
of a poll be forgotten. An address is observed in at most three forms, so three
addresses let contacts be joined three at once or two and two. A batch of two events is
one that can undo or re-point in its patch what it wrote before; the proofs are for
batches of any length. `OnePart` has TLC look at contacts, message, group and account
separately once the first batch is over, in which all pairs are met: no step reads two
of them, except that a message joins its sender's addresses first. Addresses are
interchangeable, in `shown` also the kinds of presence, and the refinement and the
action properties of those runs are safety properties, which symmetry respects. Type
invariants (`TypeOK`, `AccountTypeOK`, ...) are not among the runs' properties: those of
`OperationExecution`, `AccountRuntime`, `Session`, `ClientMirror`, `Projection` and
`LibsqlClient` are theorems, and the others, which were checked when the modules were
written, are proved as far as the inductive invariants need them.

*Stopping.* Runs say `CHECK_DEADLOCK FALSE` where the modelled system ends: all
processes dead, a session stopped, a client closed.

*Fairness.* `MCLiveness!LivenessSpec`: an executor that is alive takes its
next step, because each of its awaits is a store call or a Session call with a
transport timeout; the clock and the timers run. Nothing is assumed of the
connection, of clients, or of crashes: `EverythingSettles` is conditional on one
runtime eventually staying online alone and starting what it claims within the
TTL. Of accounts: backend calls, handlers, the wind-down of a stopped session and
timers settle; startups are not fair, since the application's `openSession` may
hang. `MCSession!LayersSpec`: handlers, saves, opens and delays settle, and a
socket that was told to end closes; nothing is asked of the adapter.
`MCClient!ClientSpec`: reads settle, the runtime publishes what it committed, the
first list is answered and the frame loop a close joins ends; neither calls nor
executors have to go on. `LibsqlClient!LibsqlFairness`: a call goes on while it can
and a close ends once it may; nobody has to call. A step that is not of the part a
run looks at is never enabled, and its fairness asks for nothing. `LiveSpec` of
`OperationExecution`, `Session` and `ClientMirror` say the same of each alone
(`LiveObservations!LiveSpec` is about live observations and states no fairness).

## 4. What is proved

Every safety property that a passing run checks is a theorem, for every value of the
constants that the named assumptions of the modules allow (`TtlAssumption`,
`BackendAssumption`, `CallsAssumption`, ...: sizes and caps are naturals, some of
them not zero, and what names what). A theorem is proved along one pattern: an
invariant that is inductive, one lemma per action that the action keeps it, and the
property from it. The properties are seldom inductive themselves; what each needed
says why the code works.

**`OperationProofs`**, for any operations, runtimes and attempt ids and any TTL:
`TypeCorrect`, `AtMostOnce` (`AtMostOneInvocation`), `Truthful`
(`ReceiptTellsTheTruth`), `Owned`, and `ReceiptsKeepTheContract`
(`Spec => ImplementsReceipt`). A second request is prevented by three facts
together: only an executor that has passed `start` asks the Session; while the
receipt is executing, only one executor holds the attempt on record; and an attempt
id is never given out again while some executor holds it, though its lease may have
lapsed and its operation been recovered. `IInv` says so, and that an operation that
may still be taken up has never been asked for. Each store operation is then one
step of the contract: one receipt turns, or a recovery gives up what lapsed.

**`AccountProofs`**, for any runtimes competing for an account, any TTL and bounds:
`AccountTypes`, `NoClaimIsLeaked` (`HeldIsRemembered`), `ClosedLeavesNothing`
(`NothingIsLeft`), `FailureIsPublished` (`DeathIsVisible`) and `Fenced`
(`SuccessorIsFenced`, an action property). `RuntimeInv` relates what one runtime
keeps in different places: a lease it has recorded belongs to a startup past
`acquire()`; a startup that is being undone has a teardown of its own, besides that
of `halt()`, with which it may overlap; a halted runtime has nothing left to take; a
session that runs belongs to a startup that is up; a session that broke is kept as a
failure until the terminal frame has carried it. Fencing rests on
`AnnouncedIsHeard`: once a claim was announced, the mirror has heard of it or of a
later one, and a token a runtime holds was issued.

**`SessionProofs`**, for any number of waiting events and saves, either way of linking
and any cap on the attempts: `SessionTypes`, `NeverTwoWriters` (`OneWriter`),
`StopLeavesNothingAlive` (`StoppedMeansQuiet`), `NothingRevivesASession`
(`FinalIsFinal`) and `RejectionIsNotMasked` (`HandlerFailureWins`). The sockets: one
that is drained has no save left, and where the supervisor looks after none, the last is
drained. The line: outside the taking of events it is empty, since the close that ends
them also put off the timers that might add to it, unless the line broke. `stop()`
latches before anything waits, and reports when the supervisor has settled or will open
nothing. And the rejection of a handler is always somewhere between the pipeline and
whoever is told. For the adapter, `ActsAreToldOnce` (`EachActIsToldOnce`) holds for
payloads of any length and any number of remembered envelopes: what was told is, no act
twice, what of the envelopes so far was due to be told, where `recent` is the last of
the envelopes that came and what the library announced by an event of its own came live.
Each is told as done by its author, but for the reactions and revocations the account
itself makes in a one-to-one chat (`TakenForPeer`), which are told as the peer's: the
property names this case, and section 5 says where it departs from the docs. How much a
payload tells is a fold over it, proved by what each prefix tells.

**`StorageProofs`**: of the database client, for any clients, processes and calls,
`LibsqlTypes`, `NoProcessStopsItself` (`NobodyBlocksItsOwnProcess`) and
`NoCallLosesItsConnection` (`CloseOutlivesWork`): whoever has the file, or keeps
others from it, is at the head of its process's line (`HeadsWork`), also while it
opens the database and reads the journal mode, and a close waits for every call
that its client had when it began. Of the credential files, for any keys, values
and callers, `FilesAreThePort` (`FileSpec => ImplementsCredentials`): only the
call at the head of the queue works, so the draft it is about to rename into place
was made from the state file as it is; a migrated value was that of the old file;
and removals that a failed clear left under way matter only until a clear succeeds.

**`ClientProofs`**: of the mirror a client follows, for any messages, revisions and
page sizes, `MirrorTypes`, `NothingIsSkipped` (`ViewIsARevision`),
`PagesTakeNothingBack` (`NeverBehind`) and `PagesLeaveNoHole` (`NoHole`). The
three are inductive only together and with what makes a late page harmless: all
that changed since the store was asked came to the open chat as a patch, because
the chat was retained all the while; there is one page under way for a chat that is
loading, and it continues where the chat is. Of its operations and media, for any
operations, calls and crashes, `MediaComesFirst` (`MediaOutlivesPower`): a name is
made only for bytes that were synced, and a call submits only once its name is on
the disk; `NoReceiptIsMissed` (`NothingMissed`): until the first list is in, what
was heard is kept and no call exists whose answer could come between.

**`ShownProofs`**, for any addresses, listeners, sends, chats and requests:
`LatestIsSaid` (`LatestTruthIsSaid`): of two observations the newer was made under a
claim, and holds to a time, that are at least the older one's, so that holding the
newest of an address is enough, though truth decays in two ways; `BurstsTellOneValue`
(`OneBurstOneValue`): all deliveries under way at once were sampled on one basis and
every read in them is answered on it, however deep they nest and though a listener stops
the runtime and clears its claim meanwhile; `SendsAreShownOnce`
(`EverySendIsShownOnce`): a view that is kept is the one that would be built now, and a
chat is retained while a send may stand in it; `PageNeverGoesBack` (`ViewNeverGoesBack`,
an action property): at most one request for a state is under way, and it was read after
what is shown.

**`ProjectionProofs`**, for any set of addresses and batches of any length and
contents: `ContactsAgree` (`OneOwner`), `PatchesTellAll` (`FollowerIsCurrent`),
`ContactsAreClasses` (`ImplementsResolution`), `ProjectionTypes`,
`NothingIsTakenBack` (`NothingComesBack`, an action property), `LateIsNotLost`
(`LateMessageLosesNothing`) and `LogIsTheMirror` (`ReplayReachesTheMirror`).
Nothing is said between two events of a batch, so `IInv` says it: an address without
a delta in the patch has the owner that the follower knows and is not freed by the
patch; a contact the patch deletes does not exist and its own address still resolves
to somebody, so that no later observation of the batch creates it anew (which the
upserts, applied before the deletes, could not express); and a contact owns the
address it is known by, which keeps a new contact from taking over the name of an
existing one. `ForwardInv` adds that the batch in work is ahead of what is committed,
with the types that comparing instants needs. `LogInv` adds that an address the
upserts of the patch named last belongs to whom they named, and that one they did
not name has the owner it had and is no form of a deleted contact; so a row replays
alike with the aliases it records and with those its decoder derives.

**`TablesProofs`**: `TablesAreTheBackend` (`TablesSpec => ImplementsBackend`), for
any holders, any TTL and any bounds: the transactions, taken statement by statement
with refusals and rollbacks, do nothing but steps of `AccountBackend`. Its invariant
says that what a call goes by is a token its holder was granted, that no token was
granted that the counter in the row has not reached, and that what an open
transaction has read is still so. The last holds because only one transaction is
open, which is SQLite's part; with two (`MayBeginReading`) the refinement fails.

*Folds and least elements.* Where the code goes over a list (updates that wait, an
envelope's payload, a page, the rows of a batch) the model has a fold, `Min` or
`Max`. Their values are proved without induction over an operator: `<` on the
naturals is well founded, so a set of counterexamples would have a least one, and
one unfolding at that place contradicts it (`LeastIsThere`, `Folded`, and the lemmas
that begin with them).

*What the proofs found in the models.* Some formulas had more outcomes, or fewer,
than the code, and TLC did not show it. CASE arms that overlapped, where TLC takes
the first and the logic any, were made exclusive (`AccountRuntime!TakeDown`,
`Session!Work` and `Verdict`, `ContactProjection!MergedProfile`,
`MediaStore!LosePower`). The call that is done in `FileCredentials` leaves the head
of the queue, as the chained promises do (`stores/file.ts:77-82`), not wherever it
stands. `MediaOutlivesPower` needs that a call asking for the same as one with
media carries it too, which `CallsAssumption` did not say
(`runtime/client-operations.ts:408-529`). Sets of chats had to be finite in
`WebClient`. What the adapter tells of a payload is the fold it is in the code.

*Only model-checked:* the liveness properties `EverythingSettles`, `StopSettles`,
`LostLeaseCloses`, `LossIsNoticed`, `CatchesUp`, `ClosureIsHeard`, `WaitSettles` and
`EverythingReturns`: liveness under fairness needs ENABLED, which is beyond the
prover. The four properties of the next section are violated and have nothing to prove.

## 5. Where the code and its words part

* `account_stale_renewal`: a renewal that rejects late halts the runtime without
  asking whether it still owns the lease the renewal was for (`runtime/runtime.ts:696`).
  In the run a startup announces its claim, a renewal is in flight, openSession
  rejects, the lease is given back, and a second `start()` has acquired and holds
  the next lease when the rejection of the old renewal halts it.
* `session_wipe`: saves chained on the socket are drained after the wipe, so
  credentials may be back in the store when `logged_out` is announced or later
  (`session.ts:439`). With a store that serialises its calls it takes two updates:
  the second save is begun only when the first has settled, behind the clear.
* `session_rejection`: two announcements of the supervisor are outside its
  terminal failure path (`session.ts:650`, `session.ts:665`).
* `adapter_reactor`: the reactor is taken from the key of the reaction, which in a
  one-to-one chat names the other party whoever reacted (`baileys/updates.ts:251`),
  so a reaction of the account itself is told as its peer's.

Seen while modelling and not the subject of a run: an intentional close during
`restart_pending` leads to `connecting` (`machine.ts:110`), against "our own teardown is
never a fault" (`machine.ts:70`), and is hidden by the stop latch; a wipe that fails on
the verdict timer's path is retried as a transport close, against ADR-0021 ("A failed
credential wipe is reported before `logged_out` can be announced"); `start()` after
`stop()` leaves the status at `connecting`. A vote that is delivered again after another
voter's moves its voter to the end of the list (`runtime/projection.ts:397`) and so
takes a revision, against "Offering an observation the mirror already holds ... takes no
revision" (`runtime/contracts.ts:451`). A group known to have nobody in it comes back
from `accepted()` as one whose roster is unknown: the mark that tells the two apart is
put into the row of the group (`runtime/libsql.ts:1291`) and not into the stored patch
(`runtime/libsql.ts:1516`), against "an empty array is known-empty"
(`runtime/contracts.ts:233`); `DecodedRoster` does so, and `ReplayReachesTheMirror`
leaves rosters aside. A wait that is begun after `close()` hangs for ever (`WaitSettles`
speaks of the others). A failed clear of the file store leaves removals under way,
behind which the next call may already run. A failure to open the database is remembered
for ever. The adapter's `recent` is called an LRU and forgets by insertion
(`baileys/socket.ts:55`); a vote without its poll's key at hand is dropped
(`baileys/updates.ts:134`); a revocation by the account itself in a one-to-one chat is
told as the peer's, as a reaction is (`baileys/updates.ts:86`), against "`by` is who
revoked it" (`model/update.ts:36`): `EachActIsToldOnce` excepts both by name.
`session.send` takes its socket before it waits for the pacer (`session.ts:673`). In the
client an echo may stand beside an executing send until its receipt says succeeded, and
a succeeded send whose echo lies outside the loaded pages stays in `outgoing`. In the
web example a reload or selection asked for while one is under way shares its answer,
which may be from before it (`examples/web/src/lib/whatsapp-browser.ts:26`), and a
group's metadata read before a change may be cached after it
(`examples/web/src/lib/whatsapp-application.ts:419`).

## 6. Not modelled

* Sending, read marks and history requests of a session, and the send pacer: a
  call to the socket each, with a gate in front; the executor's view of them is the
  Session call of `OperationExecution`.
* Handlers that call `stop()` and thereby wait for themselves (`session.ts:787`).
* The adapter's conversions: receipts, contacts, groups, presence, contents.
* The serialisation of keys and credentials, input validation, migrations (all in
  one transaction), the decoding of rows but for what `MirrorLog` says, and the
  SQL of records and receipts, which is taken to do what the memory store does.
* SQLite itself: its isolation and its locks are external. Transactions are
  shorter than a tick of the clock.
* Losses of power in `FileCredentials`: the store does not sync its directory, so
  a rename may be undone, and nothing is claimed of it. A `write` of nothing
  resolves at once and is no step.
* Changes of operations made by another host are announced to nobody; liveness is
  checked within one process.
* In `WebClient`, pages asked for by the user, tokens, and the caches of the server.
* User interface: the components of the web example and the registry, the
  documentation site, other examples and the selectors of the React binding. They
  are most of the repository's lines and keep no state that its parts share; the map
  therefore covers a small share of all lines, and most of those that change state
  in the library.

What would come next: sends of a session through the pacer and across a
reconnection, and how `OperationExecution` sees them; that `Session` keeps the
promises about endings and deliveries on which `AccountRuntime` relies, and the
frames of `AccountRuntime` those of `ClientMirror`, stated as refinements and proved;
a batch of `LibsqlTables` with the records it writes; and the type invariants that
are not theorems yet.
