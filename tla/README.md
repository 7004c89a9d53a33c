# Formal verification of threema-multidevice-client

TLA+ models of the client library and its command-line program (`src/src/*.rs`), the TLC runs that
check them on small instances, and theorems about them that TLAPS proves for every instance.

The client receives messages for a Threema identity as one device of a *device group*. It keeps
two connections: to the **chat server** (protocol CSP), which queues the identity's incoming
messages, and to the **mediator** (protocol D2M), which relays what sibling devices *reflect*, runs
the group's transactions, and picks the group's *leader*. The protocols' state machines, the
cryptography and the tasks that process a message are libthreema's; this repository wires them up,
moves payloads between them, stores nonces and contacts, and reports text messages to an embedder.

## 1. Inventory

| component | code | state it keeps | operations | talks to |
|---|---|---|---|---|
| run loop | `lib.rs`, `command.rs`, `event.rs` | where `run` is; the command channel | load state, connect CSP, connect D2M, report `Connected`, select over the three runners and the commands | all the others, which it owns |
| chat connection | `csp.rs` | protocol state, frames read and not polled, the payload being handed over | handshake, poll, forward to the driver, read, write, end | socket; `cspIn`, `cspOut` (4 each) |
| mediator connection | `d2m.rs` | protocol state, the payload being handed over | handshake, receive, forward, write, end and shut down | WebSocket; `d2mIn`, `d2mOut` (16 each) |
| end-to-end driver | `e2e.rs` | the pending task, the wait it is in, `pending`, `acknowledged_reflect_ids`, the role | take a message, fetch, begin / abort / reflect and commit a transaction, reflect, acknowledge, handle unsolicited payloads | all four channels; reporting; HTTP |
| reporting | `conversation.rs`, `d2d.rs` | `seen` (in memory), the event channel | add or update a message, decode a reflected envelope | called by the driver |
| nonce store | `store.rs` | a set per scope, in memory and in `nonces.json` | load, has, add_many | called by libthreema's tasks |
| contact store | `store.rs` | a map, in memory and in `contacts.json` | load, has, get, add, update | called by libthreema's tasks and reporting |
| display names | `conversation.rs:20-32`, `d2d.rs:31-51`, `main.rs:27-65` | none | whom an event, and the line printed of it, attributes a text to | contact store |
| program | `main.rs` | the printer, the Ctrl-C task | print events, shut down | run loop |
| device | all of it | what the files keep from one run to the next | start again after an end or a crash | servers, file system |
| configuration, HTTP | `lib.rs:76-97` | none that changes | set-up | libthreema, reqwest |

The whole client is one task: the runners' futures are polled in one `select!` (`lib.rs:161-190`),
so code between two awaits is atomic and what interleaves is the awaits. The channels between the
runners are bounded, so a send is a wait too. When any branch completes, the others are dropped at
the await they stand at.

**What makes each part correct, and hard.**

- *Run loop:* a shutdown, or the end of a connection, should end the run whatever the others wait for, but
  the select polls a branch only once the branch polled before it has returned Pending; `Connected` means
  what its comment says.
- *Chat connection:* no frame is lost, repeated or overtaken on the way from the socket to the
  driver, while a read may return several frames and a hand-over may block in the middle of them.
- *Mediator connection:* the same, and an orderly end: the channel halves are dropped before the
  stream has been shut down, so the driver runs against closed channels for a while.
- *Driver:* while it waits for one answer any other payload may arrive, and must be handled there
  and then: a promotion, an envelope, the announcement that a sibling's transaction has ended. What is
  reflected about contacts falls inside this device's transaction. Acks are counted, not matched.
- *Back-pressure:* runner and driver each send to the other over a bounded channel, and neither
  looks at its incoming channel while it waits for room in its outgoing one.
- *Reporting:* a message the server sends again is not reported again; a text is attributed alike
  whichever way it comes.
- *Stores:* a rewrite may fail or the process die between any two system calls; memory is changed
  before the file is; two views share one file.
- *Device:* `seen` dies with the run, the nonces do not; a message is reported, its nonce saved and its ack
  sent at three moments, and the program may die between any two.

PROJECT.json lists these hazards one by one, each at its line and with the properties that watch it.

## 2. Modules

```
Wiring ── ChatServer* ── CspConnection ─┐
   ├───── Mediator* ──── D2mConnection ─┼─ Client ─ ClientProperties ── MCClient
   └───── CspE2eDriver ── Reporting ────┘     │
                                              └─ Cli ── Device ─ MCDevice
                                                          │ └──implements──> Inbox
AtomicFile ─┬─ NonceStore ──(INSTANCE in)─────────────────┘
            └─ ContactStore ─ MCContacts
Attribution ──┘    └──implements──> ContactBook                          (* = outside this repository)
```

The proofs stand in modules of their own, each extending the one on its left:

```
ClientProperties ─ ClientProofs ─ OrderProofs ─ TransactionProofs ─┬─ ReflectionProofs ─ DeviceProofs
                                                                   └─ BackpressureProofs  (also Device)
NonceStore ─ NonceStoreProofs ──────────────────────────────────────(INSTANCE in DeviceProofs)
ContactStore ─ ContactStoreProofs
```

- **Wiring**: the four channels of `run`, the payloads they carry and the capacities as CONSTANTS.
  A payload is its Rust variant and the identity the protocol refers to it by.
- **ChatServer**, **Mediator** (external): the servers, with as much behaviour as `csp.rs`, `d2m.rs`
  and `e2e.rs` rely on. The chat server releases messages after `unblock-incoming-messages` without
  waiting for acks, up to a `Window`, may send other frames, and may close its half or reset the
  stream. The mediator promotes, relays envelopes, gives the transaction to one device at a time,
  answers in order, and may close.
- **CspConnection**: `run_handshake_flow` and `run_payload_flow`. `cspBuf` holds the frames a read
  has added and `poll` has not returned; `cspHand` is the payload inside `queues.incoming.send(..)
  .await`. One action per turn of the loop: `CspPoll`, `CspForward`, `CspRead`, `CspSend`. When the
  stream has ended and all of it is read, a read returns 0 bytes at once, and the loop comes round without once
  returning Pending: `Spins`. Then no other branch of the select is polled, nor the printer, nor the Ctrl-C task
  (one thread, `main.rs:67`), so their actions carry the guard `~Spins`; what is left is the other branch of the
  connection's own select (`CspSend`), and a frame or payload refused. What another branch
  still does between the end of the stream and the loop's next turn does not depend on that end: the model has it
  before.
- **D2mConnection**: the same for `d2m.rs`. `D2mFlowEnds` drops the channel halves (`d2mOpen`), and
  only then may `D2mFails` complete the runner. In both connections `ProtocolFaults` lets libthreema's state
  machine refuse any frame or payload.
- **CspE2eDriver**: `e2ePc` is the await the driver is in: `idle` (the main select), `poll`, `fetch`
  (HTTP), or the answer of the mediator it waits for. Sends that a handler still has to make stand in
  `outCsp`, `outD2m`; no other action is enabled until they are gone. `Awaited` says which answer the
  wait is for; the `OnX` actions are the arms of the waits and of `handle_unsolicited_d2m`. What the
  task of libthreema yields next is a choice (`Polls`), in the order of its stages, any of which it may
  skip. `DriverFaults` lets a task fail (`e2e.rs:109`), or the promotion be refused (`e2e.rs:187`).
- **Reporting**: `seen`, the filter on text messages, and the order of the two.
- **Attribution**: pure operators, from a message or an envelope and the contacts to the event
  (`DirectEvent`, `ReflectedEvent`, over `ContactName`) and from the event to whom the printed line names
  (`Line`). A joined name is the sequence of its words, so that `""` and no name stay apart.
- **Client**: `run`: connect, select, ends. `RunEnds` names the branch that completed. The set-up before the
  channels are made (`lib.rs:71-115`) loads the files and builds libthreema's contexts: only the files are modelled,
  in the stores and Device.
- **Cli**: `main`'s outer select over `run` and the printer, and the Ctrl-C task.
- **AtomicFile**: `load_json` and `atomic_write_json`, one action per system call, the failure of each,
  the death of the process between any two, and power loss. `durable` is what a power loss may leave
  behind: the file is synced before the rename, the directory never is.
- **NonceStore**, **ContactStore**: the operations of `store.rs` over AtomicFile. Between its calls,
  ContactStore reports texts with the names it finds in memory, as both paths do.
- **ContactBook**: the abstract specification of ContactStore: a call applies its whole batch and returns
  Ok, or applies nothing of it. `NameOf` and `Shown` say, in terms of the saved book, what is printed of a text.
- **Device**: the program over its runs. `Boots` starts `Cli` from nothing but the nonce file, while the
  servers start again from what was not acknowledged; `Exits` is the end of `main` or a kill, at any moment. The
  end of a task is taken apart into handing the message over (`HandsOver`) and saving its nonce (`SavesNonce`,
  then NonceStore's system calls), in either order: which one is libthreema's business, so the constant
  `SaveFirst` lists the messages that save first. `Works` is every other step of Cli, enabled while no save is in
  progress, because `task.poll` is synchronous. Device assumes that every message has an ack (`NoAck = {}`); results
  without one (`e2e.rs:170`) are in Client's runs and theorems.
- **Inbox**: the abstract specification of Device: an item is reported some number of times, then acknowledged,
  after which it is never reported.
- **ClientProperties**: what Client promises, and `FairSpec`.
- **MCClient**, **MCDevice**, **MCContacts**: values a cfg cannot write.

Definitions with a comment "Mutant:" are deliberate faults, used by no specification. Each property
of a passing run has one (`mutants` in PROJECT.json): with it in place of the original, TLC finds the
property violated.

## 3. Runs

| run | shows | bounds |
|---|---|---|
| `messages` | `EachMessageOnceInOrder`, `UnblockOnlyAsLeader`, `NoDuplicateReport`, `TypeOK` | capacities 1; 4 messages, the third being the first again (as to sender and id), the second without an ack; window 2; reads of up to 2 frames; one unexpected message-ack or frame for the connection only; the mediator's queue runs dry; both ends of the stream, protocol errors |
| `transactions` | `ContactsReflectedInTransaction`, `TransactionEndStillToCome`, `ReflectResponseComplete`, `ReflectedOnceInOrder` | one task that fetches, creates a contact and reflects, batches of 0 to 2, any of them ephemeral; 2 transactions of siblings; 2 envelopes, one a text; a failing task, a refused promotion; a closing mediator, protocol errors |
| `backpressure` | `NoCspDeadlock`, `NoD2mDeadlock` | 4 messages, window 3 = 1 + 1 + 1, reads of any size; capacities of the mediator's channels 1 in, 2 out; each task may update a contact, with up to 2 reflects and the commit in one go, beside an envelope: 1 + 3 = 1 + 2 + 1 |
| `progress` | `NothingElseBlocks` | fairness; capacities 1; a task that fetches, updates a contact and reflects, a sibling's transaction, 2 envelopes, so that the mediator's mutual wait of section 5 occurs; the chat stream ends at any moment; failing connects; one command or a dropped sender at any moment |
| `nonces` | `AcceptedNoncesStay`, `NextRunLoads`, `MemoryIsSaved` | 2 nonces, both scopes, every failure, process death and power loss |
| `contacts` | `WholeBatches`: ContactStore implements ContactBook, call by call; `PrintedFromBook` | 2 identities and the user's own, contacts with each field given, empty or missing, deltas of each kind, batches of up to 2, every failure, process death; every kind of conversation, outgoing and incoming, direct and reflected |
| `restarts` | `Delivers`: Device implements Inbox; `AckedIsSaved`, `AllAcked` | fairness; 2 runs; capacities 1; 3 messages, one saved before it is handed over, one that repeats another under its own nonce; death at any moment, every failure of a save, reset, failing connect, Ctrl-C, all in the first run only |
| `csp_mutual_wait`, `d2m_mutual_wait`, `csp_stream_ends`, `connected_too_early`, `report_dropped` | the disagreements of section 5 | the capacities of `lib.rs`, 4 and 16; `d2m_mutual_wait` cuts 16 to 2 |

**Why the bounds are enough.** Capacities are small so that full channels, the case that matters,
are reached with few messages; the code treats no capacity specially, and what is proved is proved for
all. `Total` exceeds what the channels and the hand hold together, so that messages queue on the socket
too. In `backpressure` each connection and the driver come to wait on their full channel, the driver with acks, with
reflects and with the commit; with a window of 4, or with a second envelope, they do so together, so both bounds are
exact. A sequence of the driver's waits is covered by one task: creating and updating a contact are the same code but for the arm of the `match`, and a second task starts
from the same driver state but for `seen`, which `messages` covers. A second transaction of a sibling
makes a begin fail twice. Batches of 2 tell "the last ack" from "an ack". Two runs of the device
are enough for what one run leaves to the next: a run knows of those before it only the nonce file and the
servers' acks. That run has no envelopes (`Reflections = 0`, for its size): what `Delivers` says of them rests on
theorem DeviceDelivers alone. It has no ended chat stream either: such a run of the program is only ended from
outside, by a kill. Every bound is a CONSTANT marked `bound:` in the module that declares it.

`CHECK_DEADLOCK FALSE` is used in the runs of Client and Device only: a run that has ended, or that waits for
servers with nothing more to say, has no next step. The stores are checked for deadlock.

**Fairness.** `FairSpec` assumes weak fairness of each branch of the select: tokio polls a branch
whose future was woken, in random order of the ready ones, so none that stays ready is
passed over for ever, as long as the branch being polled returns Pending. Each does, at its next await that is not
ready, but for a chat connection that `Spins`: waiting for `readable` takes nothing from tokio's cooperative
budget, so it is never made to yield. The guards say so, and the fairness then grants the other branches nothing.
`progress` has it happen at any moment. Fairness is stated per branch, not per action: within a component the
code decides what comes next. In particular nothing is assumed of the select *inside* the driver and the
connections, nor that a task ever stops choosing the same kind of step (the bounds do that). `SenderFetched` is
inside the driver's fairness: the directory requests are taken to answer or fail, which no code here ensures. Of the environment
one thing is assumed, that the transaction of a sibling ends; the mediator enforces a time limit on them.
Servers need not send, promote, or close.

`DeviceFairness` adds, for `AllAcked`, what the claim that nothing is lost for good needs of the surroundings:
the program is started again after each end, the servers promote the device and send what they hold, and in the last
run nothing goes wrong (`Untroubled`: no fault of a connection, no command, no failing save or death).
`Delivers` and `AckedIsSaved` are safety and need none of it.

## 4. Theorems

All are proved for every value of the constants, from the named ASSUMEs of the modules (capacities are
positive, sets have the types declared), which TLC evaluates in the runs.

- **ClientProofs!TypeCorrect** (`Spec => []TypeOK`). `TypeOK` is not inductive: that the mediator connection
  hands over payloads only, and not a datagram of the handshake, depends on the handshake datagrams that may
  still be on the wire at each stage. `TypeInv` adds `D2mWireOK`, which says so.
- **ClientProofs!OnlyLeaderUnblocks** (`Spec => []UnblockOnlyAsLeader`). `PromotionInv` (theorem `PromotedOnce`)
  follows the promotion: the number of RolePromotedToLeader payloads on the wire, in the hand and in the
  channel, and the role, come to at most one, and to none before the mediator has promoted. `UnblockInv` then
  follows the unblock payload from the driver's outbox to the server.
- **OrderProofs!MessagesInOrder**, **ReportedOnce** (`[]EachMessageOnceInOrder`, `[]NoDuplicateReport`).
  `OrderInv` says that there is a number `taken` of messages the driver has taken: the messages on the wire, in
  the buffer, in the hand and in `cspIn` are, in that order, those after it, and the replies on their way and at
  the server those up to it, but for the task. A list in order is stated as a rising sequence whose range is an
  interval (`List`), so that what a read moves from wire to buffer may be a piece of any length. `SeenInv` ties
  `seen` to what was reported.
- **TransactionProofs!TransactionInvariant** and, from it, **ContactsInTransaction**, **EndStillToCome**,
  **ResponseComplete** (`[]ContactsReflectedInTransaction`, `[]TransactionEndStillToCome`,
  `[]ReflectResponseComplete`). Each of the three depends on what is on the way between driver and mediator, in
  both directions. `PipeInv` says that at most one begin, batch of reflects or commit is under way and that it
  is the one the driver waits for; `HolderInv`, that the mediator's holder is what the driver's wait and those
  payloads make it; `EndedInv`, that the end of a sibling's transaction is still ahead of a driver that waits
  for it; `CompleteInv`, that the acks counted so far and those to come are the batch's. The promotion is part
  of the invariant, as an unsolicited payload that every wait must take.
- **ReflectionProofs!ReflectedInOrder** (`[]ReflectedOnceInOrder`). `ReflectedAt(handled)` is for the envelopes
  what `OrderInv` is for the messages. It rests on TransactionInvariant: whichever wait an envelope meets, it
  goes to `handle_unsolicited_d2m`.
- **BackpressureProofs!NoMutualWait** (`Spec => []NoCspDeadlock`). When the server keeps at most `CspInCap +
  CspOutCap + 1` messages unacknowledged, and each message is acknowledged, the chat connection and the driver
  never wait for each other. `WindowInv` is the accounting: the messages sent and not acknowledged are, in
  order, those whose ack is in `cspOut` and `outCsp`, the task, and those in `cspIn`, the hand, the buffer and
  the wire. At a mutual wait the hand, `CspInCap` payloads, the outbox and `CspOutCap` payloads would add up to
  two more than the capacities; an unblock payload cannot be among them, since the server sends no message
  before it has received the only one. The bound is sharp: with one message more the run `csp_mutual_wait`
  reaches the wait.
- **BackpressureProofs!NoMediatorMutualWait** (`Spec => []NoD2mDeadlock`). The same for the mediator, where not
  every payload is an answer to another. `UnaskedInv` counts what the mediator has sent of its own (envelopes,
  promotion, "dry", ends of transactions) together with the acks it causes, wherever they are, against what it
  may still send; `AskedInv` bounds requests and their answers, in both directions, by what the one instruction
  the driver waits on may ask for. The promotion and an instruction need no room at the same time: a task means that
  the driver has been promoted. At a mutual wait the two hands and channels would hold one more than both
  together.
- **NonceStoreProofs!NeverTorn**, **NoncesStay**, **NothingUnsaved** (`[]NextRunLoads`, `[]AcceptedNoncesStay`,
  `[]MemoryIsSaved`). `NonceInv` relates the temporary file, `synced` and the step of `atomic_write_json`: what
  is renamed is whole and synced, what is durable is whole, and, until a power loss, the file holds every nonce
  accepted so far and memory every nonce of the file.
- **DeviceProofs!EveryRun**: what is proved of one run holds in each. `ClientInv` is the conjunction of the
  invariants above but for WindowInv; the proof shows that `Boots` establishes it again from wherever the
  servers' acks stand, and that it survives a task being taken apart into its two effects.
- **DeviceProofs!AckedStaysSaved** (`DeviceSpec => []AckedIsSaved`). `SavedInv`: every answered message is in
  the file, the task's own nonce is as soon as `effects` says saved, and what a save in progress has in memory
  is no less than the file.
- **DeviceProofs!DeviceDelivers** (`DeviceSpec => Delivers`): Device implements Inbox. `ReportsInv` relates how
  often an item was reported to the file: a message of `SaveFirst` is unreported until its save has returned;
  one that is handed over first, and that repeats nothing earlier, is reported once its nonce is saved, because
  `seen` holds only keys of messages this run took; and the texts among the envelopes handled so far were
  reported. `DeliverStep` maps each step to `Report`, `Acknowledge` or a stutter.
- **ContactStoreProofs!BatchesWhole** (`Spec => WholeBatches`): ContactStore implements ContactBook, call by
  call, for batches of any size. `BookInv` says that a run that saves has in memory what the call makes of the
  book (`Becomes`), the last element of the batch deciding for each identity and field. That the fold over a
  batch computes this needs an induction over its length, which no rule of the library gives to these provers:
  it is done by the least element of a set of places (`Least`, `Induction`), taken from the well-foundedness of
  strict inclusion of finite sets. Assumed: no power loss, which may undo a call that returned Ok, since the
  directory is never synced; the run assumes the same.
- **ContactStoreProofs!LinesFromBook** (`Spec => PrintedFromBook`), from `BookInv`: memory is the saved book
  whenever a text can arrive. `NamesAgree` shows `contact_name` to be what ContactBook's `NameOf` says, case by
  case.

**Model-checked only.** Liveness under fairness, which the prover does not cover: `NothingElseBlocks` and
`AllAcked`. Every other property of a passing run is a theorem.

**Assumed of libthreema.** That a task gives its ack only after the nonce is saved and the message handed over: Device's
guard of the end of a task. `AckedIsSaved` shows that nothing else of the program acknowledges a message, and that
what was saved stays so.

## 5. Where code and comments disagree

1. *Mutual wait, chat connection* (`csp.rs:157`, `e2e.rs:171-174`). With the capacities of `lib.rs`, ten
   unacknowledged messages stop connection and driver for ever, with both connections up. `lib.rs:62-64`
   lists the ways a run stops processing; this is none of them.
2. *Mutual wait, mediator connection* (`d2m.rs:104`, `e2e.rs:210-214`). A burst of capacity + capacity + 2
   envelopes does the same; `e2e.rs:203-204` wants the reflection queue to keep moving.
3. *The end of the chat stream* (`csp.rs:109-133`, `csp.rs:211`). A read of 0 bytes is taken for no data, and the
   loop spins without returning Pending: the run does not end, where `lib.rs:62-64` says that it does. Nor does a
   `Command::Shutdown`, or the end of the command channel, end it then, because the select of `lib.rs:161` polls no
   other branch; Ctrl-C (`main.rs:1-2`) is not seen either. `csp_stream_ends` asks for the end of the run only once
   both have happened, so that the one counterexample refutes both clauses.
4. *Connected* (`lib.rs:143-144`, `event.rs:48-49`) is reported before either handshake has begun.
5. *Reports dropped* (`main.rs:98`, against `main.rs:1-2`). `run` may emit an event and complete without
   the printer being polled in between; the select drops what is left. In the run, the message so dropped is
   acknowledged and its nonce saved: no later run prints it.

## 6. What is left out

- **Of libthreema**: the content of the tasks, which frames and payloads its state machines refuse (any may be),
  and at what point of a task nonces and contacts are saved. The stores are therefore models of their
  own, driven by any legal sequence of calls; Device considers both orders of a message's two effects. An `Err`
  of a store ends the run, as an error of `task.poll` does (`e2e.rs:109`). A message whose task fails every time
  ends every run; `AllAcked` is about the others.
- **Pings and pongs** (consumed inside `receive`), echo requests beyond a frame without effect, the TCP-level
  shutdown.
- **Contacts**: only the name fields; nothing in this repository reads the others. `is_explicitly_blocked`,
  `is_member_of_active_group` and the profile pictures answer with constants.
- **One text by both ways**: a text that arrives reflected and directly is reported twice, since `seen` covers
  the direct path only, and so is a repetition in a later run under a nonce of its own. Nothing in the code claims
  otherwise; what is checked is that the two reports show the same.
- Decryption and decoding of envelopes (their outcome is a choice), the layout of printed lines, arguments,
  configuration, HTTP: set-up or pure conversion, with no behaviour of this code to check.

## 7. Plan

Done: the core (channels, connections, driver, run loop, program), the stores, the device across runs with its
abstract Inbox, names and attribution, the bounds under which neither mutual wait happens, what a chat stream that has
ended does to the rest, and a theorem for each safety property of the runs. What a reader may add, in order of
importance:

1. **AtomicFile** as the refinement of an atomic register that a save replaces at once or not at all, under both
   stores, and with it that the contact file is never torn either, and what a power loss may undo.
2. **Cli**: that what is reported is printed, or dropped by the end of the select, and nothing else.
3. **NoMutualWait over runs**: the window accounting from wherever a run starts.
