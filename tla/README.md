# Verification of the spree PBFT core

TLA+ models of the PBFT consensus in `src/pbft`, of the timers it is written for and
of the nodes it runs in, model-checked with TLC on small instances, with the central
safety properties and two refinements proved by TLAPS for every instance. The
reference is the source at this commit; where a doc, comment or assertion disagrees
with the code, the model follows the code and a run shows the disagreement.

## 1. The system

| Part | Source | State | Operations | Status |
|---|---|---|---|---|
| Replica (`pbftCore`) | `pbft/core.go`, `pbft/pbft.go` | view, watermarks, certificates, batch stores, checkpoints, P and Q sets, view-change store, timers | `ProcessEvent` and all it calls | modelled: `Pbft` |
| New view | `pbft/core.go`, `pbft/viewchange.go` | NewView store, missing batches | `recvNewView`, `processNewView`, `processNewView2`, `assignSequenceNumbers`, `selectInitialCheckpoint` | modelled: `PbftNewView` |
| Persistence and recovery | `pbft/pbft.go`, `core.go`, `consensus/consensus.go` | what the consumer stores | `persist*`, `restoreState` | `PbftRecovery`, but for damaged state and a crash after a NewView |
| Event timer and manager | `pbft/tools` | timer loop: countdown, fired event, channels | `Reset`, `SoftReset`, `Stop`, `Halt`, the loops | modelled: `EventTimer` |
| Node | `pbft/server.go`, `main.go`, `NodeInfo` in `pbft.go` | processes, goroutines, connections | accept, read, dispatch, `broadcast`, the loop of `main` | `NodeServer`, handlers interleaving at their broadcasts |
| Configuration | `pbft.go`, `config.yaml` | N, f, K, log multiplier, periods | `LoadConfig`, `NewPbftCore` | constants and assumptions |
| Messages, hashing | `messages.go`, `utils.go` | none | marshalling, `hash` | a message is a record, a batch its digest |
| Signatures, test doubles | `sign.go`, `mock_utils.go` | none | stubs, mocks | not modelled |

**Interaction.** A client (in `main.go`, the main loop) hands a request batch to a
replica. The primary of the view gives it a number and broadcasts a pre-prepare,
backups broadcast prepares, everyone broadcasts commits; a committed batch goes to
the consumer's `execute`, whose completion comes back as `execDoneSync`. Every `K`
batches a replica broadcasts a checkpoint; a quorum of equal ones moves the low
watermark, which drops certificates and batches and makes a primary resubmit the
batches that found its window closed. A view change is started by a conflicting or
too late pre-prepare, by the periodic view change, or by `f+1` others; a NewView ends
it. All messages go through `NodeInfo.broadcast`, which opens a connection for each
peer and message, to the node itself too. The server goroutine of a node reads one
connection after the other and runs the handler on what it read; on the primary the
main goroutine runs handlers too.

**What is hard.**
Messages of three phases arrive in any order, late, twice or never, and each handler
must notice that its message was the missing one. Handlers call each other: a
pre-prepare can run through to execution and a view change in one call. Execution is
asynchronous, so watermarks may move past a batch that is executing. Garbage
collection deletes by number what is shared by digest. The deployed consumer persists
nothing, so a restarted replica votes again; one that persists restores part of what
it was. A new view is computed from the reports of a quorum. Timers race with their
own stop. Goroutines share a replica without a lock, and a peer that is down ends the
process that wants to talk to it.

**What correctness means, part by part.**

- Ordering: the replicas implement one total order of batches; a quorum stands behind
  each execution; what can be executed is executed; the primary gives no number twice.
- Checkpoints: a watermark moves only where a correct replica has been; a replica
  skips execution only when it is behind; the primary resubmits.
- View change: what a replica sent a commit for is in its view-change message; its
  message is one the others accept; it votes no more in the old view.
- New view: from any quorum of view changes that has a checkpoint to start from, every
  number can be assigned; what was committed keeps its number; a number stands for one
  batch in a view; a NewView that came early is taken up.
- Recovery: a replica restored from what it persisted contradicts nothing it sent.
- Event timer: a timer stopped or reset delivers no event of the earlier setting, one
  that runs delivers its event, calls return.
- Node: while all servers serve, no broadcast or read ends a process, the servers do
  not wait for each other in a circle, and everything that is broadcast is handled.

`PROJECT.json` lists the hazards at their lines with the properties that guard them,
and for those no property covers, why.

## 2. The modules

| Module | What it is |
|---|---|
| `Pbft` | the replicas and the network: one operator per Go method, one action per event, the properties |
| `PbftInv` | the inductive invariants: votes and agreement, windows and checkpoints, memory |
| `TotalOrder` | the abstract specification: decisions that are never taken back, delivered in order |
| `PbftOrder` | `Pbft` seen as a total order: the refinement mapping |
| `PbftNewView` | `Pbft` and the second half of the view change |
| `PbftNewViewInv` | the inductive invariant of replicas that go through any number of views |
| `PbftRecovery` | `Pbft` with a consumer that stores, crashes, and `restoreState` |
| `PbftRecoveryInv` | the inductive invariant of crashes and restarts, and what a replica keeps of what it spoke for |
| `NodeServer` | `Pbft` in processes with two goroutines, over connections |
| `AbstractTimer` | what a timer promises the event thread |
| `EventTimer` | the loops of the timers and of the event manager |
| `MCPbft`, `MCPbftNewView`, `MCPbftRecovery`, `MCNodeServer`, `MCEventTimer` | instances for TLC: identifiers, links, symmetry, an action constraint |
| `PbftTypeProofs` | type correctness, and one typing lemma per operator of `Pbft` |
| `PbftProofs` | the invariant of the votes is inductive; agreement and what goes with it; `Pbft` implements `TotalOrder` |
| `PbftWindowProofs` | windows and checkpoints: watermarks, skipping, no panic |
| `PbftMemoryProofs` | what a replica remembers: timer, resubmission, view changes, execution that does not stall |
| `PbftRecoveryProofs` | replicas that restore their state agree, and know all they spoke for |
| `PbftNewViewProofs` | the choice of `assignSequenceNumbers`; decisions, agreement and the total order across views |
| `NodeServerProofs` | a group of nodes that all serve stays up; nodes with two goroutines agree |
| `EventTimerProofs` | `EventTimer` implements `AbstractTimer` |

Definitions headed *Fault* in the modules are not part of the models: each is a
plausible bug in the definition that follows it, with which a run must fail.

### `Pbft`

`rep[i]` is the `pbftCore` of replica `i`, field by field under the fields' names.
A handler is an operator that takes the replica's name and its state and returns the
next state, with the whole chain of calls inside: `RecvPrePrepare` calls
`RecvPrepare`, which calls `MaybeSendCommit`, which calls `RecvCommit`, which calls
`ExecuteOutstanding` and `SendViewChange`, as in `core.go`. What a handler broadcasts
is collected in `out` and put on the network when the handler ends (`Become`): nobody
sees a replica's state before it returns. `NodeServer` refines this.

| Action | Code |
|---|---|
| `RequestArrives` | a request batch through `server.go` or `main.go` to `recvRequestBatch` |
| `DeliverPrePrepare`, `DeliverPrepare`, `DeliverCommit` | the server's switch and `recvPrePrepare`, `recvPrepare`, `recvCommit` |
| `DeliverCheckpoint`, `DeliverViewChange` | the cases of `ProcessEvent` for these messages |
| `ExecDoneSync` | the consumer's report of the batch it was given, or `executeOne`'s own of a null request |
| `ResubmitNext` | one turn of the loop of `resubmitRequestBatches` |
| `Restart` | a crash and a start from what was persisted, which is nothing |

`resubmitRequestBatches` ranges over a Go map while its body changes what follows.
The order is up to the runtime, so the loop is not folded into one operator: the
replica keeps the rest of the loop in `pending` and what the caller does after it in
`resume`. Until the loop has ended the replica takes no other event.

What the code leaves out, `Pbft` does:

- No method builds a `NewView`. `recvNewView` is never called, and a replica that left
  its view stays inactive: views 0 and 1 are the only ones of `Pbft`, `PbftRecovery` and
  `NodeServer` (`TypeCorrect` proves this of the model), and there are no null requests.
- `ProcessEvent` has no case for any timer's event. A timer is the flag
  `timerActive`; an expiry changes no state.
- `NodeInfo.unicast` is a stub, so what the `byzantine` switch would send to some
  peers only is at worst a lost message, which the network already allows.

What it abstracts: a batch is its digest. A checkpoint's id is the sequence of batches
executed, which `getState` stands for: equal ids are equal histories. A certificate is
indexed by its number, as only certificates of the current view pass `inWV` and
`sendViewChange` deletes the rest. A vote is counted by sender; the code keeps the
first of each sender, and so does the model. `recvViewChange` and `sendViewChange` call
each other until no later view has `f + 1` replicas behind it: `ChangeView` unfolds the
turns in one operator, `Onward` is the set of views they go on to. The network is the set of all messages
sent: with `Duplicates` a replica may receive any of them again at any time, otherwise
`taken` records what it has had. `Link` restricts who hears which type of message from
whom. Signatures are not
modelled, as the deployed `sign` and `verify` do nothing; replicas are correct but for
crashing, losing state and losing messages.

Constants stand for the deployment. `Dispatched` is the set of message types the server
hands on (all in the protocol, three of them in `server.go`). `Reports` says whether
the consumer ever reports an execution. `Amnesiac` are the replicas that may restart,
`Live` those that have not crashed for good, `Entry` those clients talk to.

### `PbftOrder` and `TotalOrder`

The abstract state is what was `decided`, a batch for a number, and what each node
`delivered`. The mapping takes as decided every batch for which an intersection quorum
sent commits with one number in one view, and as delivered the batches a replica
executed. No field of any replica is the decision: it is made by the network, often
before any replica knows. A step of `Pbft`, with all its nested calls, must be one
abstract step: at most one delivery, of the next number, of what is decided then.

### `PbftNewView`

`recvNewView`, `processNewView` and `processNewView2` are operators as in `Pbft`, with
their choices: `selectInitialCheckpoint` ranges over a map, so `InitialCheckpoints` is
the set of what it may return. `assignSequenceNumbers` is `AssignSequenceNumbers`, with
its conditions A1, A2 and B under the names `Unopposed`, `Vouched` and
`NullSelectable`. Where it returns nil, `Assignable` is false.

`processNewView` takes the stored NewView of the replica's own view (core.go:745), not
the message that came: a NewView of a later view is stored, and the replica processes
the one of its view if it has that. `recvNewView` is one of its callers. The other is
`recvCheckpoint`, which ends in it (core.go:557): a replica that waits in a view
enters it when it counts a checkpoint quorum for a checkpoint of its own. So the actions
that run `recvCheckpoint` are actions of this module: `DeliverCheckpointToEnd` for a
message, and `ExecDoneSyncToEnd` for the replica's own `Checkpoint` in the middle of
`execDoneSync`, which goes on in the new view afterwards. `EndCheckpoint` is their common
end, `ReachesOwn` the conditions under which `recvCheckpoint` gets to its last line, and
`Return` what the caller still does. The other handlers are those of `Pbft`, under
`Otherwise`.

`SendNewView` is external: no code sends the message. Its content is what
`processNewView` verifies, from the view changes the new primary holds and with the
numbers the code computes, and it is handled at once by the sender as all sends of
`core.go` are. The store of NewViews, and the batches a replica asks for and never gets
(`ProcessEvent` handles neither `FetchRequestBatch` nor the answer), are variables.

### `PbftRecovery`

`stored[i]` holds what was written under the keys `pset` and `qset`, at the calls of
`persistPSet` and `persistQSet`: `StorePrepare`, `StorePrePrepare` and `StoreNumber`
are the handlers that store, `StoreNothing` the rest. Batches and checkpoints are
stored and deleted with the fields that hold them. `Recover` is a crash and
`restoreState`: the sets, the view and next number taken from them, the number up to
which the application is done (with or without the batch it was executing), the low
watermark at the oldest checkpoint. `Durable` are the replicas with a consumer that keeps
what they store, the only ones that crash here: nobody loses its state, so `Amnesiac` is
empty and `Restart` of `Pbft`, which restores nothing, is no step.

### `NodeServer`

`proc` is the process of a node, `server` its server goroutine, `queue` the connections
that wait for it, `thread` what a goroutine has yet to broadcast. `Dial`, `Write` and
`Return` are the parts of `broadcast`: the peers come in the order of a map; a peer that
does not listen ends the process (`os.Exit`), and its other goroutine with it; the
connections it opened read as ended. `Serve` accepts, reads and runs the handler up to
its first broadcast, `StopServing` is a read error, which ends the accept loop. The
handler goes on at `Return`, on what the other goroutine has made of the replica since.
Only the three types of the server's switch that a node of `main.go` sends are handled,
and the consumer reports nothing.

### `EventTimer` and `AbstractTimer`

One action per case of the two selects. The channels are unbuffered, so a send and its
receive are one step: `ReceiveStart`, `ReceiveStop` and `Deliver` are the rendezvous.
`timerChan` is nil, counting or due, `eventDestChan` the manager's queue or nil, as the
loop switches its cases on and off. The event thread blocks in a call until the timer's
loop takes it, for ever if the timer was halted. `AbstractTimer` knows only whether a
timer is armed and with which event; the mapping is `armed` and `serving`.

## 3. The runs

Every passing run explores its instance completely; that of `choice` has an action
constraint.

| Run | Instance | Shows |
|---|---|---|
| `window` | two replicas, four numbers, K = 2, batches sent twice, a view change after number 4; 80k states | type invariant, `NoEquivocation`, `NothingLeftToResubmit`, `TimerGuardsOutstanding`, `NoPanic`, the proofs' invariant `CheckpointsAgree`: the window of the primary closes and opens, batches are resubmitted |
| `amnesia` | the primary of four restarts without state and numbers again, a view change after number 1; 56k | `Agreement`, `CommitsAgree`, `ExecutionIsBacked`, the proofs' invariants `VotesBackExecution` and `NothingForgotten`, and `ImplementsTotalOrder` |
| `live` | three live of four, two batches, each message once, K = 1, a window of one; 42k | `RequestsExecute`; `NoStalledExecution` and `WatermarkIsVouched`: the messages of two numbers in all orders, execution and checkpoints interleaved |
| `newview` | two replicas, four numbers, view 1 after two; 72k | `ImplementsTotalOrder` across the view change, `OneBatchPerNumber`, `SkipsOnlyWhenBehind`, `NoVotesAfterViewChange`, and a type invariant that says an active replica was sent the NewView of its view |
| `choice` | four replicas, two numbers, view 1 after both; one orders nothing, one moves its watermark to a checkpoint; 48k | `NumbersAreAssignable` and `NewViewKeepsCommitted` over every set of three or four view changes; `StoredNewViewIsTakenUp`: a NewView that comes early is stored and its view entered from `recvCheckpoint`; `ViewChangeCarriesPrepared`, `TimerGuardsOutstanding` |
| `recovery` | two replicas that persist, two crashes; 45k | `Agreement`, `ExecutionIsBacked`, `NoEquivocation`, `NoPanic`, `VotesAreStored`, and the proofs' invariant `StateIsRestorable` |
| `node` | two processes, two batches, one process may be killed; 155k | `StaysUp`, `GroupSettles`, `ExecutionIsBacked`, a type invariant that says no server waits in `Read` for what nobody will write |
| `timer` | two timers and a manager, of which one timer and the manager are halted; 25k | `KeepsContract` (the refinement), `CallsReturn`, `TimersFire`, `HaltEnds`, type invariant |

In `choice` a new primary has a choice, and its sets of view changes differ in all that
matters to `assignSequenceNumbers`: the P and Q entries of the three that committed, the
empty ones of the fourth, and those of one that dropped an entry with its watermark. There
are sets with two of the three that committed, sets that start at checkpoint 0 with a
view change from above it in them, sets that start at checkpoint 1, and sets without a
checkpoint. The replica that hears checkpoints is also the one the NewView overtakes: it
enters view 1 from `recvCheckpoint` for a message and from its own `execDoneSync`.

Runs expected to fail, each a disagreement between the code and what a comment or an
assertion says:

| Run | Property | What happens |
|---|---|---|
| `late_checkpoint` | `ViewChangesAreCorrect` | A replica falls behind while it executes. Its watermark jumps; `execDoneSync` then adds a checkpoint below it; the next view-change message fails `correctViewChange` everywhere |
| `shared_batch` | `ViewChangeCarriesPrepared` | A client hands a batch in again and it gets a second number. Collecting the certificate of the first drops the batch from `reqBatchStore`, where `prepared()` looks for it: the view change leaves out the second number, for which a commit was sent |
| `forgotten_view` | `NoVotesAfterViewChange` | A primary that persists sends its view change, crashes, restores itself into the view it left, as nothing stores the view, and numbers another batch there |
| `race` | `EventsAreSerial` | The main goroutine of the primary is in a handler while the server goroutine runs another on the same `pbftCore` |

### Bounds, and why they are enough

- *Replicas.* Four with `f = 1` where quorums or faults matter: the smallest system
  with a faulty replica. Two with `f = 0` where the question is about one primary and
  one backup: window and resubmission, a new view's numbers, one replica's restore, two
  processes. Then a quorum is both, and nothing can be hidden in a minority; `amnesia`,
  `live` and `choice` are the runs with minorities.
- *Numbers* (`MaxSeqNo`). One where the question is about one number, two for the
  order of execution and for a checkpoint with a number beyond it, four for a window that
  closes and opens, and for a new view that starts at a checkpoint, carries one number
  over and assigns more.
- *Batches.* One or two, three where a client's retry competes: two suffice for any
  disagreement.
- *Views* (`MaxView`). NewViews for view 1; view 2 is started, not entered. So no handler
  of a run goes on over two views (`Onward`); the theorems are about any number of views.
- *Checkpoints* are not delivered in `newview`: there watermarks move by the initial
  checkpoint of the NewView. In `choice` one replica gets them, so that watermarks differ.
- *Links.* `choice` delivers the messages its question needs (`GroupLinks`): those with
  which three replicas order batches and change the view, those that take the fourth along,
  and those that one replica gets of checkpoints and of the NewView. The rest is lost,
  which the network may do. `StragglerLinks` of `late_checkpoint` likewise.
- *Own messages.* `Link` leaves a replica's own messages out in the runs with views and
  in `live`: its handler has already counted them when it sends them.
- *Symmetry.* Batches are interchangeable. So are the replicas with identifiers 2
  and 3 where both are alive and neither is restricted: no property and no reachable
  state makes them primary. Liveness is checked without symmetry.
- *Action constraints.* `late_checkpoint` lets `r2` run only after the others are done,
  to find its counterexample sooner: it is a behaviour of the whole specification.
  `choice` hands in the second batch when two replicas have committed the first; the
  orders of two numbers are the question of `live`.
- `CHECK_DEADLOCK FALSE` everywhere: without new requests the system is at rest; all
  processes may have ended; a halted manager may have returned.

### Fairness

- `Pbft`: weak fairness of `React(i)` for each live replica: its server goroutine keeps
  reading, and its consumer reports the batch it executes. Clients and restarts are
  under no obligation. The condition that enables `React` is written out (`CanReact`)
  because TLC is slow at deriving it. `live` uses `Duplicates = FALSE`, in which each
  message is taken once and none is lost between live replicas. Without this a replica
  may be served the same message for ever.
- `NodeServer`: weak fairness of each goroutine. Processes need not be started, main
  need not send, nobody need be killed.
- `EventTimer`: weak fairness of each goroutine's steps and of time. Strong fairness
  where a Go select chooses at random among its ready cases, and of the rendezvous of a
  fired timer with the manager, whose senders queue first come, first served. The
  receiver returns, and does not return events for ever.

## 4. What is proved

For all values of the constants that satisfy the modules' assumptions:

| Theorem | Statement |
|---|---|
| `PbftTypeProofs!TypeCorrect` | `Spec => []TypeOK` |
| `VotesAlwaysBackExecution` | `Spec => []VotesBackExecution` |
| `NeverEquivocates` | `Spec => []NoEquivocation` |
| `CommitsAlwaysAgree` | `Spec => []CommitsAgree`, if at most `f` replicas may lose their state |
| `AgreementHolds` | `Spec => []Agreement`, under the same assumption |
| `ExecutionAlwaysBacked` | `Spec => []ExecutionIsBacked`, under the same assumption |
| `TotalOrderHolds` | `Spec => ImplementsTotalOrder`, under the same assumption |
| `CheckpointsAlwaysAgree` | `Spec => []CheckpointsAgree` |
| `SkipsOnlyBehind` | `Spec => []SkipsOnlyWhenBehind` |
| `WatermarksAreVouched` | `Spec => []WatermarkIsVouched`, if there is more than one replica |
| `NeverPanics` | `Spec => []NoPanic`, if at most `f` replicas may lose their state |
| `TimerAlwaysGuards` | `Spec => []TimerGuardsOutstanding` |
| `NothingIsLeft` | `Spec => []NothingLeftToResubmit`, if the primary keeps its state |
| `NoVotesAfter` | `Spec => NoVotesAfterViewChange`, if every replica keeps its state |
| `ViewChangesCarryPrepared` | `Spec => [](NumbersOnce(msgs) => ViewChangeCarriesPrepared)` |
| `ExecutionNeverStalls` | `Spec => [](NumbersOnce(msgs) => NoStalledExecution)`, if at most `f` replicas may lose their state |
| `NothingIsForgotten` | `Spec => []NothingForgotten` |
| `StateIsAlwaysRestorable` | `RecoverySpec => []StateIsRestorable` |
| `RecoveryAgreement`, `RecoveryCommitsAgree`, `RecoveryExecutionIsBacked`, `RecoveryNoEquivocation`, `RecoveryNoPanic` | `RecoverySpec => []Agreement`, and so on for `CommitsAgree`, `ExecutionIsBacked`, `NoEquivocation`, `NoPanic`: whoever crashes and restores its state, and however often |
| `VotesAreAlwaysStored` | `RecoverySpec => [](NumbersOnce(msgs) => VotesAreStored)`, if there is more than one replica: pre-prepares and prepares are in the stored Q set, or `f + 1` replicas reported a checkpoint past them |
| `SelectionKeepsPrepared` | `AssignSequenceNumbers` gives a number to the batch a quorum prepared for it |
| `ViewsAlwaysAgree` | `NewViewSpec => []ViewsAgree`, the inductive invariant |
| `NewViewTypeCorrect`, `OneBatchForEachNumber` | `NewViewSpec => []NewViewTypeOK`, `NewViewSpec => []OneBatchPerNumber` |
| `NewViewCommitsAgree`, `NewViewExecutionIsBacked` | `NewViewSpec => []CommitsAgree`, `NewViewSpec => []ExecutionIsBacked` |
| `NewViewCarriesPrepared` | `NewViewSpec => [](Once => ViewChangeCarriesPrepared)` |
| `DecisionsAlwaysStand` | `NewViewSpec => [](Once => DecisionsStand)`, if `N <= 3f + 2` |
| `NewViewAlwaysKeepsCommitted` | `NewViewSpec => [](Once => NewViewKeepsCommitted)`, if `N <= 3f + 2` |
| `NewViewAgreement` | `NewViewSpec => [](Once => Agreement)`, if `N <= 3f + 2` |
| `NewViewTotalOrder` | `NewViewSpec /\ []Once => ImplementsTotalOrder`, if `N <= 3f + 2` |
| `CutOffsAreExits`, `GroupStaysUp` | `NodeSpec => []CutOffByExit`, `NodeSpec => StaysUp`, with goroutines that interleave at broadcasts |
| `NodeTypeCorrect` | `NodeSpec => []NodeTypeOK`, if `MaxSubmissions > 0` |
| `NodeExecutionBacked`, `NodesAgree` | `NodeSpec => []ExecutionIsBacked`, `NodeSpec => []Agreement`, if also `ViewChangePeriod = 0` and `Amnesiac = {}` |
| `EventTimerProofs!TypeCorrect`, `TimerKeepsContract` | `Spec => []TypeOK`, `Spec => KeepsContract` |

Here `Once` is `NumbersOncePerView(msgs)`.

The assumption `Cardinality(Amnesiac) <= f` is needed: with `f + 1` restarts two
replicas can execute different batches as number 1, as `StoreState` stored nothing
of the votes. It is a hypothesis of the theorems and not an `ASSUME` of the module,
which describes the program whatever restarts. The others are needed too:

- A replica that is alone counts its own checkpoint and moves its watermark before it
  broadcasts it (`execDoneSync` checkpoints, then sends): `WatermarksAreVouched` is for
  groups.
- A primary that lost its state may find its own pre-prepares in the certificates of its
  next numbers, where `sendPrePrepare` refuses the batch it waits for: `NothingIsLeft`.
- A replica that lost its state knows of no view change it sent and is back in view 0:
  `NoVotesAfter`. The run `forgotten_view` shows that keeping what the code stores is
  not enough.
- The node theorems speak of the group as it is deployed: `config.yaml` sets
  `ViewChangePeriod` to 0, main sends each of its batches (so the bound `MaxSubmissions`
  has to allow one), and no process of `NodeServer` starts twice, so none is without
  its state.
- `NumbersOnce(msgs)` says that the primary gave no batch two numbers. A client's retry
  makes it false, and with it fails what the run `shared_batch` shows. It is a condition
  on the messages sent so far and not on the instance: a behaviour is covered up to the
  pre-prepare that breaks it. `NumbersOncePerView` is the same for each view: a batch
  that keeps its number through a NewView, or gets another in a later view, does not
  break it.
- `N <= 3f + 2` is for condition B of `assignSequenceNumbers` (viewchange.go): a null
  request is chosen when a quorum reports nothing prepared, without the `m.h < n` that A1
  asks for, so view changes count that dropped the entry because the number is below their
  watermark. Then a committed number is safe only if any three quorums share a replica:
  one that committed it, has a watermark below it, and reports nothing. Three quorums do
  in a group of at most `3f + 2`, in particular in one of `3f + 1`, as `config.yaml` has.
  `LoadConfig` accepts larger groups; of these nothing is claimed about agreement across
  views. The theorems about
  `NewViewSpec` without this condition hold for them too.

**Agreement.** `TypeOK` is inductive with one addition: an active replica is in
view 0. It needs `LowWatermark(n) = n` for the number of a checkpoint and a greatest
element in a bounded set of numbers (`GreatestType`).

`Agreement` is not inductive: it speaks of logs, and logs agree because of votes sent
long before. `VotesBackExecution` says (a) a certificate records only what was sent;
(b) commits are sent, and batches executed, only for a *backed* batch, one the
primary pre-prepared and an intersection quorum less one of backups prepared; (c) a
replica that never lost its state knows of each prepare above its low watermark and
of the highest number it assigned, so it votes once for a number; (d) execution
follows the numbers, which ties the position in a log to the number of a
certificate. Handlers nest, so each part is a predicate of one replica's state and
the messages sent so far; `Good(i, s, B)` is that predicate in the middle of a
handler, and there is one lemma per operator saying that it is preserved. A vote is
shown not to conflict where it is sent (`SendVoteGood`), and the low watermark only
rises (`MoveWatermarksGood`), so a number whose certificate is gone gets no vote
again.

Two backed batches with one number are one (`BackedOnce`). If the primary kept its
state it sent one pre-prepare for the number. If it did not, it is one of the `f`,
and the two sets of backups share `2(Q - 1) - (N - 1) >= f` replicas, one more than
the `f - 1` others that may have forgotten (`SharedBackup`): one of them prepared
both and never twice. Note that `prepared()` asks for `Q - 1` prepares of others than
the primary, which makes the count come out with nothing to spare.

**Windows and checkpoints.** That two checkpoints of a number agree (core.go:508) is a
fact about the past of two replicas. `CheckpointsAgree` says that a checkpoint, kept or
sent, is a *history*: as many batches as its number says, each backed. Histories of one
length are equal by `BackedOnce`. The rest of it is about the window. A certificate with
a pre-prepare lies in it. Nothing executed is beyond it, so a replica that jumps to a
number past its high watermark is behind that number (`SkipsOnlyWhenBehind`): the batch
that is executing counts. What a replica counts of others, in `checkpointStore` and
`hChkpts`, they sent. Its own checkpoint it counts before it is sent, but never as one
beyond its high watermark, so a watermark that jumps was reported by `f+1` others, and
one that is confirmed by a quorum less itself. The step needs `PassedBy` to be bounded by
what was recorded, and a weak certificate to survive the deletion of the lower entries.

**Memory.** `VotesBackExecution` knows which votes a replica may not repeat; it says
nothing of what a replica must still be able to do. `NothingForgotten` does. The votes a
replica cast in its view above the watermark stand in its certificates, with the
prepares that a commit needs. A replica has left view 0 if and only if it sent a view
change, so a vote of a handler means that it had not when the handler began. The batches
of its certificates are in `reqBatchStore`: for this no batch may have two numbers, as
`moveWatermarks` deletes by number what is shared by digest. From these the P set of
`calcPSet` is complete when `sendViewChange` takes it, before it empties the
certificates. The primary has numbered the batches it waits for whenever it could,
those left of the running loop excepted: the one moment that could break it is a
watermark that opens the window, and there `resubmitRequestBatches` takes up the rest.
The timer runs whenever a batch is waited for, through every way out of `recvCommit`,
which stops it first. `Memory(i, s, B)` carries all of this through nested handlers.

**Execution does not stall.** `Caught(s)` says of a replica's state that it is executing,
has given up executing, or could not execute its next number. It is inductive beside
`NothingForgotten`, but not operator by operator: between filing the last vote and the
call of `executeOutstanding` it fails for one number. `CaughtBut(s, k)` excepts that
number, and the lemmas follow it through the chain `recvPrePrepare`, `recvPrepare`,
`maybeSendCommit`, `recvCommit`. Two facts close it. If a certificate was not prepared
before, its replica has not sent its commit, so filing its own commit is a change that
`recvCommit` looks at; if it was, `executeOutstanding` has been called for it.
`recvCommit` asks whether the number is committed for the digest of the message, which is
that of the certificate only because commits agree, hence the bound on lost states.

**Recovery.** With what `core.go` stores, no bound on crashes is needed: all replicas
may crash, over and over, and agreement holds. The handlers are those of `Pbft`, so the
invariants of votes and of checkpoints carry over once they are stated without what a
restart breaks: a restored replica has P and Q entries of view 0 in view 0
(`SetsFromVotes` says that these too record what was sent), it may prepare a number
again and does not remember that it did (harmless where the primary knows its numbers),
and its low watermark is one it took from its own checkpoint, vouched for by no other
replica (`CountsReached` excepts the base `b` it started from). What is new is that each
state has to be fit to be restored, `StateIsRestorable`: the stored sets record votes
that were sent; a primary has stored the last number it gave (`StoresNumbers`), as
`sendPrePrepare` calls `persistQSet` before any message leaves; and the watermark that
`restoreState` computes from the oldest checkpoint leaves the application's last number
in the window (`Restorable`). `RestoredIs` says what `restoreState` makes of that; a
replica restored from it votes for nothing else under a number it voted on, which is
(c) above for a replica that forgot its certificates.

`VotesAreStored` needs the history of the watermark. `moveWatermarks` drops stored votes
below it, and a crash may set it back. `SpokenIsKept` gives what a replica spoke for one
of three reasons: `f+1` replicas reported a checkpoint past it (`Passed`); a stable
number past it is executed and no checkpoint kept is below that number, so no restart
brings the watermark back under it (`Behind`); or it is known to the running replica,
and stored. Votes are stored before they are broadcast
(`persistQSet` and `persistPSet` come first everywhere), so a crash in the middle of a
handler is one after it, of a handler whose last messages were lost.
That two replicas are needed is as for `WatermarksAreVouched`. `NumbersOnce` is needed
as `moveWatermarks` deletes by number a batch that the Q entry of another number needs.
The proof found the property too strong: without `Passed` it is false in larger
instances (section 5), though TLC finds no violation in the run's.

**Total order.** Decisions are not contradicted by `CommitsAlwaysAgree` and grow with
the messages; what is executed is decided by `ExecutionAlwaysBacked`. What is left is a
fact about steps: whatever handlers a step nests, it executes at most one batch.
`AtMostOne` is the relation between a state at the start of an operator and one at its
end, closed under composition because only an idle replica executes and it is not idle
afterwards; the one step that could execute twice, a turn of the resubmission loop that
also resumes `execDoneSync`, is ruled out by (d) above.

**The choice of a NewView.** `SelectionKeepsPrepared` takes a set of view changes, one a
sender, at most `f` of which (`F`) may carry anything. Its hypothesis `QuorumReports` is
what the protocol has to bring about: of a quorum `D` the senders outside `F` have a P
entry for the number in view `v` or a later one, and no sender outside `F` has a P or Q
entry for it in such a view with another digest. Then A1 and A2 can hold for no other
batch, and not the condition for a null request: two quorums share a sender outside `F`.

**One view after another.** `ViewsAgree` is stated for any number of views. What was sent
is `Sound`: the numbers of a view beyond the first come from its one NewView, or from
pre-prepares beyond all the NewView gave (`Numbered`), so in a view a number stands for
one batch (`Named`, `NamedOnce`); view changes report what stood in earlier views
(`Reported`) and what their senders committed (`Carried`); a NewView is what the code
computes from its view changes (`Derived`). What replica `i` holds is `Knowing`: its
certificates are of its view and `Named`, it votes in no view beyond its own and commits
only when active, it would report what it committed above its watermark, and each batch
in its log was decided in some view. Again there is one lemma per operator, from
`ExecuteOne` to `ProcessNewView2` and its loop over the assigned numbers: `Leads(i, s, t,
B)` says that a handler that is sane in `s` is sane in `t`, in the same view or a later
one, and sent no NewView on the way. The case that took the most is `sendViewChange` in
the middle of a handler: the certificates it empties are what the commits rest on, and
the P set it takes first has to carry them on. Where a handler goes on over several views, the later turns find no
certificate left and report the P set of the first. A view is entered from three places, and the lemmas on
`ProcessNewView` are about any of them: `recvNewView`, `recvCheckpoint` for a message, and
`recvCheckpoint` for the checkpoint that `execDoneSync` took.

`DecidedStands` is the induction over views, by a least counterexample. Say a quorum
committed `d` under `n` in view `v`, and `w` is the least view after it where `n` stands
for something else. View `w` has a NewView, from view changes of `w`; a quorum of them
has a watermark not above the checkpoint chosen. A sender of these that committed `d`
reports it from `v` or a later view (`Carried`), in all of which, up to `w`, `n` stands for
`d`. So A1 and A2 leave only `d`, B fails, `n` is in the window the NewView assigns, and
the NewView gives `n` to `d`; a pre-prepare of view `w` is beyond it. This is
`SelectionKeepsPrepared` with `F = {}` where senders may have dropped the entry
(`ReportsAbove`). Agreement and the refinement of `TotalOrder` follow: the lemmas on what
a step executes are about operators and serve both systems (`StepExecutes`,
`OneStepImplements`). A step that ends an execution, moves the watermarks, enters a view
and counts its assigned numbers could execute twice, as `execDoneSync` looks for the
next batch when `recvCheckpoint` has returned. It does not: `execDoneSync` clears
`currentExec` only after its checkpoint, so the handlers that enter the view still find
the replica executing (`Busy`) and execute nothing.

**Nodes.** A connection that has no data when read was opened by a process that ended
(`CutOffByExit`); while all serve no process has ended, so no dial fails and no read
does. The invariant relates each connection to the goroutine that is about to write it.
A handler is atomic between its broadcasts here: two goroutines in one Go map at the same
time, which the runtime may end the process for, are outside the model and the theorem.

That nodes agree does not follow from the theorems about `Pbft`: there a handler runs
alone, here `sendPrePrepare` broadcasts, the other goroutine runs handlers on the same
`pbftCore`, and only then `maybeSendCommit` runs, on whatever it finds. The lemmas of
`PbftProofs` are about operators and not about steps of `Pbft`, so they apply to each
half: the first ends in a `Good` state with the pre-prepare sent, and `maybeSendCommit`
keeps any state of view 0 `Good` (`ReturnStays`). Hence the nodes have to stay in view 0.
They do, as a backup never finds another batch under the number of a pre-prepare: the
primary sent both and votes once (`RecvPrePrepareStays`). The type invariant shows that
what goroutines and connections carry was sent. The proof found `Handle` with a `CASE`
whose guards overlapped for a message that is not dispatched; it is now an `IF`.

**Timers.** The simulation is step by step: a loop that takes a call answers, one that
delivers delivers, one that counts or fires does nothing the contract can see. Type
correctness carries the reason: a fired timer and a running one hold an event, and
never both at once.

**Only model-checked.** Liveness (fairness is beyond the prover), and of `PbftNewView`:
`NumbersAreAssignable`, `StoredNewViewIsTakenUp`, and `SkipsOnlyWhenBehind`, `TimerGuardsOutstanding` and `NoVotesAfterViewChange` in views
beyond the first, which are proved of `Pbft`. `NumbersAreAssignable` is not claimed for
every instance: a new primary that lacks a batch its NewView assigns has no Q entry for
it, as `calcQSet` asks for the batch, and A2 counts Q entries. Of
`Pbft`, `PbftRecovery`, `NodeServer` and `EventTimer` every safety property of a passing
run is proved. `ViewsAgree` and `DecisionsStand` were also evaluated by TLC on instances of
the new-view runs, where they and `NumbersOncePerView` hold in every state.

## 5. Observations that are no findings

Met while modelling. No document, comment or test of the repository promises otherwise,
but for the comment of `SoftReset`.

- `SoftReset` of a timer that has fired drops the event that is on its way: the loop asks
  whether the timer counts down, which a fired one does not, and sets `eventDestChan` to
  nil (timer.go:77). The comment of the method says "this will not clear any pending
  events" (timer.go:104); it is not so. The models follow the code: `AbstractTimer` lets a
  soft reset drop a fired event, and `TimersFire` excepts the case, so no run shows it.
- Timer events are unknown to `ProcessEvent`: a silent primary is never replaced.
- The deployed consumer reports no execution, so the second batch is never executed.
- With a third batch and `K = 1`, log multiplier 2, a pre-prepare may reach a backup
  whose window is behind the primary's. It is dropped, nobody sends it again.
- For the reason of `shared_batch` a replica may also have all it needs to execute a
  batch and not execute it: `NoStalledExecution` holds while no batch has two numbers.
  The passing runs with these two properties hand each batch in once.
- After `restoreState` the low watermark may be one no quorum vouched for, votes for the
  numbers below it are refused, and the P set may lack a batch the restored sets let a
  replica commit: `WatermarkIsVouched`, `NoStalledExecution` and
  `ViewChangeCarriesPrepared` fail in `PbftRecovery` and are not claimed there.
- A straggler whose watermark jumps (`weakCheckpointSetOutOfRange`) drops the votes it
  stored below it; a crash before it has a checkpoint of its own puts the watermark back
  to what it executed, below votes it no longer knows. They are for numbers that `f+1`
  replicas have executed and checkpointed, so `VotesAreStored` excepts those.
- A restarted replica that gets its own old prepare before the pre-prepare returns
  before it looks at the commits (`core.go:212`): `NoStalledExecution` excepts it.
- A replica whose own view change fails `correctViewChange` (run `late_checkpoint`) stops
  at the first view it goes to, also when `f + 1` others are beyond it: its
  `recvViewChange` returns before it looks at them. `ChangeView` has this.
- A NewView that was stored is processed again when the replica counts a checkpoint
  quorum for a checkpoint of its own (core.go:557), and not before: not when the view
  change arrives that takes it to that view. `StoredNewViewIsTakenUp` says how long that
  leaves it. A batch that the NewView assigns and the replica lacks stays in
  `missingReqBatches` for ever, as nothing removes it there, and with it the replica stays
  inactive; the property excepts this. The delay of `processNewView` for a replica that
  can execute to the checkpoint is not reached: the certificates it looks for were deleted
  when the replica left its view.
- `N - f` view changes of correct replicas may hold no checkpoint to start from: two sent
  before their replicas had checkpoint 1, one whose replica had discarded checkpoint 0.
  `selectInitialCheckpoint` finds none with `f + 1` entries that `N - f` watermarks do not
  exceed. A fourth view change helps. The properties of the run `choice` speak of
  the sets that have a checkpoint.

## 6. Plan

Done: `Pbft` with agreement; `EventTimer` and its contract; `PbftNewView`, which holds
the selection; `PbftRecovery`; `NodeServer`; the total order and its refinement.

Proved of `Pbft`, `PbftRecovery`, `NodeServer` and `EventTimer`: every safety property
their passing runs check.

Proved of `PbftNewView`: type correctness, one batch a number, decisions that stand,
agreement, and the total order.

Left: whether and when `NumbersAreAssignable` holds for every instance; proofs of
`StoredNewViewIsTakenUp`, of the timer and of skipping across views; a run in which a
replica goes on over two views in one handler; replicas that lose their state in views beyond the first.

## 7. Not modelled

Marshalling and generated message code, hashing, signing (stubs that accept
everything), reading configuration files, logging, `mock_utils.go` and the tests.
State transfer is the flag `stateTransferring` only: `NodeInfo` never completes one, and
`skipInProgress` therefore stays set. Of a stored view-change message `Pbft` keeps view
and sender; `PbftNewView` finds the rest among the messages. Interleavings of two
goroutines finer than a broadcast (a read of one between a check and a write of the
other), messages longer than the server's buffer, damaged stored state, and a crash
after a NewView was entered.
