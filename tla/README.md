# A verification of godox-tl

godox-tl drives Godox mesh lights from Homebridge, a CLI and a library. This
directory holds TLA+ models of its concurrent core, TLC configurations that
check them on small instances, and TLAPS proofs of the safety properties for
instances of any size, one module of proofs for each component.
`PROJECT.json` maps every definition to the source lines it stands for and lists
the runs, the seeded faults, the hazards and the theorems.

To run a check or the proofs:

    tlc -workers 2 -config SequenceLock.cfg MCSequenceLock
    tlapm SequenceLockProofs.tla
    tlapm ReservationProofs.tla
    tlapm CommandQueueProofs.tla
    tlapm ControllerProofs.tla
    tlapm BleConnectionProofs.tla
    tlapm ProvisioningProofs.tla
    tlapm DiscoveryProofs.tla
    tlapm AccessoryProofs.tla

## 1. The system

The lights of one mesh share a network, a source address and a 24-bit sequence
number. A light drops every message whose (IV index, sequence number) is not
larger than the last it accepted from that source, so everything that sends from
one source, in whatever process, has to agree on one rising counter. A light
accepts one BLE connection at a time, and the native BLE library (noble) can
neither be trusted to answer nor be cancelled. Those two facts account for most of
the code below.

    Homebridge platform, discovery  ----- light registry ----- CLI
          |             |                                      |
          |             +---- provision, rebind (config) ------+---> BLE
          |                                                    |
    Homebridge accessory --- debounce ---+            CLI / library caller
                                         |                     |
                                         +------ controller ---+
                                                   |
             command queue  (one command at a time, coalescing, cancellation)
                                                   |
             controller     (writer, timeout, retry, fence, idle close)
                   |                               |
       sequence reservation                  BLE proxy connection
      (counters, pointers, state files)      (generations, cleanup, adapter mutex)
                   |                               |
       sequence lock (lock directory)        noble
                   |
             file system, shared with the other processes

| Component (source) | State it keeps | Operations | What is hard | What makes it correct |
|---|---|---|---|---|
| Sequence lock (`mesh/src/sequences.ts` 79-284) | one symlink per waiting or holding call, a ticket in each | acquire, wait, time out, abort, release, reap the dead | interleaved directory reads, dead processes, ticket overflow | one holder, first come first served, nobody starves |
| Sequence reservation (`sequences.ts` 286-538) | a counter file per store, a pointer beside each state file, the state files | reserve a range and hold the lease while it is used, discover state files, migrate a store | processes that know different files and prefer different stores, crashes between writes, restored files | sequence numbers sent rise strictly, one sender at a time, every call ends |
| Command queue (`mesh/src/commandQueue.ts`) | batches, the tail to coalesce into, the active batch, the worker | send, cancel, drain, close | fibers that interleave at every await, lost wakeups, cancellation in the middle of a claim | serial, ordered, everybody answered, close joins |
| Controller (`mesh/src/controller.ts`) | the cached writer, what is known of the light's power, the idle timer, the fence of a retired writer | one command with timeout and retry, idle close, close | deadlines against hung native calls, a retry racing a cleanup, other controllers of the source | one connection, none lost, no settings to a dark light, everything ends |
| BLE proxy connection (`mesh/src/ble/proxy.ts`) | owner and cleanup of each peripheral | connect, discover, write, disconnect | native calls that complete after they were given up | an old handle never ends a new connection |
| BLE adapter (`ble/noble.ts`, `scanSession.ts`, `scan.ts`) | an adapter mutex, the scan that is still stopping | exclusive use, scan start and stop | delayed start after stop | scans and connections never overlap |
| Provisioning (`provisioning/`) | the exchange's keys and reassembly buffer | invite ... complete | notifications that arrive before they are awaited, or never | a PDU received is one that was sent |
| Config session (`config/`) | pending replies, one reservation | AppKey Add, Model App Bind | status messages of other requests, timeouts | success means bound; a stage ends |
| Provision and rebind (`integration.ts`, `state.ts`) | the state file | provision, save, rebind | failure in between | a provisioned light's keys are on disk |
| Homebridge accessory (`homebridge/src/accessory.ts`, `debounce.ts`) | requested and confirmed values | set handlers, trailing debounce, dispose | completions out of order, echoes | what HomeKit shows is the latest verdict, what is sent last is what it wants |
| Homebridge platform and discovery (`platform.ts`, `discovery.ts`) | accessories, the scan interval | scan cycle, provision candidates, shutdown | overlapping cycles, address allocation, shutdown in a cycle | addresses are unique, everything created is disposed |
| Registry (`core/src/registry.ts`) | one JSON file | register, remove | two processes, no lock | a lost entry is recovered from the state file |
| PDUs, cryptography, Godox payloads, DMX, CLI parsing, logging | none that matters here | pure functions, I/O | byte layout | covered by captured fixtures and test vectors |

How they interact: the queue calls the controller's `withSendTimeout` from a
worker fiber, one command at a time. The controller calls
`withMeshSequenceReservation`, which holds the lock directories while its `use`
callback writes through the proxy. The lock directories, counters and pointers
are shared between processes; everything else is shared only between the fibers
of one process, which interleave where the code awaits and nowhere else.

## 2. The modules

An action is a section of the code that runs without a yield (an await, an
Effect step, a native or file-system call). Local variables of a call are state
while it lasts and are reset when it ends.

**SequenceLease** is the abstract specification: attempts to take the lease, of
which at most one holds it, each at most once. `SequenceLock` instantiates it with a
mapping of its stages (`Lease == INSTANCE SequenceLease WITH ...`), and
`ImplementsLease` is its specification.

**SequenceLock** is `acquireCounterLock`, a Lamport bakery over a directory of
symlinks. `Publish` creates the symlink with ticket 0, `ReadDir` and `ReadLink`
are `lockEntries` (one listing, then one `readlink` per name, so that any other
call may move in between; entries of dead owners on the same host are unlinked),
`Choose` and `PublishTicket` pick and atomically publish the ticket, `Enter` and
`Poll` are the wait, `GiveUp` and `Withdraw` the timeout or abort with its
`finally`, `Release` the returned function, and `Crash` the death of a process
with all its calls. Each call has a process and each process a host (`Owner`, `HostOf`):
an owner on another host is never taken for dead. **SequenceLockOrder**
adds the history of who had a ticket when a call registered, which states
what "first come, first served" means.

**Reservation** is `acquireReservation` and `withMeshSequenceReservation` for one
network/source pair: `Begin` loads the state file, `TakePointerLock` and
`TakeStoreLock` take the sorted locks one at a time, `SelectStore` reads pointers and
peers and looks into the counters for more state files, `Allocate` re-reads the
counters under their locks, `WriteCounter`, `WritePointer` and `SaveState` are the
three durable writes in their order, `Transmit` and `Finish` the caller's use of the
range, `Release` the finalizer, which may start over with what was discovered.
`WriteFails`, `GiveUp` and `Crash` may cut a call short at any of these points, and
`Restore` puts an old copy of a state file back. The lock directories are leases
of SequenceLease whose dead owners are reaped at once, which is what SequenceLock
provides. A "setup" states which files exist and what each caller knows and
prefers. What the package promises, it promises to those who use it as its README
(184-188) asks: "supply every known `statePaths` entry, or explicitly share one
sequence directory". `Linked` says that of a setup: every two callers know a state
file in common, or give the same directory, to which everything they could read
leads them. `KnowsLast` says that every caller knows a state file with the last number from
before there were counters.

**CommandQueue** is `makeCommandQueue`: `Publish`, `Launch`, `Fork` and `Answer` are
`send` and `startWorker`; `Interrupt`, `Cancel` and `Join` a caller that leaves; `Poll`,
`StartCommand`, `SettleOne`, `Retire`, `OnExit` and `Exit` are `drain`; `Close`, `FailBatch`,
`StopWorker`, `Closed` and `AwaitClosed` are `close`. What a command does is left to
Controller; here it runs, can be interrupted, and then stops after its finalizers.

**Controller** is `makeMeshController`: `Begin` and `Recovered` are `withSendTimeout`;
`Prepare`, `Unfenced`, `Discarded`, `Connect` and `ConnectFails` are `writerForSend`; `Reserve`,
`Write`, `WriteFails`, `Written`, `Sent` and `Settled` are `sendNow` with `writePdus`; `CloseWriter`
is `closeWriter` up to its first await, and `CleanupSucceeds` and `CleanupFails` the two
bounded attempts that follow; `IdleClose` is the idle timer; `RequestClose` to `Closed`
are `close`. It relies on CommandQueue for there being one command fiber and on
Reservation for the lease. The environment is what noble and the other processes
do: a link drops, a write fails, hangs or arrives late, another controller of the
source sends in between, the IV index moves on.

**BleConnection** is what `Connect` and `CleanupSucceeds`/`CleanupFails` of Controller stand
for: the operations that share the adapter and one light. `Acquire` and `Release` are
`withNobleOperation`; `Scan`, `ScanOver`, `StartSettles` and `StopSettles` are `withScanCleanup`;
`FencePassed` is `awaitPendingDisconnect` and `Begin` is `beginConnection` with the claim;
`ConnectSettles` is all that hangs on a native connect, the late one included;
`Discover` to `UnsubscribeSettles` are `nativeGattStep` and the subscription of a profile;
`GiveUp` is any deadline or interruption, after which the call stays in the fence;
`CloseScope` and `Close` are the two ways of closing, with `disconnectPeripheral`; `CloseTimesOut`
and `DisconnectSettles` end the wait for a disconnect, which succeeds or is rejected with the
connection still up, and `AfterClose` is what its caller does then. A native call is a task
that settles at some time or never, whether or not anybody still waits for it.
**BleConnectionLinks** adds the history of whether the connection that is up is that of a
writer that was handed out, and whether a disconnect of it was rejected.

**Provisioning** is `provisionAndRebind` and the rebind command. `Provision`, `WriteSettles` and
`Notified` are `runProvisioning` with PB-GATT reassembly (`Assembled`, `Completes`); the exchange
receives only after its write, so frames in between are dropped. `Save` is the
state file; `Rebinding` to `ConfigResult` are `rebindOverConnection` with the status receiver.
The light may answer, fail, restart an answer or stay silent; config messages
cross the mesh and are lost, late or repeated; the owner may reset the light; the
program may die at any step.

**Discovery** is the platform with its startup scan and its periodic cycles, and the
registry it shares with the CLI. A task is one of these or a CLI command, and
`Scan`, `Recover`, `Plan`, `Provision`, `Bind`, `ReadRegistry`, `WriteRegistry`, `SaveEntries`, `PruneEntries` and
`Materialize` are what it does between two awaits. `Provision` is one step here: it ends
as module Provisioning says it may, the light having accepted keys that were not
saved among the ends. `Shutdown`, `Abort`, `DisposalSettles` and `ShutdownEnds` are `shutdown`.

**Accessory** is one `GodoxLightAccessory` with its debouncer: the set handlers, `Flush` of
the waiting snapshot, `SetPreset`, which does not wait, `Complete` (`completeCommand`) and
`Dispose`. The controller answers commands in any order, as CommandQueue allows.

### Seeded faults

An operator named `Name_Fault` stands before the operator `Name` and changes it the way a
plausible slip in the code would: a dropped guard, a value read too early, a
missing reset. Nothing uses it. Every property of the runs is violated when one
of them takes the place of the definition it is named after (`mutants` in
`PROJECT.json`), which shows that the property constrains that piece of code.

## 3. The runs

| Run | Instance | Properties | Size |
|---|---|---|---|
| `sequence_lock` | 3 calls of 3 processes on 2 hosts, tickets to 2 | TypeOK, MutualExclusion, FirstComeFirstServed, ImplementsLease, NoStarvation | 151,000 states |
| `reservation` | 2 or 3 callers, 3 state files, 3 directories, 2 IV indexes, numbers 0 and 1, six setups | TypeOK, SingleSender, SequenceOrder, StoreNeverRollsBack | 530,000 states |
| `reservation_ends` | 3 callers during a migration | EveryCallEnds | 35 s |
| `reservation_crash` | 2 callers on first use | CrashConsumesRange, violated | |
| `command_queue` | 3 requests, 1 closer, with and without coalescing | SerialExecution, AnsweredByOwnOrNewer, OnlyOwnInterruption, CancelJoins, InOrder | 1,520,000 states |
| `command_queue_liveness` | 2 requests, 2 closers, coalescing | CloseJoins, EveryCallerReturns, EveryCloseReturns | 146,000 states |
| `controller` | 2 links, numbers to 3, 2 IV indexes, three ways of keeping writers | TypeOK, OneLink, NoLinkForgotten, ClosedIsQuiet, AwakeForSettings, LeaseOutlivesWrite, EveryCommandEnds, CloseEnds | 303,000 states |
| `ble_connection` | 3 operations: writer, profile and scan, or two writers and a profile | Isolated, NoLinkLost, ScanIsolated, NoStrayDisconnect, AdapterFreed | 166,000 states |
| `provisioning` | 2 provisionings, 3 rebinds, a public key of 3 frames | Reassembled, KeysOnDisk, BoundOnSuccess, StageEnds | 296,000 states |
| `discovery` | 2 lights, 2 cycles, 1 CLI command, 2 starts, 3 configurations | NoOrphan, ShutdownJoins | 919,000 states |
| `discovery_nodes` | 3 lights, 2 cycles | UniqueNodeAddress, violated | |
| `accessory` | 4 settings, 3 commands, 3 levels | VerdictIsNewest, Converges, EchoIsCurrent | 4,290,000 states |

Why the bounds are enough to be interesting:

- *Lock.* Three calls let one choose while a second waits behind a third. Two
  processes share a host and may reap each other's entries, the third's owner is
  never taken for dead there. With 3 calls a ticket can reach 3, so `MaxTicket` 2 makes
  the overflow happen. The theorems below remove all these bounds.
- *Reservation.* Two callers that know different files are enough for two stores to
  come into being; the third is needed for the ring in which every two share a
  light, and for a migration under two users. `MaxSequence` 1 leaves two numbers
  per IV index: a range of two exhausts it and a second reservation fails.
  The six setups are first use, a restored file, a migration, the ring and
  two in which the light files disagree about the number or the IV index. All
  three counts as state files are known or discovered.
- *Queue.* Three requests give an active batch, a queued one and a caller that
  coalesces. A batch and a worker are named after a request and so bounded by it.
- *Controller.* A closed connection's name is used again, so two links stand for
  any number of successive ones. Four numbers hold a
  cold command of three payloads and a warm one, or commands of this and another
  controller of the source; then an IV index is exhausted and the next begins.
- *BLE.* One operation whose calls hang, the one that replaces it, and a third that
  may come between or after. Each runs once, but a writer may be closed again after
  a disconnect that was given up or rejected. One light has one address here, with all the
  identifiers it may be known by.
- *Provisioning.* Two attempts draw different keys, and a rebind of the first may be
  answered during one of the second. Three frames are a first, a continuation and a last.
- *Discovery.* One light that is set up makes a mesh to join; one that is new is
  wanted by both cycles, the startup and the CLI. Two starts give cached accessories.
  `discovery_nodes` has two new lights, as a clash needs two.
- *Accessory.* Three commands can be answered in all six orders. Level 0 is the
  brightness that does not switch on. The theorems below remove all these bounds.

Deadlock says little of these models. In most of them everything may be over: each call,
operation or task is run once, the mailbox is closed, or a bound on commands is
reached. In Reservation a caller may give up or die at any time, so that something can
always happen. That nothing stops too early is what the liveness properties say, for
Reservation `EveryCallEnds`.

### Fairness

- *SequenceLock*: weak fairness of the steps a live call takes by itself. Node's event
  loop runs every callback, and a holder's use of the lock is bounded by the send
  timeout. Starting, timing out and dying are never forced.
- *Reservation*: strong fairness of a caller's own steps. A lock that is free again
  and again is eventually taken, because SequenceLock serves in the order of arrival
  (`FirstComeFirstServed`, `NoStarvation`).
- *CommandQueue*: weak fairness of each fiber and of the end of a command, which the
  controller bounds (`EveryCommandEnds`).
- *Controller*: weak fairness of the program's own steps, the send timeout and the
  timeout of an attempt at cleanup. Nothing native is fair: a connection may never
  open, a write never answer and a disconnect never finish.
- *BleConnection*: weak fairness of an operation's own steps, its deadlines among
  them. No native call ever has to settle.
- *Provisioning*: weak fairness of the receiver's timeout and of the step after it.
- *Discovery* and *Accessory* are checked for safety only and state no fairness.

### What the runs show

All properties hold but two.

`reservation_crash`: `packages/mesh/README.md` says that a crash consumes its reserved
range and "never makes that range available again". The counter is written before
the pointers. A process that dies between the two on first use leaves a counter
that nothing points to; a process with another default directory then
starts its own store and reserves the same numbers. Nothing of the first range
was sent by then, so the order of the messages on the air is not affected:
`SequenceOrder` holds in `reservation`, which allows the same crashes.

`discovery_nodes`: `packages/homebridge/README.md` says that auto-provisioning "assigns the next
node address, so any reachable same-mesh light can act as the BLE proxy".
The address is advanced only when a candidate has been provisioned and bound. One
that accepted its address, but whose state could not be saved, or whose final write or
rebind failed, leaves the same address to the next candidate, and two overlapping cycles
plan the same address, too. Two lights of one mesh then share it. (A candidate
whose answer is missed keeps its own cycle waiting, as no receive has a timeout.)

`OneLink` depends on the fence being kept after a failed cleanup, and `NoLinkForgotten`
says what is given in exchange: a link that could not be closed is still
remembered, and the next command tries again.

`LeaseOutlivesWrite` has the exception the code has: when both attempts to
disconnect fail, the lease is released with a write still pending.

`NoLinkLost` has two exceptions. A direct attempt claims the address before it knows
whether a connection is up, so the handle of that connection has lost it and no
longer disconnects. And a disconnect that is rejected lifts the fence with the connection
still up: the finalizer of a profile (`proxy.ts` 726-732), the cleanup of a late connect
(518-521) and a `connectProxyWriter` that has failed swallow the error and leave the
connection behind, until the next attempt meets it. A writer that was handed out is never
left so: it does not count as closed (894-905), and `close` may be called again.

`Isolated` and `NoStrayDisconnect` are what Controller assumes when it opens a connection behind a
fence: a native call that was given up reaches nothing but what it was made for.
The links of Controller are those of writers it was handed. A connection that a failed
`connectProxyWriter` leaves behind, its own disconnect rejected, is not among them: neither
`OneLink` nor `NoLinkForgotten` speaks of it.

`BoundOnSuccess` holds although a status names no request: a status under these keys
that says success can only come from a light that complied with them.

Seen while modelling, without a run of their own:

- `godox provision` registers a light only after its rebind has succeeded, and `godox rebind`
  looks a light up in the registry. The keys of a light whose rebind failed are on
  disk (`KeysOnDisk`), but the retry that the comment in `integration.ts` 43-46 has in
  mind needs a registry entry, which nothing has written.
- `README.md` 138-139 says a failed scan is not treated as an empty result; `scanGodoxDevices`
  (`discovery.ts` 116-121) turns it into one.
- `discovery.ts` 346-347 says registered addresses are not provisioned;
  `provisionCandidates` compares them for its log only.
- `discovery.ts` 213-217 says that a failed candidate is retried next cycle; one that
  accepted its keys no longer advertises itself as unprovisioned, and a defect ends
  the cycle. `ProvisioningTimeoutError` (349) does not exist.
- A preset may be overtaken by an older snapshot that still waits (the `overtaken` of
  `Converges`), and `On` after a preset restores what was active before it.
- The registry and its `.tmp` file are not locked, so concurrent writers lose
  entries; the startup scan recovers them from the state files.

## 4. The proofs

Every invariant and action property that the runs check, but for the two that
are violated, is a theorem here: the runs show it for the instance in the table, the
theorem for every value of the constants. Each proof has one shape: an inductive invariant
of named parts, a lemma or step for each action, and the property as what the invariant implies.

`SequenceLockProofs` proves, for every set of tokens and processes, every
placement on hosts and every ticket bound:

- `TypeCorrect`: `Spec => []TypeOK`.
- `Inductive`: `Spec => []IInv`.
- `Exclusion`: `Spec => []MutualExclusion`, which `sequence_lock` checks for three calls.
- `Implementation`: `Spec => Lease!Spec`, the refinement `sequence_lock` checks as `ImplementsLease`.
- `ServingOrder`: `OrderSpec => []FirstComeFirstServed`.

The assumptions are that tokens are naturals (the code compares UUIDs as strings,
a total order), that every token has one owner, and that the ticket bound is a
natural number.

MutualExclusion is not inductive: nothing in "two hold the lock" says what the two
had read before. `IInv` adds what the bakery argument needs:

- `EntryInv`: a call's symlink says what its stage and ticket say.
- `AliveInv`: a call that is running has a live process, so that only entries of
  calls that are over are ever reaped.
- `OrderInv`: while `t` waits or holds, any other call `u` is still among the names `t`
  has to read, or is an entry `t` has read and must wait for, or can only come
  after `t` (`After(u, t)`): it is out, it has yet to read `t`'s ticket or has read it
  while choosing, or it has chosen behind `t` in the order of (ticket, token).

Two holders would each have to come after the other, and `Precedes` is a strict
order. The interesting step is `Choose`: a call that saw `t`'s ticket picks a larger
one (`AfterStable`, `OrderStep`). `Exclusion` gives `Implementation` its guard: an `Enter` step is an
`Acquire` of the lease because nobody else can hold the lock then. `ServingOrder` follows
`After` further: who had a ticket when `t` registered is out for good, or in line with `t` after it (`AheadInv`).

`ReservationProofs` proves, for any number of callers, state files, directories and setups:

- `Inductive` and `TypeCorrect`: `Spec => []IInv` and `Spec => []TypeOK`.
- `NoRollback`: `StoreNeverRollsBack`, in every setup.
- `Exclusive`: `SingleSender`, if every setup is `Linked`.
- `InOrder`: `SequenceOrder`, if every setup is `Linked` and every caller of it `KnowsLast`.

The last two are false of callers that do not do what the package asks of them. That
`Linked` and `KnowsLast` can hold is checked: TLC evaluates `SetupsLinked` on the six setups of the runs,
among which are one where two callers share a directory but no state file and two where a file is restored. The
other assumptions are that the paths and directories are natural numbers (they are
compared, as strings in the code), that the bounds are, and that `None` is none of them.

What a caller does takes seven steps between which others move; `IInv` says what remains
true in between.

- `LockInv` and `SelectionInv`: once a store is selected, the pointer locks and the locks
  of the stores in `priors` are held, and these are all that the pointers name.
- `RangeInv` and `PeerInv`: what is reserved is past every counter that was locked and every
  state file that nobody restores.
- `WriteInv`: how far the three writes have come, of which a crash may leave any prefix.
- `FileInv`: files that nobody restores only move forward.
- `StoreInv`: if two callers share a store explicitly, whatever leads to another one
  leads to a counter that lists state files of both, so that who follows it will
  take the pointer locks of both.

Two senders would hold the lock of one pointer (`Meet`) or of one store (`StoreInv`), which
gives `Exclusive`. For `InOrder`, `InformedInv` says that whoever comes next will read of the last
message: from a pointer to a counter that is past it, from the store it shares
with the sender, or, before the first message, from the state files. `AheadInv` is the
consequence: what a caller works with is past the last message.

`CommandQueueProofs` proves, for any number of requests and closers, with and without coalescing:

- `Inductive`: `Spec => []IInv`.
- `Serial`, `AnsweredNewest`, `NoForeignInterruption`, `CancellationJoins`, `ClosingJoins` and `StartsInOrder`:
  `SerialExecution`, `AnsweredByOwnOrNewer`, `OnlyOwnInterruption`, `CancelJoins`, `CloseJoins` and `InOrder`.

The assumptions are that coalescing is on or off and that `None` is no request, closer or
outcome. `IInv` has ten parts beside the types, since each of the properties rests on how
callers, batches, the mailbox and the worker hang together:

- `WorkerInv` and `CommandInv`: one fiber drains, and a command that runs belongs to it. A
  second worker would need `worker` to be empty while the first is still in its
  command; the only time it is, the queue is closed. That is `Serial`.
- `CallerInv`, `BatchInv` and `MailboxInv`: a batch holds requests that were added to it, in the order
  they were published, and is claimed once.
- `AbandonInv`: before `close`, a command is interrupted only when all callers have left its
  batch, and the last of them waits for its end.
- `PendingInv`: a caller that is not answered yet is in a batch that is queued, active or about to be failed.
- `ClosingInv`: of the closers one fails the batches and joins the worker, the others wait for it.
- `NewestInv` and `OrderInv`: the request selected is the newest of its batch and older than all
  that is left in the mailbox.

The lemmas before `InitInv` are about sequences without repetition: what appending,
removing and cutting off does to the order of what is left.

`ControllerProofs` proves, for every set of links, every last sequence number and IV
index and every choice of how writers are kept:

- `TypeCorrect`: `Spec => [](TypeOK /\ NumberInv)`. `TypeOK` needs `NumberInv`, that the payloads
  left to write fit into what was reserved.
- `Inductive`: `Spec => []IInv`.
- `SingleLink`, `NothingForgotten` and `QuietWhenClosed`: `OneLink`, `NoLinkForgotten` and `ClosedIsQuiet`, which
  `controller` checks for two links.
- `LeaseHeld` and `Awake`: the action properties `LeaseOutlivesWrite` and `AwakeForSettings`.

The assumptions are that `MaxSequence` and `MaxIvIndex` are natural numbers, that the modes are among
the three there are, and that `None` is neither a link, a fence nor a place in the
order of messages.

OneLink says nothing of why a second link is not opened. `IInv` adds

- `FenceInv`: a cleanup under way is that of the link behind the fence; while there is a
  writer there is no fence; a link that is up is one or the other.
- `StageInv`: where a link may be opened there is neither. The fence was looked at
  one step earlier (`Prepare`), and the only fiber that could have raised it since is
  the idle timer, which is armed between commands only.
- `CloseInv`: the lease is held from the reservation to the release, and the close
  fiber finds nothing running when it retires the last writer.

Two more invariants stand on top of `IInv`. `LateInv`: a write that the native stack still holds
is on a link behind the fence, and no send goes on as if all was written; so a
lease is given up under it only after two failed disconnects (`LeaseHeld`). `SendInv` is why
the cached `power` can be trusted (`Awake`):

- `WriteInv`: a send works off a suffix of its payloads, at places in the order of
  messages that nobody else has.
- `LightInv`: what the light has taken, and what may still arrive, is older than the next place.
- `ConfidenceInv`: if the counter is still where the controller remembers it, nobody has
  sent since, and the light is on if the controller thinks so.

The lemma `FenceActions` sorts the steps by what they do to the fence, `FenceStep` and
`StageStep` take them one by one.

`BleConnectionProofs` proves, for any set of operations of any kinds:

- `Inductive`: `Spec => []IInv`.
- `CallsIsolated`, `ScansIsolated`, `LinkKept` and `DisconnectHitsOwn`: `Isolated`, `ScanIsolated`, `NoLinkLost` and
  `NoStrayDisconnect`, which `ble_connection` checks for three operations.

The assumptions are that the kinds are kinds of the operations, and that `None` is no
operation or generation. `LinkKept` is a theorem of `LinkSpec`, the others are of `Spec`, which
`LinkSpec` implies.

`Isolated` says nothing of who made the calls. `IInv` adds

- `AdapterInv`: whoever scans or connects holds the mutex, so there is one of them.
- `ScanInv`: a start or stop that has not settled belongs to the operation that
  scans or to the one `scanCleanup` names.
- `FenceInv`: a call is in the fence unless its own operation is waiting for it. With
  `AdapterInv`, an empty fence means that no call is left, which is what `beginConnection`
  looks for.
- `OwnedInv`: a handle that has its connection has no connect under way, and while it
  owns address and peripheral no other connection is up.
- `CallInv`: all calls serve the generation that owns the address, but for one
  disconnect: that of a connection that was in the way of a scanned attempt.
  A disconnect's connection is the one that is up, or none is.
- `LinkInv`: an operation that has no connection yet is only connected by its current
  attempt or by the direct one before it.

`LinkKept` needs a second invariant, `HInv`, on top of `IInv`:

- `ClosingInv`: who waits for a disconnect waits for that of the own connection, a handle
  that is ready has released the adapter, and one that owns its address owns its
  peripheral.
- `HandedInv`: the connection of a writer that was handed out is noted by its operation.
- `KeptInv`: a connection that has its address has a handle that knows of it and is still
  to be closed; or it was never handed out, and a disconnect is under way or was rejected.

The steps before and beside a handle touch none of this (`QuietKeeps`); claiming, connecting
and closing have a lemma each.

`ProvisioningProofs` proves, for every number of attempts and rebinds and every length of a
public key:

- `Inductive`: `Spec => []IInv`.
- `KeysKept` and `SuccessIsBound`: `KeysOnDisk` and `BoundOnSuccess`.
- `ReceivesWhole`: `Reassembled`.

The argument is that a light has the keys of the last attempt or none (`KeyInv`): only
a light without keys is provisioned, and every attempt draws its own. A message is
sent under the keys of the state file, so if they are those of the last attempt,
they were saved. `BindingInv` follows a success back to the light that reported it.
The two facts that carry it are the order in `provisionAndRebind` (`AfterComplete`) and the device
key in `tryDecodeProxyNotification` (`Accepts`).

`ReceivesWhole` needs no induction over the frames. `FrameInv` says that frames on the air are chained: one
from the middle of a PDU follows the one before it (`Chained`), which dropping frames from the
front, adding an answer or adding a foreign frame keeps. What a receive has
collected is the beginning of a PDU, and if the next frame continues anything it is this
PDU's next (`SegmentInv`). That is where it matters that an exchange empties its segments
before it receives, and that a new first frame starts over.

`DiscoveryProofs` proves, for any lights, cycles, commands and number of starts:

- `Inductive`: `Spec => []IInv`.
- `NoneOrphaned` and `ShutdownComplete`: `NoOrphan` and `ShutdownJoins`.

Every step of a task is a move (`Moves`) that begins to discover only while the platform
runs, so what `Shutdown` collects in `awaited` is all there will ever be (`StoppedInv`).

`AccessoryProofs` proves, for every set of levels and presets and any number of settings and
commands:

- `Inductive`: `Spec => []IInv`.
- `NewestVerdict`, `Convergence` and `CurrentEcho`: `VerdictIsNewest`, `Converges` and `EchoIsCurrent`.

The assumptions are that levels are naturals with a default above 0, that the
bounds are naturals, and that `None` is no mode, settings or answer.

`VerdictIsNewest` says nothing of why an older answer cannot overwrite it: `Counted` adds that
the last command counted has been answered, is the newest that has, and that
its answer is the verdict. `Converges` needs `Fresh`: what waits in the debouncer is what
HomeKit wants, so that sending it keeps them equal.

Only model-checked: the liveness properties, as neither fairness nor ENABLED is within
the prover's reach. They are `NoStarvation`, `EveryCallEnds`, `EveryCallerReturns`, `EveryCloseReturns`,
`EveryCommandEnds`, `CloseEnds`, `AdapterFreed` and `StageEnds`. The invariants that say who can still answer whom
(`PendingInv` of the queue, `CloseInv` of the controller) are the safety half of their argument.

## 5. What is left out, and why

- Process identifiers that the operating system gives to another process, and
  lock directories on network file systems, which the package excludes.
- The macOS retry of a `readlink` that fails with EINVAL: a round that has not
  happened yet.
- A read that fails before a reservation has written anything: the same end as
  giving up while waiting for a lock.
- Closing the scope of a command queue without `close`, which the controller
  never does first; dry runs, which touch no writer; log annotations.
- The contents of payloads (their kinds are kept: off, on, settings), the PDU
  codecs, encryption and the segments of a config message: pure functions, tested
  byte by byte against captured fixtures and published vectors.
- BLE: several lights at once, `shutdownNoble`, the writes of a connection (Controller has them).
- Provisioning: the values of keys and confirmations; a check that compares them
  either fits or does not.
- Homebridge: lights and discovery modes set by hand, names that collide, a light
  reset by its owner (Provisioning has that), the schema of the registry.
- DMX, `godox rename` and the demo, logging: no interleaving of their own.
- Time: a deadline may fire at any moment it is armed. The durations
  (`sendTimeoutMs`, 3 s per attempt at cleanup, `LOCK_POLL_MS`) do not appear.

## 6. The plan

In order of what a failure would cost. The modules marked done are those above.

1. SequenceLock, with its abstract lease and proofs (done).
2. Reservation, on top of leases (done).
3. CommandQueue (done).
4. Controller, on top of the queue's serial order and the lease, with the proofs of
   its fence (done).
5. BleConnection, which discharges what Controller assumes of a connection, with its
   proofs (done).
6. Provisioning, with its proofs (done).
7. Accessory, with its proofs (done).
8. Discovery with the registry and the CLI, with its proofs (done).
9. Fairness for the shutdown of Discovery: that it ends when disposals do.
10. A provisioning exchange whose light falls silent: there is no end to state as
    long as the code has no timeout there.

Abstract specifications worth stating: the command queue as an atomic serial
server, and Controller plus BleConnection as one slot that is opened and closed, both
as refinements with proofs. The first would have one variable, the request whose
command runs, and let `InOrder` and `SerialExecution` follow from it. The other would
let the controller be proved against the slot only.

Theorems worth proving next: those two refinements; and that the callers of Reservation
implement SequenceLease, the lease being theirs from the last lock to the release.
