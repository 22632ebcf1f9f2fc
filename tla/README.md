# Formal verification of aggkit

TLA+ models of aggkit, checked with TLC on small instances, and theorems about them,
checked with TLAPS for every value of the constants. Every definition is a translation of
the Go code that `PROJECT.json` ("map") names for it; code outside `src/` (the AggLayer,
the chains) is modelled from how `src/` uses it and marked external.

## 1. The system

aggkit is the set of services that connects an L2 chain to the AggLayer. One process runs
any subset of these components (`src/cmd/run.go`):

| Component | State | Operations | What makes it hard |
|---|---|---|---|
| aggsender main loop (`aggsender/aggsender.go`) | control point, attempt counter | initial check, status tick, trigger, build, send, store | crash between send and store, lost answers, retries |
| status checker (`aggsender/statuschecker`) | none of its own | compare local and AggLayer certificates, update or insert rows | two AggLayer reads and two local reads that are not one snapshot |
| builder flows (`aggsender/flows`) | none | next block range, range adjustment, height, LERs, claims and unclaims | boundary re-derived from the AggLayer's last settled exit |
| aggsender storage (`aggsender/db`) | `certificate_info`, `certificate_info_history`, non-accepted certificate | insert, update, move to history, retention | key conflicts, several transactions per step |
| validator poller and validator (`aggsender/validator_poller.go`, `aggsender/validator`) | last settled certificate, collected signatures | poll a committee, count weights up to a threshold | concurrent answers, early cancellation |
| triggers (`aggsender/trigger`) | epoch, last block seen | epoch notifications, polling, on-demand | missed and repeated blocks, epoch boundaries |
| reorg detector (`reorgdetector`) | tracked headers in memory and SQLite, header cache, subscriptions | track, check, notify, wait, remove | concurrent tracking while a range is removed |
| sync driver and downloader (`sync`) | last processed block, download channel | download, track, process, handle a reorg, reset | reorg during download, cancelled contexts |
| multidownloader (`multidownloader`) | pending and synced segments per contract, safe and unsafe blocks | safe and unsafe sync, reorg repair | segment algebra, reorg while syncing |
| L1 info tree sync (`l1infotreesync`) | leaves, root tables, halted flag | process block, reorg, queries | index monotonicity across reorgs, halting |
| bridge sync and claim sync (`bridgesync`, `claimsync`) | bridges, claims, unclaims, exit tree | process block, reorg, backward and forward LET | exit tree rollback, import from another syncer |
| L2 GER sync (`l2gersync`) | imported global exit roots | insert, remove, reorg | removal of a root that was used |
| AggOracle (`aggoracle`) | last GER sent | read the latest finalized GER, inject it | resend while a transaction is pending |
| Merkle trees (`tree`) | roots and reverse hash table | append, upsert, proof, rollback | frontier cache against stored roots |
| bridge service and finder (`bridgeservice`, `bridgeservicefinder`) | caches | REST queries, resolution of other networks | stale cache, listener reconnection |
| bridge tracker (`bridgetracker`) | registry of bridges and steps | resolve, poll, retry, expire | repeated and concurrent resolution |
| AggLayer client (`agglayer`) | response cache, rate limiter | the calls of the AggLayer API | cached answers that are out of date |
| tools, config, cmd, grpc, log, metrics | none that lasts | wiring, parsing, one-shot operator tools | not concurrent |

How they interact: the reorg detector and the sync drivers feed the processors
(L1 info tree, bridges, claims, GERs); the builder flow reads them to pick a block range
and build a certificate; the main loop has it validated and signed, sends it to the
AggLayer and stores it; the status checker brings the storage in step with the AggLayer.

The properties that matter most: no bridge exit and no claim is skipped or settled twice;
what is sent to the AggLayer can be proved; storage and AggLayer agree after any crash;
everything is eventually settled; the synced data follows the canonical chain.

## 2. Plan

1. **Life of a certificate** (done): `InitialStatus`, `CertStorage`, `AggSender`, proofs
   in `AggSenderProofs`.
2. **Sync under reorgs** (done for one syncer): `Chain`, `ReorgDetector`, `EVMSync`.
3. **Certificate contents** (done for pessimistic-proof networks): `CertificateFlow`,
   builder and validator on the same data.
4. **Validation**: the poller with concurrent answers, a validator whose data are behind,
   the aggchain prover flow.
5. **Trees and processors**: append-only tree with rollback, L1 info tree, bridges.
6. **Multidownloader**: segments and reorg repair.
7. **Oracle, GER sync, triggers, tracker, finder**.
8. More proofs: the remaining safety invariants of `AggSender`; the segment algebra.
   Refinement: `AggSender` implements a ledger in which each event is settled once.

## 3. Modules

### InitialStatus
The decision table of `initial_state.go` as operators: a record of the four certificates
(last settled and last pending of the AggLayer, last and last settled stored locally) is
mapped to a sequence of storage actions, or to one error. The two errors are kept apart:
one that clears by itself ("Wait"), one that asks the operator to wipe the database.

### CertStorage
The two certificate tables as sets of rows, one operator per committed transaction,
including retention, the history of retries and the primary key conflicts that make an
insert fail. Signed certificates, file copies and the table of non-accepted certificates
are left out: the main loop never reads them.

### AggSender
The main loop with its control points (`down`, `checkPending`, `readSettled`,
`readPending`, `build`, `send`, `save`, `idle`), and its environment: the L2 chain as the
syncers have stored it, the L1 info tree and the AggLayer. A step is what the code does
between two points at which another actor can act: the two reads of the initial check, the
refresh of the statuses and the sending of a certificate are steps of their own.
`GetNetworkInfo`, the source of the last settled imported exit, is read in the step that
uses it, together with the storage: only the main loop writes that, so it is the same a
moment earlier. A local exit root is represented by the block of its last bridge exit. A certificate
is the record of the fields its ID is a hash of, so that equal records are equal IDs.
`AdjustBlockRange` is abstracted to any cut of the range that leaves something to send.

Faults, each bounded by `MaxFaults`: a crash of the process, a failing call, a lost answer
of an accepted send, a failing write, a proof that fails for a provable certificate.

### Chain, ReorgDetector, EVMSync
`Chain` is the chain as the RPC node shows it (external): it grows, blocks become final,
blocks that are not final may be replaced. A block is a record that stands for its hash.

`ReorgDetector` is the detector with one subscriber: the headers in memory and in the
table, the header cache, the check with its control points (`down`, `idle`, `check`,
`notify`, `waiting`, `remove`, `removeMemory`), and loading and subscribing at start-up.
`EVMSync` adds driver, downloader and processor. Every RPC call of detector and downloader
is a step, except that a check reads the finalized block together with its copy of the
headers (an older value only keeps headers longer); so are tracking, processing, the two
channel operations of a reorg, and the removal of the range from the table and from memory.
The driver is released before the removal and restarts at any time during or after it. A
downloader that is cancelled when it has read a tip still tracks it (`TrackLateTip`), at any
later time. The processor is the set of blocks it stored, each with or without its events.

When a check is running, the list it works on is never the empty list that
`saveTrackedBlock` would replace: the header under comparison is still in it. The pointer
is therefore left out. Left out too: processors that halt, and chains with missing blocks,
for which `reportEmptyBlock` looks for another block to report.

The constant `Hazards` says what the environment may do beyond the ordinary:

| Hazard | Meaning |
|---|---|
| `sameHeight` | the new fork may have any height; otherwise it is longer than the old one |
| `midSweep` | a reorganisation may fall between the log query of a range without events and the query of the header reported for it |
| `subscribeFirst` | a driver may subscribe before the detector has loaded its table |
| `failedInsert` | the insert of a tracked header may fail, as the last fault of a behaviour and after the table was loaded |

Faults, bounded by `MaxFaults`: a restart, a check that ends with an error of any of its
calls (with what was done before it), a failing removal or insert, a failing query of the
finalized block.

### CertificateFlow
What `AggSender` leaves open: which events a certificate holds. The L2 chain is a sequence
of bridges, claims and unclaims, each in a block; the operators of the module are the
functions of the flow, each from build parameters to build parameters, or to `None` where
the code returns an error (of a claim, only that its root cannot be proved: the check that
it is the hash of its two parts is left out). `AdjustBlockRange` is their composition, for
the builder with the size limit, for the validator with the check of the root. `GetClaims` keeps the
compaction of claims that the SQL does. The size of a certificate is its number of bridges
and claims. The AggLayer is reduced to settling or rejecting a certificate, since
`AggSender` covers its protocol; builder and validator read the same data. The committee
is reduced to its threshold: the proposer signs without validating, so a threshold of 1
sends what the validator would refuse.

A claim may carry a global exit root that is not on L1. The constant `Repairs` says what
the operator may do about it (`docs/remove_ger_runbook.md`): `unset` the claim of a bridge
that does not exist, `reemit` the claim of a real bridge with a correct root, `reclaim` an
index that was unset.

## 4. Runs

| Run | Shows |
|---|---|
| `aggsender_safety` | type correctness; no event is skipped; what is accepted is provable; storage agrees with the AggLayer; the stored row never meets a used key; a build is never refused; a settled row is final |
| `aggsender_liveness` | every event is eventually settled and every initial check ends, with an operator who obeys wipe requests |
| `aggsender_unattended` (violated) | without an operator, a stop between sending and storing a *retry* blocks the initial check for ever |
| `aggsender_wipe_request` (violated) | a certificate that settles between the two AggLayer reads causes a wipe request for a consistent database |
| `evmsync_safety` | replaced blocks that were processed stay detectable; no event is passed over; blocks are handled in order; a block that is not final is watched from before it is stored, and only the removal of a range ends that |
| `evmsync_restart` | the same, without the order, across restarts and failing calls and in whatever order detector and driver start; and once the chain is stable, the processor holds exactly its events, if loading the table did not replace the driver's entry or channel |
| `evmsync_removal` (violated) | a block stored after the driver was released is dropped by the removal of the range: it is not final and not watched |
| `evmsync_same_height` (violated) | tracking a new tip of a known number erases the tracked hash of the old one |
| `evmsync_mid_sweep` (violated) | the header reported for an empty range may belong to a fork that was not swept |
| `evmsync_subscribe_first` (violated) | loading the table replaces the subscription of a driver that was first |
| `certificate_flow` | with limits on blocks, range and size, with claims unset or emitted again and certificates in error: no event is lost, what is sent can be settled, the validator rebuilds it, building does not get stuck, a retry contains what failed |
| `certificate_reclaim` (violated) | a claim made again after an unclaim is netted against that unclaim and lost |

`evmsync_safety` allows none of the hazards, `evmsync_restart` allows `subscribeFirst` and
`failedInsert`. They show that the design is right under the other assumptions on the
environment, and `evmsync_same_height`, `evmsync_mid_sweep` and `evmsync_subscribe_first`
show that an assumption is needed, since nothing in the code establishes it. Two more follow
from the same model and have no run of their own: with `sameHeight` a tip below `fromBlock`
is reported and processed again (`HandledInOrder` fails), and a restart after a failed insert
leaves a processed block unwatched (`OrphansDetectable` fails).

`evmsync_removal` assumes nothing of the environment: the driver is released before the range
is removed, and that is how the goroutines may be scheduled in every run. `UnfinalizedWatched`
fails with one reorganisation. The lost watch matters when a second one replaces the block:
with `MaxReorgs = 2` `OrphansDetectable` fails as well, by this interleaving. The passing runs
have one reorganisation. In them `WatchedUntilFinal` says that the removal is the only step
that loses a watch, and only of its range.

Bounds. Three blocks allow two certificates in a row with a retry of either, and an empty
block between or after them. Two faults allow a crash after a lost answer, a second crash
in the recovery, or a proof failure followed by either. Two attempts exercise the retry
and its exhaustion. `RetainCertificatesCount = 1` makes retention delete rows. The
liveness runs use two blocks and the faults that change the AggLayer's or the process's
state.

For `EVMSync`, two blocks are the least that a fork can lengthen, three let it part at,
below or above a block with events. `EventNums` bounds the blocks that may have events: the
first and the third of three in `evmsync_safety`, so that an empty one lies between two with
events; the first, which is the one a reorganisation replaces, in `evmsync_restart`; any in
the others. The query chunk of one block makes the downloader
extend a range, split it and reach the top. Retries of a hash mismatch exceed the number of
reorganisations. The channel holds as many blocks as the chain. Deadlock is not checked: the
chain is bounded, and
with it everything the syncer waits for.

For `CertificateFlow`, four blocks with three events, up to two of them in one block, give
two certificates in a row with a retry, a cut between two events, before the first and
after the last, and a wrong claim with its repair in the same range or in the next. Two
leaves make a claim unprovable for a while. Each of the limits has a configuration of its
own (`MCOptions`). `certificate_reclaim` needs five events but only one leaf and one index.
Two conditions are part of the properties, because without them they do not hold:
`ValidatorAgrees` excepts claims emitted again after the range, which the builder sees when
it compacts the wide range and the validator does not; `NeverStuck` asks that the limits
leave room (`Room`): a gap of empty blocks longer than `MaxL2BlockRange`, a block larger
than `MaxCertSize` behind an empty one, or a size used up by claims that were unset leave
an empty range at every attempt. `NeverStuck` is the safety form of progress: in each state
in which all roots are provable, the next build succeeds. Deadlock is not checked, the
chain being bounded.

Fairness. The goroutine of the main loop runs (weak fairness of its steps). The trigger
channel holds an event until the loop takes it and Go's `select` picks at random, so a
trigger is not passed over for ever (strong fairness). The AggLayer decides what it
accepted. `AttendedSpec` adds the operator.
In `EVMSync` the goroutines of detector, driver, block handler and downloader each run,
and the chain grows up to its bound; reorganisations, finality and faults are not fair.

## 5. Proofs

`AggSenderProofs` proves, for every bound, configuration and set of faults:

- `TypeCorrect`: `Spec => []TypeOK`;
- `Invariant`: `Spec => []IInv`, the inductive invariant;
- `NothingIsSkipped`, `SubmittedIsProvable`, `StoredSettledIsSettled`: its consequences.

`NothingSkipped` and `SubmittedProvable` are not inductive: a certificate is built from a
stored row long before it settles. `IInv` says what every copy of a certificate is worth:
the AggLayer's undecided one, the one in memory and each stored row either has a height
below the number of settled certificates, and is outdated, or *follows* the settled
blocks: its range starts right after the boundary and it holds exactly the events of its
range. Settling moves the boundary to the last event of the range and makes every other
copy outdated. The assumptions are the named `ASSUME`s of `CertStorage` and `AggSender`.

Only model-checked: liveness, the absence of key conflicts, `BuildNeverRefused`,
`SettledIsFinal` and the uniqueness of the open row; everything about `EVMSync` and
`CertificateFlow`.

## 6. Not modelled

The components of section 1 that section 3 does not name; `PROJECT.json` ("components")
gives the reason for each.
