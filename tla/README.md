# Formal models of loam

TLA+ models of the loam store: what its modules promise, checked by TLC on
small instances and, where marked, proved by TLAPS for every instance. Paths
are relative to the repository; `M/` stands for `src/modules/common/mechanics/`
and `R/` for `src/modules/common/replicated/`.

## 1. The system

loam is a set of Fluxor modules. Each is a single-threaded step function: the
kernel calls it again and again, and it talks to others by byte channels and by
calls to a provider (`fs`, another module's surface). No call waits for a device:
an operation that is not decided answers `EAGAIN` or `EINPROGRESS` and is asked
again on a later step. So concurrency is the interleaving of steps, everything
that spans several steps can be overtaken, and a crash loses every module's
memory at once and keeps only what the file system fenced.

### Inventory

| Component | State | Operations | What is hard about it |
|---|---|---|---|
| `namespace_router` (`M/namespace_pic_body.rs`, `M/namespace_pic_state.rs`) | arena of binding slots, open snapshot generation, log descriptor and staged append, deletion reservations, subscriptions, compaction phase | BIND, UNBIND, RETAIN, RENAME, VOLUME, LEASE, GC_RESERVE/RELEASE records; LOOKUP, LIST, REFERENCED, RETAINED, VOLUME_ROOTS; provider BIND, RENAME, DELETE, SUBSCRIBE, CHANGES; compaction; boot | every record is judged again at each replay, over a snapshot that may be later than the record; the arena is a cache that evicts; compaction runs among writes |
| volume leases (`LeaseTable` in `M/namespace_pic_state.rs`) | 16 entries: holder, fence, expiry, stamp, open flush; two floors | acquire, renew, release, touch, restore | clocks of several servers, late and repeated records, recycled entries |
| `wal_io` (`M/wal_io.rs`) | appender, replay and rotator state machines over a file | open, begin/poll, replay, rotate | short writes, failed fences, crashes at every stage |
| `loam_snapshot` (`M/loam_snapshot.rs`) | two generation files | open best, search, write, finish | header validity after a crash, reads that are not ready |
| `admin_router` (`M/admin_router_body.rs`) | queues and FIFOs of pending downstream requests, PutFile and streamed slots, raw reservation, sweep | composed file operations, streamed writes, raw bodies, listings, orphan sweep | three planes answered out of step; the sweep deletes while others write |
| `admin_gate` (`M/admin_gate_body.rs`) | network and link sessions with identity, grants and streams; pending correlation ids; one owed request and answer | present, withdraw, admission, holder binding, forwarding, routing answers | late answers for reused slots, ids that wrap, grants that run out |
| `admin_client` (`M/admin_client.rs`, used by `M/loam_cli_body.rs` and others) | capability file, dial and redial, presentations, send and receive buffers | load, poll, feed, send, recv, close | several clients over one transport; failures that name no connection |
| `body_store` (`M/body_store_body.rs`) | index of slots, write sessions, the request held and its phase; the files themselves | PUT, PUT_KEYED, GET, RANGE, HEAD, DELETE, SCAN, WOPEN, WAPPEND, WCOMMIT, WABORT | publication in fenced steps; crash between any two; removals owed beside other requests |
| `body_fanout_router` (`R/body_fanout_router_body.rs`, `R/member_io.rs`) | joins (one per request, probe or repair), awaited answers with deadlines, streams, member health, scrub | replicated put, get, delete, scan, streamed writes, scrub and repair | quorum counting with late members; joins nobody waits for |
| `ec_body_router` (`R/ec_body_router_body.rs`, `M/loam_ec.rs`) | shards in flight | encode, degraded read, rebuild | partial writes and reads |
| `loam_volume` (`R/loam_volume_body.rs`) | resident extents and leaves, queued requests, commit and its flush, lease, drain | READ, WRITE, FLUSH, FUA, PREFLUSH, renewal, drain | a commit spans many exchanges, any of which is refused or lost, while requests go on |
| `raft_metadata_client`, `clustor_bridge` (`R/raft_proposer_body.rs`) | proposals in flight, commit log position | propose, commit, replay, read gate | lost, repeated and reordered commits |
| `placement_router` (`R/placement_router_body.rs`, `R/loam_placement.rs`) | fleet epoch | rank members | epoch changes under requests |
| `object_provider` (`M/object_provider_body.rs`) | handles, capabilities, streams | storage.object surface | handle lifetime |
| `object_index` (`M/object_pic_*.rs`) | descriptors and their log | put, get, delete, inventory | the sweep |
| `block_allocator`, `block_log` (`M/block_*.rs`) | free map, log | allocate, release, append | replay |
| codecs, limits, CLI, probes, packaging | none of the store's state | | |

A client's write goes `admin_gate` -> `admin_router`, which stores the body
(`body_store`, perhaps through a router), its descriptor (`object_index`), and
last binds the name at `namespace_router`, whose log decides it. In replicated
mode the namespace proposes the record to the metadata plane and applies it when
it comes back committed. The sweep reserves an id at the namespace, asks whether
anything names it, and deletes it while the reservation keeps new names out. A
volume's writer takes a lease, opens a flush, writes bodies, and commits a new
root.

### What makes each part correct

- Leases: a fence is issued once; only the newest lease commits; records out
  of order change nothing; no body is deleted under an open flush.
- Log: acknowledged records replay; refused ones are never made durable later.
- Namespace: every key reads as the acknowledged records left it, before and
  after compaction, eviction, rotation and crash; retention is never shortened.
- Sweep: nothing named, or about to be named, is deleted; reservations end.
- Body store: a body acknowledged is stored whole; one deleted stays gone;
  a temporary belongs to one session.
- Admin router: an answer says what happened; every request, sweep and
  reservation ends.
- Gate and client: an answer reaches who asked; only what a live grant covers
  is forwarded; a client fails for a cause of its own.
- Fan-out: a body acknowledged is on every member it was written to, is found
  while one has it, and what a fault left short is repaired.
- Volume: it is a block device with a volatile cache; a root is bound only over
  stored bodies.
- Replication: proposals are applied once, in one order, and answered to
  whoever made them.

## 2. Modules

| Module | Models | Used by |
|---|---|---|
| `LeaseTable` | the lease table as a value: what each record does to it | `VolumeLease` |
| `VolumeLease` | lease, volume and reservation records and the sweep, as actions | `MCVolumeLease`, `VolumeLeaseProofs` |
| `VolumeLeaseProofs` | theorems about `VolumeLease`: fences | `VolumeRecordProofs` |
| `VolumeRecordProofs` | theorems about `VolumeLease`: stamps, flushes, rotation | |
| `WalIo` | the log file, its appender, replay and rotator, with faults and crashes | `MCWalIo`, `WalIoProofs` |
| `WalIoProofs` | theorems about `WalIo` | |
| `NamespaceOps` | what one record decides about a key and does to the arena | `Namespace` |
| `Namespace` | the router around it: log, compaction, rotation, crash, boot | `MCNamespace`, `NamespaceProofs` |
| `NamespaceProofs` | theorems about `Namespace` | |
| `BodyStore` | the body store: index, publication, deletion, sweep, streamed writes, crash | `MCBodyStore`, `BodyStoreProofs` |
| `BodyStoreProofs` | theorems about `BodyStore` | |
| `BodyFanout` | the fan-out router over its members, and the fleet it is told | `MCBodyFanout`, `BodyFanoutProofs` |
| `BodyFanoutProofs` | theorems about `BodyFanout` | |
| `AdminPlanes` | namespace, body plane and object index as values: what each request does and answers | `AdminRouter` |
| `AdminRouter` | the admin router and its sweep, its clients and the planes | `MCAdminRouter`, `AdminRouterProofs` |
| `AdminRouterProofs` | theorems about `AdminRouter`: the sweep | `AdminAnswerProofs` |
| `AdminAnswerProofs` | theorems about `AdminRouter`: the answers | |
| `BlockDevice` | abstract: a block device with a volatile cache and one writer | `LoamVolume` |
| `LoamVolume` | the volume module, its node and its consumer; implements `BlockDevice` | `MCLoamVolume` |
| `AdminClient` | the client library: one client and the channels it is wired with, as operators | `AdminGate` |
| `AdminGate` | the gate: sessions, admission, pending ids, as operators | `AdminSession` |
| `AdminSession` | clients, transport, gate and router composed | `MCAdminSession` |

**VolumeLease.** `leases` is `LeaseTable`, `bound` the binding at each volume's
key, `reserved` is `gc_reserved`, `sweep` the admin router's sweep of one body.
One action per record that `apply_op` decides: `LeaseRecord` (OP_LEASE),
`VolumeBegin/Abort/Commit/Delete` (the modes of OP_VOLUME), `PlainBind`,
`SweepReserve`; and `SweepCheck`, `SweepDelete`, `SweepRelease` for the sweep.
Stamps are free: a record may carry any time in `0..MaxNow`, so late and
repeated delivery are steps like any other. A record refused before it changes
anything is a stuttering step. `grants`, `judged`, `writer`, `writing` and
`exposed` are history that the properties read and no action does. Whether a
slot was found for a root (`room`) is a free choice here; `Namespace` decides it.

**WalIo.** `file` is the sequence of frames, each whole or not, `synced` how many
a fence covers. The appender's SEEK has no state of its own; the pipelined and
the synchronous fence are one phase. `mem` is what the caller has applied, which
is what a rotation seeds the new log with. The `fs` provider is external: it
answers as the code allows for, a rename publishes atomically, and a crash keeps
the fenced frames and possibly more. `TornTails` says whether half a frame may
be among what survives; the run lets it. The next boot then appends behind the half
frame, where no replay comes: `behind` is the history of the records fenced
there, until a rotation seeds them anew.

**NamespaceOps and Namespace.** A binding is a kind, a revision, an object id, a
retention time and a hold; the rest of its metadata moves with the id. `Verdict`
is the order of tests in `apply_op` for each record, `Written` what it leaves,
`Placed` the arena's slot search with its one eviction. In `Namespace` a request
is logged (`LogRequest`), then applied when durable (`ApplyStaged`); until then
it owns the step. `LogFails` is an append refused after bytes reached the file:
the log is broken, and its record may survive. Compaction is one action per
stage, a key per merge step; `Crash` opens the best generation and `Replay`
applies one record. `decided` is history: each key as the acknowledged records
leave it. A record that no answer acknowledged (`tail` is `"owed"` after a
crash) is decided by the replay that meets it. Requests are the ones the tree
sends: composed writes name a revision they have read, plain BIND any revision.
`COND_ABSENT` is judged but nothing in the tree sends it; the slots' lock and
expiry, which nothing sets, are left out.

**BodyStore.** `content`, `staging` and `temp` are the files at the content paths,
at `.pub_<digest>` and at `.wip_<id>`; `after` is, for each content path, the set
of states a crash may leave it in: a write in place adds to it, a byte fence, a
name fence and a rename take from it. `caps` is what the provider can do, which
is what `publish_tier` chooses the recipe from. `job` is the request held with
its phase, one action per phase. GET, RANGE, HEAD and WAPPEND are one step each:
while a request is held nothing else touches the files they read or write. Owed
removals (`Retire`) and the reaper (`Reap`) run beside any held request, as in
`module_step_impl`. What a session's bytes hash to is one flag, `good`.
`Faults` names the calls that may fail with a decided answer; an answer that is
not decided is a stuttering step. `acked`, `retired` and `served` are history.

The modules below model handlers that call one another and run to their end in
one step. Such a handler is an operator from module state to module state,
named as in the source; the state is one record (`rt`, `ar`, `v`, `g`) and an
action applies one entry point of the module to it. What clients ask and what
may go wrong is a record too (`budget`, `cfg`), chosen in Init from `Configs`
and counted down, so that one run covers several scenarios.

**BodyFanout.** `rt.joins` is the join table, `rt.await` the expectations of
`member_io` with their deadlines, `rt.q` the request channels. `Request` is an
upstream frame, `Answer` a member's work and the delivery of its answer,
`LoseAnswer`, `Refuse`, `Expire`, `Stick`, `Stall`, `Break` and `Wipe` what members
do wrong, `Scrub` the kick of the background scrub, `FleetUpdate` and `FleetEpoch`
the placement router's new fleet. An expectation expires while its answer is
still on the way only as a fault (`"late"`). `Rank` and `PutRank` are the
rendezvous orders, parameters; two of them because the code ranks a PUT by
other bytes than a GET (see section 3). `acked` and `wrong` are history.

**AdminPlanes and AdminRouter.** A number is a digest, the bytes it is the digest
of and the object id made from it; `Child` says which digests a map page lists.
`ar` holds the PutFile slots with their stage, the streamed slots, the raw
plane's held request, one FIFO of pending requests and one queue for each
plane, and the sweep with its phase and page. `TakeRequest` is a client's
frame, `TakeNs`, `TakeBody` and `TakeObj` an answer, `Kick` the sweep's timer,
`Deliver` the answer's departure; `NsStep`, `BodyStep` and `ObjStep` are the
planes, which may refuse as a fault. The namespace and the index answer in
order, the body plane in any order, as a fan-out router does. Any number of
leases is one lease here: `VolumeLease` has them. A streamed write carries its
condition and policy to its bind, as a composed one does. `NsReferenced` reads the
current view window by window; the code looks at the arena on the first page and at
the open generation on the others (`M/namespace_pic_body.rs:1787-1826`), which
differs only where a key moves while the pages go by: by RENAME, which `AdminPlanes`
does not have. `done` is history.

**LoamVolume and BlockDevice.** A digest is the bytes: an extent's is the tuple
of its blocks. One module step is a `Pump` (a frame in or out, the timers, the
commit) and one `Serve` for each queued request, and no block request comes
between them (`v.pc`). `Submit`, `Exec`, `Refuse`, `Reap` and `Drain` are the
`storage.block` operations. `srv` is the node: the volume's root, its lease,
open flush and stored bodies; `ServerStep` answers, refuses (`Faults`: BUSY where
the code tells it apart, an error wherever one may come) or loses a request, and
still carries out what a device that has closed left with its client;
`Rival` is another writer, `Sweep` the orphan sweep that an open flush holds off,
`Reopen` another instance. `BlockDevice` keeps what is written (`cur`), what is
committed (`dur`) and how many writes each covers; `Device` in `LoamVolume`
instantiates it with `cur` read off the resident extents over the map, `dur` off
the root bound at the node, `gen` and `dgen` off the module's counters, and
`Implements` is its specification.

**AdminClient, AdminGate, AdminSession.** A client is its capability file (a
sequence of lines), its dial with its retry, the chains it presents and its
buffers; a gate is its session slots, pending table, one owed request and one
owed answer, and the channels it is wired with. `GateStep` is the whole of
`module_step_impl`, in its order. `AdminSession` puts clients on links and on
transports of their own or on a shared one. tls is external: it numbers
connections and gives a number out again, with the next generation,
once both sides closed it, dials one connection at a time, and publishes the
peer's identity with the connection. Of the router the table of streamed writes is
here (`RouterOpen`, `RouterPart`, `RouterAnswers`): a slot is taken by its open and freed
by its commit, by a commit that finds no room, and by the refusal of an open or of
a part; otherwise it answers each request once, in any order. The clock is the
platform's: it is off by up to an uncertainty, which counts against the grant, and is
not always vouched for, when nothing with a time in it is admitted. A transport
event is told by its connection or, of a dial, by its tag, errors and closes alike.
Generations count modulo 2
and correlation ids wrap after `PendSlots` + 1, so both are used again. Frames
arrive whole. `from`, `gone`, `at`, `asked`, `lost` and `cut` are history.

## 3. Runs

Passing runs:

| Run | Instance | Shows |
|---|---|---|
| `volume_lease` | 3 volumes, 2 slots, 2 holders, stamps 0..4; explored: every record about 1 volume, fences to 3, 1 body; and lease records alone about 3 | `CommitFenced`, `FlushGuarded`, `TypeOK`; `FenceUnique`, `StampOrder`, `RotationExact` when entries are recycled and slots differ in age |
| `wal_io` | 4 records, torn tails | `AckedReplayable`, `ReplayExact`, `RefusedUnfenced`, `StepsReturn` |
| `namespace_evict` | 2 keys, 1 slot, revisions to 2, log of 3; binds, conditional puts, deletes | `ViewExactWithRoom`, `CoveredExact` under eviction and crashes |
| `namespace_retain` | 1 key, retention time 1, holds, stamps 0..2 | `RetentionKept`, `ViewExact` |
| `namespace_live` | 2 keys, 2 slots, log of 2; binds, renames, volumes, reservations, provider binds, no crash and no failed device | `RoomReturns`, `ViewExact` |
| `body_store` | 1 body, 1 shard key, 1 write id of 2 chunks, 1 index slot; a provider with both capabilities, with the name fence alone, with neither; failing writes, fences of bytes and renames | `WholeByRename`, `RetiredGone`, `TempKept`, `RequestDecided` |
| `body_fanout` | 2 members, 2 replicas, 1 client, 1 body and 1 shard key with its bytes, 2 joins, 1 stream; up to 3 requests and 2 faults | `AckedReplicated`, `AnswersRight`, `RequestAnswered`, `ScrubHeals` |
| `admin_router` | 2 clients, 2 keys, 4 digests of which 2 are map pages, 7 scenarios: racing writers, volume writers, mapped volumes, raw bodies, a stream, reads, full tables | `AnswerExact`, `SweepSpares`, `RawSpares`, `RequestAnswered`, `ReservationEnds` |
| `loam_volume` | 5 blocks in 3 extents, 4 resident slots, 1 leaf slot, maps of depth 1 and 2, 2 queued requests, 7 scenarios | `Implements`, `BoundReadable`, `ClosedForCause`, `RequestAnswered` |
| `admin_session` | 2 clients, 1 network slot, 2 link slots, 2 pending ids, 1 stream slot, 10 scenarios: streams, with and without a refusal, reuse of a slot, of a link, a shared transport whose dials or connections end, grants that expire by a clock that is off, a clock not vouched for, files of every length, bytes that are no request | `AnswerRouted`, `AdmittedCovered`, `StreamKept`, `LossCharged`, `LoadExact`, `RequestAnswered`, `TypeOK` |

What the properties of the new runs say, beyond their comments. `Implements` is
safety: each step of the module is a step of the block device or none, so a
FLUSH answered by a commit that began before a write it covers, a torn write,
a read of an evicted extent's old bytes, a commit after another writer's, would
each be a step `BlockDevice` does not have. `SweepSpares` looks at the one step
where a deletion reaches the body plane and compares it with everything bound
at that moment, so it covers the whole path from scan to deletion.
`AdmittedCovered` is judged where a request reaches the router, from history
the gate does not have (who sent it, what was withdrawn by then). `TypeOK` of
`AdminSession` is the pending table's bijection with the messages out, which a
wrapped id would break, and `TypeOK` of `VolumeLease` bounds the lease table's times
and fences. `TypeOK` of the other modules is kept for the proofs and is not one of
the runs' properties. `AckedReplayable` and `ReplayExact` except exactly the records in
`behind`; `NoneBehind` is the promise without the exception. `ClosedForCause` is what
holds while a commit has at most two bodies, as `loam_volume`'s do. `StreamKept` and
`LossCharged` are what holds of `StreamOwned` and `FailsForCause`, which do not.

Two runs find a disagreement between the code and what the repository says of
it; PROJECT.json quotes the lines. `admin_shared` (`FailsForCause`): two clients dial
over one transport; the close of the connection of the one fails it, `feed_all`
then looks for the owner among those that have not failed, finds none, and fails
the other, whose dial is still out. `admin_orphan` (`BoundHasBody`): the sweep
looks at the PutFile slots for the last time and then removes the descriptor,
a request of its own; a PutFile arriving before the body's deletion has its PUT
answered from the stored body, the deletion removes it, the reservation goes,
and the PutFile's BIND is admitted: a binding with no body.

### Counterexample configurations

Beside the runs are configurations in which TLC finds a counterexample
(`tlc -config NsRename.cfg MCNamespace` and so on). They show why the passing
runs leave a case out, and each is a case a reader of the code should know.

| Configuration, module | Violated | What happens |
|---|---|---|
| `NsRename`, `MCNamespace` | `ViewExact` | A binding is compacted and the log rotated; the binding is renamed and acknowledged; after a crash the replayed rename finds an empty arena, is refused, and the old name is back. `M/namespace_pic_state.rs:626`: "every replica — and every replay — applies it identically or refuses it identically". |
| `NsRecreate`, `MCNamespace` | `ViewExact` | A volume is committed and merged, then deleted and created again before the generation is opened. Its new revision 1 is not above the generation's, so its seed is skipped at boot and the old root returns. `docs/durability.md:278`: "a record at or below the key's revision finds its own effect, or a later one, in place." |
| `WalTornTail`, `MCWalIo` | `NoneBehind` | A crash leaves half a frame; the next boot appends behind it (`M/wal_io.rs:440`); the record it acknowledges is not replayed after the next crash. `modules/README.md:172`: "a partial trailing record is dropped on open." |
| `BodyDeleted`, `MCBodyStore` | `AckedStored` | On a provider that renames and cannot fence names, a DELETE removes the file, cannot prove it, is refused and keeps the slot; a PUT of the same body is then acknowledged from the slot, and nothing is stored. `M/body_store_body.rs:1313`: the slot "is cleared only once the file is provably gone". |
| `FanoutStreams`, `MCBodyFanout` | `AckedReplicated` | `abort_stream_members` (`R/body_fanout_router_body.rs:904`) sends WABORT with the member's write id, which is 0 while its WOPEN is unanswered: another stream's session 0 is ended, its id is opened by a third, and a commit is acknowledged over the wrong session. |
| `AdminRetain`, `MCAdminRouter` | `RawSpares` | A raw delete has proved its digest unretained and reserved it; a RETAIN of a key already bound to it reads no reservation (`apply_retain`, `M/namespace_pic_body.rs:2347`) and is admitted; the delete follows. |
| `AdminWedge`, `MCAdminRouter` | `RequestAnswered` | The router takes no body answer while its request queue is full (`M/admin_router_body.rs:1030`), `body_store` takes no request while it owes an answer (`M/body_store_body.rs:377`), and the rings hold less than a frame (`M/body_frame.rs:26-34`): bodies going down and one coming up block both for ever. |
| `VolumeDrain`, `MCLoamVolume` | `DrainCommits` | A write queued when the drain's flush is decided (`R/loam_volume_body.rs:2018-2024`) is staged behind it, answered, and the lease given back without it. `docs/running.md:330-331`: "Drained, the device commits what is staged and releases the lease". |
| `VolumeOverlap`, `MCLoamVolume` | `Implements` | A whole-extent write over an extent a read is still fetching takes a second slot (l.1245), and the fetched one hides it. |
| `VolumeRefused`, `MCLoamVolume` | `ClosedForCause` | A commit of three bodies: a PUT is refused while the next is built and not yet handed over (l.599-681); the abandonment never starts and the device closes on its timeout. The run's commits have two bodies, of which none is left to build when one is refused. |
| `AdminStreams`, `MCAdminSession` | `StreamOwned` | A part is refused: the router frees the stream (`M/admin_router_body.rs:1081-1083`) and the gate keeps it with its session (`M/admin_gate_body.rs:921-924` clears it at the commit, 1125-1131 looks at opens). Another session's open is given the slot, and the first one's next part is forwarded to it. `M/loam_admin_wire.rs:2173`: "A write stream: decided by which session opened it."; `M/admin_gate_body.rs:38-39`: "a stream's chunks and commit belong to the session that opened it". |

### What the passing runs leave out, and why

A replay judges a refused record again, and what refused it may be gone. A bind
refused because its id is reserved stays in the log, no reservation is replayed,
and after a crash the bind is applied, although `M/namespace_pic_body.rs:1131`
says a rejection replays the same way. Room is another case (a bind refused
because every slot was dirty, replayed after a crash between finish and
rotation), which is why `namespace_evict` checks `ViewExactWithRoom`. So is a
volume's commit at expected revision 0, refused while an object was bound and
admitted over the tombstone that followed, and a plain BIND refused over a hold
that was cleared later. Composed writes cannot do it: the revision they name has
gone by then. A BIND on the provider surface is answered with the fence of a
durable log and is in no log (`M/namespace_pic_body.rs:4022`), so a crash loses
it. For these reasons reservations and provider binds are in `namespace_live`,
which has no crash, and in no run that has one.

What `body_store` leaves out, and why. Where names are fenced and nothing is
renamed, a crash may leave a torn file; HEAD or SCAN indexes it unread, and the
next PUT is acknowledged, and a GET served, on the index's word, and a GET of a keyed
blob on its header alone: `AckedStored`
fails there without any fault, and the run checks it where the provider renames.
When a name fence may fail (`"name"`), a refused DELETE is asked again, finds
the name gone and is acknowledged though the removal was never fenced:
`RetiredGone` fails. When an unlink may fail (`"unlink"`), WOPEN goes on over a
stale temporary, whose tail a shorter stream publishes: `WholeByRename`
fails.

Also met while modelling, and outside any property here:

- Admin router: when the queue to the namespace is full, `gc_release_current`
  (`M/admin_router_body.rs:2450`) has cleared its mark and sends no release; the
  reservation stays and refuses flushes and binds of the id. `ReservationEnds`
  is stated for queues with room.
- Fan-out: a PUT is ranked by the first 32 bytes of the body (l.279, 535), a GET
  and a WOPEN by the digest, though the comment at l.921-923 wants them
  identical; reads find the body by walking the members, and the scrub moves it.
  The scrub repairs within the current replica set: a body only on members that
  left the fleet is not found. A DELETE answered by some replicas only is undone
  by the scrub. Failure domains of a fleet are not looked at.
  An awaited answer outlives the join that was freed at its first refusal, so the
  table of awaited answers can fill before the join table does, though
  `M/loam_limits.rs:384-387` says it never binds first.
- Gate: a commit refused BUSY has already lost its stream (l.922), so its retry
  is FORBIDDEN and the router's slot is never freed; an identity is dropped when
  the session table is full though the close that frees a slot is queued
  (l.404); a close for which the transport has no room is not sent again; the
  shallowest covering grant bounds a lease, not the longest; a malformed frame on
  a link ends the session unanswered.
- Client: a close is charged to the last client that is dialing
  (`M/admin_client.rs:785-812`) whenever it is of no connection that still has its
  client: of a dial that was refused, of a client that has left, or, as `admin_shared`
  finds, of a client it has just failed. `LossCharged` says what is left: a client
  that is connected, or has its transport to itself, fails with its own connection
  only. A client that reads a link consumes what was for another session on it.

### Bounds

The bounds are the CONSTANTS named `Max*`, the sizes of the sets, and the
capacities. Capacities are below the number of keys where eviction or recycling
matters (two lease slots for three volumes; one arena slot for two keys, two where
a rename needs a source and a destination), so the
scarce cases happen at once rather than after sixteen volumes. `volume_lease` explores
the states `Explored` names, and one step beyond each: those in which the records so
far are about one volume, and those with lease records alone, with leases of one
tick and fences to 2. `namespace_live` compares states by `StagedView`: without a crash
nothing reads the log but for its length and the record being appended. A log of three
records covers a record merged, one written behind the merge and one ahead of it;
the log shortens at each rotation, so behaviours are not limited to three
records. Revisions to 2 cover a first write, its replacement or tombstone and
the stale repeat; a volume's first commit, its deletion and its return need no
more, since the return starts over. Stamps to 4 and
a lease time of at most 3 cover held, expired, recycled and granted again.
Two fan-out members with a full replica set have every mixture of one that
acknowledged and one that did not; a third would add counts, not cases. A sweep
over pages of two digests and windows of one key needs several pages and
windows. Four resident slots of three extents leave two for staging, so that a
write finds them full and commits; commits of more bodies are in `VolumeRefused`. One
network slot for two clients and three
ids for two pending requests make slots and ids come back at once. Faults are
counted (one or two per scenario): enough for a failure and a failed attempt to
recover, and every scenario also covers fewer. Object ids and holders are interchangeable and reduced by symmetry; keys are
ordered and are not.

### Fairness

`WalIo` assumes that the kernel steps a module again and again and the provider
decides each request in the end: weak fairness of opening, of the append's poll
and of the rotation's poll. Nothing is assumed of which answer is given, of
requests, or of crashes. `namespace_live` assumes a device that does not fail
(`FaultlessSpec`), weak fairness of what owns a step, and strong fairness of the
compaction, because `step_body` polls the compaction in every step that no
staged record owns, before it takes a request. `RoomReturns` speaks of behaviours in which from some
time on no write is acknowledged: while writes succeed they may fill the arena
again as fast as compaction clears it. `BodyStore` assumes weak fairness of
the held request's poll and of each owed removal: every step asks both.

`BodyFanout`, `AdminRouter`, `LoamVolume` and `AdminSession` state weak fairness
with the guard written out, `[]<>~guard \/ []<><<A>>_vars`, because the guard is
cheaper than the action. It is the same assumption in each: the kernel steps
every module again and again, a module's step drains each of its channels, and
a plane, a member that reads and the node answer what they took. Deadlines pass
(`Expire`, `Stranded`), the scrub's timer fires, the consumer reaps. A member
that stopped reading need never start again, nothing is assumed of clients,
clocks or faults beyond their counts, and no answer is assumed to be a good one.

`namespace_live`, `body_fanout`, `admin_router`, `loam_volume` and
`admin_session` do not check deadlock: with its log full, or its requests and
faults spent, the instance may stop, as the system may when nothing is asked. Everywhere else
deadlock is checked.

## 4. Proofs

Every theorem holds for every value of the constants that the named assumptions
of its module allow; TLC evaluates those assumptions on every run. Each proof
has one lemma per action and rests on an inductive invariant of the module.

| Module | Theorems | Properties proved |
|---|---|---|
| `VolumeLeaseProofs` | `Inductive`, `TypeCorrect`, `FencesUnique`, `CommitsFenced` | `TypeOK`, `FenceUnique`, `CommitFenced` |
| `VolumeRecordProofs` | `RecordsInductive`, `StampsOrdered`, `FlushesGuarded`, `RotationsExact` | `StampOrder`, `FlushGuarded`, `RotationExact` |
| `WalIoProofs` | `Inductive`, `TypeCorrect`, `AckedSurvive`, `UntornSurvive`, `ReplaysExactly`, `RefusedStayUnfenced` | `TypeOK`, `AckedReplayable`, `NoneBehind` (without torn frames), `ReplayExact`, `RefusedUnfenced` |
| `BodyStoreProofs` | `Inductive`, `TypeCorrect`, `TemporariesKept`, `RetiredStayGone`, `StoredStayWhole` | `TypeOK`, `TempKept`, `RetiredGone`, `WholeByRename` |
| `NamespaceProofs` | `Inductive`, `TypeCorrect`, `CoveredStayExact` | `TypeOK`, `CoveredExact` |
| `AdminRouterProofs` | `SweepInvariant`, `SweepSparesAlways` | `SweepSpares` |
| `AdminAnswerProofs` | `AnswerInvariant`, `AnswersStayExact` | `AnswerExact` |
| `BodyFanoutProofs` | `FanoutInvariant`, `AckedStayReplicated`, `AnswersStayRight` | `AckedReplicated`, `AnswersRight` |

**Fences** (any set of volumes and holders, any number of slots). `FenceUnique`
alone is not inductive: nothing in it says where the next fence comes from.
`IInv` adds that no two slots name one volume (`Distinct`), and that the table
remembers each fence ever issued (`Covered`): the entry naming its volume stands
above it, or at it with the same holder, and when no entry names the volume the
floor is at least as high. A grant goes one above the entry or one above the
floor, so it exceeds every fence `Covered` speaks of; recycling keeps `Covered`
because it folds the entry's fence into the floor. All actions but `LeaseRecord`
keep every fence of the table (`SameFences`), and for those `NoGrant` suffices.
`CommitFenced` follows because a commit holds the entry's own fence and `Covered`
puts every other below it.

**Records.** Everything a record does to the table is one relation, `Rewrites`:
one slot rewritten with a later stamp, the slot being the volume's own, the
first free one, or a recycled one whose stamp goes into the floor. `StampOrder`
is read off it, with a history of the last stamp that the entry or the floor
stands above (`Stamped`). For `FlushGuarded` the invariant (`Guarded`) says that
no generation whose flush is open has had a deletion happen under it, because a
candidate is proven only while no flush is open and keeps its reservation, which
keeps flushes from opening; a commit needs its flush open. `RotationExact` is about
`Reseeded`, a recursive function over the slots: the table after `i` records is
shown to be the old table cut at slot `i`. The proof gives that explicit solution
and takes a least counterexample (`WFMin` over the naturals), in place of an
induction principle.

**Log** (any `MaxRec`; devices that leave half a frame at a crash and devices that do
not). Failed and
short writes, failed fences, crashes at every stage and unfenced frames, whole or
half, that survive are all there. `IInv` says what lies behind the fence at each
moment: nothing, the staged record's frame, or, once the log is latched broken,
anything (`TailKnown`). The fenced frames up to the first half one, `n` of them, are
what counts: what was acknowledged is among them or is in `behind` (`Reach`), and
what the caller applied starts with them and goes on with records of `behind` only
(`Applied`). An append over a whole log adds to the `n`, one behind a half frame to
`behind`, and a rename starts over with a whole log of all the caller applied.
`UntornSurvive` assumes `~TornTails`: there `behind` stays empty (`Untorn`), so
`NoneBehind` holds, which `WalTornTail.cfg` refutes otherwise. `Numbered` is needed because a refused record may stay behind the latch:
that no later record repeats it is what keeps it refused.

**Body store.** `TypeCorrect` and `TemporariesKept` hold whatever fails.
`RetiredStayGone` assumes that a name fence does not fail and `StoredStayWhole`
that neither a name fence nor an unlink does; section 3 says how each property
fails otherwise. The invariants relate each content path to what a crash may
leave of it: they agree, but for the one file whose removal is about to be
fenced (`Gone`); what is about to be renamed is whole (`Staged`), which for a
streamed write needs that its temporary is the session's alone.

**Namespace.** `IInv` is the type invariant, with an arena that is within its
capacity, and `Merging`: while a generation is written, a slot that the merge has
passed and that bears a mark is emitted and holds what the new generation holds.
`CoveredExact` is not inductive without it, because opening the generation turns
emitted slots into covered ones. A slot written during the merge loses both
marks (`Spares`), which is the point of the argument; marks left by a compaction
that was given up lie ahead of the new cursor or are passed again. `Seeds`, the
records a rotated log opens with, is a recursive function and is handled as
`Reseeded` is.

**Sweep** (any clients and scripts of requests, any number of keys and digests,
any map of a volume's blocks, any sizes of tables and queues; `SizesAssumption`,
`MapAssumption`, `RouterAssumption`, `ConfigsAssumption`). `SweepSpares` speaks of
the step at which the body plane takes the delete, many steps after the sweep
looked. `SweepInv` says of the sweep's one request on the way what it
stands on (`Duty`: how much of the namespace has been looked at for the reserved
id), that the queued request asks what the sweep believes it asked (`Asks`), and
that an answer on the way is still true when the router takes it (`Hears`).
Answers of the namespace and the index come in the order of the entries
(`InOrderAnswers`), those of the body plane by id (`ById`). The router's handlers are moves of three
kinds, for a client, of the raw plane and of the sweep, and each kind keeps the
invariant. A plane's step keeps what is proven of a reserved candidate: a reserved
digest cannot be bound, no flush begins while anything is reserved, a commit
needs an open flush, and only a release takes a reservation away. A release on the
way is the sweep's own, and then it has no other request there, or the raw
plane's, whose turn excludes the sweep's.

**Answers** (under the sweep's assumptions; any faults of the planes, any table
or queue full at any moment). `AnswerExact` speaks of the moment an answer is
owed, when all that decided it is gone; `AnswerInv` follows the request there.
A client has one entry or answer on the way (`Alone`), one PutFile slot at most,
for what it asks (`SlotsFit`). An entry at the namespace whose request is still
queued has had nothing carried out and, of a composed operation, names the
slot's own stage; one whose answer is on the way says OK if and only if the write
was carried out, unless the stage is a lookup, and then nothing was (`NsAsked`,
`NsSaid`). That is why a retry is sound: a write that lost its race is decided
afresh from a state in which nothing was done. The body plane carries out a
client's write for the raw plane only (`BodyFits`, `BodyAsked`), whose record
keeps the outcome while its digest is released (`RawFits`). `done` is a history of
what the planes did, so it stands for no state of the router. A handler takes
the one entry of its client away and then answers, sends one request on, or does
neither (`Goes`); each of the router's handlers is shown to be such a step, by
way of the operations they are composed of, and `GoesTold` shows once that such a
step keeps the invariant. It uses `SweepInv` for the order of answers and for the
raw plane's one request.

**Fan-out** (any members, clients, join and pending slots, requests and faults;
`SizesAssumption`, `RankAssumption`, `ContentAssumption`, `ConfigsAssumption`,
`NoneAssumption`, `FleetsAssumption`). The theorems assume `Streamless`, that no
client opens a streamed write: with streams `FanoutStreams.cfg` refutes
`AckedReplicated`. `FanoutInv` says that awaited ids are unique for each member
(`AwaitGood`); that a letter not yet served is about what its join holds, so
that an answer applied to a reused slot is that slot's own (`LettersGood`); that
a client has one join, about its request (`AskerGood`, `OneJoin`); that a read
waits for the member its walk has come to and for no other (`WalkGood`); and of
a write none of whose requests failed, that answers had and answers awaited
are no more than it needs and that each member it is for is awaited, holds the
body or has lost it (`PutGood`). The last is what makes counting
acknowledgements sound: `apply_put` counts answers, not members. Who holds what
is a parameter `H` of these parts, because a handler runs after the member's
store has changed, and `Puts(S, H, i)` leaves out the one join whose answer is
being counted. Every handler, from `dispatch_to_target` up to
`apply_join_response`, has a lemma that takes a good router to a good router;
`FanOut` and `SpawnRepairPuts`, loops over the targets, are recursive functions
and go by the least round at which the router is not good (`UpTo`).

Only model-checked, and why:

- liveness (`StepsReturn`, `RequestDecided`, `RoomReturns`, `RequestAnswered`,
  `ScrubHeals`, `ReservationEnds`): out of the prover's reach;
- `ViewExact`, `ViewExactWithRoom` and `RetentionKept`: they compare the state
  with the outcome of replaying the log, an induction over its content, and they
  hold for the operations of the runs' instances only (`NsRename`, `NsRecreate`);
- `AckedReplicated` and `AnswersRight` with streamed writes: the first has a
  counterexample there (`FanoutStreams`), the run has the instances in which both
  hold;
- `ClosedForCause` has a counterexample in instances other than the run's
  (`VolumeRefused`): what a theorem would have to assume of `Configs` is most of
  the scenario;
- `RawSpares` has a counterexample outside the run's instance (`AdminRetain`);
- `LoamVolume` with its refinement, and `AdminSession`: not proved.

## 5. Not modelled

- `ec_body_router`: shards, degraded reads and rebuilds. Its members and
  deadlines are `member_io`, which `BodyFanout` has; the field arithmetic is out
  of TLC's reach.
- `raft_metadata_client`, `clustor_bridge`, and with them the namespace's
  replicated commit path: the consensus they wait for is outside the repository,
  and what it may repeat or reorder is not settled by the code here.
- `object_provider`: handles and multi-part puts over the same admin requests.
- `block_allocator`, `block_log`, the object index's arena and log: sequential,
  over the log `WalIo` models.
- Placement weights, epochs and domains: `Rank` and `Fleets` are parameters.
- Byte layouts, digests, checksums; frames that arrive in parts; listing pages of
  the provider and the change stream; telemetry, probes, packaging; the CLI's
  arguments and printing.
- Reads of the snapshot that are not ready put a record back unchanged and are
  left out. A log or a snapshot that cannot be read on leaves the module serving
  a prefix (`M/namespace_pic_body.rs:586`); no run has it.

## 6. Plan

Proofs, in this order:

1. `AdminSession`: the pending table's bijection, and `StreamKept` from it. The
   gate's step is a chain of folds, each of which needs its own argument over the
   rounds, as `Reseeded` and `Seeds` have.
2. `LoamVolume`: `BoundReadable`, and the steps of the refinement one by one.

Models that would come next: the read failure at boot, the change stream, the
erasure-coding router over the members of `BodyFanout`.
