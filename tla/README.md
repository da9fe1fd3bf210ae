# A TLA+ verification of the Milyra engine

Milyra (`src/src`) is a small game engine in C for Windows and Vulkan: about
7000 lines of its own, next to vendored copies of LZ4, TLSF and the Vulkan
headers. It has one main thread that runs the game frame by frame, and worker
threads for files, compression, rendering and the network. This directory holds
TLA+ models of its parts, TLC configurations that check them, and TLAPS proofs.

## Inventory

| part | state it keeps | operations | used by |
|---|---|---|---|
| `atomic`, `mutex`, `semaphore`, `event`, `thread` | one Win32 handle each | acquire/release, signal/wait, start/join | everything below |
| `queue` | ring, two semaphores, two tickets | push, pop, try_push, try_pop, dequeue | fs, render, net, trace |
| `heap` | TLSF pools, a mutex, a leak report | alloc, free, destroy | everything |
| `fs` | two queues, two threads, work objects | read, write, wait, destroy | game, audio, trace |
| `ecs` | slots, sequence numbers, states, component memory | spawn, remove, update, query | game, net |
| `net` | three connections with a thread and two queues each, snapshots, entity tables | update, connect, disconnect | simple game |
| `render` | command queue, caches of shaders, meshes and instances | push model, push done, destroy | game |
| `gpu` | frames in flight, fences, Vulkan objects | frame begin/end, create/destroy, draw | render |
| `trace` | a LIFO of open durations, an event buffer, a mutex | push, pop, capture start/stop | lecture code |
| `timer`, `timer_object`, `timeofday` | clock readings, paused/scale/bias | update, pause, scale | game, net, trace |
| `wm` | window, key and mouse state | pump, masks | main, game |
| `audio`, `wav_parse` | XAudio buffers | load, play, parse | main, game |
| `frogger_game`, `simple_game` | an ecs, a timer, resources | create, update, destroy | main |
| `vec3f`, `quatf`, `mat4f`, `transform` | none | pure float arithmetic | game |
| `debug`, `cpp_test`, `lecture7` | print mask; a counter | logging; five ways to count | |

How they interact: the main thread calls everything directly except that it
hands file works to the file threads, draw commands to the render thread and
packets to the send threads through a `queue_t`, and receives packets from the
receive thread through one. Shared memory without a queue: the connections of
`net` (under a mutex), work objects (under their event), game resources that the
render thread reads by pointer.

What is hard in it: queues with several pushers; two file threads feeding each
other; works signalled by one thread and freed by another; slots reused under
weak references; queries that walk a table being changed; GPU objects destroyed
while frames that use them are in flight; caches that swap entries about; lossy,
reordering, duplicating UDP; acknowledgements older than what they acknowledge;
connections that time out under the threads using them; threads that wait with a
mutex held; memory handed back in any order; an entity removed and spawned again
while a query walks it.

What makes each part correct:

- queue: bounded FIFO, nothing lost, repeated or read before it is written.
- fs: every work completes once, although each queue has two pushers; what was
  written is read back; shutdown returns.
- ecs: a reference denotes one entity for ever; a query sees what was there.
- render/gpu: nothing a frame in flight uses is destroyed; a draw's objects are
  live, its own, and made for its vertex layout; shutdown frees everything.
- net: a replica converges to the authority; ghosts disappear; a peer has one
  connection and its packets reach no other; `net_update` returns.
- trace: the durations of a thread nest; events fit; no call waits for ever with the
  mutex held.
- heap: callers' memory is aligned and theirs alone; freed memory comes back; the
  leak report names what was not freed, its size and where it was allocated.
- game: the player is one entity, however often it is removed and spawned.

## Modules and the code they model

Names are the code's own where TLA+ allows it: an action is called after the
function it stands for, a variable after the field. A definition whose
comment begins "Faulty variant" is a plausible mistake in the definition after
it; it is used by nothing, and put in its place it breaks one property (the
`mutants` of `PROJECT.json`).

| module | models | state | one action per |
|---|---|---|---|
| `BoundedFifo` | what `queue.h` promises | the items in it, the items received | push, pop |
| `Queue` | `queue.c`, `semaphore.c`, `atomic_increment` | the ring, two counts, two tickets, each thread's place in its call | access to shared memory |
| `EntityLifecycle` | what `ecs.h` promises of an entity | where each entity stands | spawn, remove, update |
| `Ecs` | `ecs.c` | the slots, one query being walked | function of `ecs.h` |
| `Fs` | `fs.c` | two rings, work objects, two threads, the client, the disk | step between two accesses to what threads share, with a push in its two steps |
| `Render` | `render.c`, frames of `gpu.c` | command queue, caches, GPU objects, frames in flight | command, submission, completion |
| `GpuObjects` | create and destroy functions of `gpu.c` | the Vulkan objects and allocations that exist | call that makes or destroys one object |
| `NetReplication` | replication in `net.c`, `update_players`' part in it | per host: entities, snapshot ring, connection, ghosts | game change, `net_update` up to `packet_recv`, packet read, return |
| `NetConnections` | connections, threads, timeout and shutdown in `net.c` | the table, every connection's queues and sender, the mutex, where the main and the receive thread are | step between two accesses to what threads share |
| `Allocator` | what a heap promises its callers | who holds which memory, what the system gave | alloc, refuse, free, destroy |
| `Tlsf` | `tlsf/tlsf.c` as `heap.c` uses it | none: operators on the control structure and the block headers | (one operator per function) |
| `Heap` | `heap.c`, `mutex.c`'s part in it | the TLSF structure, the arenas, the mutex, what callers hold | `heap_alloc` that succeeds, grows or fails, `heap_free`, `heap_destroy` |
| `Trace` | `trace.c`, `dequeue` of `queue.c` | the flag, the event buffer, the ring, the mutex, where each thread is, which durations it has open | step under the mutex; pass of `trace_capture_stop` |
| `FroggerGame` | the player in `frogger_game.c` | the slots of `Ecs`, positions, where `frogger_game_update` is | step of the frame |

How they compose. `Queue` is shown to implement `BoundedFifo`, `Ecs` to
implement `EntityLifecycle` and `Heap` to implement `Allocator`, each by a
refinement mapping at the end of the detailed module. `Render` and `NetConnections`
use the queue as the bounded FIFO it implements for one pusher and one popper.
`Fs` cannot: `file_queue` is pushed by the client (`fs.c:82`, `fs.c:107`) and by the
compression thread (`fs.c:320`), `comp_queue` by the client (`fs.c:103`) and by the
file thread (`fs.c:206`). It has the rings of `queue.c` itself, with a push in two
steps: claim a slot, then store and release. `Trace` has a ring of its own too, as
its `dequeue` takes from the other end. `Heap` extends `Tlsf` and calls its operators. `FroggerGame`
extends `Ecs` and takes its actions for every call it makes of it;
`NetReplication` uses of the ecs that a removed entity stays valid until the next
`ecs_update`. `NetConnections` and `NetReplication` share no state: what is a set
of packets in one is the queues and threads in the other, and of a timeout the one
has the torn-down queues, the other (`Forget`) the lost acknowledgements and ghosts.

What is abstracted. `Queue`: pointers are model values. `Ecs`: component bytes
are the slot and type an address belongs to. `Fs`: the contents of a file are
their size, which is what the compression header has to carry; LZ4 is its
contract; a pop is one step, as each queue has one popper, and so are the store and
the release of a push, as the popper looks at nothing before the release.
`Render`: an instance's buffers are one object, a shader and its pipeline are one,
but the layout that the pipeline was made for is kept (`pipelines`); which pipeline
and mesh were bound last is left out, and so are acquiring and presenting images:
what is recorded belongs to `frame_index`. `GpuObjects`: a Vulkan call that makes
nothing is a step that can fail.
`NetReplication`: an entity has one type and one component, a snapshot fits the
MTU, and the network (with the send and receive threads and their queues, which
only delay, drop and reorder) is the set of all packets ever sent.
`NetConnections`: a packet is the address it came from; a connection once made
keeps its number, so that a stale pointer to its queues is still one to them, and
using a NULL queue, or perhaps a destroyed one, sets `crashed`, where a behaviour
ends. `Tlsf`: memory is the block headers in it; what a caller may have written
over, and memory never written, is `Junk`, so that reading it shows. `Heap`: a
callstack is the address it is stored at. `Trace`: an event is its kind, its
duration and its thread, and a byte of the file; a thread pops as often as it has
pushed. `FroggerGame`: positions are the player's row in units
of 2; where the trucks of a lane are is left open.

## Runs

| run | question | bounds, and why they are enough |
|---|---|---|
| `queue_spsc` | Is the queue a FIFO for one pusher and one popper? | 3 slots, 7 pushes: every slot is written three times, so full, empty and wrapped rings meet every interleaving |
| `queue_many_pushers` (violation) | And for two pushers? | 2 slots, 3 pushes |
| `ecs` | Do weak references, queries and removal hold up while slots are reused? | 3 slots, 3 spawns: a slot is used by three entities in turn, a query has slots before, at and after it |
| `frogger_game` | Is there always one player, and does a new one begin at the bottom? | 3 slots, 9 spawns: the player moves through every slot and back; a frame moves it half a lane at most, and one truck touches it |
| `fs` | Does every work complete, once, intact; does shutdown return? | queues of 2, 3 works, all of them perhaps undone: more than a queue holds; one plain and one packed path; header bytes of 4 values, and both bit patterns of the others that have no sign |
| `render` | Is nothing in use destroyed, everything drawn right, everything freed? | two looks with a layout each, both always drawn; 3 frames in the swap chain as in the code's minimum, 5 frames, 2 entities always drawn and 2 that come and go: their instances are evicted and made again |
| `gpu_objects` | Does a failure at any step leak, destroy a parent before what lives in it, or leave something without what it was made from? | 3 swap chain images; every step of every create function fails once |
| `net_replication` | Does a replica show exactly the snapshot it was sent? | 4 server updates against a ring of 2 snapshots, 2 client updates, 2 entities: a baseline is missing, current, old and overwritten; the server times its client out at any time |
| `net_connections` | Does the connection table survive timeouts, new peers and shutdown at any moment? | 2 slots for 3 peers, queues of 1, 2 packets besides `net_connect`, 1 `net_update` and the shutdown: a slot is dropped and taken by another peer, the table is full, the receive thread is held up anywhere meanwhile |
| `heap` | Is memory exclusive, aligned and never lost? | words of 2 bytes, 2 arenas of 22 words, 5 allocations of 3 sizes and 3 alignments: blocks are split on both sides, merged with either neighbour and with both, and arenas run out |
| `heap_leaks` (violation) | Does the leak report give the size and the callstack? | as above |
| `trace` | Do the durations of each thread nest, fit, and never wait for ever? | 2 threads, capacity 3, 4 durations, 2 captures: pushes outside of captures, captures stopped with durations open and popped later |

What they show of the code, beside that it is right: with two pushers a popper
may read a slot that was claimed and not yet written (`queue.c:41-43`), and the
leak report reads its callstack, and takes the size, from the end of the block
where `heap_alloc` has used the end of the request (`heap.c:118`, `heap.c:140`).

The passing runs name in their constants what holds only as long as something is
avoided. Beside the runs there is a configuration for each such thing, which TLC
is expected to refute (`tlc -config X.cfg M`):

| configuration, module | property | what it shows |
|---|---|---|
| `MCEcsComponents`, `Ecs` | `ComponentPresent` | `ecs_entity_get_component` returns the memory of a component the entity does not have (`ecs.c:132`; `ecs.h:55` promises NULL). `frogger_game.c:318` relies on it |
| `MCFsTwoPushers`, `Fs` | `EveryWorkInOnePlace` | a client that does not take turns with the workers (`TakesTurns = FALSE`) is overtaken between claiming a slot and storing to it (`queue.c:41-43`), and the popper takes what the slot held before: a work handled twice, and one lost |
| `MCFsManyWorks`, `Fs` | `EveryWorkCompletes` | with `TakesTurns = FALSE` and compressed reads and writes undone together, more than the queues hold, the two file threads wait for each other for ever (`fs.c:206`, `fs.c:320`) |
| `MCFsDestroyBusy`, `Fs` | `DestroyedQueuesUnused` | `fs_destroy` with a compressed write undone (`QuietDestroy = FALSE`) destroys `file_queue` while the compression thread has yet to push to it (`fs.c:64`, `fs.c:320`) |
| `MCFsGarbageBytes`, `Fs` | `ReadsIntact` | of the signed `dst_buff_size` one byte is copied (`fs.c:284`, `fs.c:292`): if the stack held a sign bit in the others, the size is negative and the read fails, signalled as a success |
| `MCFsLargeFile`, `Fs` | `ReadsIntact` | a packed file of 256 bytes or more (`MaxSize >= ByteRange`) is not read back: its size is kept in one byte (`fs.c:292`, `fs.c:314`) |
| `MCRenderStale`, `MCRender` | `RendersWhatIsPushed` | when a mesh or shader drops out of use (`Resident = {}`) the slot it leaves keeps its pointer, and the next one in it is drawn with a destroyed object (`render.c:217`, `render.c:251`) |
| `MCRenderLayouts`, `MCRender` | `RendersWhatIsPushed` | two meshes of different layouts drawn with one shader share the pipeline made for the first (`render.c:221`, `render.c:226`) |
| `MCRenderWaitFails`, `MCRender` | `NothingInUseDestroyed` | a `vkWaitForFences` that fails is printed and passed over (`gpu.c:1291`), and stale objects are destroyed under a frame that uses them |
| `MCRenderSubmitFails`, `MCRender` | `ShutdownReturns` | a `vkQueueSubmit` that fails (`gpu.c:1314`) leaves its fence reset: the render thread waits for it for ever when its index comes round, and the main thread with it |
| `MCRenderRecords`, `MCRender` | `RecordsIdleFrame` | `gpu_frame_begin` begins the command buffer of a frame that may still be executing (`gpu.c:1221`): the fence is waited for in `gpu_frame_end` only |
| `MCNetDelta`, `MCNetReplication` | `ReplicaMatches` | a value that changes and changes back before the first change is acknowledged is never sent (`net.c:486`) |
| `MCNetForgets`, `MCNetReplication` | `ReplicaMatches` | a client that timed its server out and hears of it again is sent differences to snapshots the new connection never saw (`net.c:408`) |
| `MCNetGap`, `MCNetReplication` | `ReplicaMatches` | the snapshot stops at the first entity that is gone (`net.c:422`); one that was left out for an update comes back to a ghost already marked for removal (`net.c:589`) and is not shown |
| `MCNetDeadSender`, `NetConnections` | `CallsReturn` | a `sendto` that fails ends the send thread (`net.c:298`), and a later `net_update` waits for ever for room in its queue (`net.c:522`) |
| `MCTraceThreads`, `Trace` | `OwnDurationEnded` | with two threads a pop ends the other thread's duration (`trace.h:17` says "on the current thread") |
| `MCTraceStart`, `Trace` | `DurationCallsReturn` | a capture started with a duration open (`QuietStart = FALSE`): its pop waits for ever in `dequeue` on a queue that is empty, with the mutex held (`trace.c:82`) |
| `MCTraceTerminator`, `Trace` | `NoByteBeyond` | the terminator of the last `snprintf` goes one byte beyond the memory made for the text (`trace.c:154`, `trace.c:131`), where `heap_alloc` keeps the callstack (`heap.c:118`) |
| `MCTraceStop`, `Trace` | `EventsFit` | `trace_capture_stop` under a running push (`QuietStop = FALSE`) writes an event it has not measured (`trace.c:111`, `trace.c:134`) |
| `MCFroggerTwoTrucks`, `FroggerGame` | `OnePlayer` | two trucks that touch the player in one frame spawn two players, of which only the first is tested from then on (`frogger_game.c:467`); a long frame brings trucks of a lane together, as `frogger_game.c:503` mirrors the overshoot |

`FroggerGame` fails in the same way with `MaxStep = 2`: in a frame of 400 ms the
player passes the top and is still in the last lane when the trucks are tested.
`NetConnections` reaches states with `crashed`
set (the receive thread uses a slot after it released the mutex, `net.c:384`;
`net_update` reads the table without it, `net.c:159`), and states in which a
connection made after `net_disconnect_all` is never taken down; no comment of the
source promises the contrary, so no property does.

`CHECK_DEADLOCK FALSE` is set where the model may stop: in the configurations above
about programs that hang or crash (`MCFsTwoPushers`, `MCFsManyWorks`, `MCFsDestroyBusy`,
`MCTraceStart`, `MCRenderSubmitFails`), and for replication, where a bound on updates ends a behaviour.
Elsewhere a finished program is an explicit stuttering action (`Drained`,
`Finished`, `Over`, `Done`), and a deadlock anywhere else is an error.

### Fairness

- `Queue`: a thread that is inside a call goes on with it (weak), and a popper
  that finds items again and again takes one in the end (strong): poppers are
  endless loops around `queue_pop`, and a semaphore wakes its waiters. Nobody
  has to push.
- `Ecs`: every frame ends its queries and calls `ecs_update`
  (`simple_game.c:126`, `frogger_game_update`).
- `Fs`: the two worker threads run; the client finishes a call it is in when it
  is not blocked. It never has to start one.
- `Render`: the render thread and the GPU run (a driver that stops executing is not
  what the engine guards against); the main thread finishes a
  shutdown it has begun.
- `NetConnections`: threads inside a call run (weak), and the main thread, when
  the mutex is free again and again, gets it (strong: a Win32 mutex serves its
  waiters in turn). No packet has to arrive and no call has to be made.
- `Trace`: a thread inside a call goes on, and gets the mutex in the end
  (strong, for the same reason). No thread has to make a call.
- `NetReplication`, `GpuObjects`, `Heap` and `FroggerGame` state safety only. A
  replica's eventual consistency is `ReplicaMatches` (whoever has applied the
  last packet shows the last snapshot) together with any one packet of the last
  state arriving, which UDP does not promise.

## Proofs

TLAPS proves the theorems of `QueueProofs`, `EcsProofs`, `FsProofs`, `RenderProofs`,
`ResourceProofs`, `NetReplicationProofs`, `NetConnectionsProofs` and `TraceProofs` for
every value of the constants, from the assumptions named in `Queue`, `Ecs`, `Fs`, `Render`,
`GpuObjects`, `Tlsf`, `Heap`, `NetReplication`, `NetConnections` and `Trace` alone: positive sizes, replicated
values that are numbers, finitely many threads of a queue, no thread both pushing and
popping, that an unwritten slot's `NoItem` is no item, that `NoPeer` (port 0) is no
peer's address, `NoThread` no thread and `None` (NULL) no pointer, that entities,
meshes and shaders are different things, and what `Tlsf` and `Heap` take of the geometry
(below). `Allocator` assumes nothing. A hypothesis of a
theorem beyond these is named below, with the run that shows that it is needed.

`QueueProofs`:

- `TypeCorrect` (any threads): counts stay within the capacity, every index
  addresses the ring.
- `Conservation` (any threads): free, used and held tokens add up to the
  capacity. The three lemmas on `Busy` say how the number of running calls
  changes when one starts, ends or goes on; each action is one of the three.
- `RefusalsAlwaysJustified` (any threads): from `UnreadCounted`, what was sent and
  not received is what is used plus what is `Underway` (written and not yet released,
  or claimed by a pop and not yet returned), so that a semaphore that reads zero means
  that every slot, or every unread item, is in the hands of some call.
- `PairFifo`, `PairSlotOwned` and `PairImplementsFifo` (one pusher, one popper). FIFO order is
  not inductive: it says nothing of a slot that is claimed and not yet written,
  or of what lies in the ring. `PairInv` does. Its `PairTickets` ties both
  semaphores to the tickets (what is used is what was written and not yet
  claimed, what is free is what was read and not yet claimed); its
  `PairHistory` says that the ring holds, from the last read position to the
  last written one, what was sent there. The tickets in between span less than
  one lap, so `DistinctSlots` (two numbers less than Capacity apart have
  different remainders) gives that no two calls share a slot. The refinement
  maps the write of a slot to the push and the read to the pop; every other
  step stutters.

`EcsProofs`: `TypeCorrect`, `ReferencesNameOccupants` and `StaleStaysDead`,
from `IInv`: sequence numbers in the table and in references lie below
`global_sequence`, two slots never have the same one, a reference with the
number of a slot's occupant points to that slot, and every number in the table
has its reference out. `RefsNameOccupants` alone is not inductive, as it does
not exclude that a new number is one already in use. `QueriesVisitAll` has an
invariant of its own, `WalkInv`: every expected slot up to the current one was
visited, and both still match, as a query's body can only spawn into slots that
do not match and a removal takes effect at the next `ecs_update`.

`TableImplementsLifecycle`, the refinement: `LifeReads`, which follows from `IInv`,
says how the mapping reads the table; then `ecs_update`, a spawn and a removal map
to the step of the same name and every other step to a stutter. A spawn's slot is
the one that is free, so the entities that exist, which the slots in use cover, are
fewer than the slots.

The last section is about `FroggerGame`, the game that drives this table: `AlwaysOnePlayer`
and `AlwaysRespawnsAtStart`, for every number of slots and spawns and any length of road.
`GameInv` says for each place in a frame which slots are in use: one player (`Alone`), one
that was removed and nobody has come for (`Leaving`), or one whose successor waits at the
start (`Replaced`), the latter two only after a respawn in this frame. As removal is
deferred, queries go on finding the old player (`PlayerFound`), and a truck would replace it
once more. It cannot, under two hypotheses: one truck at most touches it (`OneTruck`;
`MCFroggerTwoTrucks.cfg` shows two) and a frame moves it by one step of the grid at most
(`ShortSteps`), so that a player removed at the top is still beyond the last lane after
its move; with `MaxStep = 2` it is not.

`FsProofs`: `WorksInOnePlace`, `QueuesDestroyedUnused` and `SmallReadsIntact`, for every
set of paths, capacity and number of works, more than the queues hold included. All three
are about a client that is `Orderly`: it never pushes to a queue the worker at the other
queue may push to as well (`TakesTurns`; without it `MCFsTwoPushers` refutes the first),
and it calls `fs_destroy` with no compressed work undone (`QuietDestroy`; `MCFsDestroyBusy`
refutes the second). `fs.c` asks neither of its callers; all the callers in the repository
keep to both, as none uses compression. The third takes `MaxSize < ByteRange`
(`MCFsLargeFile`) and `NoSign`, that the bytes that are not copied make no size negative
(`MCFsGarbageBytes`), besides.

The proof is in two layers. `TurnsInv`: of the two that push to a queue one at most has
anything to push, so `RingsInv`: each ring has at most one slot that is claimed and not
stored, the last. Hence what lies between the two indices (`Waiting`) is a FIFO, to which
a claim adds nothing, a store its work at the end, and from which a pop takes the head
(`RingClaims`, `RingStores`, `RingPops`, together `Effect`). The second layer is about these
two FIFOs. `PlaceInv` says the first theorem without counting: a work is undone if and only
if it has a holder (`Has`), no work has two, no queue repeats one; every step moves at most
one work from one holder to another (`Moves`), and the counts follow.
`QueuesDestroyedUnused` is not inductive: it takes that the NULL is the last a queue gets
(`StopInv`), that only compressed works are near the compression thread (`KindInv`), and
that none of those is undone while `fs_destroy` runs. For the reads, `ReadInv` adds that
what is waiting to be unpacked is what was read for that work; `HeaderHolds` is the
arithmetic of the header byte.

`NetReplicationProofs`: `ReplicaAlwaysMatches`, `GhostsAlwaysDisappear` and
`VersionsAlwaysForward`, for every ring, table and number of updates, and with all packets
ever sent still on the way. They have five hypotheses (`Orderly`): connections are mutual;
a component's values never come back (`ValuesGrow`; `MCNetDelta.cfg` refutes
`ReplicaMatches` without it); a game removes its last entity first (`LastRemoved`;
`MCNetGap.cfg`); a host that times its peer out is not one that is sent entities
(`KeepsAuthors`; `MCNetForgets.cfg`); and the ghosts of all entities have room
(`RoomForAll`), as the sweep at the end of a packet frees a slot only at the next
`ecs_update`. `MCNetReplication.cfg` satisfies them all.

`ReplicaMatches` says nothing of the packets that are still to come. `IInv` does, along the
way a value takes. `TableInv`: an entity that has been in a snapshot is in every one since,
and in the next unless it is removed, as no slot before it is free or will be (`Lasts`).
`HistoryInv`: so the snapshots that have an entity are consecutive, and its versions in them
go forward. `RingInv`: a slot of the ring that has a number below `sequence` holds the
snapshot of that number, whichever of the same remainder were there before. `AckInv`: what
is acknowledged has been received. `BodyInv`, which these four give of each packet as it is
made: what the delta leaves out is an entity with the value it had in a snapshot no later
than the receiver's last; it stays so while the receiver goes on to later ones. `GhostInv`:
the ghosts are those of distinct entities out of snapshots received, and the ones of the last
snapshot show it (`Replica`). When a packet is read, a value left out is therefore that of
an older snapshot and of the new one, so by `HistoryInv` of all in between, and the ghost
has it. A new ghost finds a slot by a pigeonhole argument (`Vacancy`). `Delta` and `Read`
are recursive functions; that they exist and what they satisfy after each entity
(`DeltaTells`, `ReadReplicates`) is proved by the least number at which it would fail. `KeepsAuthors` makes a `Forget` harmless: that host has no ghosts to lose, and
a sender that is told -1 again sends differences to nothing.

`NetConnectionsProofs`: `PeersHaveOneConnection`, `QueuesLastLongEnough` and
`PacketsStayWithTheirPeer`, also for a `sendto` that fails. That addresses are
distinct is not inductive: a thread that looked, found nothing and is about to claim
a slot could be overtaken. `IInv` says what it may rely on until then. `MutexInv`:
a thread is between looking and making if and only if it holds the mutex, so there is
never more than one; `MakingInv`: that thread's peer is still in no slot, and then in
its slot only, without queues. `TableInv` and `AliveInv` tie the table to the
connections made: the live ones are those in the table, less the slots that
`net_disconnect_all` has been past (`Passed`), which stay in the table until it is
cleared. `StampInv` is about the slot the receive thread goes on using after it let
go of the mutex: only a timeout takes an address out of the table, and only the
receive thread puts one in once `net_connect` is over, so that the slot is still the
packet's peer's or is empty; in the latter case its queues are NULL and the program
ends before anything is pushed. `SoftChange` covers, once for all of them, the steps
that change only what queues hold or where a send thread is.

`TraceProofs`: `EventsAlwaysFit`, under `QuietStop` (captures are only stopped between
calls), without which `MCTraceStop` refutes it; `QuietStart` may be `FALSE`. What is
written fits what was measured but for one byte, the terminator, which does not
(`MCTraceTerminator`). `EventsFit` says nothing of calls that
have yet to record. `CountInv` does: of the two events every traced duration has in the
end, the buffer holds those that are recorded, each open duration needs one more and each
call that is `Promised` (begun while capturing, not recorded) two more. Stopping a
capture only shrinks `Promised`. `StopInv` says that nothing is recorded between the two
passes of `trace_capture_stop`.

`AlwaysWellNested` has no hypothesis: it holds whenever captures start and stop, also in
the runs that hang. It is about each thread's events by themselves, as a trace file is
read; `OnQueue` is about all of them. The queue holds, oldest first, the begin events of
exactly the durations that are open, except for one that was just recorded and is about to
be queued. So what `dequeue` gives is the newest of all that are open, of whichever
thread, and in particular of its own thread. `Numbered` says that no two begin events are
about the same duration, so that an end event ends one and leaves the others open.

`RenderProofs` has two invariants. `BaseInv` holds of every game: each cache's entries in
use hold objects made for distinct keys (`ShapeInv`), whatever exists is in some cache
(`AliveInv`), NULL is the last command and what follows it finds the queue empty
(`StopInv`). With `Room`, a pigeonhole argument that a cache whose entries have distinct
keys has a slot for one more, it gives `ShutdownAlwaysClean` without a hypothesis. The
sweep of a cache is a recursive function from the last slot down; `SweepsDownExists`,
`SweptIs` and `SweptKeeps` prove by `Least` that it ends, drops exactly what is stale and
keeps every other entry, once. `StrongInv` adds what the frames need. `FramesInv`: every
frame on the queue draws what is resident. `KeepInv`: what a cache holds exists.
`PendingInv`: the frames in flight are at most
`FrameCount`, numbered consecutively up to the current one, and what each of them uses
lies in a cache with a stamp no older than its number (`Held`); the same for the draws
being recorded (`DrawsInv`). The sweep comes after the fence of the frame `FrameCount`
frames ago, so nothing that a younger frame holds is stale. `LayoutInv`: the pipeline of a shader in the cache is
for the layout of whatever is drawn with it. `NothingInUseEverDestroyed` and
`WhatIsPushedAlwaysRendered` follow under `LooksResident`: every mesh and shader is that of
some entity that is drawn in every frame. The first needs the Vulkan calls to succeed too
(`CallsFail = {}`; `MCRenderWaitFails.cfg`): without a wait that has succeeded nothing
relates what is stale to what is in flight. The second does not, as it follows without
`PendingInv`; it needs `OneLayout`, that what is drawn with one shader has one layout, as
the cache asks for the shader only (`MCRenderLayouts.cfg`). A mesh that is not can be evicted by the sweep in a slot that is then handed out
with the old pointer still in it; `MCRenderStale.cfg`, whose game does that, shows that
the second property fails without the hypothesis. The game of `MCRender.cfg` satisfies
it, and so does `simple_game`, whose entities share one look and stay. In `frogger_game`
every mesh is in every frame too, but the player's is that of one entity after another:
the hypothesis is a little stronger than that game needs.

`ResourceProofs`, what is made of Vulkan: `NothingEverLeaks` and `NothingEverDangles`, without a hypothesis and
for any number of images in the swap chain. Neither is inductive, as neither says what
exists half way through a function. `ExistsInv` does: of the thing a call is about, a create has made
`MadeSoFar`, the part of its order it has been through, and a destroy has left no more than what is
`Ahead` in its own, on the way back from a failed create perhaps less; all
other things are there as a whole or not at all. Then a create must make nothing before
what it is made from (`Grounded`), and a destroy must destroy nothing before what lives in
it (`Released`): a struct goes after what its fields name, and the device, a pool or a swap
chain after what was made in it (`Children`). Of the rest of what an object is made from
(`Feeds`) the same is not true, and Vulkan does not ask it: `gpu_destroy` destroys the depth
view before the frame buffers made from it (`gpu.c:648`, `gpu.c:673`) and
`gpu_pipeline_destroy` the layout before its pipeline (`gpu.c:1046`). What holds of them
is that nothing is left without them when the destroy function returns (`InputsInPlace`). Both are proved of every order one segment at a time and put together by
`GroundedConcat` and `ReleasedConcat`; for the segments with one object per image that is
arithmetic on `Each`, which lists them image by image.

`ResourceProofs`, what is made of memory, for every word size, every number of lists and
sublists, every set of sizes and alignments, any number of threads, arenas and calls.
`TlsfAssumption`: a word has at least two bytes (a size has a bit for each flag), and there
are lists beyond the first. `HeapAssumption`: alignments are powers of two, a word divides the
distance of two arenas, an arena fits in between and is one that `tlsf_add_pool` takes, and
its pool is less than `block_size_max`. The last is not what `tlsf_add_pool` tests: it also
takes a pool of exactly that size, for whose first block there is no list (the comment at
`tlsf.c:499` says why requests are kept smaller). The proof of `tlsf_add_pool` stops there.

- `GoodFit` and `RequestFits` are about one call. `mapping_search` rounds a size up so that
  the first block of whatever list it names is large enough, which `block_locate_free` relies
  on without looking; both mappings are a place in a grid of powers of two, and the lemmas
  compare them there. The gap that an alignment leaves in front is nothing or a whole header,
  and was counted in the block searched for.
- `HeapIsWhole` is the inductive invariant, `HeapInv`: the arenas are where the system has
  put them, the blocks in them have their `Shape`, and those in use are `Holding` what callers
  asked for, with room for the callstack. `Shape` is what every function of `tlsf.c` relies on
  of the headers it does not look at. `Tiles`: each block ends where the next begins. `Flags`:
  each header says of the block before it whether it is free and, if so, where it is.
  `FreeApart`: no two neighbours are free. `Within`: no block is too large for the lists.
  `Lists`: the lists have the free blocks and no other, each in the one of its size, linked
  both ways, with the bits of both bitmaps set where they should be. No single function
  keeps all of it: between `remove_free_block` and `block_insert`, blocks are free and in no
  list, or free and beside one another. `Shape` therefore has a parameter `U`, the blocks of which
  that is so for now, and there is one lemma for each function (`RemoveShapes`,
  `InsertShapes`, `SplitShapes`, `AbsorbShapes`, ...) that says what it takes out of `U`
  and puts in; a call of heap.c begins and ends with `U` empty.
- `ChecksPass` and `NothingLost` state `TlsfChecks` and `NoMemoryLost`. What the checks read
  are walks, over a pool and over a list, which are recursive functions here, of as many
  steps as there are blocks. `GrowsToTheEnd` says by counting that this is enough,
  `WalkIs` and `WalkShows` that a walk over a pool gets to its sentinel and misses no block,
  `FreeListIs` that a list has all of its blocks, from the last part of `Lists` (no free
  blocks lead back only to one another). Induction over the steps is `UpFromZero`, from
  `Least`, about sets of numbers.
- `KeepsItsPromise` is the refinement, `ImplementsAllocator`: each call is the step of
  `Allocator` of that name or, when VirtualAlloc fails, a stutter. Blocks that tile an arena are
  apart, and arenas are (`SpansApart`), so that memory handed out overlaps with nothing
  held; the walks of `heap_destroy` find what is held and nothing else. `HeapIsExclusive`
  is `Exclusive` of the refined allocator, of callers' bytes and callstacks.
- `MemoryIsExclusive` is about `Allocator` alone: what `Alloc` says of the one address it
  hands out is enough for all callers' memory to stay apart; `Exclusive` is inductive.

Only model-checked: all liveness properties (`EveryItemArrives`,
`RemovedSlotsComeBack`, `EveryWorkCompletes`, `DestroyReturns`,
`EveryFrameComesOut`, `ShutdownReturns`, `CallsReturn`, `DurationCallsReturn`),
which the prover cannot reach.

## Not modelled

- `timer_object`: planned, below.
- The overflow of the queue's tickets after 2^31 operations, and of packet
  sequence numbers.
- Of TLSF: `realloc`, `remove_pool` and pools passed to `tlsf_create_with_pool`,
  which nothing calls. Of the heap: arenas larger than TLSF accepts.
- The null terminator `fs_read` may add (`fs.c:303` stores it one past a buffer of
  exactly the data's size): buffer contents are abstracted to sizes. What follows a
  size that is garbage: a `heap_alloc` of a negative or huge one (which may return NULL
  with the mutex of the heap locked, `heap.c:103`), and a terminator stored at index -1
  after a decompression that failed (`fs.c:303`). `Fs` stops at the data that is not read.
- `trace_destroy`, which pushes NULL onto a queue that may be full (`trace.c:54`) and frees
  parts that calls may be using; that `trace_create` allocates `sizeof(t)`, the size of a
  pointer, for a `trace_t` (`trace.c:40`).
- The acquiring and presenting of swap chain images: `image_index`, which may differ from
  `frame_index`, and the two semaphores all frames share.
- What the bounds and hypotheses keep out and no configuration shows: a ghost that finds
  its table full (`RoomForAll`); the receive thread's use of a destroyed queue, which ends
  in `crashed` and is not counted by `QueuesOutliveUsers`.
- `EveryFrameComesOut` counts the frames of `Drain` too, which moves `frame_counter` on by
  `FrameCount + 1` once all that was pushed has been handled.
- Vulkan parameters, uniform data (one frame's may be overwritten while it is
  executing, `render.c:293`), the pool of 512 descriptor sets, window messages,
  audio, `wav_parse`, float arithmetic, logging: I/O, data, or nothing that
  interacts.
- The rules of the two games beyond the player of `FroggerGame`, and what they ask
  of ecs, net and render.
- Other vendored code (LZ4, which `Fs` models by its contract, and the Vulkan
  headers, which are most of the repository's lines) and demonstration code
  (`lecture7`, `cpp_test`).

## Plan

Done, in the order of importance to the engine: queue, ecs, fs, render, gpu
objects, replication, connections, heap with TLSF, trace, the player. Next:
`TimerObject` (time never runs backwards, pauses are not counted).

All safety properties of the passing runs are proved.
