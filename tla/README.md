# A verification development for memfd_buffer_backend

The repository moves ROS 2 `uint8[]` payloads between processes of one host
without copying them. A publisher writes into a block of shared memory, sends a
small descriptor through the RMW, and subscribers map the block and read it in
place. When the last reader is gone the publisher uses the block again. This
directory holds TLA+ modules that model that protocol, the TLC runs that check
small instances of it, and proofs (TLAPS) for instances of any size.

Paths below are relative to `src/`. File names are shortened: `pool.hpp/.cpp` is
`shared_buffer_memory_pool`, `plugin.cpp` is `shared_buffer_backend_plugin`,
`ipc_manager.cpp` is `shared_buffer_ipc_manager`, `linux.cpp` is
`shared_buffer_platform_linux`, and the design document is
`docs/shared_buffer_backend_design.md`.

## 1. Inventory

| Component | Source | State | Operations | Talks to |
| --- | --- | --- | --- | --- |
| Control header | `pool.hpp` 34-126 | `ipc_uid`, `reader_state` (claim bit and reader count), `publish_timestamp_us`, in shared memory | acquire and release a reader, claim for reuse, drop the claim | written by publisher, subscribers and relays |
| Memory pool | `pool.hpp` 128-199, `pool.cpp` | `all_blocks_`, `free_blocks_`, `next_block_id_`, for each block `in_use` and `current_uid`; one mutex | `allocate`, `free`, `assign_uid`, `mark_published`, `refresh_publish_timestamp`, `register_block_for_ipc` | header, broker, `SharedBuffer` (deleter) |
| SharedBuffer and handles | `shared_buffer.cpp`, `shared_buffer_handle.hpp` | `HandleState` (Unset, InUse, Finalized, `active_readers`), leases, owner, deleter | read and write handles, finalize, reset, moves | header, pool |
| Buffer implementation, API | `shared_buffer_impl.hpp`, `shared_buffer_api.hpp` | a size and a `SharedBuffer`; the global pool | `resize`, `clear`, `clone`, `to_cpu`, promotion | pool, handles |
| Backend plugin | `plugin.cpp` | compatibility cache | create a descriptor (own or forwarded), import from a descriptor, discovery | all of the above, the RMW |
| Handle cache | `ipc_manager.cpp` | map from (pid, block id, IPC name) to mapping; one mutex | `import_block`, validation | broker of the publisher |
| FD broker | `linux.cpp` | registered blocks, dispatcher thread, `sockets_`, epoll | `register_block`, serve, remove, stop | pool, clients in other processes |
| Endpoint manager | `host_endpoint_manager.cpp` | host metadata | compare metadata | plugin |
| Python access | `shared_buffer_py.cpp`, `shared_buffer/__init__.py` | handle, export count, closed flag | buffer protocol, `close` | handles |
| Windows mappings | `shared_buffer_platform_windows.cpp` | named objects | create, import | pool, cache |

What is hard in this code: the header is written by several processes without a
lock; a descriptor may arrive when its block has been reused; the pool decides
about reuse from two reads of shared memory at different times; handles, buffers
and pools are dropped in any order; subscribers and publishers crash; the broker
serves descriptors from a thread of its own. `PROJECT.json` lists each such
place with its line under `hazards`, and the properties that cover it.

What makes each component correct:

- **Header and pool**: the reader word is the sum of its leases and its claim;
  a block is free, used or held by one `allocate()`, never two of them; a block
  is not reused while it is read, nor inside its grace period; `allocate()`
  waits for nobody.
- **Publishing and importing**: an imported buffer stays on the generation its
  descriptor names and shows the bytes that were published; an old descriptor
  never becomes valid again; a lost race leaves no reference behind.
- **Handles**: one writer, no reader beside it; every slot, reference and block
  is given back exactly once, whatever is moved or dropped first.
- **Broker**: until its pool is destroyed a client receives the memfd of the block
  it asked for, and of no other block afterwards; no descriptor or path leaks;
  clients are answered; a destructor returns.
- **Cache**: one mapping for a block; an import returns the memfd its descriptor
  is about.
- **Discovery**: both sides reach the same verdict; a descriptor that reaches a
  process that cannot open the mapping, or finds another block, is refused there.
- **Python**: no memoryview outlives the handle it points into; exports are
  counted; what Python code drops is given back.
- **Windows mappings**: two pools never share an object; the name of a cached
  mapping leads to nothing else; every handle is closed once.

## 2. Modules

| Module | Models | Extends / instantiates |
| --- | --- | --- |
| `ControlHeader` | the shared header and the four functions on `reader_state` | - |
| `SharedBufferPool` | the publisher: pool, owning `SharedBuffer`, publishing | extends `ControlHeader` |
| `SharedBufferTransport` | publisher, subscribers, relays and ReadHandles together | extends `SharedBufferPool`; `INSTANCE PublicationLease WITH` |
| `PublicationLease` | abstract: what a subscriber is promised | - |
| `TransportInvariant` | the inductive invariant | extends `SharedBufferTransport` |
| `LocalHandles` | buffers and handles of one process, threads in `get_read_handle` | instantiates `ControlHeader` |
| `PyAccess` | the Python access objects over these handles | extends `LocalHandles` |
| `FdBroker` | the FD brokers of one process over its descriptor numbers | - |
| `ImportCache` | the handle cache of a subscriber process | - |
| `EndpointDiscovery` | metadata and verdicts about endpoints | - |
| `NamedMappings` | the Windows mappings, and what a verdict is good for | extends `EndpointDiscovery` |
| `PublicationLeaseProofs`, `TransportProofs`, `TransportRefinementProofs`, `LocalHandlesProofs`, `FdBrokerProofs`, `ImportCacheProofs`, `NamedMappingsProofs`, `PyAccessProofs` | theorems and proofs | extend the modules above, TLAPS |
| `MCTransport`, `MCLocalHandles`, `MCPyAccess`, `MCFdBroker`, `MCImportCache`, `MCNamedMappings` | constants and symmetry for TLC | extend the modules above |

### 2.1 ControlHeader, SharedBufferPool, SharedBufferTransport

Each variable is a field of the code (`ipc_uid`, `reader_state`,
`publish_timestamp_us`, `free_blocks`, `in_use`, `current_uid`, ...), indexed by
block. `alloc` is the `allocate()` that holds the pool mutex: its `pc` is the
place between two accesses to shared memory (`scan`: try_claim_block read the
time and the reader word; `claim`: the compare-exchange; `retire`, `unstamp`,
`unclaim`: the three stores of `pool.cpp` 88-96). `publishing[p]` is the
`create_descriptor_with_endpoint` that thread `p` of `Publishers` is in (the block,
the progress, the clock that it read), `imp[i]` that of
`from_descriptor_with_endpoint` and then the buffer that it returned, `handle[h]`
a ReadHandle. `sent` is the RMW: it keeps what it was handed and delivers
anything to anybody at any time, repeatedly or never.

Granularity. Every atomic access to the shared header that another process can
observe is a step of its own, with three exceptions, each of which hides no
behaviour. A compare-exchange loop is one step: a failed round changes nothing.
`ScanCandidate` reads the publication time and the clock at once: a clock that
is read later only lets the claim through later than the model does with the
earlier value, and the claim itself comes after in a step of its own. A step of
a local operation (`GetWriteHandle`, `free`) is a critical section.

Memory order. Steps are sequentially consistent. The code's accesses are
release stores and acquire loads, and acquire-release read-modify-writes on
`reader_state`; the payload is plain memory. The one place where a store must be
seen by an earlier load of another variable is `allocate()` (claims the word,
then retires the UID) against an import (counts itself in the word, then reads
the UID). Both sides begin with a read-modify-write on the same word, so one of
them reads the other's, which orders what follows: either the import is refused,
or the claim is, or the import counts itself after `unclaim` and then reads the
retired UID.

UIDs. `uid_dist_` draws 64 random bits. The model draws 1, 2, 3, ...: it assumes
that draws do not repeat, and says nothing about the probability that they do.

Crashes. A subscriber that crashes takes no more steps; its count remains in
`reader_state`, and the runs contain these behaviours because no fairness is
assumed for dropping a buffer or a handle. A publisher that crashes is the same
with its actions.

Publishers. Several threads may publish one owned buffer at the same time. The
pool's mutex covers the registration and `assign_uid` only, so that the steps of two
publications interleave; of two times the one that is stored last stays, which may
be the older one. A buffer is not freed while a publication of it runs, as the
caller holds it.

Discipline of applications. `WritesBeforePublish` is TRUE in the runs about
bytes and in the theorems about bytes: an application publishes a buffer that it
wrote through a WriteHandle. Section 5 shows what happens without it.

Abstracted: `magic`, `abi_version`, `payload_size` in the header (they do not
change after `create_block`), the addresses of mappings, and the CPU copy when a
descriptor cannot be made (`PublishFallsBack` is that the call returns null).

### 2.2 PublicationLease

A block has a generation and bytes. A lease names a published generation and
shows its bytes; a generation is retired only when no lease names it. The
transport implements it: generation is `ipc_uid`, bytes is the payload, and the
leases are the imported buffers and the ReadHandles taken from them.

### 2.3 LocalHandles

The objects of one process. A `HandleState` is an index into `hstate`, alive
while a buffer, a handle or a running call refers to it (the `shared_ptr`).
`get_read_handle()` is const, hence may run in several threads on one buffer:
it takes a step for each access (`check`, `create`, `capture`, `enter`,
`lease`), and the unsynchronised pointer `handle_state_` is read and written in
between. The data race on that pointer is modelled by its mildest outcome, that
one of two stores is lost. Methods that are not const need the buffer for
themselves (`~Busy(x)`) and are single steps. The constant `ScopedWriters` says
whether applications keep a buffer alive for its WriteHandle.

### 2.4 FdBroker

`fds` maps the descriptor numbers of the process to files; a new number is the
lowest free one, as in POSIX, so that numbers are reused as soon as they can be.
`owner[p]` is the thread inside `register_block` or the destructor of pool `p`,
one step for each system call; `thread[p]` is `FDDispatcher::run`: it takes a
batch from epoll, looks a socket up under the mutex, then uses the two numbers
without it (`found`, `accepted`). The registered blocks of a pool keep the
mutexes of pool and broker during a call, so a pool has one owner step at a
time. `Others` is what the rest of the process opens and closes at any moment
(`OpenOther`, `CloseOther`): the two descriptors of `receive_fd_from_socket` in an
importing thread, the dispatchers' own, the application's files. They take the
lowest free number too, so that a number that `remove_socket` closed may be in
their hands when the dispatcher uses it. None of them is a listening socket; with
one, `accept4` of a dispatcher could wait for a client that never comes, and
`DestroyReturns` would not hold. Left out: the 1000 ms timeout of `epoll_wait`, after
which the loop only looks at `running_`, as it does when it is woken.

### 2.5 ImportCache

`cache` is the map from key to memfd, `mapped[m]` the number of mappings of `m`
in the process, `call[t]` an `import_block`. The mutex is held from `Lock` to
the step that returns or throws. Publishers create, publish and drop memfds; two
memfds may have the same identity (process, block number, name) one after the
other. The broker's own steps are in `FdBroker`: here it hands out what has the
name now, or fails, or is silent: `recvmsg` (`linux.cpp` 125) has no timeout, and
as the specification states no fairness, an exchange may stay at `miss` for ever.

### 2.6 PyAccess

Extends `LocalHandles` by the objects of the Python package. `native[w]` is a
`NativeWriteAccess` (its `owner_`, export count and closed flag), `reader[h]` the
`owner_` of a `NativeReadAccess`, `access[w]` the Python object with `_native` and
`_view`, `view[v]` a memoryview; `root` is the managed buffer of CPython that
derived views share, so that exports are counted per managed buffer as
`bf_getbuffer` and `bf_releasebuffer` see them. `method[t]` is the `__enter__` or
`close()` that thread `t` runs, one step per access to an attribute.

The interpreter lock is held throughout a call into C++, so no other thread takes
a step while `get_read_handle` is inside (`LockFree`). Objects whose last reference goes are
destroyed before anything else happens, as CPython does it; members in the
reverse order of their declaration: the destructor of a native write access gives up
its handle (`DestroyNative`), then `owner_` (`DropOwner`). Where `close()` gives up both,
and where the last view of a read access goes, the two are one step, as a Buffer that
loses its last reference there is destroyed in a later step of its own. A close that
races with another one may find `_native` gone and raise `AttributeError`; the
step then ends and leaves the attributes as they are.

### 2.7 EndpointDiscovery, NamedMappings

`endpoint_manager[p]` is the metadata that `get_endpoint_manager` creates once,
`announced[p]` what the RMW tells others, `compatibility_cache[p][q]` the verdict
of `on_discovering_endpoint`. A system call behind the metadata may fail at any
evaluation; the identity is then the fallback of `host_endpoint_manager.cpp`
(process id on Windows, `unknown` and the user elsewhere). `PlacementAssumption`
says what places are: processes of one host have different process ids. Of the
names that `gethostname` and `GetComputerNameA` return nothing is assumed: two hosts or
containers may have the same one, or one that equals the fallback, so that a
verdict says nothing about where a process runs. `ImportsStayLocal` is therefore
about the import, not about the verdict.

`NamedMappings` creates, opens and closes named objects: an object exists while
any process has a handle to it, and its name leads to it in the session of its
creator. `pool[k]` is `create_platform_mapping` with its attempts, one step for
each system call, then the block; `call[p]` is `import_block`, and `handles[p][o]`
counts the handles that the kernel has for `p`. A process may end at any step.
Simplifications: a pool stands for its first block, so that all names have one
block number, the case in which they collide; one thread per process imports
(`ImportCache` has several, and the mutex between them); a process that ended has
no successor; the comparison of metadata is one step, as it reads only what the
process computed itself and what was announced.

## 3. Runs

Bounds are constants in the `.cfg` files; every counter that the code leaves
unbounded has one (`MaxBlocks`, `MaxUid`, `MaxClock`, `MaxWrites`, `MaxStates`;
the number of views, pools and processes is that of the sets).

| Run | Properties | Instance and why it is enough |
| --- | --- | --- |
| `transport_safety` | TypeOK, IndInv, LeasePinsGeneration, ReadersSeePublishedBytes, ReadHandleBytesStable, ImplementsPublicationLease | one block through three uses, two threads that publish, two subscribers of which one is a relay, two handles: the block is read, forwarded and used again while an import is between its checks; writes differ, so that bytes do |
| `transport_pool` | ReaderAccounting, PoolPartition, ClaimRespectsGrace, StaleDescriptorsStayStale, AllocateReturns, ImportResolves | two sizes, two blocks, three uses: the last and the only entry of a list are claimed, stale descriptors are two uses old; a count of one bit (`ReuseClaimed` = 2) with an import and a handle, so that the mask is reached; a grace period of one tick; two threads that publish, also one block at once, so that times are stored out of order; no relay; fairness as below |
| `local_handles` | TypeOK, WriterAlone, SlotAccounting, LeaseAccounting, OneOwner | two buffers, two handles of each kind, two threads, an imported block, a count that saturates, unscoped writers: every move and clone has a target, and calls meet on one buffer |
| `broker_one` | TypeOK, ServedBeforeDestruction, NeverAnotherBlock, DescriptorAccounting, ClientAnswered, DestroyReturns | one pool, two blocks, a client, a file of another thread: the file takes numbers that a failed registration or the destruction closed, also those that the dispatcher has looked up; the numbers suffice for all that may be open (at the limit a client would stay queued as long as it lasts). A second client multiplies the states by thirteen; the theorems about safety have any number of clients, and what a client waits for is its own entry and its own connection |
| `cache_imports` | TypeOK, ImportedIsNamed, MappingsAreCached, OneMappingPerName | two threads; two pools that both have a block 0, and a successor of one with the same names |
| `py_access` | PyTypeOK, ViewsAreBacked, WriterExcludesReaders, ExportAccounting, EverythingGivenBack | two threads that enter and close one write access, two views (an exported one and one derived from it, or those of two racing `__enter__`), two buffers, one of them imported, two readers |
| `named_mappings` | TypeOK, BlocksOwnTheirObjects, NameKeepsItsObject, HandleAccounting, ImportsStayLocal, VerdictsAgree | two pools that draw from two nonces and have two attempts, so that every attempt may collide; a subscriber beside the publisher, in another session, on another host with the same process id and the same or another host name, or on Linux |

`local_handles` and `py_access` use symmetry in buffers, handles, threads and
views; the other runs do not, since they have temporal properties or too few
alike values. Runs set `CHECK_DEADLOCK FALSE`: each of these systems may come to
rest when the bounded supply of UIDs, blocks or clients is used up, or when its
pools are destroyed or its processes have ended.

Fairness. `CallsReturn` (transport): a thread inside `allocate()` or
`from_descriptor_with_endpoint` goes on; there is none for applications, which
may keep buffers, handles and writers for ever, and none for the clock. `FairSpec`
of `FdBroker`: a thread inside `register_block`, a destructor or the dispatcher
goes on unless the system call it is in blocks (`accept4` on a socket without
clients, `join` on a running thread); nobody has to call. The other
specifications state no fairness and have no liveness properties: their calls wait
for nothing but a mutex, except `import_block`. That one holds the cache mutex across
a `recvmsg` without timeout, so that a publisher that is stopped, and neither
answers nor dies, stops every import of the subscriber (`ipc_manager.cpp` 155,
`linux.cpp` 125). Whether the mutex is given back depends on the other process;
`ImportCache` has this behaviour and claims nothing about it.

Every property has a mutant in `PROJECT.json`: a definition of the model changed
the way a bug would change the code, under which the run finds the property
violated. The mutants are operators of the modules, marked as such.

## 4. Proofs

For every value of the constants, in particular any number of blocks,
subscribers, relays, handles, threads, pools and processes:

| Theorem | Module | States |
| --- | --- | --- |
| `Inductive` | `TransportProofs` | `Spec => []IndInv` |
| `TypeCorrect`, `AccountingCorrect`, `LeasesPin`, `PoolCorrect` | `TransportProofs` | TypeOK, ReaderAccounting, LeasePinsGeneration, PoolPartition |
| `PublishedBytesAreRead`, `HandlesAreStable` | `TransportProofs` | ReadersSeePublishedBytes, ReadHandleBytesStable, under `WritesBeforePublish` |
| `StaleStaysStale` | `TransportProofs` | StaleDescriptorsStayStale |
| `TransportImplementsLease` | `TransportRefinementProofs` | ImplementsPublicationLease, under `WritesBeforePublish` |
| `ClaimsRespectGrace` | `TransportProofs` | ClaimRespectsGrace, when `Relays = {}`, for any number of publishing threads |
| `LeasesKept` | `PublicationLeaseProofs` | what a lease shows does not change while it is held |
| `LocalTypes`, `WritersAreAlone`, `SlotsAreCounted`, `ReferencesAreCounted`, `BlocksHaveOneOwner` | `LocalHandlesProofs` | TypeOK, WriterAlone, SlotAccounting, LeaseAccounting, OneOwner |
| `PyTypeCorrect`, `ViewsStayBacked`, `ExportsAreCounted`, `WritersExcludeReaders`, `NothingIsLeaked` | `PyAccessProofs` | PyTypeOK, ViewsAreBacked, ExportAccounting, WriterExcludesReaders, EverythingGivenBack |
| `PythonUsesHandles` | `PyAccessProofs` | `PySpec => Spec`: the Python package implements `LocalHandles` |
| `BrokerInvariance`, `BrokerTypeCorrect`, `BrokerAccounting` | `FdBrokerProofs` | `Spec => []BrokerInv`, TypeOK, DescriptorAccounting |
| `CalmServing`, `BrokerServesUntilDestruction` | `FdBrokerProofs` | `CalmInv` and ServedBeforeDestruction, for any number of pools and other files |
| `BrokerNeverServesAnotherBlock` | `FdBrokerProofs` | NeverAnotherBlock, when there is one pool, for any number of other files |
| `CacheTypes`, `ImportsAreNamed`, `NoMappingLost`, `NamesAreMappedOnce` | `ImportCacheProofs` | TypeOK, ImportedIsNamed, MappingsAreCached, OneMappingPerName |
| `NamingTypes`, `BlocksAreOwned`, `CachedNamesStay`, `HandlesAreAccounted`, `ImportsAreLocal` | `NamedMappingsProofs` | TypeOK, BlocksOwnTheirObjects, NameKeepsItsObject, HandleAccounting, ImportsStayLocal |
| `VerdictsNeverDiffer` | `NamedMappingsProofs` | VerdictsAgree |

Assumptions are those of the modules: finite sets of importers, buffers, handles,
threads and pools, positive sizes, `ReuseClaimed` above 1, natural bounds, placements as in
section 2.7. TLC evaluates them in the runs.

**The transport.** None of its properties is inductive. That an imported buffer
pins its generation needs that a claimed block has no lease, hence that the reader
word equals its leases plus its claim, hence that an `allocate()` holds what its
program counter says (`AllocationShape`). The invariant is built in layers, each
proved from those before it, with one lemma for each process and one step for
each action:

1. `PoolInv`: the shape of the pool and of the `allocate()` in progress; the
   free lists are duplicate-free and name idle blocks.
2. `NoBlockLost`: a created block is used, listed or held. It rests on two
   lemmas about the swap with the back of the list (`RemoveSwapList`,
   `RemoveSwapSet`).
3. `GenerationInv`: the header has no UID or the current one; a sent descriptor
   with the current UID is valid; a block that is just created was never sent.
4. `LeaseInv`: the accounting, unread blocks, and that every import and handle
   is on its generation. The step that matters is `RecheckUid`: the reference is
   counted before the UID is compared a second time, and `allocate()` retires the
   UID between its claim and the end of it.
5. `BytesInv`, under `WritesBeforePublish`: a published use is finalized, and a
   local handle excludes the writer.

`StaleStaysStale` is an action property and follows from layers 1 and 3: UIDs
that are stored are at most the number drawn, and every retirement draws anew.

**The refinement.** The mapping takes the generation of a block from `ipc_uid`,
the bytes from the payload, the leases from the imports and handles that count.
To `IndInv` it adds `UidInv`: a UID names one use of one block, so that a sent
descriptor with the current UID of a block is of that block; and a UID in a header
was sent, or its publication is in progress. Five lemmas, `ToWrite` to
`ToReturn`, say which steps of the code are which steps of the promise; all
others stutter.

**The grace period.** `GraceInv` says that nobody forwards; that a time which is
stored, or read by a publisher and about to be stored, is at most the clock; that a new block has
no time; and that what the scan found out about its candidate is still true at the
claim. The last part fails with relays, whose refresh may fall between the read and
the claim: this is the run `relay_grace`, and the reason for the hypothesis.

**Handles.** `LocalInv` has five parts. `ShapeInv`: a handle without a HandleState is
no handle, two calls never fill one handle, an imported buffer has a block of another
process. `LeaseInv` and `BlocksOwned`: the reader word and the `in_use` mark of a
block, as the sum of those who hold them; `OwnStates`: buffers share no HandleState.
`StateInv`: slots are counted, a HandleState that a writer was granted is never Unset
again, and has no slot while its writer is active. `WritersAreAlone` needs all of
`StateInv`: a second writer is refused because the state is not Unset, a reader that
was there before is one of the slots. Counts are cardinalities of sets of buffers,
handles or calls; a step changes two of their elements at most (`TwoElements`, and the
lemmas that end in `Move`), and the word changes by what these held (`BufferLeases`,
`HandleLeases`). That `% 2 * ReuseClaimed` never wraps is `WordCovers`: a word is at
least what one buffer or handle holds of it.

**Python access.** Every step of `PyAccess` is a step of `LocalHandles` or leaves its variables
alone (`PythonUsesHandles`), so that `LocalInv` holds. `PyInv` adds who keeps what: one
thread at a time is inside C++ (`CallsFit`); a read access that was not promoted
keeps the Buffer whose block and HandleState its handle has (`ReadersFit`); a native
write access is closed and has nothing, or is open and keeps the Buffer that owns
its block (`NativesFit`); a live view has an open native access (`ViewsFit`), which rests on the
count of exports, as `close()` looks at nothing else. `WritersExcludeReaders` is
what `LocalHandles` alone does not give (run `local_race`): a reader of the writer's
block keeps the one Buffer of that block, has its HandleState, and `WriterAlone`
excludes it. That a HandleState is created once is where the interpreter lock is
needed (`GoesOnHandles`). The exports are counted only if a new view has a name that no managed
buffer has, as `Unused` says: a view may be forgotten before those derived from it.
This needs three threads and three views to matter, more than the run has; it
was found in the proof, which has no bounds.

**The FD broker.** `BrokerInv` says of every descriptor number that it is free or has one
holder. `ShapeOK` and `OwnerFits`: a call has exactly the numbers that its progress
says, on the paths of failure too. `FilesAreHeld`: the number of a memfd or of a
listening socket of a block is in the pool, in the entry of the map, or with the
register, remove or stop that is under way, in one of them and once. `EntriesFit`
and `RegisteredFits`: an entry is complete, and a pool's registered blocks are the entries
that nobody removes; `ConnectionsFit`: a connection and a duplicate belong to one
dispatcher. Every step opens or closes at most two numbers, and the kernel gives
the lowest free one (`LowestNumber`), so that a new number has no holder yet.
`DescriptorAccounting` counts these holders.

`ServedTheBlock` is not true of the code: numbers are looked up under the mutex and
used without it, and what `remove_socket` closed meanwhile may have been taken by
another pool (`broker_reuse`) or by another thread. Two weaker statements are.
`ServedBeforeDestruction`: as long as no destructor runs, the only numbers that are
closed are connections, those of a registration that failed, and other threads'
files, and `CalmInv` shows that none of them is one that a dispatcher will use. An
event, a look-up and an accepted connection are of a registered block whose entry
stays; a socket of a registration under way is not in the epoll set yet.
`NeverAnotherBlock` goes on through the destruction of the only pool.
`DestructionInv`: nobody registers any more, so a number of the pool that is closed
becomes a connection or another thread's file, never a socket or memfd of a block; and
the socket of an entry is closed before its duplicate, so that as long as `accept4`
succeeds on the number, the duplicate is that of the same block. Other pools break
the first half, which is why the theorem has one pool.

**The cache.** `CacheInv`: the mutex leaves one thread between the look-up and
the entry, so that a key that was not there is still not there when its memfd is
entered; a UID is drawn for one memfd, so that validation tells successors with
the same name apart; each mapping is in the cache or in the hands of that thread.

**The named mappings.** `MappingInv`: a pool has its own object from creation on,
and another one's only while it gives that back; a call holds an object of its
own session with the name that it did not find in the cache; the key of an entry
is the name of its object; objects that exist have different names within a
session. The last fact needs the accounting of handles (an entry or a call keeps
its object in existence), and the accounting needs the shapes: the two are one
induction. Handles are counted with three cardinalities, of which each step
changes one, by one element (`OneElement`, `PoolMove`, `CallMove`, `AcceptMove`).
Discovery adds `DiscoveryInv`: a process announces the identity that it keeps,
and a verdict is the comparison of the two that were announced.

Only model-checked: the liveness properties `AllocateReturns`, `ImportResolves`,
`ClientAnswered` and `DestroyReturns`, as they need fairness. Every
invariant and every action property that a passing run checks is a theorem; those
whose theorem has a hypothesis are `NeverAnotherBlock` (one pool), `ClaimRespectsGrace`
(no relays), and the two about bytes and the refinement (applications
write before they publish). The runs `broker_reuse`, `relay_grace` and
`publish_unwritten` show what the code does where these hypotheses fail.

## 5. What the code does that its documents do not say

Each of the first five is a run with one property that TLC finds violated.

- `publish_unwritten`: publishing finalizes only a write that is in use. A buffer
  that was never opened for writing is published `Unset`, and a WriteHandle is
  granted afterwards (`plugin.cpp` 113, `shared_buffer.cpp` 267-276).
- `relay_grace`: a relay refreshes the publication time and drops its reference
  between the pool's reading of the time and its claim: the block is reused
  inside the new grace period (`pool.cpp` 187-193).
- `local_race`: two threads that are the first to read a buffer create a
  `HandleState` each; the reader in the lost one does not exclude a writer
  (`shared_buffer.cpp` 218-220).
- `broker_reuse`: a dispatcher that looked a socket up before its pool removed it
  uses the number afterwards; another pool may have it by then. A client receives
  the wrong memfd, which the header validation refuses. Not only pools take numbers:
  with `Others` not empty TLC finds the same with one pool, the file being one that
  another thread opened, for instance `receive_fd_from_socket` in an import
  (106, 125). In the same situation
  `accept4` may wait on the other pool's socket, and the destructor's `join` with
  it, until a client comes: `DestroyReturns` is claimed for one pool only
  (`linux.cpp` 276-291).
- `cache_replaced`: a pool that replaces a destroyed one gets the same names; a
  subscriber with the old mapping in its cache refuses the new pool's
  descriptors, for good (`linux.cpp` 344-346, `ipc_manager.cpp` 156-161).

Re-publishing a buffer need not extend its grace period. A comment
(`plugin.cpp` 132-133) says that it does, for a relay; but the clock is read before
it is stored (`pool.cpp` 147-153), and of two threads or processes that publish one block
the one that is delayed in between replaces a newer time by an older one. The
models have these steps; what holds is ClaimRespectsGrace, which is about the time
that is stored. A remark on WriterAlone, which holds with and without `ScopedWriters`: it is about the
HandleState, not the block. A WriteHandle keeps its HandleState alive but not its
block (`shared_buffer.cpp` 264), so that a block whose buffer was cleared, resized or
destroyed may be handed out again while a writer of its earlier use is left. The
header calls a WriteHandle "scoped" access, and the constant states that rule.

And three follow from the models without being a violation of what they check:

- Publishing a buffer inside a Python write scope finalizes the write, while the
  memoryview of that scope stays writable. The design document forbids using it
  (381-384, 413); the README of the repository calls the access exclusive (52-54).
- A process on Windows that cannot determine its identity uses its process id; two
  such processes on different hosts may have the same one and judge each other
  compatible, where the comment in `host_endpoint_manager.cpp` 73-75 speaks of a
  process-unique value that prevents false matches. On Linux the same holds for
  equal user ids. And the identity that is determined has no more than the host
  name (41-42, 81-88), which two hosts or containers may share. Nothing is claimed about what a
  verdict is good for; ImportsStayLocal shows that an import after a false match
  refuses.
- Of two threads that close one Python write access at once, one may see an
  `AttributeError`. ViewsAreBacked and EverythingGivenBack hold all the same.

## 6. Not modelled

The descriptor message is generated code. Parts of two components are left out:
of the FD broker a dispatcher whose constructor failed (its registrations fail)
and an `epoll_wait` that fails with an error other than `EINTR`; of the API the
function-local static that holds the global pool. Destruction of a pool that is
not the global one while a ReadHandle points into its blocks is not modelled: the
program has the global pool only, which lives until exit. Outside of what a model
checker tells: the probability that UIDs repeat, the cost of a scan over a long
free list, permissions of the socket files, sizes of payloads and their limits,
and memory orders weaker than section 2.1 assumes.

## 7. What could follow

The project covers what its plan set out: the transport, then `LocalHandles`,
`FdBroker`, `ImportCache`, `PyAccess`, discovery and the named mappings, with the
proofs of section 4. Worth adding when the code changes:

1. `ImportCache` as an implementation of the transport's `ImportBlock`, by
   refinement, once entries can be evicted.
2. An `FdBroker` that closes a socket after its dispatcher has let go of it:
   `broker_reuse` then becomes a passing run with `ServedTheBlock`.
