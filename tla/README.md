# TLA+ models of IndexFS

This project holds TLA+ specifications of the IndexFS metadata service (`src/`). They cover:

- the GIGA+ partition index;
- the metadata server's directory operations and split protocol;
- the client's routing, redirect loops and directory listing;
- the directory-entry lease protocol;
- embedded file data and its migration to a backing file;
- single-server path resolution with its inode allocator across restarts.

Every definition is translated from the source. `PROJECT.json` maps each one to the lines it models, lists the runs, the mutants that show each checked property can fail, the findings and the hazards.

## The system and how its parts interact

- **GIGA+ index** (`src/common/giga_index.c`).
  - It decides which partition a name hashes to and which server holds that partition.
  - When a partition splits, it chooses the child partition.
  - A directory's mapping is a bitmap of the partitions that exist, stored 7 bits per byte (`BITS_PER_MAP`). Splits add partitions, and nothing removes them.
- **Metadata server** (`src/server/metadata_server.cc`). Each server keeps, per directory:
  - a cached mapping (DirMappingCache, persisted in LevelDB);
  - the rows of the partitions it owns;
  - an entry counter, `partition_size`, and a `split_flag`.

  Handlers run under the directory's `partition_mtx`. `CheckAddressing` rejects a name the server does not own by its own mapping, with a `ServerRedirectionException` that carries the mapping.

  `ScheduleSplit` queues a split task once a partition reaches the threshold. The split thread then runs `Split` while holding the mutex:
  1. `Extract` the migrating rows.
  2. `InsertSplitRemote` them to the child's server, where `InsertSplit` bulk-inserts them and sets the child bit.
  3. Set the child bit locally.
  4. `UpdateBitmapRemote` to the zeroth server.
  5. `ExtractClean`.

  `Mkdir` writes the entry row, then has the hint server create the new directory's mapping (`CreateZeroth`).
- **Client** (`src/client/metadata_client.cc`). It caches mappings and routes a name with `SelectServer`. On a redirection it ORs the server's mapping into its own and retries:
  - `RPC_Mknod`, `RPC_Mkdir` and `RPC_Getattr` give up after `kNumRedirect` tries;
  - `RPC_Remove`, `RPC_Chmod` and `RPC_Create` retry with no bound.

  `Rename` is `Getattr` of the source, then `RPC_Create` of the destination, then `RPC_Remove` of the source.

  `Readdir` walks `curr_idx` from 0 to `2^radix - 1`. For each value it maps the index to a partition with `reverse_bits` and pages through that partition's server with `start_key`.
- **Leases.**
  - Path resolution caches directory entries with a lease that the server grants in `Access`.
  - A writer (`Chmod` or `Remove` of a directory) takes `WriteLockDirEntry`: it sets the entry's status to WRITE, then releases the mutex and sleeps until `expire_time + kTimeEpsilon`.
  - It then mutates the entry, and `UnlockDirEntry` sets READ and wakes the waiters.
- **File data.**
  - A file starts embedded in its LevelDB row.
  - The first `Write` past `FILE_THRESHOLD` turns the row into a link and hands the embedded bytes back to the client. The client creates the backing file and appends those bytes, then its own buffer.
  - `CloseFile` records the backing file's size in the row.
- **Backend** (`src/backends/metadb.cc`, `metadb_fs.c`).
  - It provides the LevelDB rows and the inode counter.
  - On a fresh store, `metadb_init` sets the counter to `server_id`. Otherwise it re-reads the counter from `INODE_COUNT_KEY`.
  - A sync thread saves the counter. Its put is commented out.
- **Multi-threaded C library** (`src/client/libclient_mt.cc`).
  - Each application thread calls `IDX_Init`. `InitEnv` runs once per process, guarded by a volatile `initialized` flag read once without `init_mutex` and again under it. It sets the flag and then creates the pthread key `cli_key`.
  - `IDX_Internal_Init` builds the thread's own `Client` and stores it with `pthread_setspecific(cli_key, ...)`.
  - Every `IDX_` call fetches the Client with `pthread_getspecific`. `NULL` means `Corruption("System disposed")`.
  - Each `MetadataClient` has its own caches. `DirHandle` reaches them through static pointers, which every `MetadataClient` constructor overwrites and its destructor clears, so they are shared by all threads.

## Modules

| Module | Models | State and actions |
|---|---|---|
| `GigaIndex` | `giga_index.c`, `giga_index.h` | Pure operators. A bitmap is a set of indices, and a mapping is a record. `RECURSIVE` operators stand for the C loops (`SetAncestor`, `FreeChild`, `RevBits`). It also models the byte layout of the bitmap: `SetBit`, `BitStatus`, and `HighestIndexBytes` as `get_highest_index` computes it. |
| `GigaDirectory` | What a GIGA+ directory promises | `bitmap` and `part`. `Create`, `Remove` and `Split(p)` are each one atomic step. This is the abstract specification that `IndexFS` refines. |
| `IndexFS` | Servers, split threads and clients on one directory | Server state: `dmap`, `rows`, `psize`, `splitFlag`, `task`, `split`. Client state: `cmap`, `op`, `reply`. Client calls: `ClientMknod`, `ClientMkdir`, `ClientGetattr`, `ClientRemove`, `ClientChmod` and `RenameStart`. RPC steps: `CallNoDir`, `CallRedirect`, `Mknod`, `Mkdir`, `Getattr`, `Remove`, `Chmod` and `CreateEntry`. Split steps: `SplitStart`, `SplitInsert`/`SplitInsertLost`, `SplitCommit`, `SplitNotify`/`SplitNotifyLost`. The refinement mapping is `AbsBitmap` and `AbsPart`. |
| `Readdir` | `MetadataClient::Readdir` and `ReaddirPlus` against `IndexFS` | It extends `IndexFS` with the reader's mapping `rmap` and its listing `rd`. The paging of `metadb_readdir` is modelled, including the uninitialised `end_key` buffer (`Garbage`). |
| `Lease` | The lease protocol on one directory entry | A clock, the server's dent-cache value (`cached`, `status`, `vino`, `expire`), `partition_mtx`, the condition-variable waiters, the threads' program counters, and the clients' leases. The ghost `outdated` records the clients whose cached result a completed mutation or a grant on a removed entry has made wrong; `CachedLookupsCurrent` reads it. A thread's step is the code between taking the mutex and releasing it or waiting. |
| `FileIO` | One file: `OpenFile`, `Read`, `Write`, `CloseFile` and the client's calls | The row (`inFS`, embedded data, `st_size`), the backing file, and each client's descriptor. `posix` is a bookkeeping variable: what the completed writes would leave if each were a `pwrite`. |
| `Namespace` | `coordinated_ops.cc` on a single server | The rows, the mapping rows, the dent cache, the inode counter and its stored value. Actions: each handler thread's `Call`, `Resolve` (one `Lookup`), `IMkdir`, `IMknod`, `IGetattr`, `IChmod`, `IChfmod`, cache eviction, the sync thread, and a process `Restart`. |
| `LibClientMT` | `libclient_mt.cc`, with the `MetadataClient` constructor and destructor and `DirHandle` | `initialized`, `cli_key`, the created keys, the holder of `init_mutex`, each thread's program counter and thread-local values, `statics` (whose caches the static `DirHandle::dmap_cache_`/`dir_cache_` point to), `live` (the clients whose caches are not yet deleted), and the last call's result. `InitEnv` is split into its shared-state steps: `InitCheck`, `InitLock`, `InitRecheck` (sets the flag), `InitKeyCreate` and `InitUnlock`. `InternalInit` runs the `MetadataClient` constructor (`ConstructClient`). `CallStart` is one of `CloseNonPositive`, `NoClient`, `EarlyError` or `ReachFetchDir`; `CallEnd` is the `DirHandle` destructor. `IDX_Destroy` is `DestroyDelete` then `DestroyClear`, or `DestroyNoClient`. The key table behaves as glibc's does: keys are handed out lowest first, and `setspecific` of a key that was never created fails. Other libraries may hold keys first (`OtherKeys`). Use of freed caches is undefined behaviour, so it may either crash or appear to work (`StaticsUse`). |
| `MC_*` | Model-checking instances | Model values, `Hash`, `Hint`, and symmetry sets. |

## Runs

| Run | Result | What it shows |
|---|---|---|
| giga_directory | pass, 832 states | Over every bitmap that splits reach:<ul><li>`giga_get_index_for_file` picks the longest-prefix partition for all 256 first hash bytes;</li><li>splits keep every entry addressable;</li><li>the 7-bit byte layout agrees with the set of partitions and with the highest index.</li></ul> |
| indexfs_safety | pass, 1.03M states | With two clients, three servers and lost server-to-server RPCs:<ul><li>rows stay where their server routes them;</li><li>no name is stored twice;</li><li>redirects converge;</li><li>NotFound is never answered for a stored name.</li></ul> |
| indexfs_live | pass, 48k states | The split implements `GigaDirectory`, and every client call returns. This holds even with Mkdir's remote create failing and `CreateEntry` returning garbage. |
| indexfs_lost | **violation** | A lost `InsertSplit` loses entries. |
| indexfs_nodir | **violation** | A split that extracts no row leaves the child server without a mapping. |
| lease | pass, 11.7M states | Every lease the writer saw has expired when it mutates, even when the server's dent cache evicts the value between calls. |
| lease_safety | **violation** | A client holds a usable cached lookup that a completed `Remove` or `Chmod` outdated (`CachedLookupsCurrent`, spec P5). The shortest trace is `Access` after `Remove`. With that fixed, a lease granted during the writer's sleep is reported. |
| readdir | pass, 77k states | A listing with no split under it never repeats a name, and every listing ends. |
| readdir_skip | **violation** | `reverse_bits` never visits the partitions whose top radix bit is set. |
| fileio | pass | `st_size` equals the file's length once every descriptor is closed. |
| namespace_restart | **violation** | Two restarts hand out the same directory id twice. |
| libclient_init | **violation** | With two threads, an `IDX_` call does not reach a live Client. The shortest trace is the `InitEnv` race. |

### Findings

Each finding is given with the line of code it comes from.

- **Empty split** (`metadata_server.cc:727`).
  - When `Extract` returns 0, `InsertSplitRemote` is skipped, but the child bit is still published.
  - The child server then has no mapping, so a Mknod routed there gets NotFound.
- **Lost insert** (`metadata_server.cc:771`).
  - `InsertSplitRemote` swallows a transport failure after the rows were deleted from the parent.
  - The entries are lost, which `GigaDirectory` forbids.
- **Lease during the sleep** (`metadata_server.cc:287-292`, `328`).
  - `Access` does not wait on a WRITE entry whose `expire_time` is more than `kTimeEpsilon` ahead, and it resets the status to READ.
  - A second `Access` then extends `expire_time` past the sleeping writer's wake-up.
  - `lease_safety` reports this trace in 15 states once `Remove` drops the cache value, which removes the shorter trace below.
- **Removed entry served from the dent cache** (`metadata_server.cc:551`).
  - `Remove` deletes the row but leaves the dent-cache value; the clean-up is a TODO.
  - A later `Access` hits the cached value and grants a lease on the removed inode without reading the store.
  - TLC needs 11 states: c1's `Access`, w1's `Remove`, then c2's `Access`.
- **reverse_bits** (`metadata_client.cc:539`).
  - The shift is `32 + sizeof(uint8_t) - n`: one bit is meant where eight are needed.
  - Readdir therefore misses the names in half the partitions.
- **Inode counter** (`metadb_fs.c:289`, `506`).
  - The counter is never stored, so every restart resumes at `server_id + 10000*512`.
  - A directory made after the second restart gets the id of one made after the first.
- **Initialisation order in `InitEnv`** (`libclient_mt.cc:50-51`).
  - `initialized = true` comes before `pthread_key_create(&cli_key)`.
  - A second thread reads the flag unlocked, sees it set, and calls `pthread_setspecific` on the still-zero `cli_key`. It fails with EINVAL when no one owns key 0. When another library owns key 0, it overwrites that library's value.
  - The first thread then creates the key. From then on the second thread's calls all return "System disposed".
  - TLC needs seven steps: t1 checks, locks and sets the flag, then t2 checks, stores its Client and makes a call.
- **Static cache pointers** (`metadata_client.cc:60`, `85-86`; `dirhandle.h:20`, `26-27`).
  - `DirHandle::dmap_cache_` and `dir_cache_` are static. Every `MetadataClient` constructor points them at its own caches, and its destructor sets them to NULL.
  - `libclient_mt` gives each thread its own `MetadataClient`. Once t2 has called `IDX_Init`, t1's `DirHandle`s go through t2's caches.
  - When t2 calls `IDX_Destroy`, those caches are freed and then the pointers become NULL. t1's next `FetchDir` then dereferences freed memory or NULL.
  - The run's property covers this too. TLC reports the `InitEnv` race first because its trace is shorter. With `InitEnv`'s lines 50 and 51 swapped, the same run reports this trace in 11 states.

The following hazards are recorded with constants that expose them, but have no violation run of their own:

- **`Mkdir` partial failure** (`metadata_server.cc:409`).
  - When `CreateZerothRemote` fails, `FileAlreadyExistException` is thrown after the entry row was written, and `ScheduleSplit` is skipped.
  - With `ZerothMayFail = TRUE`, TLC breaks `IndexFS`'s `PartitionSizeCoversRows` in two steps.
- **`MetadataBackend::CreateEntry` has no return statement** (`metadb.cc:58`).
  - Its result is undefined.
  - With `UndefinedReturn = TRUE`, a Rename breaks `PartitionSizeCoversRows`.

`indexfs_safety` keeps both constants FALSE so that its other properties remain meaningful. `indexfs_live` sets them TRUE. No run checks `PartitionSizeCoversRows`. With both faults off it holds by construction: under one bucket per server the child server is always fresh, so the unlocked `+=` in `InsertSplit` (`:797`) cannot race. With either fault on, it fails, and every run is already in use.

Further hazards:

- **Migrated writes** (`metadata_client.cc:762-767`).
  - `Write` through a `PosixWritableFile` appends at the file's own offset and ignores the offset argument.
  - `pwrite(0, [v1])` then `pwrite(0, [v1, v1])` leaves three bytes.
  - `FileIO` states this as `FileMatchesWrites`, and TLC finds it violated with one client. No run checks it, because the run budget went to the interleaving findings, which a sequential test would not reach. The code comments mark the append-only behaviour as `kNoOverwrite` (a FIXME).

- `IDX_Close` ignores fd 0, which is the first descriptor `AllocateFD` hands out (`libclient.cc:213`).

## Bounds and why they are enough

- **`MC_GigaDirectory`.**
  - 8 servers and five names, with first hash bytes 0, 128, 64, 192 and 160.
  - These cover partitions 0, 1, 2, 3 and 5, so splits reach depth 3.
  - Splits are unguarded, so every bitmap under the 8-server bound is reached.
- **`MC_IndexFS`.**
  - Servers 0..2 with zeroth server 1, so `(i + zeroth) % count` wraps.
  - Three names hash to partitions 1, 2 and 3. Partition 3 is refused by `giga_is_splittable`, so its name lives in 1 through the parent walk.
  - Split threshold 2, so two creates trigger a split.
  - The hints send Mkdir to each of the three servers.
  - Safety uses two clients, at most 2 creates and 1 rename. The liveness run uses one client, where symmetry would be unsound.
  - `NumRedirect` is 10, as in the code.
- **`MC_Readdir`.** The same directory, with one reader and a page capacity of 1, so a partition takes several pages. The garbage `end_key` values are 0 and 160.
- **`MC_Lease`.** Time is counted in units of `kTimeEpsilon`, with leases of 2 units. Two clients and two writers make two writes, which is enough for:
  - a writer to wait out a lease;
  - a second writer to queue;
  - a lease to be granted during the sleep.
- **`MC_FileIO`.**
  - Two clients, a threshold of 2 bytes, offsets 0..1, buffers of up to 2 bytes, and 3 writes.
  - A write can therefore stay embedded, migrate, or go through the backing file, and writes from two clients can overlap.
- **`MC_Namespace`.** One server, paths of depth 2, 3 calls and 2 restarts. This is the smallest case in which an id is reused.
- **`MC_LibClientMT`.** Two threads and keys 0..2. Other libraries hold either no key or key 0 beforehand. Two threads are the fewest that can race in `InitEnv`, and the two key tables cover both outcomes of the misdirected `setspecific`: a failure, or a value written into another library's slot.

## Fairness

`IndexFS` assumes weak fairness of:

- each server's split step, because the split thread drains its queue;
- each client's RPC steps, because the Thrift server serves each connection on its own thread.

Starting calls and evicting caches are the environment's choice and get no fairness. `Readdir` adds weak fairness of the reader's steps once a listing has started. `Lease`, `FileIO`, `Namespace` and `LibClientMT` are checked for safety only.

## Not modelled

- The server-side `Rename`, `CreateNamespace` and `CloseNamespace` handlers: no client calls them.
- `InsertShadow`.
- The libclient descriptor table.
- Permission bits.
- The HDFS/PVFS environments, Thrift, LevelDB internals, configuration and instrumentation.
- Inode-counter overflow, which takes millions of Mkdir calls.
- Dent-cache eviction while a thread holds the value. `Lease`'s `ServerEvict` fires only when every thread is idle. The code can evict while a writer sleeps, and the writer then goes on using the value, which is no longer in the cache. Modelling that needs a second copy of the value. `lease_safety` already fails without it.
- The unnamed `MutexLock` in `CreateZeroth` (`metadata_server.cc:484`). The new directory's id is fresh, so nothing else can reach it before `Mkdir` returns.
- `Lookup` trusting a dent-cache hit (`coordinated_ops.cc:94`). In single-server mode nothing removes or renames a row, so a cached id never goes stale.

`PROJECT.json` lists each component with its status and reason.
