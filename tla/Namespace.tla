----------------------------- MODULE Namespace -----------------------------
(***************************************************************************)
(* The namespace operations a single metadata server runs on full paths   *)
(* when it is the only server (src/server/coordinated_ops.cc): IMkdir,     *)
(* IMknod, IGetattr, IChmod and IChfmod, each resolving its path with one  *)
(* Lookup per parent component.  Directory ids come from the backend's    *)
(* inode counter (src/backends/metadb_fs.c), which a restart re-reads in  *)
(* metadb_init.                                                            *)
(*                                                                         *)
(* rows are the LevelDB rows <<dir, 0, name>>, each a directory with its  *)
(* inode id or a file; manifests are the ids with a <<id, -1, "">> row     *)
(* (the directory's mapping, which FetchDir reads).  dent is the server's *)
(* DirEntryCache.  Each Thrift handler thread runs one call; a Lookup and *)
(* the call's last step each run under one partition_mtx and are atomic.  *)
(* A restart ends every call and empties the caches; LevelDB keeps its    *)
(* rows (a process restart: the unsynced log survives in the OS).         *)
(***************************************************************************)
EXTENDS Integers, Sequences, TLC

CONSTANTS
    Name,         \* path components
    Thread,       \* Thrift handler threads
    ServerId,     \* this server's id
    None,
    MaxDepth,     \* longest path a call is given
    MaxOps,       \* bound on the calls of a behaviour
    MaxRestarts   \* bound on the restarts of a behaviour

Path == UNION {[1 .. n -> Name] : n \in 1 .. MaxDepth}
Kind == {"mkdir", "mknod", "getattr", "chmod", "chfmod"}

\* ROOT_DIR_ID.
RootId == 0

\* The step metadb_get_next_inode_count adds: 1 << 9.
InodeStep == 2^9

VARIABLES
    rows,        \* [dir, name, isDir, id] rows of the store
    manifests,   \* ids of the directories whose mapping row exists
    dent,        \* [dir, name, id]: the DirEntryCache
    inodeCount,  \* mdb->inode_count
    stored,      \* the value of INODE_COUNT_KEY in the store, or None
    op,          \* a thread's call: kind, path, next component, parent id
    ops,         \* calls made
    restarts     \* restarts made

vars == <<rows, manifests, dent, inodeCount, stored, op, ops, restarts>>

-----------------------------------------------------------------------------
(* The backend.                                                             *)

\* The row of name in dir, or None (metadb_lookup).
RowOf(dir, name) ==
    IF \E r \in rows : r.dir = dir /\ r.name = name
    THEN CHOOSE r \in rows : r.dir = dir /\ r.name = name
    ELSE None

\* init_dir_val: a directory's row carries its inode id as st_ino.
DirVal(id) == [isDir |-> TRUE, id |-> id]

\* init_meta_val: a file's row, st_ino 0.
FileVal == [isDir |-> FALSE, id |-> 0]

\* metadb_create_dir: leveldb_exists, then the put; -1 when the key exists.
CreateDirRow(dir, name, id) == rows \cup {[dir |-> dir, name |-> name] @@ DirVal(id)}

\* metadb_create: the same for a file row.
CreateFileRow(dir, name) == rows \cup {[dir |-> dir, name |-> name] @@ FileVal}

\* MetadataBackend::Mkdir with an empty name: the mapping row <<id, -1>>,
\* which fails when it exists.
AddManifest(id) == manifests \cup {id}

\* metadb_get_next_inode_count: inode_count += 1 << 9, returned.
NextInodeCount == inodeCount + InodeStep

\* NextDirectoryID: MetadataBackend::NewInodeNumber under inode_lock.
NextDirectoryID == NextInodeCount

\* metadb_init on a fresh store sets inode_count to server_id.
InitInodeCount == ServerId

\* metadb_save_inode_count formats inode_count, but its leveldb_put of
\* INODE_COUNT_KEY is commented out: the stored value stays as it was.
SaveInodeCount(v) == v

\* metadb_init on an existing store: the count INODE_COUNT_KEY holds, or,
\* when the get finds none, server_id + (10000 << 9).
RecoveredInodeCount == IF stored # None THEN stored ELSE ServerId + 10000 * InodeStep

-----------------------------------------------------------------------------
(* The server's DirEntryCache, keyed by name and parent id.               *)

\* DirEntryCache::GetHandle: the cached entries for name in dir.
DentGet(dir, name) == {e \in dent : e.dir = dir /\ e.name = name}

\* DirEntryCache::Insert of a fresh ServerDirEntryValue.
DentInsert(dir, name, id) == dent \cup {[dir |-> dir, name |-> name, id |-> id]}

-----------------------------------------------------------------------------
(* Lookup: the next component of a resolving call.                         *)

\* MetadataServer::Lookup with create_if_necessary false, the only way
\* ResolvePath calls it: FetchDir (no mapping: Corruption), the dent cache,
\* else Getattr (NotFound) and S_ISDIR (Corruption), the id cached.
LookupResult(dir, name) ==
    LET c == DentGet(dir, name)
        r == RowOf(dir, name)
    IN  IF dir \notin manifests THEN [ok |-> FALSE]
        ELSE IF c # {} THEN [ok |-> TRUE, id |-> (CHOOSE e \in c : TRUE).id, cached |-> TRUE]
        ELSE IF r = None \/ ~r.isDir THEN [ok |-> FALSE]
        ELSE [ok |-> TRUE, id |-> r.id, cached |-> FALSE]

Init ==
    /\ rows = {}
    /\ manifests = {RootId}
    /\ dent = {}
    /\ inodeCount = InitInodeCount
    /\ stored = SaveInodeCount(None)
    /\ op = [t \in Thread |-> None]
    /\ ops = 0
    /\ restarts = 0

\* A call arrives with a path.
Call(t) ==
    /\ op[t] = None
    /\ ops < MaxOps
    /\ ops' = ops + 1
    /\ \E k \in Kind, p \in Path :
          op' = [op EXCEPT ![t] = [kind |-> k, path |-> p, i |-> 1, parent |-> RootId]]
    /\ UNCHANGED <<rows, manifests, dent, inodeCount, stored, restarts>>

\* ResolvePath: one Lookup of a parent component.  A failed Lookup throws
\* NotADirectory or ParentPathNotFound and the call ends.
Resolve(t) ==
    /\ op[t] # None /\ op[t].i < Len(op[t].path)
    /\ LET name == op[t].path[op[t].i]
           res == LookupResult(op[t].parent, name)
       IN  IF res.ok
           THEN /\ op' = [op EXCEPT ![t].i = @ + 1, ![t].parent = res.id]
                /\ dent' = IF res.cached THEN dent
                           ELSE DentInsert(op[t].parent, name, res.id)
           ELSE op' = [op EXCEPT ![t] = None] /\ UNCHANGED dent
    /\ UNCHANGED <<rows, manifests, inodeCount, stored, ops, restarts>>

\* The path is resolved: the call's own step, under the parent's mutex.
Last(t, k) == op[t] # None /\ op[t].kind = k /\ op[t].i = Len(op[t].path)
Entry(t) == op[t].path[op[t].i]

\* IMkdir: NextDirectoryID (under inode_lock) before anything else; the
\* entry row (FileAlreadyExists if present); the manifest row under the
\* id, whose failure throws IOError with the entry already written.
IMkdir(t) ==
    /\ Last(t, "mkdir")
    /\ LET id == NextDirectoryID
       IN  /\ inodeCount' = id
           /\ IF RowOf(op[t].parent, Entry(t)) # None
              THEN UNCHANGED <<rows, manifests>>
              ELSE /\ rows' = CreateDirRow(op[t].parent, Entry(t), id)
                   /\ manifests' = AddManifest(id)
    /\ op' = [op EXCEPT ![t] = None]
    /\ UNCHANGED <<dent, stored, ops, restarts>>

\* IMknod: metadb_create of the file row, FileAlreadyExists if present.
IMknod(t) ==
    /\ Last(t, "mknod")
    /\ rows' = IF RowOf(op[t].parent, Entry(t)) # None THEN rows
               ELSE CreateFileRow(op[t].parent, Entry(t))
    /\ op' = [op EXCEPT ![t] = None]
    /\ UNCHANGED <<manifests, dent, inodeCount, stored, ops, restarts>>

\* IGetattr, IChmod and IChfmod read the row (NoSuchFileOrDirectory,
\* NotAFile) and change at most permission bits, which are not modelled.
IGetattr(t) == Last(t, "getattr") /\ op' = [op EXCEPT ![t] = None]
                /\ UNCHANGED <<rows, manifests, dent, inodeCount, stored, ops, restarts>>
IChmod(t) == Last(t, "chmod") /\ op' = [op EXCEPT ![t] = None]
             /\ UNCHANGED <<rows, manifests, dent, inodeCount, stored, ops, restarts>>
IChfmod(t) == Last(t, "chfmod") /\ op' = [op EXCEPT ![t] = None]
              /\ UNCHANGED <<rows, manifests, dent, inodeCount, stored, ops, restarts>>

\* The LRU cache drops an entry to make room (leveldb::NewLRUCache of
\* dent_cache_size entries).  A Lookup holds its handle only inside its
\* own step, so any entry may go.
DentEvict ==
    /\ \E e \in dent : dent' = dent \ {e}
    /\ UNCHANGED <<rows, manifests, inodeCount, stored, op, ops, restarts>>

\* sync_thread: each DEFAULT_SYNC_INTERVAL the timed wait runs out and the
\* thread saves the inode count.
SyncThread ==
    /\ stored' = SaveInodeCount(stored)
    /\ UNCHANGED <<rows, manifests, dent, inodeCount, op, ops, restarts>>

\* The server process restarts: calls in flight end, the caches start
\* empty, and metadb_init re-reads the inode count from the store.
Restart ==
    /\ restarts < MaxRestarts
    /\ restarts' = restarts + 1
    /\ inodeCount' = RecoveredInodeCount
    /\ dent' = {}
    /\ op' = [t \in Thread |-> None]
    /\ UNCHANGED <<rows, manifests, stored, ops>>

Next ==
    \/ \E t \in Thread :
          Call(t) \/ Resolve(t) \/ IMkdir(t) \/ IMknod(t)
          \/ IGetattr(t) \/ IChmod(t) \/ IChfmod(t)
    \/ DentEvict
    \/ SyncThread
    \/ Restart

Spec == Init /\ [][Next]_vars

-----------------------------------------------------------------------------
(* Properties.                                                              *)

\* Spec (resource sharing): the inode allocator is monotonic and crash
\* recovery skips to server_id + 10000*512.  No two directories, and no
\* directory and the root, share an inode id: a shared id would share the
\* mapping row and the entries keyed by it.  Every restart skips to the
\* same count, so ids a previous restart handed out come round again.
DirIdsUnique ==
    \A r1, r2 \in rows :
        r1.isDir /\ r2.isDir /\ r1 # r2 => r1.id # r2.id /\ r1.id # RootId
=============================================================================
