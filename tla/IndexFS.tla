------------------------------ MODULE IndexFS ------------------------------
(***************************************************************************)
(* One IndexFS directory spread over the metadata servers by GIGA+         *)
(* (src/server/metadata_server.cc), the split thread of every server, and  *)
(* clients that route by a cached bitmap (src/client/metadata_client.cc).  *)
(*                                                                         *)
(* Server s keeps, for the directory: dmap[s], its giga_mapping_t (the     *)
(* DirMappingCache entry and the row it persists; NoMap when s has none),  *)
(* rows[s], the LevelDB rows <<partition, name>> (the key is the partition *)
(* and the name's hash), psize[s] and splitFlag[s], the Directory's        *)
(* partition_size and split_flag, task[s], the split task queued for the   *)
(* split thread, and split[s], the Split call in progress, which holds     *)
(* the directory's partition_mtx from its first step to its last.  A       *)
(* handler that takes partition_mtx runs as one step while no split holds  *)
(* it; InsertSplit and UpdateBitmap take no lock.                          *)
(*                                                                         *)
(* Client c keeps cmap[c], its cached bitmap (NoMap after an LRU           *)
(* eviction), op[c], the call in progress, and reply[c], its last answer.  *)
(* An RPC is one step: the client's routing reads only its own state, and  *)
(* the handler is atomic under the lock.                                   *)
(***************************************************************************)
EXTENDS GigaIndex, Integers

FSE == INSTANCE FiniteSetsExt

CONSTANTS
    Server,          \* server ids 0 .. N-1
    Client,          \* client processes
    Name,            \* entry names
    Hash,            \* Hash[n]: first byte of giga_hash_name(n)
    Hint,            \* Hint[n]: GetStrHash of n's path modulo the servers
    Zeroth,          \* the directory's zeroth server
    SplitThreshold,  \* options_->GetSplitThreshold()
    NumRedirect,     \* kNumRedirect of the client's retry loops
    RPCMayFail,      \* whether the split's server-to-server RPCs may fail
    ZerothMayFail,   \* whether Mkdir's CreateZerothRemote may fail
    UndefinedReturn, \* whether MetadataBackend::CreateEntry's result is arbitrary
    MaxMknod,        \* bound on the Mknod and Mkdir calls of a behaviour
    MaxRename,       \* bound on the Rename calls of a behaviour
    NoMap, None      \* sentinels

VARIABLES dmap, rows, psize, splitFlag, task, split, cmap, op, reply, mknods,
          renames

serverVars == <<dmap, rows, psize, splitFlag, task, split>>
counts == <<mknods, renames>>
clientVars == <<cmap, op, reply, counts>>
vars == <<serverVars, clientVars>>

\* Partition indices giga_is_splittable allows: below MAX_BKTS_PER_SERVER
\* times the server count.
Partition == 0 .. MaxBktsPerServer * Cardinality(Server) - 1

Mapping == [bitmap : SUBSET Partition,
            radix : 0 .. MaxRadix, zeroth : Server, count : Nat]

\* Mutant: a server with a mapping accepts every name.
AcceptsAny(s, n) == dmap[s] # NoMap

\* Does server s accept name n: giga_get_server_for_file by its own mapping
\* (MetadataServer::CheckAddressing)?
Accepts(s, n) ==
    /\ dmap[s] # NoMap
    /\ ServerForIndex(dmap[s], IndexForFile(dmap[s], Hash[n])) = s

\* The partition server s stores name n under.
LocalIndex(s, n) == IndexForFile(dmap[s], Hash[n])

\* The server the client's current RPC goes to: the one given with the
\* call (Rename's RPC_Create starts at the directory's zeroth server), or
\* MetadataClient::SelectServer.
Target(c) ==
    IF op[c].srv # None THEN op[c].srv
    ELSE ServerForIndex(cmap[c], IndexForFile(cmap[c], Hash[op[c].name]))

\* Mutant: the row is looked up under partition 0 whatever the index.
HasRowAtZero(s, n) == <<0, n>> \in rows[s]

\* mdb_->Getattr under the partition CheckAddressing returned: does s hold
\* the row of n?
HasRow(s, n) == <<LocalIndex(s, n), n>> \in rows[s]

\* Is a name stored, in a row or in extracted rows a split still carries?
Stored(n) ==
    \/ \E s \in Server, p \in Partition : <<p, n>> \in rows[s]
    \/ \E s \in Server : split[s] # None /\ n \in split[s].moved

\* metadb_create_entry: leveldb_exists, and the put only when the key is
\* absent (the handler answers -1 for a present one).
CreateEntryRow(s, idx, n) == rows[s] \cup {<<idx, n>>}

\* MetadataBackend::CreateEntry calls metadb_create_entry and has no
\* return statement.  The value the caller tests is what the build leaves
\* in the return register: metadb_create_entry's own result (0, or -1 for
\* an existing key) when it survives the call, anything when it does not.
CreateEntryReturns(s, idx, n) ==
    IF UndefinedReturn THEN {0, -1}
    ELSE {IF <<idx, n>> \in rows[s] THEN -1 ELSE 0}

\* metadb_remove: leveldb_delete of the row's key.
RemoveRow(s, row) == rows[s] \ {row}

-----------------------------------------------------------------------------
Init ==
    /\ dmap = [s \in Server |->
                 IF s = Zeroth THEN InitMapping(Zeroth, Cardinality(Server))
                 ELSE NoMap]
    /\ rows = [s \in Server |-> {}]
    /\ psize = [s \in Server |-> 0]
    /\ splitFlag = [s \in Server |-> FALSE]
    /\ task = [s \in Server |-> None]
    /\ split = [s \in Server |-> None]
    /\ cmap = [c \in Client |-> NoMap]
    /\ op = [c \in Client |-> None]
    /\ reply = [c \in Client |-> None]
    /\ mknods = 0
    /\ renames = 0

\* The client call ends with a status (the Status the RPC_* loop returns).
Finish(c, status) ==
    /\ reply' = [reply EXCEPT ![c] = [kind |-> op[c].kind,
                                      name |-> op[c].name, status |-> status]]
    /\ op' = [op EXCEPT ![c] = None]

\* Calls that create an entry, bounded by MaxMknod.
Creates == {"mknod", "mkdir"}

\* MetadataClient::Mknod, Mkdir, Getattr or Remove starts: FetchDir reads
\* the bitmap from the zeroth server (ReadBitmap) when none is cached.
ClientStart(c, kind, n) ==
    /\ op[c] = None
    /\ kind \in Creates => mknods < MaxMknod
    /\ mknods' = IF kind \in Creates THEN mknods + 1 ELSE mknods
    /\ cmap' = [cmap EXCEPT ![c] = IF @ = NoMap THEN dmap[Zeroth] ELSE @]
    /\ op' = [op EXCEPT ![c] = [kind |-> kind, rpc |-> kind, name |-> n,
                                 src |-> None, dst |-> None, tries |-> 0,
                                 srv |-> None]]
    /\ reply' = [reply EXCEPT ![c] = None]
    /\ UNCHANGED <<serverVars, renames>>

\* The client's public calls on a name of the directory: ResolvePath (the
\* directory's own path, no Lookup), FetchDir, then RPC_Mknod, RPC_Getattr
\* or RPC_Remove.  The zeroth server always holds the mapping, so FetchDir
\* never fails.
ClientMknod(c, n) == ClientStart(c, "mknod", n)
ClientGetattr(c, n) == ClientStart(c, "getattr", n)
ClientRemove(c, n) == ClientStart(c, "remove", n)

\* MetadataClient::Mkdir: the same with RPC_Mkdir, which carries the hint.
ClientMkdir(c, n) == ClientStart(c, "mkdir", n)

\* MetadataClient::Chmod: the same with RPC_Chmod.
ClientChmod(c, n) == ClientStart(c, "chmod", n)

\* MetadataClient::Rename of src to dst in the directory: ResolvePath and
\* FetchDir for both, then RPC_Getattr of src.
RenameStart(c, src, dst) ==
    /\ op[c] = None
    /\ renames < MaxRename
    /\ renames' = renames + 1
    /\ cmap' = [cmap EXCEPT ![c] = IF @ = NoMap THEN dmap[Zeroth] ELSE @]
    /\ op' = [op EXCEPT ![c] = [kind |-> "rename", rpc |-> "getattr",
                                 name |-> src, src |-> src, dst |-> dst, tries |-> 0,
                                 srv |-> None]]
    /\ reply' = [reply EXCEPT ![c] = None]
    /\ UNCHANGED <<serverVars, mknods>>

\* The next RPC of a Rename: RPC_Create of dst at the zeroth server once
\* src is found, then RPC_Remove of src once dst is created.
NextRPC(c, rpc, n, srv) ==
    /\ op' = [op EXCEPT ![c] = [@ EXCEPT !.rpc = rpc, !.name = n, !.tries = 0,
                                          !.srv = srv]]
    /\ UNCHANGED reply

\* The client's DirMappingCache evicts the directory's bitmap.
ClientEvict(c) ==
    /\ op[c] = None
    /\ cmap[c] # NoMap
    /\ cmap' = [cmap EXCEPT ![c] = NoMap]
    /\ UNCHANGED <<serverVars, op, reply, counts>>

\* The target server has no mapping: FetchDir fails and the handler throws
\* FileNotFoundException before taking the lock.
CallNoDir(c) ==
    /\ op[c] # None
    /\ dmap[Target(c)] = NoMap
    /\ Finish(c, "NotFound")
    /\ UNCHANGED <<serverVars, cmap, counts>>

\* RPC_Remove and RPC_Chmod recurse, and RPC_Create loops, on every
\* redirect with no bound; RPC_Mknod, RPC_Mkdir and RPC_Getattr stop at
\* kNumRedirect.
RetriesWithoutBound == {"remove", "chmod", "create"}

\* MetadataClient::UpdateBitmap: giga_update_cache of the handle's mapping
\* with the one a redirect carried, under the directory's partition_mtx.
ClientUpdateBitmap(c, m) == [cmap EXCEPT ![c] = UpdateCache(@, m)]

\* CheckAddressing fails: ServerRedirectionException with the server's
\* bitmap, which the client ORs into its own and routes by from then on.
CallRedirect(c) ==
    LET s == Target(c) IN
    /\ op[c] # None
    /\ dmap[s] # NoMap
    /\ split[s] = None
    /\ ~Accepts(s, op[c].name)
    /\ cmap' = ClientUpdateBitmap(c, dmap[s])
    /\ IF op[c].rpc \notin RetriesWithoutBound /\ op[c].tries + 1 >= NumRedirect
       THEN Finish(c, "Corruption")
       ELSE /\ op' = [op EXCEPT ![c].tries =
                        IF op[c].rpc \in RetriesWithoutBound THEN 0 ELSE @ + 1,
                                 ![c].srv = None]
            /\ UNCHANGED reply
    /\ UNCHANGED <<serverVars, counts>>

\* MetadataServer::ScheduleSplit after a create in partition idx of s:
\* CheckSplit counts the entry, and a split is queued when the partition is
\* big enough, splittable and no split of the directory is pending.
ScheduleSplit(s, idx) ==
    LET size == psize[s] + 1
        go == /\ size >= SplitThreshold
              /\ IsSplittable(dmap[s], idx)
              /\ ~splitFlag[s]
    IN  /\ psize' = [psize EXCEPT ![s] = size]
        /\ splitFlag' = [splitFlag EXCEPT ![s] = @ \/ go]
        /\ task' = IF go THEN [task EXCEPT ![s] = idx] ELSE task

\* MetadataServer::Mknod accepted by the target server.
Mknod(c) ==
    LET s == Target(c)
        n == op[c].name
        idx == LocalIndex(s, n)
    IN  /\ op[c] # None /\ op[c].rpc = "mknod"
        /\ split[s] = None
        /\ Accepts(s, n)
        /\ IF <<idx, n>> \in rows[s]
           THEN /\ Finish(c, "Exists")
                /\ UNCHANGED <<rows, psize, splitFlag, task>>
           ELSE /\ rows' = [rows EXCEPT ![s] = @ \cup {<<idx, n>>}]
                /\ ScheduleSplit(s, idx)
                /\ Finish(c, "OK")
        /\ UNCHANGED <<dmap, split, cmap, counts>>

\* MetadataClient::Mkdir: hint_server, the server of the new directory's
\* zeroth partition, is GetStrHash(path) % GetSrvNum(), sent with each try.
MkdirHint(n) == Hint[n]

\* CreateZerothRemote to hint_server, a fresh Thrift connection: FALSE
\* when it throws in transport.  Mkdir creates the zeroth partition
\* itself when hint_server is the server it runs on.
ZerothCreated(s, n) ==
    IF MkdirHint(n) # s /\ ZerothMayFail THEN BOOLEAN ELSE {TRUE}

\* MetadataServer::Mkdir accepted by the target server: NewInodeNumber,
\* the entry's row (FileAlreadyExistException when it exists), then the
\* new directory's zeroth partition on hint_server.  When the remote
\* CreateZeroth fails the handler throws FileAlreadyExistException with
\* the row written and ScheduleSplit never called.  RPC_Mkdir returns
\* IOError for FileAlreadyExistException.  The new directory itself is
\* not part of this model.
Mkdir(c) ==
    LET s == Target(c)
        n == op[c].name
        idx == LocalIndex(s, n)
    IN  /\ op[c] # None /\ op[c].rpc = "mkdir"
        /\ split[s] = None
        /\ Accepts(s, n)
        /\ IF <<idx, n>> \in rows[s]
           THEN /\ Finish(c, "IOError")
                /\ UNCHANGED <<rows, psize, splitFlag, task>>
           ELSE /\ rows' = [rows EXCEPT ![s] = @ \cup {<<idx, n>>}]
                /\ \E ok \in ZerothCreated(s, n) :
                      IF ok THEN ScheduleSplit(s, idx) /\ Finish(c, "OK")
                      ELSE /\ Finish(c, "IOError")
                           /\ UNCHANGED <<psize, splitFlag, task>>
        /\ UNCHANGED <<dmap, split, cmap, counts>>

\* MetadataServer::Getattr accepted by the target server.
Getattr(c) ==
    LET s == Target(c)
        n == op[c].name
    IN  /\ op[c] # None /\ op[c].rpc = "getattr"
        /\ split[s] = None
        /\ Accepts(s, n)
        /\ IF op[c].kind = "rename" /\ HasRow(s, n)
           THEN NextRPC(c, "create", op[c].dst, Zeroth)
           ELSE Finish(c, IF HasRow(s, n) THEN "OK" ELSE "NotFound")
        /\ UNCHANGED <<serverVars, cmap, counts>>

\* MetadataServer::Chmod accepted by the target server: the Getattr check
\* (FileNotFoundException), then metadb_chmod of the row.  Permission bits
\* are not modelled, so the rows stay as they are; for a directory entry
\* the update runs under DirEntryLockHandler, whose lease wait the Lease
\* module models.
Chmod(c) ==
    LET s == Target(c)
        n == op[c].name
    IN  /\ op[c] # None /\ op[c].rpc = "chmod"
        /\ split[s] = None
        /\ Accepts(s, n)
        /\ Finish(c, IF HasRow(s, n) THEN "OK" ELSE "NotFound")
        /\ UNCHANGED <<serverVars, cmap, counts>>

\* MetadataServer::Remove of a file accepted by the target server: the
\* Getattr check, then the row's deletion.
Remove(c) ==
    LET s == Target(c)
        n == op[c].name
        row == <<LocalIndex(s, n), n>>
    IN  /\ op[c] # None /\ op[c].rpc = "remove"
        /\ split[s] = None
        /\ Accepts(s, n)
        /\ IF HasRow(s, n)
           THEN /\ rows' = [rows EXCEPT ![s] = RemoveRow(s, row)]
                /\ Finish(c, "OK")
           ELSE /\ Finish(c, "NotFound")
                /\ UNCHANGED rows
        /\ UNCHANGED <<dmap, psize, splitFlag, task, split, cmap, counts>>

\* MetadataServer::CreateEntry accepted by the target server (Rename's
\* RPC_Create): metadb_create_entry puts the row when its key is absent;
\* a non-zero return throws FileAlreadyExistException, which the client
\* returns as IOError; otherwise a split may be scheduled and the Rename
\* goes on to RPC_Remove of src.
CreateEntry(c) ==
    LET s == Target(c)
        n == op[c].name
        idx == LocalIndex(s, n)
    IN  /\ op[c] # None /\ op[c].rpc = "create"
        /\ split[s] = None
        /\ Accepts(s, n)
        /\ rows' = [rows EXCEPT ![s] = CreateEntryRow(s, idx, n)]
        /\ \E ret \in CreateEntryReturns(s, idx, n) :
              IF ret # 0
              THEN /\ Finish(c, "IOError")
                   /\ UNCHANGED <<psize, splitFlag, task>>
              ELSE /\ ScheduleSplit(s, idx)
                   /\ NextRPC(c, "remove", op[c].src, None)
        /\ UNCHANGED <<dmap, split, cmap, counts>>

-----------------------------------------------------------------------------
(* The split thread of server s (SplitThread, one worker consuming the    *)
(* task queue) runs MetadataServer::Split in the steps below; split[s]    *)
(* holds the directory's partition_mtx from SplitStart until it is None.  *)

ExtractRows(s, p, moved) == rows[s] \ {<<p, n>> : n \in moved}

\* Split, up to the Extract: the child index and server from s's mapping,
\* and, when the child lives elsewhere, the rows of the parent partition
\* that migrate, removed from s's live rows (metadb_extract_do).
SplitStart(s) ==
    LET p == task[s]
        c == IndexForSplitting(dmap[s], p)
        cs == ServerForIndex(dmap[s], c)
        moved == IF cs # s
                 THEN {n \in Name : /\ <<p, n>> \in rows[s]
                                    /\ MigrationStatus(Hash[n], c)}
                 ELSE {}
    IN  /\ split[s] = None
        /\ p # None
        /\ rows' = [rows EXCEPT ![s] = ExtractRows(s, p, moved)]
        /\ task' = [task EXCEPT ![s] = None]
        /\ split' = [split EXCEPT ![s] =
                       [parent |-> p, child |-> c, childSrv |-> cs,
                        ret |-> Cardinality(moved), moved |-> moved, seen |-> 0,
                        phase |-> IF moved # {} THEN "insert" ELSE "commit"]]
        /\ UNCHANGED <<dmap, psize, splitFlag, clientVars>>

\* Mutant: the rows are inserted under the parent's index.
ChildRowsParentKey(sp) == {<<sp.parent, n>> : n \in sp.moved}

\* BulkInsert of the extracted rows, rekeyed to the child partition.
ChildRows(sp) == {<<sp.child, n>> : n \in sp.moved}

\* metadb_bulkinsert: leveldb_bulkinsert of the split's sstables, under
\* mtx_leveldb, into the child server's store.
BulkInsert(cs, sp) == rows[cs] \cup ChildRows(sp)

\* InsertSplitRemote when Extract returned ret > 0, served by the child's
\* InsertSplit without a lock: BulkInsert of the rows under the child
\* index, then the child's mapping: the wire copy of s's mapping (which
\* has no child bit yet) when it has none, else its own, with the child
\* bit set; then partition_size += num_entries, whose load is taken here.
SplitInsert(s) ==
    LET sp == split[s]
        cs == sp.childSrv
    IN  /\ sp # None /\ sp.phase = "insert"
        /\ rows' = [rows EXCEPT ![cs] = BulkInsert(cs, sp)]
        /\ dmap' = [dmap EXCEPT ![cs] =
                      UpdateMapping(IF @ = NoMap THEN dmap[s] ELSE @, sp.child)]
        /\ split' = [split EXCEPT ![s].phase = "size", ![s].moved = {},
                                  ![s].seen = psize[cs]]
        /\ UNCHANGED <<psize, splitFlag, task, clientVars>>

\* The store of partition_size += num_entries.  No partition_mtx is held,
\* so a Mknod on the child server may have counted an entry since the
\* load (a data race; its increment is then overwritten).
SplitInsertSize(s) ==
    LET sp == split[s] IN
    /\ sp # None /\ sp.phase = "size"
    /\ psize' = [psize EXCEPT ![sp.childSrv] = sp.seen + sp.ret]
    /\ split' = [split EXCEPT ![s].phase = "commit"]
    /\ UNCHANGED <<dmap, rows, splitFlag, task, clientVars>>

\* InsertSplitRemote fails in transport: the TException is logged and
\* Split goes on as if the child had the rows.
SplitInsertLost(s) ==
    /\ RPCMayFail
    /\ split[s] # None /\ split[s].phase = "insert"
    /\ split' = [split EXCEPT ![s].phase = "commit"]
    /\ UNCHANGED <<dmap, rows, psize, splitFlag, task, clientVars>>

\* Split after the remote insert (ret >= 0 always holds: Extract aborts on
\* error): set the child bit, partition_size -= ret, persist the bitmap;
\* when parent and child share a server the split ends here.  Extracted
\* rows a lost InsertSplit did not deliver are gone from here on: nothing
\* reads the split files again before ExtractClean deletes them.
SplitCommit(s) ==
    LET sp == split[s]
        done == sp.childSrv = s
    IN  /\ sp # None /\ sp.phase = "commit"
        /\ dmap' = [dmap EXCEPT ![s] = UpdateMapping(@, sp.child)]
        /\ psize' = [psize EXCEPT ![s] = @ - sp.ret]
        /\ split' = [split EXCEPT ![s] =
                       IF done THEN None
                       ELSE [sp EXCEPT !.phase = "notify", !.moved = {}]]
        /\ splitFlag' = IF done THEN [splitFlag EXCEPT ![s] = FALSE]
                        ELSE splitFlag
        /\ UNCHANGED <<rows, task, clientVars>>

\* UpdateBitmapRemote to the zeroth server, whose UpdateBitmap handler
\* (no lock) ORs s's bitmap into its own; then ExtractClean, split_flag = 0
\* and the lock is released.
SplitNotify(s) ==
    LET z == dmap[s].zeroth IN
    /\ split[s] # None /\ split[s].phase = "notify"
    /\ dmap' = [dmap EXCEPT ![z] = IF @ = NoMap THEN @
                                   ELSE UpdateCache(@, dmap[s])]
    /\ split' = [split EXCEPT ![s] = None]
    /\ splitFlag' = [splitFlag EXCEPT ![s] = FALSE]
    /\ UNCHANGED <<rows, psize, task, clientVars>>

\* UpdateBitmapRemote fails in transport: logged and ignored.
SplitNotifyLost(s) ==
    /\ RPCMayFail
    /\ split[s] # None /\ split[s].phase = "notify"
    /\ split' = [split EXCEPT ![s] = None]
    /\ splitFlag' = [splitFlag EXCEPT ![s] = FALSE]
    /\ UNCHANGED <<dmap, rows, psize, task, clientVars>>

-----------------------------------------------------------------------------
ClientStep(c) ==
    \/ \E n \in Name :
          ClientMknod(c, n) \/ ClientMkdir(c, n) \/ ClientGetattr(c, n) \/ ClientRemove(c, n)
          \/ ClientChmod(c, n)
    \/ \E src, dst \in Name : RenameStart(c, src, dst)
    \/ ClientEvict(c)
    \/ CallNoDir(c)
    \/ CallRedirect(c)
    \/ Mknod(c)
    \/ Mkdir(c)
    \/ Getattr(c)
    \/ Remove(c)
    \/ Chmod(c)
    \/ CreateEntry(c)

SplitStep(s) ==
    \/ SplitStart(s)
    \/ SplitInsert(s)
    \/ SplitInsertSize(s)
    \/ SplitInsertLost(s)
    \/ SplitCommit(s)
    \/ SplitNotify(s)
    \/ SplitNotifyLost(s)

Next ==
    \/ \E c \in Client : ClientStep(c)
    \/ \E s \in Server : SplitStep(s)

\* The split thread keeps draining its queue, and a client blocked in a
\* call is served once the lock is free (the RPC server has a thread per
\* connection): weak fairness on both.  Starting calls and evictions are
\* the environment's choice and get none.
Fairness ==
    /\ \A s \in Server : WF_vars(SplitStep(s))
    /\ \A c \in Client : WF_vars(CallNoDir(c) \/ CallRedirect(c) \/ Mknod(c)
                                   \/ Mkdir(c) \/ Getattr(c) \/ Remove(c) \/ Chmod(c)
                                   \/ CreateEntry(c))

Spec == Init /\ [][Next]_vars /\ Fairness

-----------------------------------------------------------------------------
(* Properties.                                                             *)

Status == {"OK", "Exists", "NotFound", "Corruption", "IOError"}
Kind == {"mknod", "mkdir", "getattr", "remove", "chmod", "rename"}

TypeOK ==
    /\ dmap \in [Server -> Mapping \cup {NoMap}]
    /\ rows \in [Server -> SUBSET (Partition \X Name)]
    /\ psize \in [Server -> Nat]
    /\ splitFlag \in [Server -> BOOLEAN]
    /\ task \in [Server -> Partition \cup {None}]
    /\ \A s \in Server :
          split[s] = None \/
          /\ split[s].parent \in Partition /\ split[s].child \in Partition
          /\ split[s].childSrv \in Server /\ split[s].moved \subseteq Name
          /\ split[s].ret \in Nat /\ split[s].seen \in Nat
          /\ split[s].phase \in {"insert", "size", "commit", "notify"}
    /\ cmap \in [Client -> Mapping \cup {NoMap}]
    /\ \A c \in Client :
          op[c] = None \/
          op[c] \in [kind : Kind, rpc : {"mknod", "mkdir", "getattr", "remove", "chmod", "create"},
                     name : Name, src : Name \cup {None}, dst : Name \cup {None},
                     tries : 0 .. NumRedirect, srv : Server \cup {None}]
    /\ reply \in [Client -> [kind : Kind, name : Name, status : Status]
                             \cup {None}]
    /\ mknods \in 0 .. MaxMknod
    /\ renames \in 0 .. MaxRename

\* Every row a server holds is where that server's own routing looks for
\* it: CheckAddressing accepts the name and giga_get_index_for_file picks
\* the row's partition.  Breaking it takes a split that moves the wrong
\* rows, or a child whose mapping disagrees with the rows it was sent.
StoredWhereRouted ==
    \A s \in Server : \A r \in rows[s] :
        Accepts(s, r[2]) /\ LocalIndex(s, r[2]) = r[1]

NotFoundOnlyIfAbsent ==
    [][\A c \in Client :
         (reply'[c] # reply[c] /\ reply'[c] # None
          /\ reply'[c].status = "NotFound")
            => ~Stored(reply'[c].name)]_vars

\* No call ends in "Too Many Redirection": a redirect always teaches the
\* client a partition it lacked, so kNumRedirect is never reached.
NoTooManyRedirects ==
    \A c \in Client : reply[c] # None => reply[c].status # "Corruption"

\* Spec (DirectoryTable: every directory mutation holds the directory's
\* mutex; the counter grows with each insert): partition_size never
\* counts fewer entries than the server holds.  Remove never decrements
\* it, and a split moves the count with the rows; a lost update of the
\* counter would break it.  A split between its InsertSplit's load and
\* store is counted with the entries it is adding.  No run checks it:
\* with ZerothMayFail or UndefinedReturn TRUE it fails (see the README),
\* and with both FALSE it holds by construction.
PartitionSizeCoversRows ==
    LET pending(s) == {t \in Server : /\ split[t] # None
                                       /\ split[t].phase = "size"
                                       /\ split[t].childSrv = s}
    IN  \A s \in Server :
            psize[s] + FSE!MapThenSumSet(LAMBDA t : split[t].ret, pending(s))
                >= Cardinality(rows[s])

\* Every call a client makes returns, the unbounded recursion of RPC_Remove
\* and RPC_Chmod on redirects included.
OpsTerminate ==
    \A c \in Client : op[c] # None ~> op[c] = None

\* Spec: Mknod fails with ENOENT only when the parent directory does not
\* exist; the directory here always exists, so no Mknod answers NotFound.
MknodNeverNotFound ==
    \A c \in Client :
        reply[c] # None /\ reply[c].kind = "mknod" => reply[c].status # "NotFound"

-----------------------------------------------------------------------------
(* Refinement: the distributed directory implements GigaDirectory.  The   *)
(* abstract bitmap is the union of the servers' bitmaps; a name is in the *)
(* partition of its row, or, while a split carries it, in the partition   *)
(* it was extracted from.                                                  *)

AbsBitmap == UNION {dmap[s].bitmap : s \in {t \in Server : dmap[t] # NoMap}}

AbsPart ==
    [n \in Name |->
        IF \E s \in Server, p \in Partition : <<p, n>> \in rows[s]
        THEN CHOOSE p \in Partition : \E s \in Server : <<p, n>> \in rows[s]
        ELSE IF \E s \in Server : split[s] # None /\ n \in split[s].moved
        THEN split[CHOOSE s \in Server :
                      split[s] # None /\ n \in split[s].moved].parent
        ELSE None]

GD == INSTANCE GigaDirectory
        WITH bitmap <- AbsBitmap, part <- AbsPart,
             NumServers <- Cardinality(Server), Absent <- None

\* Creates, removes and splits across the servers keep the directory's
\* contents those of one GIGA+ directory: no entry is lost, duplicated or
\* created out of nothing by the multi-step, multi-server split.
ImplementsGigaDirectory == GD!Spec
=============================================================================
