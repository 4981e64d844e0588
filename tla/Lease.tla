------------------------------- MODULE Lease -------------------------------
(***************************************************************************)
(* The directory-entry lease protocol of one directory entry (a            *)
(* subdirectory) on the server that holds it, src/server/metadata_server.cc:*)
(* Access grants a client a lease on the entry and records its expiry in  *)
(* the server's dent cache (ServerDirEntryValue: expire_time, status);     *)
(* Chmod or Remove of the entry is the writer, which takes                *)
(* WriteLockDirEntry (through DirEntryLockHandler), waits                 *)
(* until the leases it knows of have expired plus kTimeEpsilon, mutates,   *)
(* then UnlockDirEntry.  All of them run under the directory's             *)
(* partition_mtx and wait on its partition_cv.                             *)
(*                                                                         *)
(* A step of a thread is the code it runs between taking partition_mtx and*)
(* releasing it or waiting on the condition variable.  One clock stands   *)
(* for env_->NowMicros() on every machine.                                 *)
(***************************************************************************)
EXTENDS Naturals, FiniteSets

CONSTANTS
    Client,     \* client threads calling Access (through Lookup)
    Writer,     \* server threads running Chmod on the entry
    LeaseTime,  \* GetLeaseTime(): 1000 * 1000 microseconds
    Epsilon,    \* kTimeEpsilon
    MaxWrites,  \* bound on the Chmod and Remove calls of a behaviour
    ServerEvicts, \* may the server's LRU dent cache evict the entry?
    Ino,        \* the entry's inode number
    Unset,      \* the placeholder inode_id -1 of a value a writer inserted
    None

VARIABLES
    now,          \* the clock
    cached,       \* is the entry's ServerDirEntryValue in the dent cache?
    status,       \* its status: "READ" or "WRITE"
    vino,         \* its inode_id: Ino, or Unset
    expire,       \* its expire_time
    granted,      \* the clients whose lease this value recorded (a ghost)
    mtx,          \* the thread holding partition_mtx, or None
    pc,           \* where each thread is
    cvWait,       \* threads blocked in partition_cv.Wait()
    lease,        \* lease[c]: the expiry the client cached, or None
    cino,         \* cino[c]: the inode the client cached with it, or None
    savedNow,     \* savedNow[w]: the `now` WriteLockDirEntry read on entry
    wake,         \* wake[w]: when the writer's sleep ends
    known,        \* known[w]: the leases the value recorded when w decided
    wkind,        \* wkind[w]: "chmod" or "remove", the writer's call
    writes,
    exists,       \* is the entry's row in the store (mdb_->Getattr finds it)?
    outdated      \* clients whose cached entry the store no longer matches (a ghost)

vars == <<now, cached, status, vino, expire, granted, mtx, pc, cvWait, lease,
          cino, outdated, savedNow, wake, known, wkind, writes, exists>>

\* Variables only the writer side changes, and only the client side.
writerOnly == <<savedNow, wake, known, wkind, writes, exists>>
clientOnly == <<lease, cino, outdated>>

Thread == Client \cup Writer

\* The client leases the dent-cache value records: those granted since it
\* was inserted and not yet dropped by their client.
Recorded == [c \in Client |-> IF c \in granted THEN lease[c] ELSE None]

Init ==
    /\ now = 0
    /\ cached = FALSE
    /\ status = "READ"
    /\ vino = Unset
    /\ expire = 0
    /\ granted = {}
    /\ mtx = None
    /\ pc = [t \in Thread |-> "idle"]
    /\ cvWait = {}
    /\ lease = [c \in Client |-> None]
    /\ cino = [c \in Client |-> None]
    /\ outdated = {}
    /\ savedNow = [w \in Writer |-> 0]
    /\ wake = [w \in Writer |-> 0]
    /\ known = [w \in Writer |-> [c \in Client |-> None]]
    /\ wkind = [w \in Writer |-> "chmod"]
    /\ writes = 0
    /\ exists = TRUE

Tick ==
    /\ now' = now + 1
    /\ UNCHANGED <<cached, status, vino, expire, granted, mtx, pc, cvWait, clientOnly,
                   writerOnly>>

\* Wait(): release the mutex and block on partition_cv.
WaitCV(t) ==
    /\ mtx' = None
    /\ cvWait' = cvWait \cup {t}
    /\ pc' = [pc EXCEPT ![t] = "cv"]

\* A thread partition_cv woke takes the mutex back and goes on where it
\* waited.
Relock(t) ==
    /\ pc[t] = "relock"
    /\ mtx = None
    /\ mtx' = t
    /\ pc' = [pc EXCEPT ![t] = "locked"]
    /\ UNCHANGED <<now, cached, status, vino, expire, granted, cvWait, clientOnly,
                   writerOnly>>

\* The server's dent cache (an LRU of ServerDirEntryValue) evicts the
\* entry to make room for others.  Only while no thread holds a handle on
\* it: a thread in Access or WriteLockDirEntry would keep the evicted
\* value alive and go on using it.
ServerEvict ==
    /\ ServerEvicts
    /\ cached
    /\ \A t \in Thread : pc[t] = "idle"
    /\ cached' = FALSE
    /\ status' = "READ"
    /\ vino' = Unset
    /\ expire' = 0
    /\ granted' = {}
    /\ UNCHANGED <<now, mtx, pc, cvWait, clientOnly, writerOnly>>

-----------------------------------------------------------------------------
(* Client side.                                                            *)

\* MetadataClient::IsEntryExpired: a cached entry is used while
\* now <= expire_time, then dropped.
ClientExpire(c) ==
    /\ lease[c] # None
    /\ now > lease[c]
    /\ lease' = [lease EXCEPT ![c] = None]
    /\ cino' = [cino EXCEPT ![c] = None]
    /\ outdated' = outdated \ {c}
    /\ UNCHANGED <<now, cached, status, vino, expire, granted, mtx, pc, cvWait,
                   writerOnly>>

\* The client's LRU dent cache drops the entry before it expires.
ClientEvict(c) ==
    /\ lease[c] # None
    /\ lease' = [lease EXCEPT ![c] = None]
    /\ cino' = [cino EXCEPT ![c] = None]
    /\ outdated' = outdated \ {c}
    /\ UNCHANGED <<now, cached, status, vino, expire, granted, mtx, pc, cvWait,
                   writerOnly>>

\* Internal_ResolvePath walks to the entry: GetCacheEntry misses (an
\* expired entry was dropped by IsEntryExpired), so it calls Lookup, whose
\* Access RPC takes the server's mutex; the answer goes to AddCacheEntry.
AccessStart(c) ==
    /\ pc[c] = "idle"
    /\ lease[c] = None
    /\ mtx = None
    /\ mtx' = c
    /\ pc' = [pc EXCEPT ![c] = "locked"]
    /\ UNCHANGED <<now, cached, status, vino, expire, granted, cvWait, clientOnly,
                   writerOnly>>

\* MetadataClient::AddCacheEntry: the client's dent cache keeps the inode
\* id the Lookup returned, with lease_time as its expire_time.
AddCacheEntry(c, exp, ino) ==
    /\ lease' = [lease EXCEPT ![c] = exp]
    /\ cino' = [cino EXCEPT ![c] = ino]

\* Mutant: Access keeps a -1 inode_id.
RefreshedInodeKeep(v) == v

\* Access refills an inode_id left -1 by a writer from mdb_->Getattr.
RefreshedInode(v) == IF v = Unset THEN Ino ELSE v

\* GetLeaseTime: 1000 * 1000 microseconds, whatever the value's read and
\* write rates (the adaptive formulas are commented out).
GetLeaseTime == LeaseTime

\* The expiry Access grants: the remaining expire_time under WRITE
\* (srv_lease_time = expire_time - now), now + GetLeaseTime() otherwise.
GrantedExpiry == IF cached /\ status = "WRITE" THEN expire ELSE now + GetLeaseTime

\* MetadataServer::Access under the mutex.  With the value cached, it waits
\* while the status is WRITE and the expiry is less than kTimeEpsilon away,
\* and leaves the loop otherwise, refilling a -1 inode_id from the store;
\* a cached inode_id is used as it is.  Without the value, it reads the
\* entry from the store and inserts a fresh value (READ, expire_time 0).
\* When the store has no row, FileNotFoundException: MutexLock releases
\* the mutex, but the handle is not released and no waiter is signalled.
\* Otherwise expire_time grows to the granted expiry if that is later,
\* the status becomes READ and partition_cv.Signal() wakes one waiter.
Access(c) ==
    /\ pc[c] = "locked"
    /\ mtx = c
    /\ IF cached /\ status = "WRITE" /\ now + Epsilon > expire
       THEN /\ WaitCV(c)
            /\ UNCHANGED <<cached, status, vino, expire, granted, clientOnly>>
       ELSE IF (~cached \/ vino = Unset) /\ ~exists
       THEN /\ mtx' = None
            /\ pc' = [pc EXCEPT ![c] = "idle"]
            /\ UNCHANGED <<cached, status, vino, expire, granted, cvWait, clientOnly>>
       ELSE /\ cached' = TRUE
            /\ vino' = IF cached THEN RefreshedInode(vino) ELSE Ino
            /\ expire' = IF cached /\ GrantedExpiry <= expire THEN expire
                         ELSE GrantedExpiry
            /\ status' = "READ"
            /\ AddCacheEntry(c, GrantedExpiry, vino')
            /\ outdated' = IF exists THEN outdated \ {c} ELSE outdated \cup {c}
            /\ granted' = granted \cup {c}
            /\ mtx' = None
            /\ \/ /\ cvWait = {}
                  /\ cvWait' = cvWait
                  /\ pc' = [pc EXCEPT ![c] = "idle"]
               \/ \E t \in cvWait :
                     /\ cvWait' = cvWait \ {t}
                     /\ pc' = [pc EXCEPT ![c] = "idle", ![t] = "relock"]
    /\ UNCHANGED <<now, writerOnly>>

-----------------------------------------------------------------------------
(* Writer side: MetadataServer::Chmod or Remove of the entry, which is a  *)
(* directory.                                                              *)

\* Chmod or Remove takes the mutex, finds the entry with mdb_->Getattr
\* (a missing one throws FileNotFoundException before any lock on the
\* entry) and, through DirEntryLockHandler, enters WriteLockDirEntry,
\* which reads `now` once.  An entry not in the dent cache gets a fresh
\* value inserted (status WRITE, inode_id -1, expire_time 0) and the
\* writer goes straight on.
WriterStart(w) ==
    /\ pc[w] = "idle"
    /\ writes < MaxWrites
    /\ mtx = None
    /\ exists
    /\ mtx' = w
    /\ writes' = writes + 1
    /\ \E k \in {"chmod", "remove"} : wkind' = [wkind EXCEPT ![w] = k]
    /\ savedNow' = [savedNow EXCEPT ![w] = now]
    /\ IF cached
       THEN /\ pc' = [pc EXCEPT ![w] = "locked"]
            /\ UNCHANGED <<cached, status, vino, expire, granted, known>>
       ELSE /\ cached' = TRUE
            /\ status' = "WRITE"
            /\ vino' = Unset
            /\ expire' = 0
            /\ known' = [known EXCEPT ![w] = Recorded]
            /\ pc' = [pc EXCEPT ![w] = "write"]
    /\ UNCHANGED <<now, granted, cvWait, clientOnly, wake, exists>>

\* Mutant: the sleep leaves out kTimeEpsilon.
SleepUntilNoEpsilon(w) == now + (expire - savedNow[w])

\* When the writer's sleep ends: expire_time - now + kTimeEpsilon
\* microseconds from now, with the `now` read on entry.
SleepUntil(w) == now + (expire + Epsilon - savedNow[w])

\* WriteLockDirEntry, which the DirEntryLockHandler constructor calls (its
\* destructor calls UnlockDirEntry), with the value cached: wait while the status is WRITE;
\* then, if its `now` is before expire_time + kTimeEpsilon, set WRITE, drop
\* the mutex and sleep.
WriteLock(w) ==
    /\ pc[w] = "locked"
    /\ mtx = w
    /\ IF status = "WRITE"
       THEN /\ WaitCV(w)
            /\ UNCHANGED <<status, wake, known>>
       ELSE /\ known' = [known EXCEPT ![w] = Recorded]
            /\ IF savedNow[w] < expire + Epsilon
               THEN /\ status' = "WRITE"
                    /\ wake' = [wake EXCEPT ![w] = SleepUntil(w)]
                    /\ mtx' = None
                    /\ pc' = [pc EXCEPT ![w] = "sleep"]
               ELSE /\ pc' = [pc EXCEPT ![w] = "write"]
                    /\ UNCHANGED <<status, wake, mtx>>
            /\ UNCHANGED cvWait
    /\ UNCHANGED <<now, cached, vino, expire, granted, clientOnly, savedNow, wkind,
                   writes, exists>>

\* The sleep is over; WriteLockDirEntry takes the mutex back.
WriterWake(w) ==
    /\ pc[w] = "sleep"
    /\ now >= wake[w]
    /\ mtx = None
    /\ mtx' = w
    /\ pc' = [pc EXCEPT ![w] = "write"]
    /\ UNCHANGED <<now, cached, status, vino, expire, granted, cvWait, clientOnly,
                   writerOnly>>

\* UnlockDirEntry: the value's status back to READ, then SignalAll() on
\* partition_cv: every waiter goes on to take the mutex back.
UnlockDirEntry(w) ==
    /\ status' = "READ"
    /\ cvWait' = {}
    /\ pc' = [t \in Thread |-> IF t = w THEN "idle"
                               ELSE IF t \in cvWait THEN "relock" ELSE pc[t]]

\* mdb_->Chmod or mdb_->Remove (Remove leaves the dent cache as it is: a
\* TODO in the code), then ~DirEntryLockHandler: UnlockDirEntry sets READ
\* and SignalAll()s, and the handler's MutexLock releases the mutex.  A
\* row another Remove deleted meanwhile makes the call throw
\* FileNotFoundException, after the same unlock.
Write(w) ==
    /\ pc[w] = "write"
    /\ mtx = w
    /\ exists' = (exists /\ wkind[w] = "chmod")
    /\ outdated' = outdated \cup {c \in Client : lease[c] # None}
    /\ UnlockDirEntry(w)
    /\ mtx' = None
    /\ UNCHANGED <<now, cached, vino, expire, granted, lease, cino, savedNow, wake,
                   known, wkind, writes>>

-----------------------------------------------------------------------------
Next ==
    \/ Tick
    \/ ServerEvict
    \/ \E t \in Thread : Relock(t)
    \/ \E c \in Client : ClientExpire(c) \/ ClientEvict(c) \/ AccessStart(c)
                         \/ Access(c)
    \/ \E w \in Writer : WriterStart(w) \/ WriteLock(w) \/ WriterWake(w)
                         \/ Write(w)

Spec == Init /\ [][Next]_vars

-----------------------------------------------------------------------------
(* Properties.                                                             *)

\* Types; in particular a client caches a real inode number, never the -1
\* a writer's placeholder value carries until Access refills it.
TypeOK ==
    /\ now \in Nat /\ expire \in Nat /\ granted \subseteq Client
    /\ cached \in BOOLEAN
    /\ status \in {"READ", "WRITE"}
    /\ vino \in {Ino, Unset}
    /\ mtx \in Thread \cup {None}
    /\ pc \in [Thread -> {"idle", "locked", "cv", "relock", "sleep", "write"}]
    /\ cvWait \subseteq Thread
    /\ lease \in [Client -> Nat \cup {None}]
    /\ cino \in [Client -> {Ino, None}]
    /\ outdated \subseteq Client
    /\ savedNow \in [Writer -> Nat] /\ wake \in [Writer -> Nat]
    /\ known \in [Writer -> [Client -> Nat \cup {None}]]
    /\ wkind \in [Writer -> {"chmod", "remove"}]
    /\ writes \in 0 .. MaxWrites
    /\ exists \in BOOLEAN

\* The writer waits out the leases it knows of: every lease the dent-cache
\* value recorded when WriteLockDirEntry chose whether to sleep has expired
\* (by the client's IsEntryExpired) by the time Chmod or Remove mutates
\* the entry, even when the writer's `now` went stale while it waited for
\* another writer on partition_cv, and when the LRU cache evicted the value
\* (with every thread idle) between one writer's calls and the next.
KnownLeasesExpireBeforeWrite ==
    \A w \in Writer : pc[w] = "write" =>
        \A c \in Client : known[w][c] # None => now > known[w][c]

\* Spec P5 (lease safety) and the glossary's lease, "a promise that a
\* lookup result will not change": no client holds a usable cached Access
\* result (now <= expire_time, IsEntryExpired) that a completed Chmod or
\* Remove has outdated, or that names an entry the store no longer has.
\* WriteLockDirEntry's wait, Access's wait on a WRITE entry and the dent
\* cache's handling of removed and evicted entries all bear on it.
CachedLookupsCurrent ==
    \A c \in Client : lease[c] # None /\ now <= lease[c] => c \notin outdated
=============================================================================
