---------------------------- MODULE LibClientMT ----------------------------
(***************************************************************************)
(* The multi-threaded C client library (src/client/libclient_mt.cc): each *)
(* application thread calls IDX_Init, which runs InitEnv and then stores   *)
(* a fresh Client in the thread-local slot cli_key, makes IDX_ calls that  *)
(* fetch that Client with pthread_getspecific, and ends with IDX_Destroy.  *)
(*                                                                         *)
(* InitEnv is a double-checked initialisation: a read of the volatile     *)
(* initialized flag, then, under init_mutex, a second read, the flag set  *)
(* and pthread_key_create(&cli_key).  Each read or write of shared state  *)
(* is a step of its own.                                                   *)
(*                                                                         *)
(* The pthread key table is modelled as glibc keeps it: keys are handed   *)
(* out lowest first, pthread_setspecific of a key not yet created fails   *)
(* with EINVAL and pthread_getspecific of it gives NULL.  Other libraries *)
(* of the process may have created keys before IDX_Init runs.             *)
(*                                                                         *)
(* Each thread's MetadataClient has its own caches, but the pointers that  *)
(* DirHandle uses to reach them, DirHandle::dmap_cache_ and dir_cache_,   *)
(* are static: the constructor of every MetadataClient overwrites them    *)
(* and its destructor sets them to NULL.  A call is two steps, the        *)
(* DirHandle built in FetchDir and destroyed when the call returns.       *)
(***************************************************************************)
EXTENDS Naturals, FiniteSets, FiniteSetsExt

CONSTANTS
    Thread,     \* application threads using the library
    Key,        \* pthread key numbers, 0 .. some bound
    OtherKeys,  \* the sets of keys other libraries may have created first
    Other,      \* the value another library keeps in its own key
    None        \* NULL

VARIABLES
    initialized, \* the static volatile bool initialized
    cliKey,      \* the static pthread_key_t cli_key (zero-initialised)
    keys,        \* the keys pthread_key_create has handed out
    mtx,         \* the holder of init_mutex, or None
    pc,          \* where each thread is
    tls,         \* tls[t][k]: thread t's value for key k
    statics,     \* whose caches DirHandle::dmap_cache_/dir_cache_ point to
    live,        \* the threads whose MetadataClient caches are not deleted
    res          \* res[t]: what the thread's last IDX_ call got

vars == <<initialized, cliKey, keys, mtx, pc, tls, statics, live, res>>

-----------------------------------------------------------------------------
(* pthread keys, as glibc implements them.                                 *)

\* pthread_key_create: the lowest key no one holds.
NewKey == Min(Key \ keys)

\* pthread_setspecific: EINVAL, and nothing stored, for a key not created.
Setspecific(t, k, v) == IF k \in keys THEN [tls EXCEPT ![t][k] = v] ELSE tls

\* pthread_getspecific: NULL for a key not created.
Getspecific(t, k) == IF k \in keys THEN tls[t][k] ELSE None

-----------------------------------------------------------------------------
Init ==
    /\ initialized = FALSE
    /\ cliKey = 0
    /\ keys \in OtherKeys
    /\ mtx = None
    /\ pc = [t \in Thread |-> "idle"]
    /\ tls = [t \in Thread |-> [k \in Key |-> IF k \in keys THEN Other ELSE None]]
    /\ statics = None
    /\ live = {}
    /\ res = [t \in Thread |-> None]

Goto(t, l) == pc' = [pc EXCEPT ![t] = l]

\* IDX_Init enters InitEnv: the unlocked read of initialized.
InitCheck(t) ==
    /\ pc[t] = "idle"
    /\ Goto(t, IF initialized THEN "setspecific" ELSE "lock")
    /\ UNCHANGED <<initialized, cliKey, keys, mtx, tls, statics, live, res>>

\* pthread_mutex_lock(&init_mutex).
InitLock(t) ==
    /\ pc[t] = "lock"
    /\ mtx = None
    /\ mtx' = t
    /\ Goto(t, "recheck")
    /\ UNCHANGED <<initialized, cliKey, keys, tls, statics, live, res>>

\* The second read under the mutex; when still false, the log is opened
\* and initialized = true, before the key exists.
InitRecheck(t) ==
    /\ pc[t] = "recheck"
    /\ IF initialized
       THEN Goto(t, "unlock") /\ UNCHANGED initialized
       ELSE Goto(t, "keycreate") /\ initialized' = TRUE
    /\ UNCHANGED <<cliKey, keys, mtx, tls, statics, live, res>>

\* pthread_key_create(&cli_key, NULL).
InitKeyCreate(t) ==
    /\ pc[t] = "keycreate"
    /\ cliKey' = NewKey
    /\ keys' = keys \cup {NewKey}
    /\ Goto(t, "unlock")
    /\ UNCHANGED <<initialized, mtx, tls, statics, live, res>>

\* pthread_mutex_unlock(&init_mutex).
InitUnlock(t) ==
    /\ pc[t] = "unlock"
    /\ mtx' = None
    /\ Goto(t, "setspecific")
    /\ UNCHANGED <<initialized, cliKey, keys, tls, statics, live, res>>

\* The MetadataClient constructor: its own caches, and the static
\* DirHandle::dmap_cache_ and dir_cache_ set to them.
ConstructClient(t) ==
    /\ statics' = t
    /\ live' = live \cup {t}

\* IDX_Internal_Init: the factory's new MetadataClient, client->Init(),
\* then pthread_setspecific(cli_key, client), whose result is not checked.
\* IDX_Init returns client->Init()'s status, which is not modelled: the
\* Client is stored either way.
InternalInit(t) ==
    /\ pc[t] = "setspecific"
    /\ ConstructClient(t)
    /\ tls' = Setspecific(t, cliKey, t)
    /\ Goto(t, "ready")
    /\ UNCHANGED <<initialized, cliKey, keys, mtx, res>>

\* A use of the static cache pointers (DirMappingCache::Value, Release,
\* DirCache::Release): NULL is a segmentation fault; the caches of a
\* deleted client are freed memory, whose use may crash or seem to work.
StaticsUse == IF statics = None THEN {"crash"}
              ELSE IF statics \in live THEN {"ok"} ELSE {"ok", "crash"}

Answer(t, r) == res' = [res EXCEPT ![t] = r]

\* IDX_Close of a descriptor that is not positive returns 0 at once.
CloseNonPositive(t) == Answer(t, "ignored") /\ UNCHANGED pc

\* pthread_getspecific(cli_key) gives NULL: Corruption("System disposed").
NoClient(t) == Getspecific(t, cliKey) = None /\ Answer(t, "disposed") /\ UNCHANGED pc

\* The Client's call fails before it fetches a directory: ResolvePath's
\* InvalidArgument for an empty or relative path (Close's unknown
\* descriptor likewise).
EarlyError(t) == Getspecific(t, cliKey) # None /\ Answer(t, "error") /\ UNCHANGED pc

\* The call reaches MetadataClient::FetchDir, whose DirHandle constructor
\* reads the mapping through the static DirHandle::dmap_cache_.
ReachFetchDir(t) ==
    /\ Getspecific(t, cliKey) # None
    /\ \E u \in StaticsUse :
          IF u = "ok" THEN Goto(t, "incall") /\ UNCHANGED res
          ELSE Goto(t, "crashed") /\ Answer(t, "crash")

\* An IDX_ call of a thread whose IDX_Init has returned.
CallStart(t) ==
    /\ pc[t] = "ready"
    /\ \/ CloseNonPositive(t) \/ NoClient(t) \/ EarlyError(t) \/ ReachFetchDir(t)
    /\ UNCHANGED <<initialized, cliKey, keys, mtx, tls, statics, live>>

\* The call returns: the DirHandle destructor releases the mapping handle
\* and the Directory through the static pointers as they are now.
CallEnd(t) ==
    /\ pc[t] = "incall"
    /\ \E u \in StaticsUse :
          IF u = "ok" THEN Goto(t, "ready") /\ Answer(t, "served")
          ELSE Goto(t, "crashed") /\ Answer(t, "crash")
    /\ UNCHANGED <<initialized, cliKey, keys, mtx, tls, statics, live>>

\* IDX_Destroy with a Client: Dispose, then delete, whose destructor frees
\* the client's caches ...
DestroyDelete(t) ==
    /\ pc[t] = "ready"
    /\ Getspecific(t, cliKey) # None
    /\ live' = live \ {t}
    /\ Goto(t, "clear")
    /\ UNCHANGED <<initialized, cliKey, keys, mtx, tls, statics, res>>

\* ... and then sets DirHandle::dmap_cache_ and dir_cache_ to NULL, whichever
\* client they point to; IDX_Destroy ends with pthread_setspecific(cli_key,
\* NULL).  DisposeEnv does nothing, so initialized and the key stay.
DestroyClear(t) ==
    /\ pc[t] = "clear"
    /\ statics' = None
    /\ tls' = Setspecific(t, cliKey, None)
    /\ Goto(t, "done")
    /\ UNCHANGED <<initialized, cliKey, keys, mtx, live, res>>

\* IDX_Destroy when pthread_getspecific gives NULL: only the setspecific.
DestroyNoClient(t) ==
    /\ pc[t] = "ready"
    /\ Getspecific(t, cliKey) = None
    /\ tls' = Setspecific(t, cliKey, None)
    /\ Goto(t, "done")
    /\ UNCHANGED <<initialized, cliKey, keys, mtx, statics, live, res>>

Next ==
    \E t \in Thread :
        \/ InitCheck(t) \/ InitLock(t) \/ InitRecheck(t) \/ InitKeyCreate(t)
        \/ InitUnlock(t) \/ InternalInit(t) \/ CallStart(t) \/ CallEnd(t)
        \/ DestroyDelete(t) \/ DestroyClear(t) \/ DestroyNoClient(t)

Spec == Init /\ [][Next]_vars

-----------------------------------------------------------------------------
(* Properties.                                                              *)

TypeOK ==
    /\ initialized \in BOOLEAN
    /\ cliKey \in Key /\ keys \subseteq Key
    /\ mtx \in Thread \cup {None}
    /\ pc \in [Thread -> {"idle", "lock", "recheck", "keycreate", "unlock",
                          "setspecific", "ready", "incall", "crashed",
                          "clear", "done"}]
    /\ statics \in Thread \cup {None} /\ live \subseteq Thread
    /\ res \in [Thread -> {None, "ignored", "disposed", "error", "served", "crash"}]

\* InitEnv's comment: everything is initialised once, and each thread then
\* has its own Client.  Between a thread's IDX_Init and its IDX_Destroy,
\* its IDX_ calls reach its own Client (none returns "System disposed"),
\* and that Client's calls use live caches (none dereferences a NULL or
\* freed DirHandle cache), whatever the other threads do.
CallsReachLiveClient == \A t \in Thread : res[t] \notin {"disposed", "crash"}

=============================================================================
