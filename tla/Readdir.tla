------------------------------ MODULE Readdir ------------------------------
(***************************************************************************)
(* MetadataClient::Readdir (src/client/metadata_client.cc) listing the    *)
(* IndexFS directory while the clients and split threads of IndexFS keep  *)
(* working on it.  The listing walks curr_idx over 0 .. 2^curr_radix - 1, *)
(* maps each to a partition with reverse_bits, and pages through the      *)
(* partition's server with MetadataServer::Readdir, which calls           *)
(* MetadataBackend::Readdir and metadb_readdir (src/backends/).           *)
(*                                                                         *)
(* A LevelDB key is <<dir, partition, name hash>>; the name hash orders   *)
(* the rows of a partition.  Hash[n] stands for the whole hash: the model *)
(* gives the names distinct first bytes, so the order is the same.        *)
(*                                                                         *)
(* The reader keeps rmap, its DirHandle's mapping, and rd, the listing in *)
(* progress: curr_idx, curr_radix, start_key and the entries gathered.    *)
(* rd.kept and rd.quiet are bookkeeping of the model: the names stored   *)
(* in the directory at every state since the listing began, and whether  *)
(* no split has been in progress at any of them.                          *)
(***************************************************************************)
EXTENDS IndexFS, Sequences

SE == INSTANCE SequencesExt

CONSTANTS
    Capacity,   \* entries that fit in one reply's buffer
    Garbage,    \* hash values an uninitialised end_key buffer may hold
    MaxReaddir  \* bound on the listings of a behaviour

VARIABLES rmap, rd, readdirs

readerVars == <<rmap, rd, readdirs>>
allVars == <<vars, readerVars>>

\* reverse_bits(b, n): the multiply-and-mask leaves reverse_byte(b) in bits
\* 32..39 of the product, and the shift by 32 + sizeof(uint8_t) - n (one,
\* not eight) keeps bits 33-n .. 40-n.  For n <= 5 and b < 2^n the uint8
\* result is b's low n-1 bits reversed, plus 128 when bit n-1 of b is set.
ReverseBits(b, n) ==
    IF Assert(n <= 5, "reverse_bits modelled for n <= 5")
    THEN IF n = 0 THEN 0
         ELSE RevBits(b % 2^(n - 1), n - 1) + 128 * ((b \div 2^(n - 1)) % 2)
    ELSE 0

\* init_meta_obj_key: a row's key within the directory, <<partition, hash>>.
RowKey(r) == <<r[1], Hash[r[2]]>>

\* init_meta_obj_seek_key: the key a scan seeks to, start_key as the hash.
SeekKey(part, key) == <<part, key>>

\* CmpCompare: memcmp of the keys.  The partition is compared on its
\* little-endian bytes, which order as the numbers below 256.
KeyLess(k1, k2) == k1[1] < k2[1] \/ (k1[1] = k2[1] /\ k1[2] < k2[2])

\* The rows metadb_readdir's iterator visits on server s from the seek key
\* <<part, key>> to the end of the directory, in key order: it does not
\* stop at the end of the partition.
ScanFrom(s, part, key) ==
    SE!SetToSortSeq({r \in rows[s] : ~KeyLess(RowKey(r), SeekKey(part, key))},
                    LAMBDA r1, r2 : KeyLess(RowKey(r1), RowKey(r2)))

\* Mutant: the row that did not fit is returned as well.
PageWithOverflow(scan) ==
    [i \in 1 .. IF Len(scan) <= Capacity THEN Len(scan) ELSE Capacity + 1
        |-> scan[i][2]]

\* The names readdir_filler copies into the buffer before it is full.
Page(scan) == [i \in 1 .. IF Len(scan) < Capacity THEN Len(scan) ELSE Capacity
                  |-> scan[i][2]]

\* end_key: the hash of the row that did not fit (more_entries = 1), or,
\* when all fitted, whatever end_key_cstr held: MetadataBackend::Readdir
\* copies HASH_LEN bytes from the buffer metadb_readdir never wrote.
EndKeys(scan) ==
    IF Len(scan) > Capacity THEN {Hash[scan[Capacity + 1][2]]} ELSE Garbage

-----------------------------------------------------------------------------
ReaderInit ==
    /\ rmap = NoMap
    /\ rd = None
    /\ readdirs = 0

RInit == Init /\ ReaderInit

\* A listing starts: ResolvePath, FetchDir (ReadBitmap from the zeroth
\* server when no mapping is cached), curr_idx = 0, curr_radix from the
\* handle, start_key cleared (an empty key seeks from hash 0).
Begin(plus) ==
    /\ rd = None
    /\ readdirs < MaxReaddir
    /\ readdirs' = readdirs + 1
    /\ rmap' = IF rmap = NoMap THEN dmap[Zeroth] ELSE rmap
    /\ rd' = [idx |-> 0, radix |-> rmap'.radix, key |-> 0, result |-> <<>>, plus |-> plus,
              kept |-> {n \in Name : Stored(n)}, quiet |-> \A s \in Server : split[s] = None]
    /\ UNCHANGED vars

\* MetadataClient::Readdir.
ReaddirStart == Begin(FALSE)

\* MetadataClient::ReaddirPlus: the same start (ResolvePath of path/test).
ReaddirPlusStart == Begin(TRUE)

\* Mutant: curr_idx is not incremented.
AdvanceKeepIdx(m) == [rd EXCEPT !.radix = m.radix]

\* The loop body's end: curr_radix = handle.mapping->curr_radix, curr_idx++.
Advance(m) == [rd EXCEPT !.idx = @ + 1, !.radix = m.radix]

\* The partition curr_idx maps to, and the server that owns it.
CurrPartition == ReverseBits(rd.idx, rd.radix)
CurrServer == ServerForIndex(rmap, CurrPartition)

\* get_bit_status is 0: the partition is skipped.
ReaddirSkip ==
    /\ rd # None /\ rd.idx < 2^rd.radix
    /\ CurrPartition \notin rmap.bitmap
    /\ rd' = Advance(rmap)
    /\ UNCHANGED <<vars, rmap, readdirs>>

\* MetadataServer::Readdir and ReaddirPlus throw FileNotFoundException: the
\* server has no mapping (FetchDir fails), or the seek lands past the last
\* key of its store (metadb_readdir and metadb_readdirplus return ENOENT).
ReaddirFails(s, part, key) == dmap[s] = NoMap \/ ScanFrom(s, part, key) = <<>>

\* The client breaks out of the do-while without touching start_key or its
\* mapping.
ReaddirNotFound ==
    /\ rd # None /\ rd.idx < 2^rd.radix
    /\ CurrPartition \in rmap.bitmap
    /\ ReaddirFails(CurrServer, CurrPartition, rd.key)
    /\ rd' = Advance(rmap)
    /\ UNCHANGED <<vars, rmap, readdirs>>

\* One MetadataServer::Readdir call (no lock, no CheckAddressing): the
\* reply carries the server's mapping, which UpdateBitmap ORs into the
\* handle, a page of names and end_key, which becomes start_key.  The
\* do-while goes on while more_entries; otherwise the loop body ends.
ReaddirScan ==
    LET s == CurrServer
        scan == ScanFrom(s, CurrPartition, rd.key)
        m == UpdateCache(rmap, dmap[s])
    IN  /\ rd # None /\ ~rd.plus /\ rd.idx < 2^rd.radix
        /\ CurrPartition \in rmap.bitmap
        /\ ~ReaddirFails(s, CurrPartition, rd.key)
        /\ rmap' = m
        /\ \E k \in EndKeys(scan) :
              LET r == [rd EXCEPT !.key = k, !.result = @ \o Page(scan)]
              IN  rd' = IF Len(scan) > Capacity THEN r
                        ELSE [r EXCEPT !.idx = @ + 1, !.radix = m.radix]
        /\ UNCHANGED <<vars, readdirs>>

\* readdirplus_filler fails only on an empty name, so metadb_readdirplus
\* takes every row of the scan, whatever entry_limit says.
PagePlus(scan) == [i \in 1 .. Len(scan) |-> scan[i][2]]

\* more_entries stays 0, and MetadataBackend::ReaddirPlus copies end_key
\* from the buffer metadb_readdirplus never wrote.
EndKeysPlus == Garbage

\* One MetadataServer::ReaddirPlus call: the mapping is merged, the names
\* appended, start_key set to end_key, and the do-while ends at once.
ReaddirPlusScan ==
    LET s == CurrServer
        m == UpdateCache(rmap, dmap[s])
    IN  /\ rd # None /\ rd.plus /\ rd.idx < 2^rd.radix
        /\ CurrPartition \in rmap.bitmap
        /\ ~ReaddirFails(s, CurrPartition, rd.key)
        /\ rmap' = m
        /\ \E k \in EndKeysPlus :
              rd' = [rd EXCEPT !.key = k, !.result = @ \o PagePlus(ScanFrom(s, CurrPartition, rd.key)),
                               !.idx = @ + 1, !.radix = m.radix]
        /\ UNCHANGED <<vars, readdirs>>

\* The while loop ends: curr_idx has reached 1 << curr_radix.
ReaddirDone ==
    /\ rd # None /\ rd.idx >= 2^rd.radix
    /\ rd' = None
    /\ UNCHANGED <<vars, rmap, readdirs>>

ReaderStep ==
    \/ ReaddirStart
    \/ ReaddirPlusStart
    \/ ReaddirSkip
    \/ ReaddirNotFound
    \/ ReaddirScan
    \/ ReaddirPlusScan
    \/ ReaddirDone

\* A step of the IndexFS clients and servers; the listing forgets the
\* names the directory no longer holds, and notes a split's step.
SystemStep ==
    /\ Next
    /\ rd' = IF rd = None THEN None
             ELSE [rd EXCEPT !.kept = {n \in @ : Stored(n)'},
                             !.quiet = @ /\ \A s \in Server : split'[s] = None]
    /\ UNCHANGED <<rmap, readdirs>>

RNext == SystemStep \/ ReaderStep

\* The reader's thread is served like any client: weak fairness on its
\* calls once a listing has started.
RSpec == RInit /\ [][RNext]_allVars /\ Fairness
         /\ WF_allVars(ReaderStep /\ rd # None)

-----------------------------------------------------------------------------
(* Properties.                                                             *)

NoRepeats(seq) == \A i, j \in DOMAIN seq : seq[i] = seq[j] => i = j

\* Spec: Readdir returns the names of the directory, each once.  A listing
\* no split runs under never returns a name twice: each page of a
\* partition resumes at the row that did not fit in the last one.  A page
\* that kept that row as well, or a scan that restarted the partition,
\* would repeat names.
ReaddirQuietNoDuplicates == rd # None /\ rd.quiet => NoRepeats(rd.result)

\* Every Readdir returns: each call either moves curr_idx on or advances
\* start_key past the rows it returned.
ReaddirTerminates == rd # None ~> rd = None

\* Spec: Readdir returns every entry of the directory.  For a listing no
\* split runs under, a name present in the directory for the whole listing
\* is in its result: reverse_bits and start_key must lead the loop to every
\* partition, and to all of its rows.
ReaddirQuietComplete ==
    [][rd # None /\ rd' = None /\ rd.quiet
          => rd.kept \subseteq SE!Range(rd.result)]_allVars
=============================================================================
