------------------------------ MODULE FileIO ------------------------------
(***************************************************************************)
(* File data in IndexFS: one regular file, the MetadataServer handlers     *)
(* OpenFile, Read, Write and CloseFile (src/server/metadata_server.cc) on  *)
(* its LevelDB row (src/backends/metadb.cc, metadb_fs.c), and the          *)
(* MetadataClient calls Open, Read, Write and Close                        *)
(* (src/client/metadata_client.cc) with the Posix files of                 *)
(* src/lib/leveldb/util/env_hdfs.cc.                                       *)
(*                                                                         *)
(* A file starts embedded: its bytes live in the row (state IN_DB).  The  *)
(* first Write whose end passes FILE_THRESHOLD turns the row into a link  *)
(* (IN_FS) and hands the embedded bytes back to the client, which creates *)
(* the backing file and appends them, then its own buffer.  From then on  *)
(* the client writes through its PosixWritableFile.                        *)
(*                                                                         *)
(* Each client is one MetadataClient with one descriptor on the file; the *)
(* server handlers run under partition_mtx and are atomic steps.  The     *)
(* directory is not split: routing and redirection are modelled in       *)
(* IndexFS.  posix is bookkeeping of the model: the bytes the file would  *)
(* hold if each completed Write were a pwrite.                             *)
(***************************************************************************)
EXTENDS Integers, Sequences

CONSTANTS
    Client,     \* MetadataClient instances, one descriptor each
    Val,        \* data bytes a client writes
    Zero,       \* the zero byte of a hole in a Posix file
    None,
    NoFile,     \* the backing file does not exist
    Threshold,  \* FILE_THRESHOLD, in bytes of the model
    MaxOffset,  \* largest offset a Write is given
    MaxLen,     \* largest buffer a Write is given
    MaxWrites,  \* bound on the Write calls of a behaviour
    MaxOpens    \* bound on the Open calls of a behaviour

Byte == Val \cup {Zero}
Buffer == UNION {[1 .. n -> Val] : n \in 1 .. MaxLen}
Idle == [step |-> "idle"]

VARIABLES
    row,    \* the LevelDB value: state IN_FS, embedded data, st_size
    disk,   \* the backing file under file_dir, or NoFile
    fd,     \* fd_[]: None, or the descriptor's wf (file_offset_) and rf
    pc,     \* the call a client is in, and what it carries between steps
    posix,  \* the bytes the completed writes, as pwrites, would leave
    writes, \* Write calls made
    opens   \* Open calls made

vars == <<row, disk, fd, pc, posix, writes, opens>>

-----------------------------------------------------------------------------
(* Byte sequences.                                                          *)

RECURSIVE Fill(_, _)
\* n bytes, each any of Byte: what malloc'd memory holds.
Fill(n, S) == IF n = 0 THEN {<<>>} ELSE {s \o <<b>> : s \in Fill(n - 1, S), b \in S}

\* buf copied over s at offset off; s is already long enough.
Overwrite(s, off, buf) ==
    [i \in DOMAIN s |-> IF off < i /\ i <= off + Len(buf) THEN buf[i - off] ELSE s[i]]

\* pwrite(fd, buf, off): a write past the end leaves a hole of zero bytes.
PWrite(s, off, buf) ==
    LET n == IF Len(s) > off + Len(buf) THEN Len(s) ELSE off + Len(buf)
    IN  Overwrite([i \in 1 .. n |-> IF i <= Len(s) THEN s[i] ELSE Zero], off, buf)

-----------------------------------------------------------------------------
(* The metadata backend and the Posix environment.                          *)

\* metadb_get_file: the bytes of an IN_DB row, st_size of them; an IN_FS
\* row gives its realpath, the backing file.
Content == IF ~row.inFS THEN row.data ELSE IF disk = NoFile THEN <<>> ELSE disk

\* Mutant: the longer write does not set st_size.
WriteFileRowsNoResize(r, off, buf) ==
    IF off + Len(buf) <= r.size
    THEN {[r EXCEPT !.data = Overwrite(@, off, buf)]}
    ELSE {[r EXCEPT !.data = [i \in 1 .. off + Len(buf) |->
                                IF i > off THEN buf[i - off] ELSE (@ \o g)[i]]]
            : g \in Fill(IF off > r.size THEN off - r.size ELSE 0, Byte)}

\* metadb_write_file_handler through metadb_update_internal: a write inside
\* st_size is copied in place; a longer one sets st_size to its end and
\* copies the old value into a fresh malloc, so the bytes between the old
\* st_size and off are whatever that memory held.
WriteFileRows(r, off, buf) ==
    IF off + Len(buf) <= r.size
    THEN {[r EXCEPT !.data = Overwrite(@, off, buf)]}
    ELSE {LET base == r.data \o g
          IN  [r EXCEPT !.size = off + Len(buf),
                        !.data = [i \in 1 .. off + Len(buf) |->
                                    IF i > off THEN buf[i - off] ELSE base[i]]]
            : g \in Fill(IF off > r.size THEN off - r.size ELSE 0, Byte)}

\* MetadataBackend::OpenFile: is_embedded is state == IN_DB.
IsEmbedded == ~row.inFS

\* metadb_setattr_handler: the row's statbuf replaced, st_size with it.
SetattrRow(r, size) == [r EXCEPT !.size = size]

\* MetadataBackend::Setattr: the StatInfo copied into a struct stat (mode,
\* owner, size, times, inode) for metadb_setattr.
BackendSetattr(r, size) == SetattrRow(r, size)

\* metadb_write_link_handler: state IN_FS, the new value ends at the
\* realpath (the embedded data is dropped), statbuf and st_size kept.
WriteLinkRow(r) == [r EXCEPT !.inFS = TRUE, !.data = <<>>]

\* NewWritableFile: open(O_CREAT | O_RDWR | O_TRUNC), file_offset_ 0.
NewWritableFile == <<>>

\* PosixWritableFile::Append: pwrite at file_offset_, which then advances.
WritableAppend(d, off, buf) == PWrite(IF d = NoFile THEN <<>> ELSE d, off, buf)

\* GetFileSize: stat's st_size, or 0 when stat fails.
GetFileSize == IF disk = NoFile THEN 0 ELSE Len(disk)

-----------------------------------------------------------------------------
(* The server handlers.                                                     *)

\* MetadataServer::OpenFile answers is_embedded; the path it generates
\* for a link, like the data of an embedded file, is cleared before the
\* reply.
ServerOpenFile == IsEmbedded

\* MetadataServer::Read answers is_embedded, with the bytes from offset of
\* an embedded file or the path of a link.
ServerRead == IsEmbedded

\* MetadataServer::Write: the row after the handler, and the reply.  An
\* embedded file whose write ends within FILE_THRESHOLD is written in the
\* row.  Otherwise (kNoOverwrite) the reply carries the embedded bytes and
\* the file path, and the row becomes a link.  A link's reply carries its
\* realpath and no data.
ServerWrite(off, buf) ==
    IF ~IsEmbedded
    THEN {[row |-> row, embedded |-> FALSE, data |-> <<>>]}
    ELSE IF off + Len(buf) <= Threshold
    THEN {[row |-> r, embedded |-> TRUE, data |-> <<>>] : r \in WriteFileRows(row, off, buf)}
    ELSE {[row |-> WriteLinkRow(row), embedded |-> FALSE, data |-> row.data]}

\* Mutant: CloseFile does not ask the backing file for its size.
CloseFileRowStale == SetattrRow(row, row.size)

\* MetadataServer::CloseFile: Getattr, GetFileSize of the backing file of
\* a link, Setattr with that size (and a new mtime).
CloseFileRow == BackendSetattr(row, IF IsEmbedded THEN row.size ELSE GetFileSize)

-----------------------------------------------------------------------------
Init ==
    /\ row = [inFS |-> FALSE, data |-> <<>>, size |-> 0]
    /\ disk = NoFile
    /\ fd = [c \in Client |-> None]
    /\ pc = [c \in Client |-> Idle]
    /\ posix = <<>>
    /\ writes = 0
    /\ opens = 0

\* Open: RPC_Open (OpenFile answers is_embedded; it clears data, so a link
\* answers an empty path), AllocateFD and a FileDescriptor with no wf or
\* rf.  O_RDONLY is 0, so "mode & O_RDONLY" never holds; for a link opened
\* O_WRONLY, NewWritableFile("") fails and Open returns the error (the
\* slot it allocated stays taken).
Open(c) ==
    /\ fd[c] = None /\ pc[c] = Idle
    /\ opens < MaxOpens
    /\ opens' = opens + 1
    /\ \E wronly \in BOOLEAN :
          fd' = IF ~ServerOpenFile /\ wronly THEN fd
                ELSE [fd EXCEPT ![c] = [wf |-> None, rf |-> FALSE]]
    /\ UNCHANGED <<row, disk, pc, posix, writes>>

\* A completed Write(off, buf): the bytes a pwrite would have left.
Complete(off, buf) == posix' = PWrite(posix, off, buf)

\* Write with no wf: the Write RPC.  An embedded reply ends the call.
WriteCall(c) ==
    /\ fd[c] # None /\ fd[c].wf = None /\ pc[c] = Idle
    /\ writes < MaxWrites
    /\ writes' = writes + 1
    /\ \E off \in 0 .. MaxOffset, buf \in Buffer : \E ret \in ServerWrite(off, buf) :
          /\ row' = ret.row
          /\ IF ret.embedded
             THEN Complete(off, buf) /\ UNCHANGED pc
             ELSE /\ pc' = [pc EXCEPT ![c] = [step |-> "create", off |-> off,
                                               buf |-> buf, data |-> ret.data]]
                  /\ UNCHANGED posix
    /\ UNCHANGED <<disk, fd, opens>>

\* The reply is not embedded: NewWritableFile(ret.link) into wf.
WriteCreate(c) ==
    /\ pc[c].step = "create"
    /\ disk' = NewWritableFile
    /\ fd' = [fd EXCEPT ![c].wf = 0]
    /\ pc' = [pc EXCEPT ![c].step = "copy"]
    /\ UNCHANGED <<row, posix, writes, opens>>

\* wf->Append(ret.data): the bytes the server migrated.
WriteCopy(c) ==
    /\ pc[c].step = "copy"
    /\ disk' = WritableAppend(disk, fd[c].wf, pc[c].data)
    /\ fd' = [fd EXCEPT ![c].wf = @ + Len(pc[c].data)]
    /\ pc' = [pc EXCEPT ![c].step = "append"]
    /\ UNCHANGED <<row, posix, writes, opens>>

\* wf->Append(buf) after the migration: the call ends.
WriteAppend(c) ==
    /\ pc[c].step = "append"
    /\ disk' = WritableAppend(disk, fd[c].wf, pc[c].buf)
    /\ fd' = [fd EXCEPT ![c].wf = @ + Len(pc[c].buf)]
    /\ Complete(pc[c].off, pc[c].buf)
    /\ pc' = [pc EXCEPT ![c] = Idle]
    /\ UNCHANGED <<row, writes, opens>>

\* Write with a wf: wf->Append(buf), whatever offset the call was given.
WriteDirect(c) ==
    /\ fd[c] # None /\ fd[c].wf # None /\ pc[c] = Idle
    /\ writes < MaxWrites
    /\ writes' = writes + 1
    /\ \E off \in 0 .. MaxOffset, buf \in Buffer :
          /\ disk' = WritableAppend(disk, fd[c].wf, buf)
          /\ fd' = [fd EXCEPT ![c].wf = @ + Len(buf)]
          /\ Complete(off, buf)
    /\ UNCHANGED <<row, pc, opens>>

\* Read with no rf: the Read RPC.  An embedded file's bytes come back in
\* the reply and the call ends; a link's path sends the client on to
\* NewRandomAccessFile.
ReadCall(c) ==
    /\ fd[c] # None /\ ~fd[c].rf /\ pc[c] = Idle
    /\ pc' = IF ServerRead THEN pc ELSE [pc EXCEPT ![c] = [step |-> "ropen"]]
    /\ UNCHANGED <<row, disk, fd, posix, writes, opens>>

\* NewRandomAccessFile(ret.data) into rf, its status ignored, then
\* rf->Read.  When open fails rf is NULL and the client dereferences it:
\* the process dies with its descriptors and never calls CloseFile.
ReadOpen(c) ==
    /\ pc[c].step = "ropen"
    /\ IF disk = NoFile
       THEN pc' = [pc EXCEPT ![c] = [step |-> "crashed"]] /\ fd' = [fd EXCEPT ![c] = None]
       ELSE pc' = [pc EXCEPT ![c] = Idle] /\ fd' = [fd EXCEPT ![c].rf = TRUE]
    /\ UNCHANGED <<row, disk, posix, writes, opens>>

\* Close: wf->Close(), the CloseFile RPC, fd_[fd] = 0.
Close(c) ==
    /\ fd[c] # None /\ pc[c] = Idle
    /\ row' = CloseFileRow
    /\ fd' = [fd EXCEPT ![c] = None]
    /\ UNCHANGED <<disk, pc, posix, writes, opens>>

Next ==
    \E c \in Client :
        \/ Open(c)
        \/ WriteCall(c)
        \/ WriteCreate(c)
        \/ WriteCopy(c)
        \/ WriteAppend(c)
        \/ WriteDirect(c)
        \/ ReadCall(c)
        \/ ReadOpen(c)
        \/ Close(c)

Spec == Init /\ [][Next]_vars

-----------------------------------------------------------------------------
(* Properties.                                                              *)

Quiet == \A c \in Client : pc[c].step \in {"idle", "crashed"}

TypeOK ==
    /\ row \in [inFS : BOOLEAN, data : Seq(Byte), size : Nat]
    /\ ~row.inFS => Len(row.data) = row.size
    /\ disk \in Seq(Byte) \cup {NoFile}
    /\ fd \in [Client -> {None} \cup [wf : Nat \cup {None}, rf : BOOLEAN]]
    /\ \A c \in Client : pc[c].step \in {"idle", "create", "copy", "append", "ropen", "crashed"}
    /\ posix \in Seq(Byte)
    /\ writes \in 0 .. MaxWrites /\ opens \in 0 .. MaxOpens

\* Once every descriptor is closed, the row's st_size is the file's length:
\* CloseFile must read the backing file's size after the last append of
\* any client, and a migration must not leave the embedded size behind.
SizeRecordedAtClose ==
    (Quiet /\ \A c \in Client : fd[c] = None) => row.size = Len(Content)

\* Spec: Write transparently migrates an embedded file to its backing
\* file.  When no call is in flight the file holds what the completed
\* writes, each a pwrite at its offset, leave; the migration copies the
\* embedded bytes and appends the buffer after them, and a wf appends at
\* its own file_offset_.  (The bookkeeping is exact when calls do not
\* overlap, as with one client.)
FileMatchesWrites == Quiet => Content = posix
=============================================================================
