-------------------------- MODULE MC_GigaDirectory --------------------------
(***************************************************************************)
(* Model-checks the GIGA+ operators of GigaIndex through the abstract      *)
(* directory GigaDirectory: every bitmap that splits can reach, with names *)
(* whose hash bytes cover every partition of radix 3.                      *)
(***************************************************************************)
EXTENDS GigaDirectory

CONSTANTS n1, n2, n3, n4, n5

MCName == {n1, n2, n3, n4, n5}

\* First hash bytes whose reversed low three bits are 0, 1, 2, 3 and 5:
\* every name starts in partition 0 and splits move them apart.
MCHash == (n1 :> 0 @@ n2 :> 128 @@ n3 :> 64 @@ n4 :> 192 @@ n5 :> 160)

TypeOK ==
    /\ bitmap \subseteq 0 .. NumServers - 1
    /\ 0 \in bitmap
    /\ part \in [Name -> bitmap \cup {Absent}]

\* Reference for giga_get_index_for_file: a hash belongs to the deepest set
\* partition whose index equals the hash's low bits at that partition's
\* own radix (longest-prefix match in the GIGA+ split tree).
RefIndexForFile(bm, h) ==
    LET fits == {p \in bm : ComputeIndex(h, RadixFromIndex(p)) = p}
    IN  CHOOSE p \in fits : \A q \in fits : q <= p

\* giga_get_index_for_file (compute_index at the bitmap's radix, then the
\* walk up get_parent_index) selects, for every one of the 256 possible
\* first hash bytes, the partition the reference selects.
IndexForFileIsLongestMatch ==
    \A h \in 0 .. 255 : IndexForFile(DirMapping, h) = RefIndexForFile(bitmap, h)

\* The bytes giga_init_mapping and giga_update_mapping leave for a set of
\* partitions: bit 0, then each other partition's bit set in turn.
FSE == INSTANCE FiniteSetsExt
Bytes(bm) == FSE!FoldSet(LAMBDA i, w : SetBit(w, i), [k \in Word |-> 0], bm)

\* The byte layout of the C bitmap is the set the model keeps: for every
\* bitmap the splits reach, get_bit_status reads back exactly the bits
\* giga_update_mapping set, and get_highest_index finds the highest of
\* them, across the byte boundary at index 7 that BITS_PER_MAP's "- 1"
\* puts there.
BitmapBytesAgree ==
    LET w == Bytes(bitmap)
    IN  /\ \A i \in 0 .. NumServers - 1 : BitStatus(w, i) = 1 <=> i \in bitmap
        /\ HighestIndexBytes(w) = HighestIndex(bitmap)

\* Every entry stays where giga_get_index_for_file looks for it, across any
\* sequence of creates, removes and splits: Split moves exactly the entries
\* giga_file_migration_status_with_hash selects, to the child
\* giga_index_for_splitting chose.
EntriesAddressable ==
    \A n \in Name :
        part[n] # Absent => part[n] = IndexForFile(DirMapping, Hash[n])
=============================================================================
