----------------------------- MODULE GigaIndex -----------------------------
(***************************************************************************)
(* The GIGA+ partition mapping of src/common/giga_index.c, as pure         *)
(* operators.                                                              *)
(*                                                                         *)
(* The C bitmap (an array of 7-bit words) is the set of the partition      *)
(* indices whose bit is set; a giga_mapping_t is a record with that set,   *)
(* the stored curr_radix, the zeroth server and the server count.  The    *)
(* name hash enters only through its first byte: every radix the code     *)
(* uses is below MAX_RADIX = 8, so compute_index reads no other byte.     *)
(***************************************************************************)
EXTENDS Naturals, FiniteSets, TLC

\* MAX_RADIX and MAX_BKTS_PER_SERVER of giga_index.h; SPLIT_TYPE is
\* SPLIT_T_NUM_SERVERS_BOUND there, the only policy modelled.
MaxRadix == 8
MaxBktsPerServer == 1

\* floor(log2(i)) for i >= 1, as the C computes it through <math.h>.
RECURSIVE Log2Floor(_)
Log2Floor(i) == IF i < 2 THEN 0 ELSE 1 + Log2Floor(i \div 2)

\* get_radix_from_index: the number of bits needed to write index i.
RadixFromIndex(i) == IF i = 0 THEN 0 ELSE Log2Floor(i) + 1

\* get_highest_index: the highest set index; the bitmap is never empty
\* (bit 0 is set when a mapping is created and no bit is ever cleared).
HighestIndex(bm) == CHOOSE i \in bm : \A j \in bm : j <= i

\* get_radix_from_bmap
RadixFromBitmap(bm) == RadixFromIndex(HighestIndex(bm))

-----------------------------------------------------------------------------
(* The bitmap as the C stores it: MAX_BMAP_LEN bytes of BITS_PER_MAP bits.  *)
(* The records above hold the set of set indices; these operators are the  *)
(* byte-level code, which MC_GigaDirectory checks against the sets.        *)

\* BITS_PER_MAP: sizeof(bitmap_t) * 8 - 1, seven bits of each byte.
BitsPerMap == 7

\* MAX_BMAP_LEN for 1 << MAX_RADIX indices.
MaxBmapLen == IF (2^MaxRadix) % BitsPerMap = 0 THEN 2^MaxRadix \div BitsPerMap
              ELSE 2^MaxRadix \div BitsPerMap + 1

Word == 0 .. MaxBmapLen - 1

\* Bit j of byte v.
ByteBit(v, j) == (v \div 2^j) % 2

\* get_bit_status: bit index % BITS_PER_MAP of byte index / BITS_PER_MAP.
BitStatus(w, i) == ByteBit(w[i \div BitsPerMap], i % BitsPerMap)

\* giga_update_mapping's store: bit_info | mask into the same byte.
SetBit(w, i) ==
    [w EXCEPT ![i \div BitsPerMap] =
        IF BitStatus(w, i) = 1 THEN @ ELSE @ + 2^(i % BitsPerMap)]

\* Mutant: the position computed with eight bits per byte.
HighestIndexBytesOf8(w) ==
    LET k == CHOOSE k \in Word : w[k] # 0 /\ \A l \in Word : l > k => w[l] = 0
        j == CHOOSE j \in 0 .. BitsPerMap - 1 :
                 ByteBit(w[k], j) = 1 /\ \A l \in j + 1 .. BitsPerMap - 1 : ByteBit(w[k], l) = 0
    IN  k * 8 + j

\* get_highest_index: the last non-zero byte, then the highest of its bits
\* BITS_PER_MAP - 1 .. 0 that is set (bit 7 is never looked at; no code
\* sets it).
HighestIndexBytes(w) ==
    LET k == CHOOSE k \in Word : w[k] # 0 /\ \A l \in Word : l > k => w[l] = 0
        j == CHOOSE j \in 0 .. BitsPerMap - 1 :
                 ByteBit(w[k], j) = 1 /\ \A l \in j + 1 .. BitsPerMap - 1 : ByteBit(w[k], l) = 0
    IN  k * BitsPerMap + j

\* Mutant: the parent taken as a right shift of the index.
ParentIndexShift(i) == i \div 2

\* get_parent_index: clear the highest bit of a non-zero index.
ParentIndex(i) == IF i > 0 THEN i - 2^Log2Floor(i) ELSE 0

\* get_child_index
ChildIndex(i, r) == i + 2^r

\* reverse_byte: the multiply-and-mask trick reverses the 8 bits of b.
RECURSIVE RevBits(_, _)
RevBits(b, n) == IF n = 0 THEN 0
                 ELSE (b % 2) * 2^(n - 1) + RevBits(b \div 2, n - 1)
ReverseByte(b) == RevBits(b, 8)

\* compute_index for radix < MAX_RADIX: no whole byte is used, and the
\* residual bits are the low "radix" bits of the reversed first byte.
ComputeIndex(h, radix) ==
    IF Assert(radix < MaxRadix, "compute_index: radix >= MAX_RADIX")
    THEN ReverseByte(h) % 2^radix ELSE 0

\* giga_init_mapping with flag 0 under SPLIT_T_NUM_SERVERS_BOUND.
InitMapping(zeroth, count) ==
    [bitmap |-> {0}, radix |-> 1, zeroth |-> zeroth,
     count |-> IF count > 0 THEN count ELSE 1]

\* The loop of giga_get_index_for_file: climb to the closest set ancestor.
RECURSIVE SetAncestor(_, _)
SetAncestor(bm, i) == IF i \in bm THEN i ELSE SetAncestor(bm, ParentIndex(i))

\* giga_get_index_for_file: the radix is recomputed from the bitmap, not
\* read from the stored curr_radix.
IndexForFile(m, h) ==
    LET r == RadixFromBitmap(m.bitmap)
    IN  SetAncestor(m.bitmap, ComputeIndex(h, r))

\* giga_get_server_for_index
ServerForIndex(m, i) == (i + m.zeroth) % m.count

\* The loop of giga_index_for_splitting: the first child i + 2^r, from
\* r = radix(i) upward, whose bit is clear (asserting r < MAX_RADIX).
RECURSIVE FreeChild(_, _, _)
FreeChild(bm, i, r) ==
    IF Assert(r < MaxRadix, "giga_index_for_splitting: r >= MAX_RADIX")
       /\ ChildIndex(i, r) \notin bm
    THEN ChildIndex(i, r)
    ELSE FreeChild(bm, i, r + 1)

\* giga_index_for_splitting
IndexForSplitting(m, i) == FreeChild(m.bitmap, i, RadixFromIndex(i))

\* Mutant: the bound compared with <=.
IsSplittableOffByOne(m, i) ==
    IndexForSplitting(m, i) <= MaxBktsPerServer * m.count

\* giga_is_splittable under SPLIT_T_NUM_SERVERS_BOUND.
IsSplittable(m, i) == IndexForSplitting(m, i) < MaxBktsPerServer * m.count

\* Mutant: the hash compared on one bit more than the child's radix.
MigrationStatusExtraBit(h, child) ==
    ComputeIndex(h, RadixFromIndex(child) + 1) = child

\* giga_file_migration_status_with_hash: does a hash move to the new child?
MigrationStatus(h, child) ==
    ComputeIndex(h, RadixFromIndex(child)) = child

\* giga_update_mapping: set the child's bit and recompute the radix.
UpdateMapping(m, child) ==
    LET bm == m.bitmap \cup {child}
    IN  [m EXCEPT !.bitmap = bm, !.radix = RadixFromBitmap(bm)]

\* Mutant: the cached copy is left as it was.
UpdateCacheKeep(curr, upd) == curr

\* giga_update_cache: OR the bitmaps, recompute the radix, keep the larger
\* server count.
UpdateCache(curr, upd) ==
    LET bm == curr.bitmap \cup upd.bitmap
    IN  [curr EXCEPT !.bitmap = bm, !.radix = RadixFromBitmap(bm),
                     !.count = IF upd.count > curr.count THEN upd.count
                               ELSE curr.count]
=============================================================================
