----------------------------- MODULE MC_IndexFS -----------------------------
(***************************************************************************)
(* Instantiates IndexFS for TLC: three servers (so partitions 0, 1 and 2  *)
(* and two levels of splits), a zeroth server other than 0 (so the        *)
(* modular server arithmetic is exercised), and names whose hash bytes    *)
(* send one to partition 1 at the first split, one to partition 2 at the  *)
(* second, and one to the partition 3 that is never created (so it stays  *)
(* in 1, through the parent walk of giga_get_index_for_file).             *)
(***************************************************************************)
EXTENDS IndexFS

CONSTANTS c1, c2, nb, nc, nd

MCServer == 0 .. 2
MCClient == {c1, c2}
MCOneClient == {c1}
MCName == {nb, nc, nd}

\* Reversed low bits: nb 01, nc 10, nd 11.
MCHash == (nb :> 128 @@ nc :> 64 @@ nd :> 192)

\* GetStrHash(path) % 3 of each name's path: each names a different server.
MCHint == (nb :> 0 @@ nc :> 1 @@ nd :> 2)

MCSymmetry == Permutations(MCClient)
=============================================================================
