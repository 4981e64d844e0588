----------------------------- MODULE MC_Readdir -----------------------------
(***************************************************************************)
(* Instantiates Readdir over the MC_IndexFS directory: one IndexFS client *)
(* and the reader.  A reply holds one entry, so a partition of two names  *)
(* takes two pages; an uninitialised end_key is below every name (0) or   *)
(* between the hashes of nb and nd (160).                                  *)
(***************************************************************************)
EXTENDS Readdir

CONSTANTS c1, nb, nc, nd

MCServer == 0 .. 2
MCClient == {c1}
MCName == {nb, nc, nd}
MCHash == (nb :> 128 @@ nc :> 64 @@ nd :> 192)
MCGarbage == {0, 160}
MCHint == (nb :> 0 @@ nc :> 1 @@ nd :> 2)
=============================================================================
