---------------------------- MODULE MC_Namespace ----------------------------
(* Two names, two handler threads, paths of up to two components.         *)
EXTENDS Namespace

CONSTANTS a, b, t1, t2

MCName == {a, b}
MCThread == {t1, t2}
=============================================================================
