----------------------------- MODULE MCVirtMem2 -----------------------------
(***************************************************************************)
(* Instances of VirtMem2 for TLC: more pages than frames.                  *)
(***************************************************************************)
EXTENDS VirtMem2

AllPages == Pages
=============================================================================
