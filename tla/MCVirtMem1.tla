----------------------------- MODULE MCVirtMem1 -----------------------------
(***************************************************************************)
(* Instances of VirtMem1 for TLC: more pages than an unsigned char counts, *)
(* and a TLB that is full after two insertions.                            *)
(***************************************************************************)
EXTENDS VirtMem1

SmallPages == 0 .. UCHAR - 1   \* like addresses.txt, whose pages are below 64
LargePages == {0, 1, UCHAR}    \* UCHAR is the first page that becomes another
=============================================================================
