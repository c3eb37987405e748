----------------------------- MODULE AtomicSale -----------------------------
(***************************************************************************)
(* What hw2/p2.c is meant to do: as long as there is stock, a seller moves *)
(* one from the stock to the sold in one indivisible step.                 *)
(***************************************************************************)
EXTENDS Naturals

CONSTANT Stock    \* the stock at the start

VARIABLES stock, sold

vars == <<stock, sold>>

Init == stock = Stock /\ sold = 0

Sell ==
  /\ stock > 0
  /\ stock' = stock - 1
  /\ sold' = sold + 1

Spec == Init /\ [][Sell]_vars
=============================================================================
