---------------------------- MODULE MCStockSale -----------------------------
(***************************************************************************)
(* Instances of StockSale for TLC: three sellers of two.                   *)
(***************************************************************************)
EXTENDS StockSale

CONSTANTS s1, s2, s3

ThreeSellers == {s1, s2, s3}
Both         == {"__APPLE__", "Linux"}
LinuxOnly    == {"Linux"}
=============================================================================
