--------------------------- MODULE MCProductOnSale ---------------------------
(***************************************************************************)
(* Small instances of ProductOnSale for TLC.                               *)
(***************************************************************************)
EXTENDS ProductOnSale, TLC

CONSTANTS r1, r2, p1, p2

\* Requests are interchangeable: no definition names one.
RequestSymmetry == Permutations(Requests)
=============================================================================
