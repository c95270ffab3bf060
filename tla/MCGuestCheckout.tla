--------------------------- MODULE MCGuestCheckout ---------------------------
(***************************************************************************)
(* Small instances of GuestCheckout for TLC.                               *)
(***************************************************************************)
EXTENDS GuestCheckout, TLC

CONSTANTS t1, t2, l1, l2

\* Tabs are interchangeable, and so are products: no definition names one.
TabAndLineSymmetry == Permutations(Tabs) \cup Permutations(Lines)
=============================================================================
