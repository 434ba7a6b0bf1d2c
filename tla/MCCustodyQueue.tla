--------------------------- MODULE MCCustodyQueue ---------------------------
(***************************************************************************)
(* A queue of three bytes and packets of one, two and four: two fit, one   *)
(* may push out several, and the largest never fits.                       *)
(***************************************************************************)
EXTENDS CustodyQueue

MCSizes == {1, 2, 4}
=============================================================================
