------------------------------ MODULE MCTimer ------------------------------
(* Values of the constants of Timer for TLC.                                *)
EXTENDS Timer

\* A cfg cannot write a negative number: clients ask for one shot, or for -1.
OneOrForever == {-1, 1}
=============================================================================
