---------------------------- MODULE MCBoostTimer ----------------------------
(* Values of the constants of BoostTimer for TLC.                           *)
EXTENDS BoostTimer

\* A cfg cannot write a negative number: clients ask for two shots, or for -1.
TwiceOrForever == {-1, 2}
=============================================================================
