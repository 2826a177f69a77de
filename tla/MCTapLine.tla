----------------------------- MODULE MCTapLine -----------------------------
(* An instance of TapLine for TLC: two pages and one too long to be sent.    *)
EXTENDS TapLine, TLC

CONSTANTS m1, m2, long
=============================================================================
