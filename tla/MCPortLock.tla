----------------------------- MODULE MCPortLock -----------------------------
(* Instances of PortLock for TLC: two terminals, on one port or on two.      *)
EXTENDS PortLock, TLC

CONSTANTS p1, p2

OnePort == <<p1, p1>>
TwoPorts == <<p1, p2>>
=============================================================================
