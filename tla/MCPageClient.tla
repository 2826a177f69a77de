---------------------------- MODULE MCPageClient ----------------------------
(* An instance of PageClient for TLC: one pager, a message of two parts.     *)
EXTENDS PageClient, TLC

CONSTANTS long

TextParts == (long :> 2)
=============================================================================
