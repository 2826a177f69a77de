--------------------------- MODULE MCSnppSession ---------------------------
(* An instance of SnppSession for TLC: up to four pagers, a short and a long *)
(* text, so that the pager array grows and a message can be cut in two.      *)
EXTENDS SnppSession, TLC

CONSTANTS short, long

TextParts == (short :> 1) @@ (long :> 2)

\* State constraint: with three pagers and more, one failed SEND is enough.
FewFailures == failures <= 1 \/ Len(pagers) <= 2
=============================================================================
