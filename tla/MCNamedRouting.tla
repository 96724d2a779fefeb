--------------------------- MODULE MCNamedRouting ---------------------------
(* A mixer of a channel and a few buffers, and no frames.                     *)
EXTENDS NamedRouting, TLC

CONSTANTS c1, b1, b2, b3
=============================================================================
