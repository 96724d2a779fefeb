--------------------------- MODULE MCMixerRouting ---------------------------
(* A mixer of two channels and a few buffers, without names.                     *)
EXTENDS MixerRouting, TLC

CONSTANTS c1, c2
=============================================================================
