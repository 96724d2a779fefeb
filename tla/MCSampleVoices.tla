---------------------------- MODULE MCSampleVoices ----------------------------
(* A sample of three frames, one voice of the song and the one of the      *)
(* keyboard, half-frame units and a note that steps a frame and a half.    *)
EXTENDS SampleVoices

CONSTANTS p, k, nobody

Parts == {<<0, 2>>}
===============================================================================
