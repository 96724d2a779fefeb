-------------------------- MODULE MCMultireaderLock --------------------------
(* MultireaderLock on a few threads.                                       *)
EXTENDS MultireaderLock, TLC

CONSTANTS t1, t2, t3

MCThreads == {t1, t2, t3}
=============================================================================
