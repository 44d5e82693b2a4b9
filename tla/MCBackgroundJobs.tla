-------------------------- MODULE MCBackgroundJobs --------------------------
(* Small instances of BackgroundJobs for TLC.                              *)
EXTENDS BackgroundJobs

CONSTANTS r1, r2, w1, w2
=============================================================================
