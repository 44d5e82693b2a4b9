----------------------- MODULE MCBackgroundQueueStats -----------------------
(* Small instances of BackgroundQueueStats for TLC.                        *)
EXTENDS BackgroundQueueStats

CONSTANTS workers, mistyped, c1

\* Several entries of one millisecond, and one of a later one.
MCStreamIds == {<<1, 0>>, <<1, 1>>, <<1, 2>>, <<2, 0>>}

MCFewStreamIds == {<<1, 0>>, <<1, 1>>, <<2, 0>>}

\* No version, and both sides of 7.0.
MCVersions == {<<>>, <<6, 2>>, <<7, 0>>}

MCEitherRange == {<<6, 0>>, <<7, 0>>}
=============================================================================
