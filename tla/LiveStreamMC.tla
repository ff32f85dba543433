---------------------------- MODULE LiveStreamMC ----------------------------
(***************************************************************************)
(* Small instances of LiveStream for TLC: connections are numbered.        *)
(***************************************************************************)
EXTENDS LiveStream

CONSTANTS p1, Dials
Conns   == 1..Dials
Indices == 0..MaxPitches
=============================================================================
