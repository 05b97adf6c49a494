----------------------------- MODULE MCWatchers -----------------------------
(***************************************************************************)
(* Instances of Watchers for TLC.                                          *)
(***************************************************************************)
EXTENDS Watchers

CONSTANTS ctl, w1, w2, w3
=============================================================================
