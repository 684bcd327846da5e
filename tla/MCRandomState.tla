---------------------------- MODULE MCRandomState ----------------------------
(***************************************************************************)
(* RandomState, instantiated for TLC by MCRandomState.cfg.                 *)
(***************************************************************************)
EXTENDS RandomState
=============================================================================
