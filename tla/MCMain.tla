------------------------------- MODULE MCMain -------------------------------
(* Main, instantiated for TLC by the configurations MCMain*.cfg.           *)
EXTENDS Main

MCCpus == 0 .. 3
=============================================================================
