-------------------------------- MODULE MCRun --------------------------------
(***************************************************************************)
(* Run and its properties, instantiated for TLC by the configurations      *)
(* MCRun*.cfg.  Time and the machine's numbers are scaled down; `IntMax'   *)
(* and `LongHalf' leave room for every value the calibration reaches.      *)
(***************************************************************************)
EXTENDS RunInvariant
=============================================================================
