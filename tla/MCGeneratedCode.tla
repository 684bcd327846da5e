--------------------------- MODULE MCGeneratedCode ---------------------------
(* GeneratedCode, instantiated for TLC by MCGeneratedCode*.cfg.            *)
EXTENDS GeneratedCode

\* Fewer variables than registers, as many, one more, and up to where the
\* slots no longer fit below the stack pointer (from 21 chains on).
MCChainCounts == {1, 2, 8, 9, 12, 13, 14, 15, 16, 17, 20, 21, 22}
=============================================================================
