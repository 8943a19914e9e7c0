---------------------------- MODULE MCPalworldSettings ----------------------------
(* Instance of PalworldSettings for TLC: one key of each sort.               *)
EXTENDS PalworldSettings, TLC

Symmetric == Permutations(Browsers)
=============================================================================
