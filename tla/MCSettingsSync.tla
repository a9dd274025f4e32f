--------------------------- MODULE MCSettingsSync ---------------------------
(***************************************************************************)
(* SettingsSync for TLC, with the windows interchangeable.  They differ in *)
(* nothing but their ORIGIN_ID, and the two properties checked with this   *)
(* module say the same of each: an invariant and an action property, no    *)
(* liveness.                                                               *)
(***************************************************************************)
EXTENDS SettingsSync, TLC

WindowSymmetry == Permutations(Windows)
=============================================================================
