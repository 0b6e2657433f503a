---------------------------- MODULE MCConfigSync ----------------------------
(***************************************************************************)
(* Bounds for ConfigSync: two contents whose guards build and one whose    *)
(* guards do not, so that edits can be undone and can break the config.    *)
(***************************************************************************)
EXTENDS ConfigSync

CONSTANTS good1, good2, broken

MCContent == {good1, good2, broken}
MCBuildable == {good1, good2}
=============================================================================
