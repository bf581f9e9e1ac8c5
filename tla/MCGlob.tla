------------------------------- MODULE MCGlob -------------------------------
(* Glob for TLC: all masks and texts of a few characters.                  *)
EXTENDS Glob
=============================================================================
