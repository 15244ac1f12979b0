--------------------------- MODULE MCBuildAndOpen ---------------------------
(* The instances of MCImageWriter, opened again once they are written.      *)
EXTENDS MCImageWriter, BuildAndOpen
=============================================================================
