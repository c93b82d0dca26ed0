--------------------------- MODULE MCPackInstall ----------------------------
(***************************************************************************)
(* The queue and the installation that runs on it, for TLC: ids are        *)
(* numbers, because claims follow their order, and the rest model values.  *)
(***************************************************************************)
EXTENDS PackInstall
=============================================================================
