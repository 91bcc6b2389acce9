-------------------------- MODULE MCCommandEvents --------------------------
(***************************************************************************)
(* Instances of CommandEventUploader for TLC.                              *)
(***************************************************************************)
EXTENDS CommandEventUploader
=============================================================================
