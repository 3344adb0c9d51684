-------------------------- MODULE MCSourceRetention --------------------------
(***************************************************************************)
(* Small instances of SourceRetention for TLC.                             *)
(***************************************************************************)
EXTENDS SourceRetention
=============================================================================
