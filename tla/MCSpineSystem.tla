---------------------------- MODULE MCSpineSystem ----------------------------
(***************************************************************************)
(* Instances of SpineSystem for TLC.  The bounds are in the .cfg files.    *)
(***************************************************************************)
EXTENDS SpineSystem
=============================================================================
