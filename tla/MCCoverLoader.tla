---------------------------- MODULE MCCoverLoader ----------------------------
(* A small instance of CoverLoader for TLC. *)
EXTENDS CoverLoader

\* One of the files never decodes.
SharpOnly == {"sharp"} \X (1..MaxVersion)
=============================================================================
