------------------------- MODULE MCPublicUserLoader -------------------------
(***************************************************************************)
(* PublicUserLoader for TLC; loader_answered.cfg gives the constants.      *)
(***************************************************************************)
EXTENDS PublicUserLoader
=============================================================================
