------------------------------ MODULE MCMovies ------------------------------
(***************************************************************************)
(* An instance of Movies for TLC.  Every movie is alike and so is every    *)
(* request, but the run checks liveness, which symmetry is not sound for.  *)
(***************************************************************************)
EXTENDS Movies
=============================================================================
