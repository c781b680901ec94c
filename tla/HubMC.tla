------------------------------- MODULE HubMC -------------------------------
(***************************************************************************)
(* Small instances of the hub for TLC; see the configurations Hub*.cfg.  *)
(***************************************************************************)
EXTENDS HubQueries, TLC

\* Users are interchangeable.
Symmetry == Permutations(Users)
=============================================================================
