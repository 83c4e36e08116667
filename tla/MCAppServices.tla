---------------------------- MODULE MCAppServices ---------------------------
(* The services of a site for TLC. *)
EXTENDS AppServices

MCIds == SiteIds
=============================================================================
