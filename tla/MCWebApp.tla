------------------------------ MODULE MCWebApp ------------------------------
(* Instances of WebApp for TLC: the configurations are its initial states. *)
EXTENDS WebApp
=============================================================================
