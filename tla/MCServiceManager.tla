-------------------------- MODULE MCServiceManager -------------------------
(* Instances of ServiceManager for TLC: the programs are its initial states. *)
EXTENDS ServiceManager
=============================================================================
