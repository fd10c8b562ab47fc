-------------------------- MODULE MCManagedRuntime --------------------------
(* One runtime with a few versions and sources, for TLC. *)
EXTENDS ManagedRuntime, TLC

=============================================================================
