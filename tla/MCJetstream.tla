---------------------------- MODULE MCJetstream ----------------------------
(* Model values for the runs of Jetstream. *)
EXTENDS Jetstream

CONSTANTS alice, bob, setup, init
=============================================================================
