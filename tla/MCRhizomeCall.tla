---------------------------- MODULE MCRhizomeCall ----------------------------
(* Instances of RhizomeCall for TLC. *)
EXTENDS RhizomeCall

CONSTANTS s1, s2

=============================================================================
