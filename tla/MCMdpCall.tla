----------------------------- MODULE MCMdpCall -----------------------------
(* Instances of MdpCall for TLC. *)
EXTENDS MdpCall

CONSTANTS s1, s2

=============================================================================
